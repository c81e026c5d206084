---- MODULE PanelConnProofs ----
(***************************************************************************)
(* For any pollers, setters, inputs and values: answers go to who asked,   *)
(* and polling over the connection is polling the panel.                   *)
(***************************************************************************)
EXTENDS PanelConn, TLAPS

-----------------------------------------------------------------------------
\* The holder of the mutex is the one between Lock and the end of its call.
MutexInv ==
    \A g \in Goroutines : pc[g] \in {"locked", "asked"} => mutex = g

\* A question is the last request on its way, and nothing is on the way back; an
\* answer is the only one, and there is no request.
QuestionInv ==
    /\ \A k \in 1 .. Len(up) :
          up[k] # Command =>
              /\ k = Len(up) /\ down = <<>>
              /\ mutex \in Pollers /\ pc[mutex] = "asked"
              /\ up[k] = Input(mutex)
    /\ down # <<>> =>
          /\ Len(down) = 1 /\ up = <<>>
          /\ mutex \in Pollers /\ pc[mutex] = "asked"
          /\ down[1].input = Input(mutex)

SettersDoNotAsk == \A g \in Setters : pc[g] \in {"call", "locked"}

ConnInv == TypeOK /\ MutexInv /\ QuestionInv /\ SettersDoNotAsk

LEMMA InputType ==
    ASSUME TypeOK, NEW p \in Pollers
    PROVE  Input(p) \in Inputs
BY PanelAssumption DEF TypeOK, Input

LEMMA NextAtType ==
    ASSUME TypeOK, NEW p \in Pollers
    PROVE  P!NextAt(p, at[p]) \in DOMAIN Visits[p] /\ P!NextAt(p, at[p]) \in Nat
<1>1. Visits[p] \in Seq(Inputs) /\ Visits[p] # <<>> /\ at[p] \in 1 .. Len(Visits[p])
  BY PanelAssumption DEF TypeOK
<1>2. QED
  BY <1>1 DEF P!NextAt

LEMMA GoOnTypes ==
    ASSUME TypeOK, NEW p \in Pollers, NEW v \in Values, GoOn(p, v)
    PROVE  /\ prev' \in [Inputs -> Values]
           /\ at' \in [Pollers -> Nat] /\ \A q \in Pollers : at'[q] \in DOMAIN Visits[q]
           /\ pc' = [pc EXCEPT ![p] = "call"]
           /\ pc' \in [Goroutines -> {"call", "locked", "asked", "report"}]
<1>1. at' \in [Pollers -> Nat] /\ \A q \in Pollers : at'[q] \in DOMAIN Visits[q]
  BY NextAtType DEF GoOn, TypeOK
<1>2. QED
  BY <1>1, InputType DEF GoOn, TypeOK, Goroutines

\* The first answer is the only one, a value.
LEMMA AnswerIs ==
    ASSUME ConnInv, NEW p \in Pollers, HasAnswer(p)
    PROVE  /\ mutex = p /\ down = <<Head(down)>> /\ up = <<>> /\ Tail(down) = <<>>
           /\ Head(down).input = Input(p) /\ Head(down).value \in Values
<1>1. mutex = p /\ Len(down) = 1 /\ up = <<>> /\ down[1].input = Input(p)
  BY DEF HasAnswer, ConnInv, MutexInv, QuestionInv, Goroutines
<1>2. down \in Seq(Answer) /\ down # <<>>
  BY DEF ConnInv, TypeOK, HasAnswer
<1>3. Head(down) = down[1] /\ down[1] \in Answer /\ Tail(down) = <<>>
  <2>1. Head(down) = down[1] /\ down[1] \in Answer
    BY <1>1, <1>2
  <2>2. Tail(down) \in Seq(Answer) /\ Len(Tail(down)) = 0
    BY <1>1, <1>2
  <2>3. \A s \in Seq(Answer) : Len(s) = 0 => s = <<>>
    OBVIOUS
  <2>4. QED
    BY <2>1, <2>2, <2>3
<1>4. down = <<down[1]>>
  BY <1>1, <1>2
<1>5. QED
  BY <1>1, <1>2, <1>3, <1>4 DEF Answer

-----------------------------------------------------------------------------
LEMMA ConnInit == Init => ConnInv
BY PanelAssumption
DEF Init, ConnInv, TypeOK, MutexInv, QuestionInv, SettersDoNotAsk, Goroutines

LEMMA LockKeeps ==
    ASSUME ConnInv, NEW g \in Goroutines, Lock(g)
    PROVE  ConnInv'
<1> USE DEF ConnInv, Lock
<1>1. TypeOK'
  BY DEF TypeOK
<1>2. MutexInv'
  BY GoroutinesAssumption DEF MutexInv, TypeOK, Goroutines
<1>3. QuestionInv'
  <2>1. up' = up /\ down' = down /\ down = <<>> /\ \A k \in 1 .. Len(up) : up[k] = Command
    BY GoroutinesAssumption DEF QuestionInv
  <2>2. QED
    BY <2>1 DEF QuestionInv
<1>4. SettersDoNotAsk'
  BY DEF SettersDoNotAsk, TypeOK
<1>5. QED
  BY <1>1, <1>2, <1>3, <1>4

LEMMA SetKeeps ==
    ASSUME ConnInv, NEW g \in Setters, Set(g)
    PROVE  ConnInv'
<1> USE DEF ConnInv, Set
<1>1. g \in Goroutines /\ g \notin Pollers /\ mutex = g
  BY GoroutinesAssumption DEF Goroutines, MutexInv
<1>2. TypeOK'
  BY <1>1 DEF TypeOK
<1>3. MutexInv'
  BY <1>1 DEF MutexInv, TypeOK
<1>4. QuestionInv'
  <2>1. down' = <<>> /\ \A k \in 1 .. Len(up) : up[k] = Command
    BY <1>1 DEF QuestionInv
  <2>2. up \in Seq(Inputs \union {Command}) /\ up' = Append(up, Command)
    BY DEF TypeOK
  <2>3. \A k \in 1 .. Len(up') : up'[k] = Command
    BY <2>1, <2>2
  <2>4. QED
    BY <2>1, <2>3 DEF QuestionInv
<1>5. SettersDoNotAsk'
  BY <1>1 DEF SettersDoNotAsk, TypeOK
<1>6. QED
  BY <1>2, <1>3, <1>4, <1>5

LEMMA AskKeeps ==
    ASSUME ConnInv, NEW p \in Pollers, Ask(p)
    PROVE  ConnInv'
<1> USE DEF ConnInv, Ask
<1>1. p \in Goroutines /\ mutex = p /\ Input(p) \in Inputs
  BY InputType DEF Goroutines, MutexInv
<1>2. TypeOK'
  BY <1>1 DEF TypeOK
<1>3. MutexInv'
  BY <1>1 DEF MutexInv, TypeOK
<1>4. QuestionInv'
  <2>1. down' = <<>> /\ \A k \in 1 .. Len(up) : up[k] = Command
    BY <1>1 DEF QuestionInv
  <2>2. up \in Seq(Inputs \union {Command}) /\ up' = Append(up, Input(p))
    BY DEF TypeOK
  <2>3. \A k \in 1 .. Len(up') : up'[k] # Command => k = Len(up') /\ up'[k] = Input(p)
    BY <1>1, <2>1, <2>2
  <2>4. mutex' = p /\ pc'[p] = "asked" /\ Input(p)' = Input(p)
    BY <1>1 DEF TypeOK, Input
  <2>5. QED
    BY <2>1, <2>3, <2>4 DEF QuestionInv, Input
<1>5. SettersDoNotAsk'
  BY GoroutinesAssumption DEF SettersDoNotAsk, TypeOK
<1>6. QED
  BY <1>2, <1>3, <1>4, <1>5

LEMMA ReadKeeps ==
    ASSUME ConnInv, NEW p \in Pollers, Read(p)
    PROVE  ConnInv'
<1> USE DEF ConnInv
<1>1. /\ HasAnswer(p) /\ mutex = p /\ up = <<>> /\ Tail(down) = <<>>
      /\ Head(down).value \in Values
  BY AnswerIs DEF Read
<1>2. \/ pc' = [pc EXCEPT ![p] = "report"] /\ UNCHANGED <<prev, at>>
      \/ GoOn(p, Head(down).value)
  BY DEF Read
<1>3. /\ prev' \in [Inputs -> Values]
      /\ at' \in [Pollers -> Nat] /\ \A q \in Pollers : at'[q] \in DOMAIN Visits[q]
      /\ pc' \in [Goroutines -> {"call", "locked", "asked", "report"}]
      /\ \A g \in Goroutines : g # p => pc'[g] = pc[g]
      /\ pc'[p] \in {"call", "report"}
  BY <1>1, <1>2, GoOnTypes DEF TypeOK, Goroutines
<1>4. TypeOK'
  <2>1. got' \in [Pollers -> Values] /\ mutex' \in Goroutines \union {NoOne}
    BY <1>1 DEF Read, TypeOK
  <2>2. down' = <<>> /\ up' = up /\ panel' = panel
    BY <1>1 DEF Read
  <2>3. QED
    BY <1>3, <2>1, <2>2 DEF TypeOK
<1>5. MutexInv'
  BY <1>1, <1>3 DEF Read, MutexInv, Goroutines
<1>6. QuestionInv'
  BY <1>1 DEF Read, QuestionInv
<1>7. SettersDoNotAsk'
  BY <1>3, GoroutinesAssumption DEF SettersDoNotAsk, Goroutines
<1>8. QED
  BY <1>4, <1>5, <1>6, <1>7

LEMMA ReportKeeps ==
    ASSUME ConnInv, NEW p \in Pollers, Report(p)
    PROVE  ConnInv'
<1> USE DEF ConnInv
<1>1. GoOn(p, got[p]) /\ got[p] \in Values
  BY DEF Report, TypeOK
<1>2. /\ TypeOK' /\ pc' = [pc EXCEPT ![p] = "call"]
  BY <1>1, GoOnTypes DEF Report, TypeOK
<1>3. MutexInv'
  BY <1>2 DEF Report, MutexInv, TypeOK
<1>4. \A q \in Pollers : pc[q] = "asked" => pc'[q] = "asked" /\ Input(q)' = Input(q)
  BY <1>1, <1>2 DEF Report, GoOn, Input, TypeOK, Goroutines
<1>5. QuestionInv'
  BY <1>4 DEF Report, QuestionInv
<1>6. SettersDoNotAsk'
  BY <1>2, GoroutinesAssumption DEF SettersDoNotAsk, TypeOK, Goroutines
<1>7. QED
  BY <1>2, <1>3, <1>5, <1>6

LEMMA ServeKeeps ==
    ASSUME ConnInv, Serve
    PROVE  ConnInv'
<1> USE DEF ConnInv, Serve
<1>1. up \in Seq(Inputs \union {Command}) /\ up # <<>> /\ Head(up) = up[1]
  BY DEF TypeOK
<1>2. Tail(up) \in Seq(Inputs \union {Command}) /\ Len(Tail(up)) = Len(up) - 1
      /\ \A k \in 1 .. Len(Tail(up)) : Tail(up)[k] = up[k + 1]
  BY <1>1
<1>3. Head(up) # Command => [input |-> Head(up), value |-> panel[Head(up)]] \in Answer
  BY <1>1 DEF TypeOK, Answer
<1>4. TypeOK'
  BY <1>2, <1>3 DEF TypeOK
<1>5. MutexInv' /\ SettersDoNotAsk'
  BY DEF MutexInv, SettersDoNotAsk
<1>6. QuestionInv'
  <2>1. \A p \in Pollers : Input(p)' = Input(p)
    BY DEF Input
  <2>2. CASE Head(up) = Command
    <3>1. down' = down /\ down = <<>>
      BY <1>1, <2>2 DEF QuestionInv
    <3>2. \A k \in 1 .. Len(up') : /\ up'[k] = up[k + 1] /\ k + 1 \in 1 .. Len(up)
                                   /\ (k + 1 = Len(up) <=> k = Len(up'))
      BY <1>1, <1>2
    <3>3. QED
      BY <2>1, <3>1, <3>2 DEF QuestionInv
  <2>3. CASE Head(up) # Command
    <3>6. 1 \in 1 .. Len(up) /\ up[1] # Command
      BY <1>1, <2>3
    <3>1. /\ Len(up) = 1 /\ down = <<>> /\ up[1] = Input(mutex)
          /\ mutex \in Pollers /\ pc[mutex] = "asked"
      BY <3>6 DEF QuestionInv
    <3>2. up' = <<>>
      BY <1>1, <1>2, <3>1
    <3>3. down' = <<[input |-> up[1], value |-> panel[Head(up)]]>>
      BY <1>1, <2>3, <3>1
    <3>4. Len(down') = 1 /\ down'[1].input = Input(mutex)
      BY <3>1, <3>3
    <3>5. QED
      BY <2>1, <3>1, <3>2, <3>4 DEF QuestionInv
  <2>4. QED
    BY <2>2, <2>3
<1>7. QED
  BY <1>4, <1>5, <1>6

LEMMA ChangeKeeps ==
    ASSUME ConnInv, NEW i \in Inputs, Change(i)
    PROVE  ConnInv'
BY DEF Change, ConnInv, TypeOK, MutexInv, QuestionInv, SettersDoNotAsk, Input

LEMMA StutterKeeps ==
    ASSUME ConnInv, UNCHANGED vars
    PROVE  ConnInv'
BY DEF vars, ConnInv, TypeOK, MutexInv, QuestionInv, SettersDoNotAsk, Input

LEMMA ConnNext == ConnInv /\ [Next]_vars => ConnInv'
BY LockKeeps, SetKeeps, AskKeeps, ReadKeeps, ReportKeeps, ServeKeeps, ChangeKeeps,
   StutterKeeps DEF Next, Poll, Goroutines

\* The types hold for any goroutines, inputs and values: no poller runs off its
\* loops, and only answers are read.
THEOREM TypeCorrect == Spec => []TypeOK
BY ConnInit, ConnNext, PTL DEF Spec, ConnInv

\* Whatever goroutines share the connection, the answer a getter reads is the one
\* to its own question.
THEOREM AnswersAreOwn == Spec => []OwnAnswer
<1>1. ConnInv => OwnAnswer
  BY AnswerIs DEF OwnAnswer
<1>2. QED
  BY <1>1, ConnInit, ConnNext, PTL DEF Spec

-----------------------------------------------------------------------------
(* Polling over the connection implements polling the panel.                *)

LEMMA InitRefines == Init => P!Init
<1> SUFFICES ASSUME Init PROVE P!Init
  OBVIOUS
<1>1. \A p \in Pollers : ~HasAnswer(p) /\ pc[p] = "call" /\ got[p] = Rest
  BY DEF Init, HasAnswer, Goroutines
<1>2. lookState = [p \in Pollers |-> "look"]
  BY <1>1 DEF lookState
<1>3. answered = [p \in Pollers |-> Rest]
  BY <1>1 DEF answered
<1>4. QED
  BY <1>2, <1>3 DEF Init, P!Init

\* Nothing a poller sees has changed.
Unseen == UNCHANGED <<panel, prev, at, lookState, answered>>

LEMMA UnseenStutters == Unseen => UNCHANGED P!vars
BY DEF Unseen, P!vars

LEMMA LockUnseen ==
    ASSUME ConnInv, NEW g \in Goroutines, Lock(g)
    PROVE  Unseen
<1>1. \A p \in Pollers : HasAnswer(p)' = HasAnswer(p) /\ (pc'[p] = "report" <=> pc[p] = "report")
  BY DEF Lock, HasAnswer, ConnInv, TypeOK
<1>2. QED
  BY <1>1 DEF Lock, Unseen, lookState, answered

LEMMA SetUnseen ==
    ASSUME ConnInv, NEW g \in Setters, Set(g)
    PROVE  Unseen
<1>1. \A p \in Pollers : pc'[p] = pc[p]
  BY GoroutinesAssumption DEF Set, ConnInv, TypeOK, Goroutines
<1>2. QED
  BY <1>1 DEF Set, Unseen, lookState, answered, HasAnswer

LEMMA AskUnseen ==
    ASSUME ConnInv, NEW p \in Pollers, Ask(p)
    PROVE  Unseen
<1>1. down = <<>>
  BY DEF Ask, ConnInv, MutexInv, QuestionInv, Goroutines
<1>2. \A q \in Pollers : pc'[q] = "report" <=> pc[q] = "report"
  BY DEF Ask, ConnInv, TypeOK
<1>3. QED
  BY <1>1, <1>2 DEF Ask, Unseen, lookState, answered, HasAnswer

\* The one who has an answer is the holder of the mutex.
LEMMA OneAnswer ==
    ASSUME ConnInv, NEW p \in Pollers, HasAnswer(p), NEW q \in Pollers, q # p
    PROVE  ~HasAnswer(q)
BY DEF ConnInv, MutexInv, HasAnswer, Goroutines

LEMMA ReadRefines ==
    ASSUME ConnInv, NEW p \in Pollers, Read(p)
    PROVE  P!Pass(p) \/ P!Announce(p)
<1>1. /\ HasAnswer(p) /\ Tail(down) = <<>> /\ Head(down).value \in Values
  BY AnswerIs DEF Read
<1>2. lookState[p] = "seen" /\ answered[p] = Head(down).value
  BY <1>1 DEF lookState, answered
<1>3. \A q \in Pollers : ~HasAnswer(q)'
  BY <1>1 DEF Read, HasAnswer
<1>4. answered' = answered
  <2>1. \A q \in Pollers : answered'[q] = answered[q]
    BY <1>1, <1>3, OneAnswer DEF Read, answered, ConnInv, TypeOK
  <2>2. QED
    BY <2>1 DEF answered
<1>5. CASE P!News(p, prev[Input(p)], Head(down).value)
  <2>1. pc' = [pc EXCEPT ![p] = "report"] /\ UNCHANGED <<panel, prev, at>>
    BY <1>5 DEF Read
  <2>2. lookState' = [lookState EXCEPT ![p] = "report"]
    BY <1>1, <1>3, <2>1, OneAnswer DEF lookState, ConnInv, TypeOK, Goroutines
  <2>3. QED
    BY <1>2, <1>4, <1>5, <2>1, <2>2 DEF P!Announce, P!Input, Input
<1>6. CASE ~P!News(p, prev[Input(p)], Head(down).value)
  <2>1. GoOn(p, answered[p]) /\ panel' = panel
    BY <1>2, <1>6 DEF Read
  <2>2. lookState' = [lookState EXCEPT ![p] = "look"]
    BY <1>1, <1>3, <2>1, OneAnswer DEF GoOn, lookState, ConnInv, TypeOK, Goroutines
  <2>3. P!GoOn(p)
    BY <1>4, <2>1, <2>2 DEF GoOn, P!GoOn, P!Input, Input
  <2>4. QED
    BY <1>2, <1>6, <2>3 DEF P!Pass, P!Input, Input
<1>7. QED
  BY <1>5, <1>6

LEMMA ReportRefines ==
    ASSUME ConnInv, NEW p \in Pollers, Report(p)
    PROVE  P!Report(p)
<1>1. ~HasAnswer(p) /\ lookState[p] = "report" /\ answered[p] = got[p]
  BY DEF Report, HasAnswer, lookState, answered
<1>2. GoOn(p, answered[p]) /\ panel' = panel /\ got' = got /\ down' = down
  BY <1>1 DEF Report
<1>3. pc' = [pc EXCEPT ![p] = "call"] /\ p \in DOMAIN pc
  BY <1>2 DEF GoOn, ConnInv, TypeOK, Goroutines
<1>4. \A q \in Pollers : HasAnswer(q)' = HasAnswer(q)
  BY <1>1, <1>2, <1>3 DEF HasAnswer
<1>5. lookState' = [lookState EXCEPT ![p] = "look"] /\ answered' = answered
  <2>1. \A q \in Pollers : q # p => pc'[q] = pc[q]
    BY <1>3
  <2>2. lookState' = [lookState EXCEPT ![p] = "look"]
    BY <1>1, <1>3, <1>4, <2>1 DEF lookState
  <2>3. answered' = answered
    BY <1>2, <1>4 DEF answered
  <2>4. QED
    BY <2>2, <2>3
<1>6. QED
  BY <1>1, <1>2, <1>5 DEF GoOn, P!Report, P!GoOn, P!Input, Input

LEMMA ServeRefines ==
    ASSUME ConnInv, Serve
    PROVE  Unseen \/ \E p \in Pollers : P!Look(p)
<1>1. CASE Head(up) = Command
  BY <1>1 DEF Serve, Unseen, lookState, answered, HasAnswer
<1>2. CASE Head(up) # Command
  <2>1. 1 \in 1 .. Len(up) /\ up[1] = Head(up)
    BY DEF Serve, ConnInv, TypeOK
  <2>2. /\ down = <<>> /\ mutex \in Pollers /\ pc[mutex] = "asked" /\ Head(up) = Input(mutex)
    BY <1>2, <2>1 DEF ConnInv, QuestionInv
  <2>3. down' = <<[input |-> Input(mutex), value |-> panel[Input(mutex)]]>>
    BY <1>2, <2>2 DEF Serve
  <2>4. Head(down').value = panel[Input(mutex)] /\ down' # <<>>
    BY <2>3
  <2>5. \A q \in Pollers : ~HasAnswer(q) /\ (HasAnswer(q)' <=> q = mutex)
    BY <2>2, <2>4 DEF Serve, HasAnswer, ConnInv, MutexInv, Goroutines
  <2>6. lookState' = [lookState EXCEPT ![mutex] = "seen"]
    BY <2>2, <2>5 DEF Serve, lookState
  <2>7. answered' = [answered EXCEPT ![mutex] = panel[Input(mutex)]]
    BY <2>2, <2>4, <2>5 DEF Serve, answered
  <2>8. lookState[mutex] = "look"
    BY <2>2, <2>5 DEF lookState
  <2>9. P!Look(mutex)
    BY <2>6, <2>7, <2>8 DEF Serve, P!Look, P!Input, Input
  <2>10. QED
    BY <2>2, <2>9
<1>3. QED
  BY <1>1, <1>2

LEMMA NextRefines ==
    ASSUME ConnInv, [Next]_vars
    PROVE  [P!Next]_(P!vars)
<1>1. ASSUME NEW g \in Goroutines, Lock(g) PROVE UNCHANGED P!vars
  BY <1>1, LockUnseen, UnseenStutters
<1>2. ASSUME NEW g \in Setters, Set(g) PROVE UNCHANGED P!vars
  BY <1>2, SetUnseen, UnseenStutters
<1>3. ASSUME NEW p \in Pollers, Ask(p) PROVE UNCHANGED P!vars
  BY <1>3, AskUnseen, UnseenStutters
<1>4. ASSUME NEW p \in Pollers, Read(p) PROVE P!Next
  BY <1>4, ReadRefines DEF P!Next
<1>5. ASSUME NEW p \in Pollers, Report(p) PROVE P!Next
  BY <1>5, ReportRefines DEF P!Next
<1>6. CASE Serve
  BY <1>6, ServeRefines, UnseenStutters DEF P!Next
<1>7. ASSUME NEW i \in Inputs, Change(i) PROVE P!Next
  <2>1. UNCHANGED <<lookState, answered>>
    BY <1>7 DEF Change, lookState, answered, HasAnswer
  <2>2. P!Change(i)
    BY <1>7, <2>1 DEF Change, P!Change
  <2>3. QED
    BY <2>2 DEF P!Next
<1>8. CASE UNCHANGED vars
  BY <1>8 DEF vars, P!vars, lookState, answered, HasAnswer
<1>9. QED
  BY <1>1, <1>2, <1>3, <1>4, <1>5, <1>6, <1>7, <1>8 DEF Next, Poll, Goroutines

\* What a poller reports and remembers is what the panel showed between its
\* question and its answer: over the shared connection it polls the panel itself.
THEOREM PollingIsReading == Spec => ReadsThePanel
<1>1. ConnInv /\ [Next]_vars => [P!Next]_(P!vars)
  BY NextRefines
<1>2. QED
  BY <1>1, InitRefines, ConnInit, ConnNext, PTL DEF Spec, ReadsThePanel, P!Spec
=============================================================================
