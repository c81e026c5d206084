SPECIFICATION FairSpec
CONSTANTS
  PollButtons = PollButtons
  PollStopButton = PollStopButton
  b1 = b1
  b2 = b2
  stop = stop
  Pollers <- ThePollers
  Inputs = {b1, b2, stop}
  Values = {TRUE, FALSE}
  Rest = FALSE
  Visits <- TheVisits
  SilentAtRest = {PollButtons}
  Setters = {door, handler}
  NoOne = nobody
  Command = command
  Buffer = 2
  Listened = {PollButtons}
INVARIANT TypeOK
INVARIANT OwnAnswer
PROPERTY ReadsThePanel
PROPERTY KeptIsNoticed
