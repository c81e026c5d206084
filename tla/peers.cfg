SPECIFICATION FairSpec
CONSTANTS
  Peer = {me, other}
  NoId = NoId
  Timeout = 4
  MaxGap = 2
  MaxLag = 2
INVARIANT TypeOK
INVARIANT OnlySilentAreLost
INVARIANT LossesAreTold
PROPERTY PeersAreTold
