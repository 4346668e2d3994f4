SPECIFICATION FairSpec
CONSTANTS
  o1 = o1
  o2 = o2
  t1 = t1
  none = none
  nodigest = nodigest
  Outputs = {o1}
  TItems = {t1}
  Digests <- OneInput
  NoDigest = nodigest
  Coins = {1}
  MaxActions = 1
  MaxItems = 1
  Sighashes <- MixedSighashes
  NoOutput = none
  DefaultCoin = 1
  MaxDrops = 1
INVARIANTS
  TypeOK
  SignedWasApproved
  SessionInv
PROPERTIES
  ImplementsTrustedSigner
  TransparentSignedWasVerified
  HandlerEnds
  DisconnectEndsSession
  NewHostGreeted
