SPECIFICATION Spec
CONSTANTS
  o1 = o1
  o2 = o2
  t1 = t1
  none = none
  nodigest = nodigest
  Outputs = {o1, o2}
  TItems = {}
  Digests <- NoTransparent
  NoDigest = nodigest
  Coins = {1, 133}
  MaxActions = 2
  MaxItems = 0
  Sighashes <- OrchardSighashes
  NoOutput = none
  DefaultCoin = 1
  MaxDrops = 2
INVARIANTS
  TypeOK
  SignedWasApproved
  SessionInv
PROPERTIES
  ImplementsTrustedSigner
  ConfirmsWhatIsShown
