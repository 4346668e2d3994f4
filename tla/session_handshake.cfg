SPECIFICATION FairSpec
CONSTANTS
  o1 = o1
  o2 = o2
  t1 = t1
  none = none
  nodigest = nodigest
  Outputs = {o1}
  TItems = {}
  Digests <- NoTransparent
  NoDigest = nodigest
  Coins = {1}
  MaxActions = 1
  MaxItems = 0
  Sighashes <- OrchardSighashes
  NoOutput = none
  DefaultCoin = 1
  MaxDrops = 0
PROPERTIES
  HandshakeOffered
