SPECIFICATION NativeSpec
CONSTANTS
  Keys = {k1, k2}
  Handles = {h1, h2}
  SigCtxs = {c1, c2}
  AcCtxs = {a1}
  NoKey = NoKey
  MaxLost = 1
  KThreads = {t1, t2}
  Ids = {i1, i2}
  Cbs = {cb1}
  NoCb = NoCb
  LThreads = {t1, t2, t3}
INVARIANTS NoUseAfterFree NothingLost SecretsWiped KeyAlive KeyReleased RegisteredIsFound AcceptedIsUsed HandlesBalanced
