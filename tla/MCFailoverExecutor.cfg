CONSTANTS
  r1 = r1
  r2 = r2
  r3 = r3
  img = img
  upA = upA
  upB = upB
  upC = upC
  upD = upD
  Attempt = {r1, r2, r3, img}
  Request = {r1, r2, r3, img}
  ImageRequest = {img}
  Alias = {upA, upB, upC, upD}
  Chain <- MCChain
  Missing = {upC}
  Incapable <- MCIncapable
  TooSmall <- MCTooSmall
  FailureThreshold = 2
  Cooldown = 1
  NoToken = none
SPECIFICATION FairSpec
INVARIANTS
  RefusalHasReason
  UnsatisfiableIsFinal
PROPERTIES
  LockKeptByOwner
  CooldownRunsDown
  ImageSentOnce
  AbortOpensNothing
  RefusalEnds
CHECK_DEADLOCK FALSE
