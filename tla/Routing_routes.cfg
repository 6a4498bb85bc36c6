SPECIFICATION Spec
CONSTANTS
  o1 = o1
  o2 = o2
  p1 = p1
  p2 = p2
  g1 = g1
  b1 = b1
  svc = svc
  Nobody = Nobody
  Several = Several
  Everyone = Everyone
  Owners = {o1, o2}
  OpenIds = {p1, p2}
  Groups = {g1}
  Bots = {b1}
  Keys = {1, 2}
  Services = {svc}
  SecOps = o1
  OpsAdmin = p1
  OpsOwner = o2
  Keep = 2
  Names <- MCNames
  Rank <- MCRank
  OwnerSeq <- MCOwnerSeq
  Display <- MCDisplay
  KeyService <- MCKeyService
  Letters <- MCLetters
  Lower <- MCLower
  Forms <- MCForms
  Samples <- MCSamples
  Inputs <- MCInputs
  Says <- MCSays
  Bounds <- MCBounds
INVARIANTS Isolated ReplyReturns DirectoryAgrees RulesDisjoint SyncedOnce
PROPERTIES SyncStops
CHECK_DEADLOCK FALSE
