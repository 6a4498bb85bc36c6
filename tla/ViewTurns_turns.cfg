SPECIFICATION FairSpec
CONSTANTS
  d1 = d1
  d2 = d2
  r1 = r1
  Pages = {p1}
  NoPage = NoPage
  NoRequest = NoRequest
  Requests = {r1}
  Calls = {c1, c2}
  Orders = {m1}
  Commands <- MCCommands
  NoCommand = NoCommand
  QueueCapacity = 2
  Deliveries <- MCCommands
  LineIds <- MCLineIds
  Interrupters = {i1}
  Bounds <- MCBounds
INVARIANTS HandedOnce HonestAnswers CompletedHasEnded SubmittedOnce
PROPERTIES QueueDrains
CHECK_DEADLOCK FALSE
