\* Three jobs, two starts of a two-loop worker: a restart leaves loops of the
\* first start behind.
SPECIFICATION Spec
CONSTANTS
  Jobs = {j1, j2, j3}
  Loops = {l1, l2, l3, l4}
  Concurrency = 2
  NoJob = NoJob
INVARIANTS
  TypeOK
  WaitersAreParked
  NoIdleLoopWhileQueued
  OnePlace
PROPERTIES
  TakenInOrder
  QueuedIsTaken
