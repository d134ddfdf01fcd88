SPECIFICATION Spec
CONSTANTS
  Threads = {t1, t2}
  Readers = {r1}
  MaxVersion = 3
  MaxFaults = 2
  NoThread = NoThread
  NoObject = NoObject
  NoCard = NoCard
SYMMETRY Writers
INVARIANTS CardDescribesArtifact OneLiveUnlessInterrupted LatestIsFresh
PROPERTIES NothingPublishedIsLost PromotionKeepsOneLive
