SPECIFICATION FairSpec
CONSTANTS
  j1 = j1
  j2 = j2
  d1 = d1
  Jobs <- McJobs
  Docs <- McDocs
  DocOf <- McDocOf
  MaxDeletions = 1
  MaxTroubles = 2
INVARIANTS
  NoEmptyDocuments
PROPERTIES
  OthersSurvive
  ImplementsLifecycle
  ExpiredJobsGo
CHECK_DEADLOCK FALSE
