\* The sequence lock, with coreaudiod restarted between publications
SPECIFICATION FairSpec
CONSTANTS
  MaxPubs = 3
  MaxXRuns = 2
  DiesPublishing = FALSE
CHECK_DEADLOCK FALSE
INVARIANT TypeOK
INVARIANT SnapshotNotStale
INVARIANT XRunsConserved
PROPERTY SnapshotEnds
