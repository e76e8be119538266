SPECIFICATION FairSpec
CONSTANTS
  Session = {s1, s2}
  Node = {n1}
  Default = {d1}
INVARIANTS
  TypeOK
  OneCommit
  SnapshotIsCurrent
  EffectiveTracksCommit
  RunfileIsRunning
PROPERTIES
  ImplementsAtomicCommit
  CommitAnswered
