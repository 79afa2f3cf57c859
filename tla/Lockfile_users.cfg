CONSTANTS
  Procs = {fetch, unpack, package}
  Inodes = {i1, i2, i3}
  NoFile = NoFile
  Calls <- CodeCalls
SPECIFICATION FairSpec
INVARIANTS MutualExclusion CleansUp
PROPERTIES ImplementsRwLock SomebodyGetsIt
