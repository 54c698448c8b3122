\* Nobody crashes and no write fails: three collectors are enough.
CONSTANTS
  Pid = {p1, p2, p3}
  MaxCrashes = 0
  MaxFailures = 0
  ServerPid = NoPid
  NoPid = NoPid
  NoFile = NoFile
SPECIFICATION Spec
INVARIANT MutualExclusion
