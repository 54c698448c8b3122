\* Each caller plays its own part. The firewall's first build and the boot's
\* supervisor overlap; one more trouble of any kind comes on top of them.
CONSTANTS
  Watchdog = watchdog
  Supervisor = supervisor
  Firewall = firewall
  Caller = {watchdog, supervisor, firewall}
  MaxTroubles = 1
\* A healthy router on which nothing more happens has come to rest.
CHECK_DEADLOCK FALSE
SPECIFICATION FairRuntimeSpec
INVARIANTS
  RuntimeTypeOK
  CopiesBounded
PROPERTIES
  ListenersRecover
  RulesRecover
