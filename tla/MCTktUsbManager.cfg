SPECIFICATION Spec
CONSTANTS
  Clients = {"p"}
  Names <- SmallNames
  Configs <- SmallConfigs
  MaxNameSize = 2
INVARIANTS TypeOK WholeTable AnnouncedIsServed Reachable HandleHonest LayersNested
\* A stopped module does nothing more.
CHECK_DEADLOCK FALSE
