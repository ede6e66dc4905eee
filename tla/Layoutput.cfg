\* Three clones, of which a group stages two, and a head of its own.
SPECIFICATION FairSpec
CONSTANTS
  Connector = {h1, h2, h3, h4}
  Solo = {h4}
  Shared = Shared
  Output = {o1, o2}
  None = None
  MaxCloneHeads = 3
INVARIANTS
  TypeOK
  GroupsOwnTheirs
PROPERTIES
  LostIsCounted
  StartsAsRequired
  FlushEnds
\* Startup may be aborted.
CHECK_DEADLOCK FALSE
