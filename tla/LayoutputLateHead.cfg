\* Two clones are enough.
SPECIFICATION Spec
CONSTANTS
  Connector = {h1, h2}
  Solo = {}
  Shared = Shared
  Output = {o1}
  None = None
  MaxCloneHeads = 3
PROPERTY NoHeadDropped
\* Startup may be aborted.
CHECK_DEADLOCK FALSE
