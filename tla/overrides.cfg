SPECIFICATION Spec
CONSTANTS
    linux = linux  h1 = h1  h2 = h2
    Pools = {linux}
    Limits <- FewEnds
    Configs <- TwoConfigs
    Handlers = {h1, h2}
    Empty = Empty  Torn = Torn  NoFile = NoFile  Inherit = Inherit  None = None
PROPERTIES WholeIfWritesApart OnlyOvertakenBreakOrder SavedAtomically
CHECK_DEADLOCK FALSE
