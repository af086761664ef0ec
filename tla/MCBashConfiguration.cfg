CONSTANTS
    p1 = p1
    p2 = p2
    ls = ls
    vi = vi
    Pages = {p1, p2}
    Commands = {ls, vi}
    Ranges <- OneRange
    Counts = {1}
    BufferSize = 1
    MaxSelected = 1
    MaxDay = 2
    MaxCrashes = 1
SYMMETRY Symmetry
CHECK_DEADLOCK FALSE
SPECIFICATION Spec
INVARIANTS
    DefaultsCoverPreview
    ConfigurationsListable
PROPERTY PreviewShowsUsage
