CONSTANTS
    p1 = p1  p2 = p2  g1 = g1  g2 = g2
    Push = {p1, p2}
    Gateway = {g1, g2}
    Files <- MCFiles
    Directories <- MCDirectories
    MaxRuns = 2
    MaxWrites = 1
SPECIFICATION Spec
SYMMETRY Symmetric
INVARIANTS PushesApplyOnce
PROPERTIES MigrationsFollowVersions
CHECK_DEADLOCK FALSE
