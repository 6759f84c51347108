SPECIFICATION Spec
CONSTANTS
    i1 = i1
    i2 = i2
    c1 = c1
    k1 = k1
    k2 = k2
    m = m
    n = n
    o = o
    arts = arts
    math = math
    art = art
    x = x
    y = y
    Missing = Missing
    Nan = Nan
    Null = Null
    Commands = {x, y}
    MaxActs = 3
    Files <- SmallFiles
    Catalogues <- Start
    Slugify <- OnSlugs
    Mixed = {n}
    Tags = {art}
    Seeds <- SomeSeeds
INVARIANTS
    SlugsFollowNames
PROPERTIES
    ImportsKeepRows
    ImportReflectsFile
SYMMETRY SameCommands
CHECK_DEADLOCK FALSE
