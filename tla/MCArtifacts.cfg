SPECIFICATION ExportsSpec
CONSTANTS
    w1 = w1
    w2 = w2
    d0 = d0
    d1 = d1
    out = out
    err = err
    Writers = {w1, w2}
    Data = {d0, d1}
    Channels = {out, err}
    Snapshots = {d0}
    Raws <- MCRaws
    MaxRows = 2
    MaxDamage = 1
    Shown = {out}
    ExportFrom = 2
SYMMETRY MCArtifactsSymmetry
INVARIANTS
    CommittedBytesExist
    IndexMeansComplete
    DisclosesShown
PROPERTY NeverRepaired
CHECK_DEADLOCK FALSE
