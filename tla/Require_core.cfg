SPECIFICATION Spec
CONSTANTS
    Procs = {p1, p2}
    Pids = {i1, i2}
    Vers = {new, old}
    Files = {f, g}
    First = old
    Gone = g
    Main = p1
    Bases = {"floor", "cwd"}
    Kinds = {"bare", "near"}
    MaxStarts = 3
    MaxEdits = 1
INVARIANTS FloorExact NoHalfBuilt
CONSTRAINT LoaderBound
CHECK_DEADLOCK FALSE
