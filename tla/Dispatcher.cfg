\* One instance whose run was saved before, or not; two pipelines, as a reset under the first
\* or its end permit; identities for a file to be unlinked and created anew; a crash.
SPECIFICATION Spec
CONSTANTS
    Apps = {a1}
    Pipes = {p1, p2}
    Runs = {r1}
    Dests = {d1}
    Nowhere = nowhere
    Source = source
    None = none
    InPlace = FALSE
    Locks = {l1, l2}
    Files = {f1, f2}
    MaxCrashes = 1
INVARIANTS
    OneWorker
    FlagIsHonest
    OneDestination
SYMMETRY DispatcherSymmetry
CHECK_DEADLOCK FALSE
