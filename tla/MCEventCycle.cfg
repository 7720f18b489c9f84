SPECIFICATION Spec
CONSTANTS
    Conf <- TwoSources
    Plain = {f, g, p}
    Helpers = {h, k}
    Insertable = {f, g}
    Regenerate = {g}
    Persistent = {p}
    Runs = {1, 2}
    NoRun = NoRun
    ThrowPoints = {"Init", "Process"}
    OmitsOutputs = FALSE
INVARIANTS  NoStaleData ProcessInsideRun CachedUntilReleased ComputedOnce
