CONSTANTS
    Routers = {r1, r2}
    Companies = {acme, globex}
    Bands = {b24, b69}
    HighBands = {b69}
    Times = {1, 2}
    MaxCalls = 6
    None = None
SPECIFICATION Spec
SYMMETRY Symmetry
CHECK_DEADLOCK FALSE
INVARIANTS
    ReadyNeedsBoth
    AxesWereReported
    UnmixedRowIsCrossing
    QuietRoutingIsCurrent
