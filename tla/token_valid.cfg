SPECIFICATION Spec
CONSTANTS
    c1 = c1
    c2 = c2
    p1 = p1
    p2 = p2
    p3 = p3
    Configured <- TwoProcesses
    Calls <- TwoCalls
    Processes <- ThreeProcesses
    Lifetime = 3
    Margin = 1
    HttpTimeout = 1
    CmdTimeout = 1
    MaxClock = 5
SYMMETRY AllAlike
INVARIANT TypeOK
INVARIANT ServedIsValid
