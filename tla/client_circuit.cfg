\* Three contexts without proxies that share the circuit.
SPECIFICATION Spec
CONSTANTS
    c1 = c1
    c2 = c2
    c3 = c3
    Contexts <- ThreeContexts
    Count = 0
    DirectFallback = TRUE
    Errors = {"upstream", "other"}
    CircuitThreshold = 1
    ProxyThreshold = 1
    RotateAfter = 2
    MaxAttempts = 2
    MaxErrors = 4
    MaxHookFaults = 1
SYMMETRY Symmetry
INVARIANTS
    ProbeIsRunning
    OneProbe
PROPERTY
    OnlyProbesDecide
