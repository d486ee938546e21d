\* Two contexts on two proxies and no direct egress, every kind of error and a failing hook.
SPECIFICATION Spec
CONSTANTS
    c1 = c1
    c2 = c2
    c3 = c3
    Contexts <- TwoContexts
    Count = 2
    DirectFallback = FALSE
    Errors = {"forbidden", "proxy_auth", "proxy_connection", "rate_limited", "timeout", "gateway", "upstream", "parse", "other"}
    CircuitThreshold = 1
    ProxyThreshold = 2
    RotateAfter = 2
    MaxAttempts = 2
    MaxErrors = 2
    MaxHookFaults = 1
SYMMETRY Symmetry
INVARIANTS
    EgressAgrees
    HooksAreLegal
CHECK_DEADLOCK FALSE
