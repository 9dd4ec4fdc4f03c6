SPECIFICATION Spec
CONSTANTS
    c1 = c1
    c2 = c2
    s1 = s1
    s2 = s2
    d1 = d1
    d2 = d2
    Devices = {d1, d2}
    Callers = {c1, c2}
    DeviceOf <- OneEach
    SignIns = {s1, s2}
    From <- Apiece
    Resets = {}
    MaxTokens = 4
    MaxVersion = 1
    None = None
INVARIANTS
    SessionsEvicted
CHECK_DEADLOCK FALSE
