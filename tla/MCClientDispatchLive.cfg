SPECIFICATION FairSpec
CONSTANTS
    s1 = s1
    s2 = s2
    p = p
    h = h
    k = k
    q = q
    None = None
    Sessions = {s1}
    Prompts = {p, h}
    SessionOf <- MCSessionOf
    Control = {}
    Held = {h}
    Abandoning = {h}
    ProcessMayExit = TRUE
    WireCap = 1
    PromptCap = 1
    DeactivateCap = 1
    MaxWire = 2
PROPERTIES
    ShutdownCompletes
    StreamsTerminate
CHECK_DEADLOCK FALSE
