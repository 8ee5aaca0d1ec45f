SPECIFICATION FairSpec
CONSTANTS
    s1 = s1
    s2 = s2
    p = p
    h = h
    k = k
    q = q
    None = None
    Sessions = {s1, s2}
    Prompts = {h, q}
    SessionOf <- MCSessionOf
    Control = {}
    Held = {h}
    Abandoning = {h}
    ProcessMayExit = FALSE
    WireCap = 1
    PromptCap = 1
    DeactivateCap = 1
    MaxWire = 2
PROPERTIES
    StreamsIndependent
CHECK_DEADLOCK FALSE
