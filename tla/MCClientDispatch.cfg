SPECIFICATION Spec
CONSTANTS
    s1 = s1
    s2 = s2
    p = p
    h = h
    k = k
    q = q
    None = None
    Sessions = {s1}
    Prompts = {p, h, k}
    SessionOf <- MCSessionOf
    Control = {k}
    Held = {h}
    Abandoning = {}
    ProcessMayExit = TRUE
    WireCap = 1
    PromptCap = 1
    DeactivateCap = 1
    MaxWire = 2
INVARIANTS
    TypeOK
    NoSendOnClosed
    SlotOwned
    StreamInOrder
    HeldStreamsOver
CHECK_DEADLOCK FALSE
