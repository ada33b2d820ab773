CONSTANTS
    c1 = c1
    c2 = c2
    s1 = s1
    s2 = s2
    model = model
    Nobody = Nobody
    Chats = {c1, c2}
    Conns = {}
    Servers = {s1, s2}
    Models = {model}
    SettingsValues <- MCOneSetting
    AgentCtx = 32
    MaxConns = 1
    HasCpuBuild = FALSE
    ShutsDown = TRUE
SPECIFICATION Spec
INVARIANTS
    OneChat
    CancelledOnlyIfAsked
PROPERTIES
    TakesOnlyStale
    SlotFreed
    IdleReaped
CHECK_DEADLOCK FALSE
