CONSTANTS
    c1 = c1
    s1 = s1
    s2 = s2
    model = model
    Nobody = Nobody
    Chats = {c1}
    Conns = {}
    Servers = {s1, s2}
    Models = {model}
    SettingsValues <- MCOneSetting
    AgentCtx = 32
    MaxConns = 1
    HasCpuBuild = FALSE
    ShutsDown = TRUE
SPECIFICATION Spec
SYMMETRY Symmetry
INVARIANTS
    NothingOutlivesApp
CHECK_DEADLOCK FALSE
