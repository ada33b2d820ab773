CONSTANTS
    n1 = n1
    n2 = n2
    n3 = n3
    s1 = s1
    s2 = s2
    model = model
    Nobody = Nobody
    Chats = {}
    Conns = {n1, n2, n3}
    Servers = {s1, s2}
    Models = {model}
    SettingsValues <- MCSettings
    AgentCtx = 32
    MaxConns = 2
    HasCpuBuild = TRUE
    ShutsDown = FALSE
SPECIFICATION Spec
SYMMETRY Symmetry
INVARIANTS
    NoStrayServer
    ConnsCounted
    EndpointFits
CHECK_DEADLOCK FALSE
