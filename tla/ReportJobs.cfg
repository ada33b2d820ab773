CONSTANTS
    k1 = k1
    k2 = k2
    w1 = w1
    Keys = {k1, k2}
    Scoped <- MCScoped
    Others = {w1}
    Main = Main
    Closed = Closed
    MaxSent = 1
SPECIFICATION FairSpec
INVARIANTS
    InLine
    BatchNotStuck
    WindowsCatchUp
PROPERTIES
    EveryJobEnds
