CONSTANTS
    m1 = m1  m2 = m2  m3 = m3  w1 = w1  w2 = w2  w3 = w3
    j1 = j1  j2 = j2  t1 = t1  t2 = t2
    MultiInits = {m1, m2, m3}
    MultiTargets = {w1, w2, w3}
    Inits = {j1, j2}
    Targets = {t1, t2}
    InputSocket = w1
    OutputSocket = m1
    Located = {t1, t2}
    Kinds = {"b_transport", "nb_transport_fw", "nb_transport_bw", "invalidate_direct_mem_ptr"}
    IdMod = 8
    Platforms <- SmallPlatforms
    NoSocket = NoSocket
    NoCallback = NoCallback
    NoCall = NoCall
SPECIFICATION RoutedSpec
PROPERTY BindReturnsAssignedId
CHECK_DEADLOCK FALSE
