CONSTANTS
    m1 = m1  g1 = g1  g2 = g2  t1 = t1  u1 = u1  w1 = w1  v1 = v1
    b1 = b1  b2 = b2  b3 = b3  o1 = o1  x1 = x1  y1 = y1
    MMInits = {m1}
    MMTargets = {t1}
    GenericInits = {g1, g2}
    GenericTargets = {u1}
    Bidirs = {b1, b2, b3}
    OuterInits = {w1}
    OuterTargets = {v1}
    OuterMMInits = {x1}
    OuterMMTargets = {y1}
    OuterBidirs = {o1}
    Platforms <- SmallPlatforms
    Requests <- SomeRequests
    Words = {"here", "there"}
    LengthMod = 4
    NoEnd = NoEnd
    NoCall = NoCall
    NoAnswer = NoAnswer
    Clog = Clog
SPECIFICATION Spec
INVARIANTS TypeOK BindingsWork TargetWithinLimit PeersAligned
PROPERTY DirectSpec
CHECK_DEADLOCK FALSE
