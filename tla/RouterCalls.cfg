CONSTANTS
    AddrMod = 8
    SizeMod = 8
    i1 = i1  i2 = i2
    t1 = t1  t2 = t2  t3 = t3
    x1 = x1  x2 = x2  x3 = x3
    Initiators = {i1, i2}
    Targets = {t1, t2, t3}
    Transactions = {x1, x2, x3}
    Owner <- OwnerOf
    Requests <- SomeRequests
    Setups <- AnySetup
    NoLocation = NoLocation
    NoOne = NoOne
SPECIFICATION Spec
INVARIANTS TypeOK ElaborationVerdict CallsSeeTheirTarget AddressRestored ViewsAgree AbsoluteDmiCoherent DmiStaysHome
PROPERTIES NeverExits
CHECK_DEADLOCK FALSE
