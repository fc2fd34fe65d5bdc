CONSTANTS
    Payloads = {p1, p2}
    Protocols = {"irq", "signal"}
    Slots = {"one", "two"}
    Clonable = {"one"}
    Objects = {o1, o2, o3}
    Values = {0, 1}
    MaxCount = 2
    NoProtocol = NoProtocol
    NoObject = NoObject
    NoCopy = NoCopy
SPECIFICATION Spec
INVARIANTS TypeOK ExactlyOneOwner
PROPERTY CopyBringsExtensions
CHECK_DEADLOCK FALSE
