CONSTANTS
    Payloads = {p1, p2}
    Protocols = {"irq"}
    Slots = {"one", "two"}
    Clonable = {"one"}
    Objects = {o1, o2, o3}
    Values = {0, 1}
    MaxCount = 2
    NoProtocol = NoProtocol
    NoObject = NoObject
    NoCopy = NoCopy
SPECIFICATION Spec
PROPERTY DeepCopyIsComplete
CHECK_DEADLOCK FALSE
