SPECIFICATION Spec
CONSTANTS
    p1 = p1
    p2 = p2
    Ports = {p1, p2}
    Console = p1
    MaxCount = 0
    PASS_LIMIT = 0
    FIFO = 2
    Events = {"absent", "nomem", "irqfail"}
    Machines <- Four
INVARIANTS OpenTakesPart LineNotStuck  InterruptsAsEnabled 
CHECK_DEADLOCK FALSE
