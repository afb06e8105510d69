SPECIFICATION WireSpec
CONSTANTS
    Payloads <- MCPayloads
    PayloadCap = 2
    OutCap = 12
    MaxFaults = 2
    CounterMod = 8
    MaxBoots = 2
    LinkFaults = 1
    LinkCap = 2
    SendCap <- MCSendCap
    UpdateLens = {0, 1, 8, 55, 56, 63, 64, 65, 130}
    MaxUpdates = 3
    KeyLens = {0, 16, 64, 65}
INVARIANTS TypesOK Resyncs NoGarbage DeliveredInOrder DigestAsDefined
PROPERTIES NewerAccepted
CHECK_DEADLOCK FALSE
