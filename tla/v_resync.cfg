SPECIFICATION Spec
CONSTANTS
    Payloads <- MCPayloads
    PayloadCap = 2
    OutCap = 12
    MaxFaults = 1
INVARIANT NextFrameParsed
