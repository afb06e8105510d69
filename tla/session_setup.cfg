SPECIFICATION FairSpec
CONSTANTS
    Attempts = 2
    SeqMod = 8
    MaxDrops = 2
    MaxRuns = 2
    LinkCap = 2
INVARIANTS
    AcknowledgedHolds
    GivesUpOnlyOnLoss
PROPERTIES
    AnnouncedToAgent
