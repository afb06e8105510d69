SPECIFICATION ProgramsSpec
CONSTANTS
    Variants = {0, 1, 6, 9}
    Noise = {0, 17, 255}
    Task = {1, 2, 3}
    Priority = {10, 50, 100}
    QUEUE_CAPACITY = 2
    MaxSamples = 3
INVARIANTS DecodedFits RoundTrip FitsExactly 
  
