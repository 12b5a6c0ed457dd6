CONSTANTS
    WordBits = 2
    MaxBits = 6
SPECIFICATION Spec
INVARIANT UnusedBitsIgnored
