\* Every order of the packets, each with the sizes of the code.
SPECIFICATION ContainerSpec
\* A container that is refused is not read again.
CHECK_DEADLOCK FALSE
CONSTANTS
    Lengths <- BoardLengths
    LengthMax = 768
INVARIANTS
    LookupsFind
