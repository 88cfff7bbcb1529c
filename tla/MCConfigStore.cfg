\* Two containers of five bytes in two-byte words, eight generations.
SPECIFICATION Spec
CONSTANTS
    c1 = c1
    c2 = c2
    Containers = {c1, c2}
    Default = default
    Nothing = nothing
    Blank = blank
    Torn = torn
    Size = 5
    WordBytes = 2
    GenerationModulus = 8
INVARIANTS
    TypeOK
    SlotsAreSound
PROPERTIES
    ImplementsRegister
    ChangesAreNoticed
