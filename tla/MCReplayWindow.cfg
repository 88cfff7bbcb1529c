\* Counters reach three times as far as the window.
SPECIFICATION WindowSpec
CONSTANTS
    Window = 4
    FrameCounters = {0, 1, 2, 3, 4, 5, 6, 7, 8, 9, 10, 11}
PROPERTIES
    ImplementsFreshCounters
