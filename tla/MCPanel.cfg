\* Frames of four bytes, regions of one and three bytes in each plane.
SPECIFICATION Spec
CONSTANTS
    FrameBytes = 4
    PlaneSizes = {1, 3}
    DeepSleep = TRUE
INVARIANTS
    AwakeIsTrue
    TimeoutsAreReported
PROPERTIES
    DrawsWholePlanes
    ImplementsDisplay
