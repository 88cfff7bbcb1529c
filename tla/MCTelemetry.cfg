\* Temperatures of -41, -0.75, -0.25, 87.75 and 89 degrees; voltages below,
\* at and above what eight bits hold.
SPECIFICATION Spec
CONSTANTS
    Temperatures <- Quarters
    Results = {0, 727, 1023}
INVARIANTS
    SampleIsWhole
    ShownFlagsAreTrue
    RebootIsTold
