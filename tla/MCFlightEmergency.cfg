\* Two signals, three callbacks and deliveries, three versions.
SPECIFICATION Spec
CHECK_DEADLOCK FALSE
CONSTANTS
    Signals = {s1, s2}
    NoSignal = NoSignal
    MaxVersion = 6
    MaxCount = 1
    MaxActivations = 3
SYMMETRY SignalSymmetry
INVARIANTS
    EvidenceSurvives
    IntentsAreTruthful
PROPERTY
    GapIsKept
