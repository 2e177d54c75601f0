CONSTANTS
    Interactive = {i1, i2}
    Background = {b1, b2, b3}
    MaxConcurrentRuns = 3
    MaxBackgroundRuns = 2
    WatermarkEnabled = TRUE
SPECIFICATION Spec
INVARIANTS TypeOK GaugeExact SlotsConserved
PROPERTIES ImplementsPool InteractiveServed
