SPECIFICATION Spec
CONSTANTS
    p1 = p1
    p2 = p2
    Probes <- MCProbes
    Stubborn <- MCStubborn
    NResults = 3
    BatchSize = 2
INVARIANT
    CleanMeansDrained
