CONSTANTS
    MinSize = 3
    SizeMax = 15
    MaxFailures = 1
    MultiByte <- MCMultiByte
    Escaped <- MCEscaped
    High = "D834"
    Low = "DD1E"
    Astral <- G
    MaxDigits = 2
    MaxExponent = 10
    Precision = 5
    Inputs <- MCInputs
SPECIFICATION Spec
INVARIANTS
    AcceptsExactlyJson
    PositionIsExact
    BuffersHaveRoom
    OnlyALostByteBreaksTheLexer
    DumpRoundTrips
PROPERTY
    Terminates
CHECK_DEADLOCK FALSE
