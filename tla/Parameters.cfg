SPECIFICATION Spec
CONSTANTS
    PER = 1
    SECTORS = 2
    BASE = 5
    RECORDS = 2
INVARIANT ParametersInv
INVARIANT ReportedSurvives
PROPERTY Protected
