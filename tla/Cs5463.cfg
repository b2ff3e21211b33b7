SPECIFICATION MCSpec
CONSTANTS
    NSTAGE = 3
    GainStages <- MCGainStages
    None = None
    IRMS <- MCIRMS
    PACTIVE <- MCPACTIVE
    THRESHOLD <- MCThreshold
    Calib <- MCCalib
    Result <- MCResult
    POLLS = 2
    EARLY = 1
INVARIANT AllOrNothing
INVARIANT RelayOwner
INVARIANT MeterInv
PROPERTY CalibrationEnds
PROPERTY TripsNearThreshold
PROPERTY StageIsFresh
