SPECIFICATION MCSpec
INVARIANT SettledAgrees
INVARIANT FlashesInCalibration
INVARIANT OneEffectPerPress
PROPERTY SwitchEnds
PROPERTY ReleaseReported
