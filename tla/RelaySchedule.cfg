SPECIFICATION Spec
CONSTANTS
    TIMER_NUMBER = 3
    Week = 5
    Hour = 2
    MaxTime = 5
    MaxLate = 1
    Schedules <- MCSchedules
INVARIANT ScheduleInv
PROPERTY DueActionsDone
CHECK_DEADLOCK FALSE
