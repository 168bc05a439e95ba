CONSTANTS
    Expiries = {3, 7}
    AckDates = {1}
    AlertDays = 1
    WarningDays = 1
    Horizon = 9
    MaxFailures = 1
    None = None

SPECIFICATION Spec
INVARIANT TypeOK
INVARIANT AlertOncePerDay
INVARIANT AlertJustified
INVARIANT AlertInTime
