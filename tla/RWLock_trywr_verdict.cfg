CONSTANT Thread = {t1, t2}
SPECIFICATION SpecWithTryWr
PROPERTY TryVerdictIsTheTruth
CHECK_DEADLOCK FALSE
