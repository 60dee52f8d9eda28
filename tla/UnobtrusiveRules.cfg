\* Every combination of seven annotations, values of up to three characters.
SPECIFICATION Spec
CONSTANTS
    HasExtension = TRUE
    Accepts <- MCAccepts
    Elements <- MCElements
    Forms <- MCForms
    Values <- MCValues
CHECK_DEADLOCK FALSE
INVARIANTS
    TypeOK
    NeverStricter
    ExactUnlessOverlapping
