SPECIFICATION ExtractSpec
CONSTANTS
    LineKinds <- MCLineKinds
    MaxLines = 5
INVARIANTS
    CollectsWhatIsExtracted
    PrintsAllOrNothing
PROPERTY
    Terminates
\* The last line has been looked at, or the tool has raised.
CHECK_DEADLOCK FALSE
