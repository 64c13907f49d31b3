\* Three runs of the wizard and three of --undo, stopped anywhere.
SPECIFICATION Spec
CONSTANTS
    MaxRuns = 3
    MaxUndos = 3
INVARIANTS PutBack OriginalKept
