\* One run, and an --undo that stops halfway.
SPECIFICATION Spec
CONSTANTS
    MaxRuns = 1
    MaxUndos = 1
INVARIANTS UndoCanBeRepeated
