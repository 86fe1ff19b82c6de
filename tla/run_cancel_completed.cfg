SPECIFICATION Spec
CONSTANTS
    Runner = runner
    Resumes = {r1}
    MaxIterations = 2
    MaxDeltas = 2
PROPERTIES NoCompletionAfterCancel
CHECK_DEADLOCK FALSE
