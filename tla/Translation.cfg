SPECIFICATION Spec
CONSTANTS
    N = 6
    Chars <- MCChars
    Plain <- MCPlain
    BatchSize = 3
    MaxBatchChars = 4
    AlignmentBatchSize = 4
    AlignmentMaxCorrections = 2
    MaxRetries = 1
    ReviewAll = FALSE
INVARIANTS TypeOK EachCueOnce NothingQuestionableRendered LogInOrder
PROPERTIES SettledByCorrection Terminates
