\* Every way of cutting short answers into chunks, of failing and of stopping.
\* The system stops when the request ends.
SPECIFICATION LiveSpec
CONSTANT Answers <- ShortAnswers
INVARIANTS
    ShownIsPrefix
    CompletedIsWhole
PROPERTY EveryRequestEnds
CHECK_DEADLOCK FALSE
