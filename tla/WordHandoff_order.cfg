SPECIFICATION HandoffFairSpec
CONSTANT WordCount = 3
INVARIANT PrintsWordsInOrder
CHECK_DEADLOCK FALSE
