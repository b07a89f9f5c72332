SPECIFICATION HandoffFairSpec
CONSTANT WordCount = 3
INVARIANTS SlotAlternates NeverBothWait LoadsCurrentOrNext
PROPERTY Ends
CHECK_DEADLOCK FALSE
