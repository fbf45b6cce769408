SPECIFICATION MCSpec
INVARIANTS OneThread
 
CHECK_DEADLOCK FALSE
