SPECIFICATION MCSpec
INVARIANTS VocalFollows CleanRows Clipped Holds   WholeRounds FirstWins RedBlack Splayed Plain Digest LogicalsFound  ReadAsWritten 
CHECK_DEADLOCK FALSE
