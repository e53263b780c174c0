SPECIFICATION PaperSpec
CONSTANTS
    Library <- SmallLibrary
    BuiltIn <- SmallBuiltIn
    Answers <- SomeAnswers
    Orders <- SomeOrders
    PoolFloor = 2
    Scripts = {"s1"}
    Pages = {"page"}
    MaxInvites = 2
    MaxEdits = 1
INVARIANTS NoRepeats FullPaper NotAgain
CHECK_DEADLOCK FALSE
