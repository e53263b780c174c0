SPECIFICATION Spec
CONSTANTS
    q1 = q1
    q2 = q2
    o1 = o1
    Questions = {q1, q2}
    HiddenTests <- TestsHidden
    PublicTests <- TestsPublic
    Languages = {"python", "perl"}
    Objective = {o1}
    TypedForms <- FormsTyped
    RawQuestions <- QuestionsRaw
    Numbers <- NumbersTyped
    Marks <- PaperMarks
    Backends <- BothBackends
    Penalties = {0, 15, 40}
    MaxFaults = 2
    MaxEnds = 2
INVARIANTS GradedAsItRuns OutageCovered GradedAsMeant WithinScores PenaltyOnce
CHECK_DEADLOCK FALSE
