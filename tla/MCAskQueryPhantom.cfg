SPECIFICATION Spec
CONSTANTS
    t1 = t1
    t2 = t2
    w1 = w1
    w2 = w2
    q1 = q1
    NoQuestion = NoQuestion
    Bad = Bad
    Wrong = Wrong
    Tables <- MCTables
    Tasks <- MCTasks
    Questions <- MCQuestions
    Sql <- MCSql
    MaxChanges = 1
INVARIANT
    NoPhantomTables
