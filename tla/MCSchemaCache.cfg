SPECIFICATION Spec
CONSTANTS
    t1 = t1
    t2 = t2
    w1 = w1
    w2 = w2
    v1 = v1
    v2 = v2
    Tables <- MCTables
    Tasks <- MCTasks
    Forms = {v1}
    MaxChanges = 1
SYMMETRY MCSymmetry
INVARIANTS
    IndexBacked
PROPERTIES
    ImplementsSchemaContract
