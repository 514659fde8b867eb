CONSTANTS
    Requests = {r1, r2}
    Idle = 2
    Absolute = 3
    FormLife = 2
    MaxForms = 2
    MaxTime = 3
    MaxLogins = 2
    MaxTokens = 3
SPECIFICATION Spec
SYMMETRY RequestSymmetry
CHECK_DEADLOCK FALSE
INVARIANTS OneQuestionPerForm NewestFormsWork
