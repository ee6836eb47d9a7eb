CONSTANTS
    Callers = {c1, c2}
    Texts = {t1}
    Stamps = {n1, n2}
    Emitted <- MCEmitted
    Numbers = {v9}
    Nil = Nil
    NoText = NoText
    Zero = Zero
    MaxWarnings = 2
    MaxCalls = 2
SPECIFICATION Spec
SYMMETRY MCSymmetry
INVARIANTS
    TypeOK
    WarnedOnce
    NoWarningLost
    CacheFromSuccess
