SPECIFICATION Spec
CONSTANTS
    Tab = {t1, t2}
    Source = {s1, s2}
    Template = {m1, m2}
    MaxChanges = 2
    MaxReviews = 2
SYMMETRY Interchangeable
INVARIANTS
    PreparedAsReviewed
    DoneAsShown
PROPERTIES
    AcknowledgedOnce
