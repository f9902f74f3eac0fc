SPECIFICATION Spec
CONSTANTS
    Items = {i1, i2}
    Upload = {u1, u2}
    MaxEdits = 3
INVARIANTS
    ReceiptOfReviewed
PROPERTIES
    ImplementsReviewedRun
