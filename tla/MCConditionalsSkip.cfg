SPECIFICATION Spec
CONSTANTS
    Question = {"PKG-002", "PKG-005", "PKG-006", "AUT-001", "SEC-001",
                "AUT-004", "SEC-001-CATEGORIES"}
    Text = {"text"}
INVARIANTS
    SkippedHasCause
