SPECIFICATION Spec
CONSTANTS
    MaxAborts = 2
    MaxEscalations = 1
    Windows = {}
INVARIANTS AbortIsSound NoUnaskedEstop
PROPERTY RepliesStayInTheirSequence
