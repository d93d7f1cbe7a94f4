\* Names of one and two labels, in full and by pointers, two questions a packet.
SPECIFICATION Spec
CONSTANTS
    Labels <- MCLabels
    MaxLabels = 2
    MaxQuestions = 2
    Forms = {"pointer"}
INVARIANT WellAnswered
