CONSTANTS
    Requests = {q1}
    MaxContents = 2
SPECIFICATION Spec
PROPERTY
    RejectedIsNotBuilt
