\* A quarantined line and a request for a model.
SPECIFICATION Spec
CONSTANTS
    a1 = a1
    a2 = a2
    a3 = a3
    line1 = line1
    Direct = Direct
    None = None
    Order <- MCOrder
    Lines = {Direct, line1}
    Profiles <- MCProfiles
    Models = {"", "glm"}
INVARIANT QuarantineRespected
