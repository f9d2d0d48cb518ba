SPECIFICATION Spec
CONSTANTS
    Request = {q1, q2}
    Revocable = {}
PROPERTY RotationWithoutDowntime
