SPECIFICATION FairSpec
CONSTANTS
    Request = {q1, q2}
    Revocable = {"order"}
INVARIANTS
    TypeOK
    AnswersAreHonest
    FailuresAreOwn
PROPERTIES
    RequestsMoveForward
    RequestsEnd
