SPECIFICATION Spec
CONSTANTS
    Request = {q1}
    Revocable = {"gateway", "order"}
PROPERTY RevokedPeersRejected
