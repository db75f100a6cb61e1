SPECIFICATION Spec
CONSTANTS
    Clients = {c1}
    Nonces = {n1, n2, n3}
    NoNonce = NoNonce
    Threads = {t1, t2}
    Scopes = {"read"}
    Policy = "strict"
    Limit <- Limits
    Window = 1
    BlockTime = 2
    NonceLife = 2
    SessionLife = 0
    MaxTime = 2
SYMMETRY Symmetry
INVARIANTS TypeOK DeniedClientsStayOut GuessesBounded
CHECK_DEADLOCK FALSE
