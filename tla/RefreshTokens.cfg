\* Two requests at once over three tokens of two users
CONSTANTS
    Worker = {w1, w2}
    User = {u1, u2}
    Token = {t1, t2, t3}
    NoToken = NoToken
SPECIFICATION Spec
INVARIANTS
    TypeOK
    ExchangedIsRevoked
    OneTimeUse
    ReuseEndsSession
PROPERTIES
    OldSessionsEnd
SYMMETRY Symmetry
