\* Two requests at once over two users, two links and two passwords
CONSTANTS
    User = {u1, u2}
    Name = {me, n1}
    Email = me
    Tenant = {t1}
    Provider = Provider
    Password = {p1, p2}
    Random = Random
    Link = {l1, l2}
    NoLink = NoLink
    Worker = {w1, w2}
SPECIFICATION Spec
CONSTRAINT Followed
SYMMETRY Symmetry
INVARIANTS
    TypeOK
    LastWord
    IdentityOnce
