----------------------------- MODULE Accounts_proofs -----------------------------
(***************************************************************************)
(* Proofs about Accounts.                                                  *)
(***************************************************************************)
EXTENDS Accounts, TLAPS

(***************************************************************************)
(* Users as records                                                        *)
(***************************************************************************)

LEMMA AccountRow ==
  ASSUME NEW n \in Name, NEW t \in Tenant \cup {Provider}, NEW p \in Password \cup {Random},
         NEW l \in Link \cup {NoLink}
  PROVE  /\ Account(n, t, p, l) \in Row
         /\ Account(n, t, p, l).name = n /\ Account(n, t, p, l).of = t
         /\ Account(n, t, p, l).password = p /\ Account(n, t, p, l).link = l
BY DEF Account, Row

LEMMA RowFields ==
  ASSUME NEW r \in Row
  PROVE  /\ r.name \in Name /\ r.of \in Tenant \cup {Provider}
         /\ r.password \in Password \cup {Random} /\ r.link \in Link \cup {NoLink}
         /\ r = Account(r.name, r.of, r.password, r.link)
         /\ r # NoUser
BY DEF Account, Row, NoUser

LEMMA RowWith ==
  ASSUME NEW r \in Row
  PROVE  /\ \A n \in Name : /\ WithName(r, n) \in Row /\ WithName(r, n).of = r.of
                           /\ WithName(r, n).password = r.password /\ WithName(r, n).link = r.link
         /\ \A p \in Password : /\ WithPassword(r, p) \in Row /\ WithPassword(r, p).of = r.of
                               /\ WithPassword(r, p).link = r.link
         /\ \A l \in Link \cup {NoLink} : /\ WithLink(r, l) \in Row /\ WithLink(r, l).of = r.of
                                         /\ WithLink(r, l).password = r.password
                                         /\ WithLink(r, l).link = l
<1>1. /\ r.name \in Name /\ r.of \in Tenant \cup {Provider}
      /\ r.password \in Password \cup {Random} /\ r.link \in Link \cup {NoLink}
  BY RowFields
<1>2. NoLink \in Link \cup {NoLink}
  OBVIOUS
<1>3. ASSUME NEW n \in Name
      PROVE  /\ WithName(r, n) \in Row /\ WithName(r, n).of = r.of
             /\ WithName(r, n).password = r.password /\ WithName(r, n).link = r.link
  BY <1>1 DEF WithName, Account, Row
<1>4. ASSUME NEW p \in Password
      PROVE  /\ WithPassword(r, p) \in Row /\ WithPassword(r, p).of = r.of
             /\ WithPassword(r, p).link = r.link
  BY <1>1 DEF WithPassword, Account, Row
<1>5. ASSUME NEW l \in Link \cup {NoLink}
      PROVE  /\ WithLink(r, l) \in Row /\ WithLink(r, l).of = r.of
             /\ WithLink(r, l).password = r.password /\ WithLink(r, l).link = l
  BY <1>1 DEF WithLink, Account, Row
<1> QED BY <1>3, <1>4, <1>5

Told == [password : Password \cup {Random}, link : Link \cup {NoLink}]

LEMMA ToldFields ==
  /\ \A t \in Told : t.password \in Password \cup {Random} /\ t.link \in Link \cup {NoLink}
  /\ \A p \in Password \cup {Random}, l \in Link \cup {NoLink} :
        [password |-> p, link |-> l] \in Told
BY DEF Told

(***************************************************************************)
(* Types and control                                                       *)
(***************************************************************************)

Ops == {"touch", "password", "rename", "forgot", "unlink", "reset", "remove"}

OnUser(w) == pc[w] \notin {"idle", "insert"}

LEMMA RequestFields ==
  /\ \A op \in Ops, u \in User :
        LET r == [op |-> op, user |-> u]
        IN  r \in [op : Ops, user : User] /\ r.op = op /\ r.user = u /\ r # NoReq
  /\ \A r \in [op : Ops, user : User] :
        r.op \in Ops /\ r.user \in User /\ r \in Request /\ r # NoReq
  /\ [op |-> "insert"] \in Request /\ [op |-> "insert"] # NoReq
BY DEF Ops, Request, NoReq

\* Where a request stands, and what it is about to save
Control ==
    \A w \in Worker :
        /\ pc[w] # "idle" => held[w] \in Row
        /\ OnUser(w) => req[w] \in [op : Ops, user : User]
        /\ pc[w] = "mail" => req[w].op = "forgot"
        /\ OnUser(w) /\ req[w].op = "forgot" => held[w].link \in Link

TypeInv == TypeOK /\ Control

\* The part of it that a step of one request can disturb
Typed(p, r, h, f) ==
    /\ p \in {"idle", "insert", "free", "save", "write", "mail", "delete"}
    /\ r \in Request \cup {NoReq}
    /\ h \in Row \cup {NoUser} /\ f \in Row \cup {NoUser}
    /\ p # "idle" => r # NoReq /\ h \in Row
    /\ p \notin {"idle", "insert"} => r \in [op : Ops, user : User]
    /\ p = "mail" => r.op = "forgot"
    /\ p \notin {"idle", "insert"} /\ r.op = "forgot" => h.link \in Link

Shared ==
    /\ rows \in [User -> Row \cup {NoUser}]
    /\ lapsed \subseteq Link /\ told \subseteq Link
    /\ used \subseteq User \cup Link
    /\ last \in [User -> Told \cup {NoUser}]
    /\ crossed \subseteq User
    /\ renamed \in BOOLEAN

Functions ==
    /\ pc = [w \in Worker |-> pc[w]] /\ req = [w \in Worker |-> req[w]]
    /\ held = [w \in Worker |-> held[w]] /\ found = [w \in Worker |-> found[w]]

AllTyped == \A w \in Worker : Typed(pc[w], req[w], held[w], found[w])

LEMMA TypeParts == TypeInv <=> Shared /\ Functions /\ AllTyped
<1>1. \A w \in Worker : held[w] \in Row => held[w] # NoUser
  BY RowFields
<1>2. ASSUME TypeInv PROVE Shared /\ Functions
  BY <1>2 DEF TypeInv, TypeOK, Shared, Functions, Told
<1>3. ASSUME TypeInv, NEW w \in Worker PROVE Typed(pc[w], req[w], held[w], found[w])
  BY <1>3 DEF TypeInv, TypeOK, Control, Typed, OnUser
<1>4. ASSUME Shared, Functions, AllTyped PROVE TypeInv
  <2>1. Control
    BY <1>4 DEF AllTyped, Control, Typed, OnUser
  <2>2. TypeOK
    BY <1>1, <1>4 DEF AllTyped, TypeOK, Shared, Functions, Typed, Told
  <2> QED BY <2>1, <2>2 DEF TypeInv
<1> QED BY <1>2, <1>3, <1>4 DEF AllTyped

\* A step of one request touches no other's
LEMMA OneMoves ==
  ASSUME TypeInv, NEW w \in Worker, NEW p, NEW r, NEW h, NEW f,
         pc' = [pc EXCEPT ![w] = p], req' = [req EXCEPT ![w] = r],
         held' = [held EXCEPT ![w] = h], found' = [found EXCEPT ![w] = f],
         Typed(p, r, h, f), Shared'
  PROVE  TypeInv'
<1>1. Functions /\ \A v \in Worker : Typed(pc[v], req[v], held[v], found[v])
  BY TypeParts DEF AllTyped
<1>2. Functions'
  BY <1>1 DEF Functions
<1>3. ASSUME NEW v \in Worker PROVE Typed(pc'[v], req'[v], held'[v], found'[v])
  <2>1. CASE v = w
    BY <1>1, <2>1 DEF Functions
  <2>2. CASE v # w
    <3>1. pc'[v] = pc[v] /\ req'[v] = req[v] /\ held'[v] = held[v] /\ found'[v] = found[v]
      BY <1>1, <2>2 DEF Functions
    <3> QED BY <1>1, <3>1
  <2> QED BY <2>1, <2>2
<1>4. AllTyped'
  BY <1>3 DEF AllTyped
<1>5. Shared' /\ Functions' /\ AllTyped' => TypeInv'
  BY TypeParts, PTL
<1> QED BY <1>2, <1>4, <1>5

\* Loading a row, and inserting one
LEMMA BeginTyped ==
  ASSUME TypeInv, NEW w \in Worker, NEW u \in User, NEW label \in {"free", "save", "delete"},
         NEW op \in Ops, NEW object \in Row, op = "forgot" => object.link \in Link,
         Begin(w, u, label, [op |-> op, user |-> u], object), used' \subseteq User \cup Link
  PROVE  TypeInv'
<1> DEFINE r == [op |-> op, user |-> u]
<1>1. r \in [op : Ops, user : User] /\ r \in Request /\ r # NoReq /\ r.op = op
  BY RequestFields
<1> HIDE DEF r
<1>2. Shared /\ Functions /\ found[w] \in Row \cup {NoUser}
  BY TypeParts DEF AllTyped, Typed
<1>3. Typed(label, r, object, found[w])
  BY <1>1, <1>2 DEF Typed
<1>4. Shared'
  BY <1>2 DEF Begin, Shared
<1>5. /\ pc' = [pc EXCEPT ![w] = label] /\ req' = [req EXCEPT ![w] = r]
      /\ held' = [held EXCEPT ![w] = object] /\ found' = [found EXCEPT ![w] = found[w]]
  BY <1>2 DEF Begin, Goto, Functions, r
<1> QED BY <1>3, <1>4, <1>5, OneMoves

LEMMA BeginInsertTyped ==
  ASSUME TypeInv, NEW w \in Worker, NEW object \in Row, BeginInsert(w, object)
  PROVE  TypeInv'
<1> DEFINE r == [op |-> "insert"]
<1>1. r \in Request /\ r # NoReq
  BY RequestFields
<1> HIDE DEF r
<1>2. Shared /\ Functions /\ found[w] \in Row \cup {NoUser}
  BY TypeParts DEF AllTyped, Typed
<1>3. Typed("insert", r, object, found[w])
  BY <1>1, <1>2 DEF Typed
<1>4. Shared'
  BY <1>2 DEF BeginInsert, Shared, ghosts
<1>5. /\ pc' = [pc EXCEPT ![w] = "insert"] /\ req' = [req EXCEPT ![w] = r]
      /\ held' = [held EXCEPT ![w] = object] /\ found' = [found EXCEPT ![w] = found[w]]
  BY <1>2 DEF BeginInsert, Goto, Functions, r
<1> QED BY <1>3, <1>4, <1>5, OneMoves

\* An answer, whatever it does to the rows
LEMMA AnswerTyped ==
  ASSUME TypeInv, NEW w \in Worker, NEW from, Answer(w, from), Shared'
  PROVE  TypeInv'
<1>1. Typed("idle", NoReq, NoUser, NoUser)
  BY DEF Typed
<1> QED BY <1>1, OneMoves DEF Answer, Goto

\* A request that goes on
LEMMA GoesOnTyped ==
  ASSUME TypeInv, NEW w \in Worker, OnUser(w), NEW p \in {"save", "write", "mail"},
         NEW f \in Row \cup {NoUser}, p = "mail" => req[w].op = "forgot", Shared',
         pc' = [pc EXCEPT ![w] = p], found' = [found EXCEPT ![w] = f], UNCHANGED <<req, held>>
  PROVE  TypeInv'
<1>1. Functions /\ Typed(pc[w], req[w], held[w], found[w])
  BY TypeParts DEF AllTyped
<1>2. Typed(p, req[w], held[w], f)
  BY <1>1 DEF Typed, OnUser
<1>3. req' = [req EXCEPT ![w] = req[w]] /\ held' = [held EXCEPT ![w] = held[w]]
  BY <1>1 DEF Functions
<1> QED BY <1>2, <1>3, OneMoves

LEMMA ReceiveTyped ==
  ASSUME TypeInv, NEW w \in Worker, Receive(w)
  PROVE  TypeInv'
<1>1. Shared
  BY TypeParts
<1>2. ASSUME NEW u \in User, Exists(u) PROVE rows[u] \in Row
  BY <1>1, <1>2 DEF Shared, Exists
<1>3. CASE \E n \in Name, t \in Tenant, p \in Password : Register(w, n, t, p)
  <2>1. PICK n \in Name, t \in Tenant, p \in Password : Register(w, n, t, p)
    BY <1>3
  <2>2. Account(n, t, p, NoLink) \in Row
    BY DEF Account, Row
  <2> QED BY <2>1, <2>2, BeginInsertTyped DEF Register
<1>4. CASE FirstLogin(w)
  <2>1. Account(Email, Provider, Random, NoLink) \in Row
    BY AccountsAssumption DEF Account, Row, AccountsAssumption
  <2> QED BY <1>4, <2>1, BeginInsertTyped DEF FirstLogin
<1>5. ASSUME NEW u \in User, Touch(w, u) PROVE TypeInv'
  <2>1. Begin(w, u, "save", [op |-> "touch", user |-> u], rows[u]) /\ used' = used
    BY <1>5 DEF Touch
  <2>2. rows[u] \in Row /\ "touch" \in Ops
    BY <1>2, <2>1 DEF Begin, Ops
  <2> QED BY <1>1, <2>1, <2>2, BeginTyped DEF Shared
<1>6. ASSUME NEW u \in User, BeginRemove(w, u) PROVE TypeInv'
  <2>1. Begin(w, u, "delete", [op |-> "remove", user |-> u], rows[u]) /\ used' = used
    BY <1>6 DEF BeginRemove
  <2>2. rows[u] \in Row /\ "remove" \in Ops
    BY <1>2, <2>1 DEF Begin, Ops
  <2> QED BY <1>1, <2>1, <2>2, BeginTyped DEF Shared
<1>7. ASSUME NEW u \in User, NEW p \in Password, SetPassword(w, u, p) PROVE TypeInv'
  <2>1. /\ Begin(w, u, "save", [op |-> "password", user |-> u], WithPassword(rows[u], p))
        /\ used' = used
    BY <1>7 DEF SetPassword
  <2>2. WithPassword(rows[u], p) \in Row /\ "password" \in Ops
    BY <1>2, <2>1, RowWith DEF Begin, Ops
  <2> QED BY <1>1, <2>1, <2>2, BeginTyped DEF Shared
<1>8. ASSUME NEW u \in User, NEW n \in Name, Rename(w, u, n) PROVE TypeInv'
  <2>1. /\ Begin(w, u, "free", [op |-> "rename", user |-> u], WithName(rows[u], n))
        /\ used' = used
    BY <1>8 DEF Rename
  <2>2. WithName(rows[u], n) \in Row /\ "rename" \in Ops
    BY <1>2, <2>1, RowWith DEF Begin, Ops
  <2> QED BY <1>1, <2>1, <2>2, BeginTyped DEF Shared
<1>9. ASSUME NEW u \in User, NEW l \in Link, Forgot(w, u, l) PROVE TypeInv'
  <2>1. /\ Begin(w, u, "save", [op |-> "forgot", user |-> u], WithLink(rows[u], l))
        /\ used' = used \cup {l}
    BY <1>9 DEF Forgot
  <2>2. WithLink(rows[u], l) \in Row /\ WithLink(rows[u], l).link \in Link /\ "forgot" \in Ops
    BY <1>2, <2>1, RowWith DEF Begin, Ops
  <2> QED BY <1>1, <2>1, <2>2, BeginTyped DEF Shared
<1>10. ASSUME NEW u \in User, NEW l \in Link, NEW p \in Password, Reset(w, u, l, p)
       PROVE  TypeInv'
  <2>1. /\ Begin(w, u, "save", [op |-> "reset", user |-> u],
                 WithLink(WithPassword(rows[u], p), NoLink))
        /\ used' = used
    BY <1>10 DEF Reset
  <2>2. WithPassword(rows[u], p) \in Row
    BY <1>2, <2>1, RowWith DEF Begin
  <2>3. WithLink(WithPassword(rows[u], p), NoLink) \in Row /\ "reset" \in Ops
    BY <2>2, RowWith DEF Ops
  <2> QED BY <1>1, <2>1, <2>3, BeginTyped DEF Shared
<1> QED BY <1>3, <1>4, <1>5, <1>6, <1>7, <1>8, <1>9, <1>10 DEF Receive

\* What a save stores is a row, or nothing
LEMMA StoredRow ==
  ASSUME TypeInv, NEW w \in Worker, OnUser(w)
  PROVE  /\ Stored(w) \in Row \cup {NoUser}
         /\ found[w] = NoUser => Stored(w) = held[w]
         /\ found[w] # NoUser /\ rows[req[w].user] # NoUser =>
                /\ Stored(w).of = rows[req[w].user].of
                /\ Stored(w).name \in {held[w].name, rows[req[w].user].name}
         /\ found[w] # NoUser /\ rows[req[w].user] = NoUser => Stored(w) = NoUser
<1> DEFINE u == req[w].user
           now == rows[u]
           was == found[w]
           new == held[w]
<1>1. u \in User /\ new \in Row /\ was \in Row \cup {NoUser} /\ now \in Row \cup {NoUser}
  BY TypeParts, RequestFields DEF AllTyped, Typed, Shared, OnUser
<1>2. CASE was = NoUser
  BY <1>1, <1>2 DEF Stored
<1>3. CASE was # NoUser /\ now = NoUser
  BY <1>1, <1>3 DEF Stored
<1>4. CASE was # NoUser /\ now # NoUser
  <2>1. was \in Row /\ now \in Row
    BY <1>1, <1>4
  <2>2. PICK n, p, l : /\ Stored(w) = Account(n, now.of, p, l)
                       /\ n \in {new.name, now.name}
                       /\ p \in {new.password, now.password} /\ l \in {new.link, now.link}
    <3>1. Stored(w) = Account(IF new.name # was.name THEN new.name ELSE now.name, now.of,
                              IF new.password # was.password THEN new.password ELSE now.password,
                              IF new.link # was.link THEN new.link ELSE now.link)
      BY <1>4 DEF Stored
    <3> QED BY <3>1
  <2>3. /\ n \in Name /\ now.of \in Tenant \cup {Provider}
        /\ p \in Password \cup {Random} /\ l \in Link \cup {NoLink}
    BY <1>1, <2>1, <2>2, RowFields
  <2>4. Stored(w) \in Row /\ Stored(w).of = now.of /\ Stored(w).name = n
    BY <2>2, <2>3 DEF Account, Row
  <2> QED BY <1>4, <2>2, <2>4
<1> QED BY <1>2, <1>3, <1>4

\* Its link is the one the request held or the one the row had; if the row is as
\* it was found, it is what the request held.
LEMMA StoredLink ==
  ASSUME TypeInv, NEW w \in Worker, OnUser(w)
  PROVE  /\ Stored(w) # NoUser =>
                \/ Stored(w).link = held[w].link
                \/ Exists(req[w].user) /\ Stored(w).link = rows[req[w].user].link
         /\ Exists(req[w].user) /\ found[w] = rows[req[w].user] =>
                /\ Stored(w) \in Row
                /\ Stored(w).password = held[w].password /\ Stored(w).link = held[w].link
<1> DEFINE u == req[w].user
           now == rows[u]
           was == found[w]
           new == held[w]
<1>1. u \in User /\ new \in Row /\ was \in Row \cup {NoUser} /\ now \in Row \cup {NoUser}
  BY TypeParts, RequestFields DEF AllTyped, Typed, Shared, OnUser
<1> SUFFICES /\ Stored(w) # NoUser =>
                    \/ Stored(w).link = new.link
                    \/ now # NoUser /\ Stored(w).link = now.link
             /\ now # NoUser /\ was = now =>
                    /\ Stored(w) \in Row
                    /\ Stored(w).password = new.password /\ Stored(w).link = new.link
  BY DEF Exists
<1>2. CASE was = NoUser
  <2>1. Stored(w) = new
    BY <1>2 DEF Stored
  <2> QED BY <1>2, <2>1
<1>3. CASE was # NoUser /\ now = NoUser
  <2>1. Stored(w) = NoUser
    BY <1>3 DEF Stored
  <2> QED BY <1>3, <2>1
<1>4. CASE was # NoUser /\ now # NoUser
  <2> DEFINE n == IF new.name # was.name THEN new.name ELSE now.name
             p == IF new.password # was.password THEN new.password ELSE now.password
             l == IF new.link # was.link THEN new.link ELSE now.link
  <2>1. /\ Stored(w) = Account(n, now.of, p, l)
        /\ was = now => p = new.password /\ l = new.link
        /\ l \in {new.link, now.link}
    BY <1>4 DEF Stored
  <2>2. /\ n \in Name /\ now.of \in Tenant \cup {Provider}
        /\ p \in Password \cup {Random} /\ l \in Link \cup {NoLink}
    BY <1>1, <1>4, RowFields
  <2> HIDE DEF n, p, l
  <2>3. Stored(w) \in Row /\ Stored(w).password = p /\ Stored(w).link = l
    BY <2>1, <2>2 DEF Account, Row
  <2> QED BY <1>4, <2>1, <2>3
<1> QED BY <1>2, <1>3, <1>4

\* What a user was told stays well-formed
LEMMA TellTyped ==
  ASSUME Shared, NEW u \in User, NEW p, NEW l,
         last[u] # NoUser => p \in Password \cup {Random} /\ l \in Link \cup {NoLink},
         Tell(u, p, l)
  PROVE  last' \in [User -> Told \cup {NoUser}]
<1>1. last \in [User -> Told \cup {NoUser}]
  BY DEF Shared
<1>2. CASE last[u] = NoUser
  BY <1>1, <1>2 DEF Tell
<1>3. CASE last[u] # NoUser
  <2>1. [password |-> p, link |-> l] \in Told
    BY <1>3, ToldFields
  <2> QED BY <1>1, <1>3, <2>1 DEF Tell
<1> QED BY <1>2, <1>3

LEMMA SavedTyped ==
  ASSUME TypeInv, NEW w \in Worker, OnUser(w), Saved(w)
  PROVE  last' \in [User -> Told \cup {NoUser}]
<1> DEFINE r == req[w]
           p == IF r.op \in {"password", "reset"} THEN held[w].password ELSE last[r.user].password
           l == IF r.op \in {"forgot", "unlink", "reset"} THEN NoLink ELSE last[r.user].link
<1>1. Shared /\ r.user \in User /\ held[w] \in Row
  BY TypeParts, RequestFields DEF AllTyped, Typed, OnUser
<1>2. ASSUME last[r.user] # NoUser PROVE p \in Password \cup {Random} /\ l \in Link \cup {NoLink}
  <2>1. last[r.user] \in Told
    BY <1>1, <1>2 DEF Shared
  <2>2. /\ last[r.user].password \in Password \cup {Random} /\ last[r.user].link \in Link \cup {NoLink}
        /\ held[w].password \in Password \cup {Random}
    BY <1>1, <2>1, ToldFields, RowFields
  <2> QED BY <2>2
<1>3. Tell(r.user, p, l)
  BY DEF Saved
<1> HIDE DEF p, l
<1> QED BY <1>1, <1>2, <1>3, TellTyped

LEMMA ProceedTyped ==
  ASSUME TypeInv, NEW w \in Worker, Proceed(w)
  PROVE  TypeInv'
<1>1. Shared /\ Functions /\ Typed(pc[w], req[w], held[w], found[w])
  BY TypeParts DEF AllTyped
<1>2. ASSUME OnUser(w) PROVE req[w].user \in User /\ held[w] \in Row /\ req[w].op \in Ops
  BY <1>1, <1>2, RequestFields DEF Typed, OnUser
<1>3. ASSUME NEW u \in User, Insert(w, u) PROVE TypeInv'
  <2>1. held[w] \in Row
    BY <1>1, <1>3 DEF Insert, Answer, Goto, Typed
  <2>2. [password |-> held[w].password, link |-> NoLink] \in Told
    BY <2>1, RowFields, ToldFields
  <2>3. rows' \in [User -> Row \cup {NoUser}] /\ last' \in [User -> Told \cup {NoUser}]
    BY <1>1, <1>3, <2>1, <2>2 DEF Insert, Shared
  <2>4. Shared'
    BY <1>1, <1>3, <2>3 DEF Insert, Shared
  <2> QED BY <1>3, <2>4, AnswerTyped DEF Insert
<1>4. CASE FindFree(w)
  <2>1. Shared' /\ OnUser(w)
    BY <1>1, <1>4 DEF FindFree, Shared, ghosts, Goto, OnUser
  <2>2. pc' = [pc EXCEPT ![w] = "save"] /\ found' = [found EXCEPT ![w] = found[w]]
    BY <1>1, <1>4 DEF FindFree, Goto, Functions
  <2>3. found[w] \in Row \cup {NoUser} /\ UNCHANGED <<req, held>>
    BY <1>1, <1>4 DEF FindFree, Typed
  <2> QED BY <2>1, <2>2, <2>3, GoesOnTyped
<1>5. CASE Compare(w)
  <2>1. Shared' /\ OnUser(w)
    BY <1>1, <1>5 DEF Compare, Shared, ghosts, Goto, OnUser
  <2>2. pc' = [pc EXCEPT ![w] = "write"] /\ found' = [found EXCEPT ![w] = rows[req[w].user]]
    BY <1>5 DEF Compare, Goto
  <2>3. rows[req[w].user] \in Row \cup {NoUser} /\ UNCHANGED <<req, held>>
    BY <1>1, <1>2, <1>5, <2>1 DEF Compare, Shared
  <2> QED BY <2>1, <2>2, <2>3, GoesOnTyped
<1>6. CASE Write(w)
  <2>1. OnUser(w)
    BY <1>6 DEF Write, Goto, Answer, OnUser
  <2>2. last' \in [User -> Told \cup {NoUser}]
    BY <1>6, <2>1, SavedTyped DEF Write
  <2>3. rows' \in [User -> Row \cup {NoUser}]
    BY <1>1, <1>2, <1>6, <2>1, StoredRow DEF Write, Shared
  <2>4. renamed' \in BOOLEAN
    BY <1>1, <1>6 DEF Write, Shared
  <2>5. Shared'
    BY <1>1, <1>6, <2>2, <2>3, <2>4 DEF Write, Shared
  <2>6. CASE req[w].op = "forgot"
    <3>1. pc' = [pc EXCEPT ![w] = "mail"] /\ found' = [found EXCEPT ![w] = found[w]]
      BY <1>1, <1>6, <2>6 DEF Write, Goto, Functions
    <3>2. found[w] \in Row \cup {NoUser} /\ UNCHANGED <<req, held>>
      BY <1>1, <1>6, <2>6 DEF Write, Typed
    <3> QED BY <2>1, <2>5, <2>6, <3>1, <3>2, GoesOnTyped
  <2>7. CASE req[w].op # "forgot"
    BY <1>6, <2>5, <2>7, AnswerTyped DEF Write
  <2> QED BY <2>6, <2>7
<1>7. CASE Mailed(w)
  <2>1. OnUser(w) /\ req[w].op = "forgot" /\ held[w].link \in Link
    BY <1>1, <1>7 DEF Mailed, Answer, Goto, OnUser, Typed
  <2>2. last[req[w].user] # NoUser => last[req[w].user].password \in Password \cup {Random}
    BY <1>1, <1>2, <2>1, ToldFields DEF Shared
  <2>3. last' \in [User -> Told \cup {NoUser}]
    BY <1>1, <1>2, <1>7, <2>1, <2>2, TellTyped DEF Mailed
  <2>4. Shared'
    BY <1>1, <1>7, <2>1, <2>3 DEF Mailed, Shared
  <2> QED BY <1>7, <2>4, AnswerTyped DEF Mailed
<1>8. CASE NotMailed(w)
  <2> DEFINE r == [op |-> "unlink", user |-> req[w].user]
             h == WithLink(held[w], NoLink)
  <2>1. OnUser(w) /\ Shared'
    BY <1>1, <1>8 DEF NotMailed, Goto, OnUser, Shared, ghosts
  <2>2. h \in Row
    BY <1>2, <2>1, RowWith
  <2>3. r \in [op : Ops, user : User] /\ r \in Request /\ r # NoReq /\ r.op = "unlink"
    <3>1. "unlink" \in Ops
      BY DEF Ops
    <3> QED BY <1>2, <2>1, <3>1, RequestFields
  <2>4. /\ pc' = [pc EXCEPT ![w] = "save"] /\ req' = [req EXCEPT ![w] = r]
        /\ held' = [held EXCEPT ![w] = h] /\ found' = [found EXCEPT ![w] = found[w]]
    BY <1>1, <1>8 DEF NotMailed, Goto, Functions
  <2> HIDE DEF r, h
  <2>5. Typed("save", r, h, found[w])
    BY <1>1, <2>2, <2>3 DEF Typed
  <2> QED BY <2>1, <2>4, <2>5, OneMoves
<1>9. CASE Delete(w)
  <2>1. OnUser(w)
    BY <1>9 DEF Delete, Answer, Goto, OnUser
  <2>2. Shared'
    BY <1>1, <1>2, <1>9, <2>1 DEF Delete, Shared
  <2> QED BY <1>9, <2>2, AnswerTyped DEF Delete
<1> QED BY <1>3, <1>4, <1>5, <1>6, <1>7, <1>8, <1>9 DEF Proceed

LEMMA NextTyped == TypeInv /\ [Next]_vars => TypeInv'
<1> SUFFICES ASSUME TypeInv, [Next]_vars PROVE TypeInv'
  OBVIOUS
<1>1. Shared
  BY TypeParts
<1>2. ASSUME NEW w \in Worker, Fail(w) PROVE TypeInv'
  <2>1. Shared'
    BY <1>1, <1>2 DEF Fail, Shared, ghosts
  <2> QED BY <1>2, <2>1, AnswerTyped DEF Fail
<1>3. ASSUME NEW l \in Link, Lapse(l) PROVE TypeInv'
  BY <1>3 DEF Lapse, ghosts, TypeInv, TypeOK, Control, OnUser
<1>4. CASE UNCHANGED vars
  BY <1>4 DEF vars, ghosts, TypeInv, TypeOK, Control, OnUser
<1> QED BY <1>2, <1>3, <1>4, ReceiveTyped, ProceedTyped DEF Next

LEMMA InitTyped == Init => TypeInv
<1> SUFFICES ASSUME Init PROVE TypeInv
  OBVIOUS
<1>1. Shared
  BY DEF Init, Shared
<1>2. Functions /\ AllTyped
  BY DEF Init, Functions, AllTyped, Typed
<1> QED BY <1>1, <1>2, TypeParts

\* Rows, mailed links and requests stay well-formed, and a request that saves
\* holds an object, for any number of users, links and requests
\* (auth.service.ts).
THEOREM TypeCorrect == Spec => []TypeOK
<1>1. TypeInv => TypeOK
  BY DEF TypeInv
<1> QED BY <1>1, InitTyped, NextTyped, PTL DEF Spec

(***************************************************************************)
(* One person has one row                                                  *)
(***************************************************************************)

\* Nobody changes where a user came from: a request that saves a user remembers
\* what every other one and the row say, whether the row is still there or not.
Origin ==
    /\ \A u \in User : Exists(u) => u \in used
    /\ \A w \in Worker : OnUser(w) =>
        /\ req[w].user \in used
        /\ Exists(req[w].user) => held[w].of = rows[req[w].user].of
    /\ \A w, v \in Worker :
        OnUser(w) /\ OnUser(v) /\ req[w].user = req[v].user => held[w].of = held[v].of

UniqueNames ==
    \A u, v \in User : Exists(u) /\ Exists(v) /\ rows[u].name = rows[v].name => u = v

\* Users of the provider are called by their address
Addressed ==
    /\ \A w \in Worker : pc[w] = "insert" /\ held[w].of = Provider => held[w].name = Email
    /\ ~renamed => \A u \in User : Exists(u) /\ rows[u].of = Provider => rows[u].name = Email

IdentityInv == Origin /\ UniqueNames /\ Addressed

\* What a request holds after a step: an object on its way to be inserted, the
\* user it had, or one that is there
Follows(w) ==
    /\ OnUser(w)' =>
        \/ OnUser(w) /\ req'[w].user = req[w].user /\ held'[w].of = held[w].of
        \/ Exists(req'[w].user) /\ held'[w].of = rows[req'[w].user].of
    /\ pc'[w] = "insert" =>
        \/ pc[w] = "insert" /\ held'[w] = held[w]
        \/ held'[w].of = Provider => held'[w].name = Email

\* A step that changes no row, but for removing some
LEMMA RowsKept ==
  ASSUME TypeInv, TypeInv', IdentityInv, used \subseteq used', renamed' = renamed,
         \A u \in User : rows'[u] \in {rows[u], NoUser}, \A w \in Worker : Follows(w)
  PROVE  IdentityInv'
<1>1. \A u \in User : Exists(u)' => Exists(u) /\ rows'[u] = rows[u]
  BY DEF Exists
<1>2. \A w \in Worker : OnUser(w)' => req'[w].user \in User
  BY RequestFields DEF TypeInv, Control
<1>3. Origin'
  <2>1. \A u \in User : Exists(u)' => u \in used'
    BY <1>1 DEF IdentityInv, Origin
  <2>2. ASSUME NEW w \in Worker, OnUser(w)'
        PROVE  req'[w].user \in used' /\ (Exists(req[w].user)' => held'[w].of = rows'[req'[w].user].of)
    BY <1>1, <1>2, <2>2 DEF IdentityInv, Origin, Follows
  <2>3. ASSUME NEW w \in Worker, NEW v \in Worker, OnUser(w)', OnUser(v)', req'[w].user = req'[v].user
        PROVE  held'[w].of = held'[v].of
    BY <1>2, <2>3 DEF IdentityInv, Origin, Follows
  <2> QED BY <2>1, <2>2, <2>3 DEF Origin
<1>4. UniqueNames'
  BY <1>1 DEF IdentityInv, UniqueNames
<1>5. Addressed'
  BY <1>1 DEF IdentityInv, Addressed, Follows
<1> QED BY <1>3, <1>4, <1>5 DEF IdentityInv

LEMMA FollowsOthers ==
  ASSUME NEW w \in Worker, \A v \in Worker \ {w} : pc'[v] = pc[v] /\ req'[v] = req[v] /\ held'[v] = held[v],
         Follows(w)
  PROVE  \A v \in Worker : Follows(v)
BY DEF Follows, OnUser

LEMMA BeginFollows ==
  ASSUME TypeInv, TypeInv', IdentityInv, NEW w \in Worker, NEW u \in User, NEW op \in Ops,
         NEW label \in {"free", "save", "delete"}, NEW object \in Row, object.of = rows[u].of,
         Begin(w, u, label, [op |-> op, user |-> u], object), used \subseteq used'
  PROVE  IdentityInv'
<1> DEFINE r == [op |-> op, user |-> u]
<1>1. r.user = u
  BY RequestFields
<1> HIDE DEF r
<1>2. Functions
  BY TypeParts
<1>3. /\ \A v \in Worker \ {w} : pc'[v] = pc[v] /\ req'[v] = req[v] /\ held'[v] = held[v]
      /\ pc'[w] = label /\ req'[w] = r /\ held'[w] = object /\ Exists(u)
      /\ rows' = rows /\ renamed' = renamed
  BY <1>2 DEF Begin, Goto, Functions, r
<1>4. Follows(w)
  BY <1>1, <1>3 DEF Follows
<1> QED BY <1>3, <1>4, FollowsOthers, RowsKept

LEMMA InsertFollows ==
  ASSUME TypeInv, TypeInv', IdentityInv, NEW w \in Worker, NEW object \in Row,
         object.of = Provider => object.name = Email, BeginInsert(w, object)
  PROVE  IdentityInv'
<1>1. Functions
  BY TypeParts
<1>2. /\ \A v \in Worker \ {w} : pc'[v] = pc[v] /\ req'[v] = req[v] /\ held'[v] = held[v]
      /\ pc'[w] = "insert" /\ held'[w] = object
      /\ rows' = rows /\ renamed' = renamed /\ used' = used
  BY <1>1 DEF BeginInsert, Goto, Functions, ghosts
<1>3. Follows(w)
  BY <1>2 DEF Follows, OnUser
<1> QED BY <1>2, <1>3, FollowsOthers, RowsKept

LEMMA AnswerFollows ==
  ASSUME TypeInv, NEW w \in Worker, NEW from, Answer(w, from)
  PROVE  /\ \A v \in Worker \ {w} : pc'[v] = pc[v] /\ req'[v] = req[v] /\ held'[v] = held[v]
         /\ pc'[w] = "idle"
         /\ \A v \in Worker : Follows(v)
<1>1. Functions
  BY TypeParts
<1>2. /\ \A v \in Worker \ {w} : pc'[v] = pc[v] /\ req'[v] = req[v] /\ held'[v] = held[v]
      /\ pc'[w] = "idle"
  BY <1>1 DEF Answer, Goto, Functions
<1>3. Follows(w)
  BY <1>2 DEF Follows, OnUser
<1> QED BY <1>2, <1>3, FollowsOthers

LEMMA ReceiveIdentity ==
  ASSUME TypeInv, TypeInv', IdentityInv, NEW w \in Worker, Receive(w)
  PROVE  IdentityInv'
<1>1. ASSUME NEW u \in User, Exists(u) PROVE rows[u] \in Row
  BY <1>1, TypeParts DEF Shared, Exists
<1>2. CASE \E n \in Name, t \in Tenant, p \in Password : Register(w, n, t, p)
  <2>1. PICK n \in Name, t \in Tenant, p \in Password : Register(w, n, t, p)
    BY <1>2
  <2>2. Account(n, t, p, NoLink) \in Row /\ Account(n, t, p, NoLink).of = t
    BY DEF Account, Row
  <2>3. t # Provider
    BY AccountsAssumption DEF AccountsAssumption
  <2> QED BY <2>1, <2>2, <2>3, InsertFollows DEF Register
<1>3. CASE FirstLogin(w)
  <2>1. /\ Account(Email, Provider, Random, NoLink) \in Row
        /\ Account(Email, Provider, Random, NoLink).name = Email
    BY AccountsAssumption DEF Account, Row, AccountsAssumption
  <2> QED BY <1>3, <2>1, InsertFollows DEF FirstLogin
<1>4. ASSUME NEW u \in User, Touch(w, u) PROVE IdentityInv'
  <2>1. Begin(w, u, "save", [op |-> "touch", user |-> u], rows[u]) /\ used' = used
    BY <1>4 DEF Touch
  <2>2. rows[u] \in Row /\ "touch" \in Ops
    BY <1>1, <2>1 DEF Begin, Ops
  <2> QED BY <2>1, <2>2, BeginFollows
<1>5. ASSUME NEW u \in User, BeginRemove(w, u) PROVE IdentityInv'
  <2>1. Begin(w, u, "delete", [op |-> "remove", user |-> u], rows[u]) /\ used' = used
    BY <1>5 DEF BeginRemove
  <2>2. rows[u] \in Row /\ "remove" \in Ops
    BY <1>1, <2>1 DEF Begin, Ops
  <2> QED BY <2>1, <2>2, BeginFollows
<1>6. ASSUME NEW u \in User, NEW p \in Password, SetPassword(w, u, p) PROVE IdentityInv'
  <2>1. /\ Begin(w, u, "save", [op |-> "password", user |-> u], WithPassword(rows[u], p))
        /\ used' = used
    BY <1>6 DEF SetPassword
  <2>2. /\ WithPassword(rows[u], p) \in Row /\ WithPassword(rows[u], p).of = rows[u].of
        /\ "password" \in Ops
    BY <1>1, <2>1, RowWith DEF Begin, Ops
  <2> QED BY <2>1, <2>2, BeginFollows
<1>7. ASSUME NEW u \in User, NEW n \in Name, Rename(w, u, n) PROVE IdentityInv'
  <2>1. /\ Begin(w, u, "free", [op |-> "rename", user |-> u], WithName(rows[u], n))
        /\ used' = used
    BY <1>7 DEF Rename
  <2>2. WithName(rows[u], n) \in Row /\ WithName(rows[u], n).of = rows[u].of /\ "rename" \in Ops
    BY <1>1, <2>1, RowWith DEF Begin, Ops
  <2> QED BY <2>1, <2>2, BeginFollows
<1>8. ASSUME NEW u \in User, NEW l \in Link, Forgot(w, u, l) PROVE IdentityInv'
  <2>1. /\ Begin(w, u, "save", [op |-> "forgot", user |-> u], WithLink(rows[u], l))
        /\ used' = used \cup {l}
    BY <1>8 DEF Forgot
  <2>2. WithLink(rows[u], l) \in Row /\ WithLink(rows[u], l).of = rows[u].of /\ "forgot" \in Ops
    BY <1>1, <2>1, RowWith DEF Begin, Ops
  <2> QED BY <2>1, <2>2, BeginFollows
<1>9. ASSUME NEW u \in User, NEW l \in Link, NEW p \in Password, Reset(w, u, l, p)
      PROVE  IdentityInv'
  <2>1. /\ Begin(w, u, "save", [op |-> "reset", user |-> u],
                 WithLink(WithPassword(rows[u], p), NoLink))
        /\ used' = used
    BY <1>9 DEF Reset
  <2>2. WithPassword(rows[u], p) \in Row /\ WithPassword(rows[u], p).of = rows[u].of
    BY <1>1, <2>1, RowWith DEF Begin
  <2>3. /\ WithLink(WithPassword(rows[u], p), NoLink) \in Row
        /\ WithLink(WithPassword(rows[u], p), NoLink).of = rows[u].of
        /\ "reset" \in Ops
    BY <2>2, RowWith DEF Ops
  <2> QED BY <2>1, <2>3, BeginFollows
<1> QED BY <1>2, <1>3, <1>4, <1>5, <1>6, <1>7, <1>8, <1>9 DEF Receive

\* The new row has a name nobody had, and an id nobody works on
LEMMA InsertIdentity ==
  ASSUME TypeInv, TypeInv', IdentityInv, NEW w \in Worker, NEW u \in User, Insert(w, u)
  PROVE  IdentityInv'
<1>1. Shared /\ Functions /\ held[w] \in Row
  BY TypeParts DEF AllTyped, Typed, Insert, Answer, Goto
<1>2. /\ \A v \in Worker \ {w} : pc'[v] = pc[v] /\ req'[v] = req[v] /\ held'[v] = held[v]
      /\ pc'[w] = "idle" /\ pc[w] = "insert"
  BY AnswerFollows DEF Insert, Answer, Goto
<1>3. /\ rows'[u] = held[w] /\ \A v \in User \ {u} : rows'[v] = rows[v]
      /\ used' = used \cup {u} /\ u \notin used /\ renamed' = renamed
      /\ \A v \in User \ {u} : Exists(v) => rows[v].name # held[w].name
  BY <1>1 DEF Insert, Shared, Free
<1>4. ASSUME NEW v \in Worker, OnUser(v)'
      PROVE  v # w /\ OnUser(v) /\ req[v].user \in User \ {u}
  <2>1. v # w /\ OnUser(v)
    BY <1>2, <1>4 DEF OnUser
  <2>2. req[v].user \in User
    BY <2>1, RequestFields DEF TypeInv, Control
  <2>3. req[v].user \in used
    BY <2>1 DEF IdentityInv, Origin
  <2> QED BY <1>3, <2>1, <2>2, <2>3
<1>5. Origin'
  <2>1. \A v \in User : Exists(v)' => v \in used'
    BY <1>3 DEF IdentityInv, Origin, Exists
  <2>2. ASSUME NEW v \in Worker, OnUser(v)'
        PROVE  req'[v].user \in used' /\ (Exists(req[v].user)' => held'[v].of = rows'[req'[v].user].of)
    BY <1>2, <1>3, <1>4, <2>2 DEF IdentityInv, Origin, Exists
  <2>3. ASSUME NEW v \in Worker, NEW x \in Worker, OnUser(v)', OnUser(x)', req'[v].user = req'[x].user
        PROVE  held'[v].of = held'[x].of
    BY <1>2, <1>4, <2>3 DEF IdentityInv, Origin
  <2> QED BY <2>1, <2>2, <2>3 DEF Origin
<1>6. UniqueNames'
  BY <1>3 DEF IdentityInv, UniqueNames, Exists
<1>7. Addressed'
  BY <1>2, <1>3 DEF IdentityInv, Addressed, Exists
<1> QED BY <1>5, <1>6, <1>7 DEF IdentityInv

\* A save stores an object of the same origin, under a name that is free, which is
\* the one it held or the one the row had
LEMMA WriteIdentity ==
  ASSUME TypeInv, TypeInv', IdentityInv, NEW w \in Worker, Write(w)
  PROVE  IdentityInv'
<1> DEFINE u == req[w].user
           row == Stored(w)
<1>1. Shared /\ Functions /\ OnUser(w)
  BY TypeParts DEF Write, Goto, Answer, OnUser
<1>2. u \in User /\ held[w] \in Row
  BY <1>1, RequestFields DEF TypeInv, Control, OnUser
<1>3. /\ row # NoUser => /\ row.of = held[w].of
                         /\ row.name = held[w].name \/ (Exists(u) /\ row.name = rows[u].name)
                         /\ Exists(u) => row.of = rows[u].of
      /\ found[w] = NoUser => ~Exists(u)
  <2>1. found[w] = NoUser => ~Exists(u)
    BY DEF Write
  <2>2. Exists(u) => held[w].of = rows[u].of
    BY <1>1 DEF IdentityInv, Origin
  <2>3. CASE found[w] = NoUser
    BY <1>1, <2>1, <2>3, StoredRow
  <2>4. CASE found[w] # NoUser /\ ~Exists(u)
    BY <1>1, <2>4, StoredRow DEF Exists
  <2>5. CASE found[w] # NoUser /\ Exists(u)
    BY <1>1, <2>2, <2>5, StoredRow DEF Exists
  <2> QED BY <2>3, <2>4, <2>5
<1>4. /\ \A v \in Worker \ {w} : pc'[v] = pc[v] /\ req'[v] = req[v] /\ held'[v] = held[v]
      /\ pc'[w] \in {"idle", "mail"} /\ (pc'[w] = "mail" => req'[w] = req[w] /\ held'[w] = held[w])
  <2>1. CASE req[w].op = "forgot"
    BY <1>1, <2>1 DEF Write, Goto, Functions
  <2>2. CASE req[w].op # "forgot"
    BY <1>1, <2>2, AnswerFollows DEF Write
  <2> QED BY <2>1, <2>2
<1>5. /\ rows'[u] = row /\ \A v \in User \ {u} : rows'[v] = rows[v]
      /\ used' = used
      /\ ~renamed' => ~renamed /\ (held[w].of = Provider => held[w].name = Email)
      /\ row # NoUser => \A v \in User \ {u} : Exists(v) => rows[v].name # row.name
  BY <1>1, <1>2 DEF Write, Shared, Free
<1> HIDE DEF row
<1>6. ASSUME NEW v \in Worker, OnUser(v)'
      PROVE  OnUser(v) /\ req'[v] = req[v] /\ held'[v] = held[v] /\ req[v].user \in User
  <2>1. OnUser(v) /\ req'[v] = req[v] /\ held'[v] = held[v]
    BY <1>1, <1>4, <1>6 DEF OnUser
  <2> QED BY <2>1, RequestFields DEF TypeInv, Control
<1>7. u \in used
  BY <1>1 DEF IdentityInv, Origin
<1>8. Origin'
  <2>1. \A v \in User : Exists(v)' => v \in used'
    BY <1>5, <1>7 DEF IdentityInv, Origin, Exists
  <2>2. ASSUME NEW v \in Worker, OnUser(v)'
        PROVE  req'[v].user \in used' /\ (Exists(req[v].user)' => held'[v].of = rows'[req'[v].user].of)
    <3>1. OnUser(v) /\ req'[v] = req[v] /\ held'[v] = held[v] /\ req[v].user \in User
      BY <1>6, <2>2
    <3>2. req[v].user = u => held[v].of = held[w].of
      BY <1>1, <3>1 DEF IdentityInv, Origin
    <3> QED BY <1>3, <1>5, <3>1, <3>2 DEF IdentityInv, Origin, Exists
  <2>3. ASSUME NEW v \in Worker, NEW x \in Worker, OnUser(v)', OnUser(x)', req'[v].user = req'[x].user
        PROVE  held'[v].of = held'[x].of
    BY <1>6, <2>3 DEF IdentityInv, Origin
  <2> QED BY <2>1, <2>2, <2>3 DEF Origin
<1>9. UniqueNames'
  BY <1>5 DEF IdentityInv, UniqueNames, Exists
<1>10. Addressed'
  <2>1. \A v \in Worker : pc'[v] = "insert" => pc[v] = "insert" /\ held'[v] = held[v]
    BY <1>4
  <2>2. ASSUME ~renamed', NEW v \in User, Exists(v)', rows'[v].of = Provider
        PROVE  rows'[v].name = Email
    <3>1. CASE v = u
      BY <1>2, <1>3, <1>5, <2>2, <3>1 DEF IdentityInv, Addressed, Exists
    <3>2. CASE v # u
      BY <1>5, <2>2, <3>2 DEF IdentityInv, Addressed, Exists
    <3> QED BY <3>1, <3>2
  <2> QED BY <2>1, <2>2 DEF IdentityInv, Addressed
<1> QED BY <1>8, <1>9, <1>10 DEF IdentityInv

LEMMA NextIdentity == TypeInv /\ TypeInv' /\ IdentityInv /\ [Next]_vars => IdentityInv'
<1> SUFFICES ASSUME TypeInv, TypeInv', IdentityInv, [Next]_vars PROVE IdentityInv'
  OBVIOUS
<1>1. Shared /\ Functions
  BY TypeParts
<1>2. ASSUME NEW w \in Worker, FindFree(w) PROVE IdentityInv'
  <2>1. \A v \in Worker : Follows(v)
    BY <1>1, <1>2 DEF FindFree, Goto, Functions, Follows, OnUser
  <2> QED BY <1>2, <2>1, RowsKept DEF FindFree, ghosts
<1>3. ASSUME NEW w \in Worker, Compare(w) PROVE IdentityInv'
  <2>1. \A v \in Worker : Follows(v)
    BY <1>1, <1>3 DEF Compare, Goto, Functions, Follows, OnUser
  <2> QED BY <1>3, <2>1, RowsKept DEF Compare, ghosts
<1>4. ASSUME NEW w \in Worker, Mailed(w) PROVE IdentityInv'
  BY <1>4, AnswerFollows, RowsKept DEF Mailed
<1>5. ASSUME NEW w \in Worker, NotMailed(w) PROVE IdentityInv'
  <2>1. OnUser(w) /\ held[w] \in Row /\ req[w].user \in User
    BY <1>5, RequestFields DEF NotMailed, Goto, OnUser, TypeInv, Control
  <2>2. WithLink(held[w], NoLink).of = held[w].of
    BY <2>1, RowWith
  <2>3. /\ \A v \in Worker \ {w} : pc'[v] = pc[v] /\ req'[v] = req[v] /\ held'[v] = held[v]
        /\ pc'[w] = "save" /\ req'[w].user = req[w].user /\ held'[w] = WithLink(held[w], NoLink)
    BY <1>1, <1>5 DEF NotMailed, Goto, Functions
  <2>4. Follows(w)
    BY <2>1, <2>2, <2>3 DEF Follows
  <2> QED BY <1>5, <2>3, <2>4, FollowsOthers, RowsKept DEF NotMailed, ghosts
<1>6. ASSUME NEW w \in Worker, Delete(w) PROVE IdentityInv'
  <2>1. \A u \in User : rows'[u] \in {rows[u], NoUser}
    BY <1>1, <1>6 DEF Delete, Shared
  <2> QED BY <1>6, <2>1, AnswerFollows, RowsKept DEF Delete
<1>7. ASSUME NEW w \in Worker, Fail(w) PROVE IdentityInv'
  BY <1>7, AnswerFollows, RowsKept DEF Fail, ghosts
<1>8. ASSUME NEW l \in Link, Lapse(l) PROVE IdentityInv'
  <2>1. \A v \in Worker : Follows(v)
    BY <1>8 DEF Lapse, Follows, OnUser
  <2> QED BY <1>8, <2>1, RowsKept DEF Lapse, ghosts
<1>9. CASE UNCHANGED vars
  <2>1. \A v \in Worker : Follows(v)
    BY <1>9 DEF vars, Follows, OnUser
  <2> QED BY <1>9, <2>1, RowsKept DEF vars, ghosts
<1>10. ASSUME NEW w \in Worker, Proceed(w) PROVE IdentityInv'
  BY <1>2, <1>3, <1>4, <1>5, <1>6, <1>10, InsertIdentity, WriteIdentity DEF Proceed
<1> QED BY <1>7, <1>8, <1>9, <1>10, ReceiveIdentity DEF Next

LEMMA InitIdentity == Init => IdentityInv
BY DEF Init, IdentityInv, Origin, UniqueNames, Addressed, Exists, OnUser

\* Unless someone is renamed, a person of the provider has one row, however many
\* first log-ins, registrations and stale saves overlap (oauthLogin, register,
\* updateUser).
THEOREM IdentityOnceCorrect == Spec => []IdentityOnce
<1>1. IdentityInv => IdentityOnce
  BY DEF IdentityInv, UniqueNames, Addressed, IdentityOnce
<1> QED BY <1>1, InitTyped, NextTyped, InitIdentity, NextIdentity, PTL DEF Spec

(***************************************************************************)
(* Whose a link is                                                         *)
(***************************************************************************)

\* The links a user has in his row or in the hands of a request
LinksOf(u) ==
    {l \in Link : \/ Exists(u) /\ rows[u].link = l
                 \/ \E w \in Worker : OnUser(w) /\ req[w].user = u /\ held[w].link = l}

\* It will be mailed unless something fails
Pending(w) == OnUser(w) /\ req[w].op = "forgot"

\* No two users have a link in common, and one that was mailed is not to be mailed
LinkInv ==
    /\ told \subseteq used
    /\ \A u \in User : LinksOf(u) \subseteq used
    /\ \A u, v \in User : u # v => LinksOf(u) \cap LinksOf(v) = {}
    /\ \A w \in Worker : Pending(w) => held[w].link \notin told
    /\ \A w, v \in Worker : Pending(w) /\ Pending(v) /\ w # v => held[w].link # held[v].link
    /\ \A w \in Worker : pc[w] = "insert" => held[w].link = NoLink

\* What a request holds after a step, other than a new link: the link it had, or
\* that of a row, or none any more
Carries(w) ==
    /\ OnUser(w)' =>
        \/ /\ OnUser(w) /\ req'[w].user = req[w].user
           /\ held'[w].link \in {held[w].link, NoLink}
           /\ req'[w].op = "forgot" => req[w].op = "forgot" /\ held'[w].link = held[w].link
        \/ /\ Exists(req'[w].user) /\ held'[w].link \in {rows[req'[w].user].link, NoLink}
           /\ req'[w].op # "forgot"
    /\ pc'[w] = "insert" => held'[w].link = NoLink

\* A step that makes no link and mails none
LEMMA LinksKept ==
  ASSUME TypeInv, TypeInv', LinkInv, used \subseteq used', told' = told,
         \A w \in Worker : Carries(w),
         \A u \in User : Exists(u)' =>
            \/ Exists(u) /\ rows'[u].link = rows[u].link
            \/ rows'[u].link \in LinksOf(u) \cup {NoLink}
  PROVE  LinkInv'
<1>1. \A w \in Worker : OnUser(w) => req[w].user \in User /\ (req[w].op = "forgot" => held[w].link \in Link)
  BY RequestFields DEF TypeInv, Control
<1>2. \A w \in Worker : OnUser(w)' => req'[w].user \in User
  BY RequestFields DEF TypeInv, Control
<1>3. NoLink \notin Link
  BY AccountsAssumption DEF AccountsAssumption
<1>4. ASSUME NEW u \in User, NEW l \in LinksOf(u)' PROVE l \in LinksOf(u)
  <2>1. l \in Link
    BY <1>4 DEF LinksOf
  <2>2. CASE Exists(u)' /\ rows'[u].link = l
    BY <1>3, <2>1, <2>2 DEF LinksOf
  <2>3. ASSUME NEW w \in Worker, OnUser(w)', req'[w].user = u, held'[w].link = l
        PROVE  l \in LinksOf(u)
    BY <1>3, <2>1, <2>3 DEF LinksOf, Carries
  <2> QED BY <1>4, <2>2, <2>3 DEF LinksOf
<1>5. ASSUME NEW w \in Worker, Pending(w)' PROVE Pending(w) /\ held'[w].link = held[w].link
  BY <1>5 DEF Pending, Carries
<1>6. \A w \in Worker : pc'[w] = "insert" => held'[w].link = NoLink
  BY DEF Carries
<1>7. \A u, v \in User : u # v => LinksOf(u)' \cap LinksOf(v)' = {}
  BY <1>4 DEF LinkInv
<1>8. \A u \in User : LinksOf(u)' \subseteq used'
  BY <1>4 DEF LinkInv
<1>9. \A w \in Worker : Pending(w)' => held'[w].link \notin told'
  BY <1>5 DEF LinkInv
<1>10. \A w, v \in Worker : Pending(w)' /\ Pending(v)' /\ w # v => held'[w].link # held'[v].link
  BY <1>5 DEF LinkInv
<1>11. told' \subseteq used'
  BY DEF LinkInv
<1> QED BY <1>6, <1>7, <1>8, <1>9, <1>10, <1>11 DEF LinkInv

LEMMA CarriesOthers ==
  ASSUME TypeInv, LinkInv, NEW w \in Worker,
         \A v \in Worker \ {w} : pc'[v] = pc[v] /\ req'[v] = req[v] /\ held'[v] = held[v],
         Carries(w)
  PROVE  \A v \in Worker : Carries(v)
BY DEF Carries, OnUser, LinkInv

LEMMA AnswerCarries ==
  ASSUME TypeInv, LinkInv, NEW w \in Worker, NEW from, Answer(w, from)
  PROVE  \A v \in Worker : Carries(v)
<1>1. Carries(w)
  BY AnswerFollows DEF Carries, OnUser
<1> QED BY <1>1, AnswerFollows, CarriesOthers

LEMMA BeginCarries ==
  ASSUME TypeInv, TypeInv', LinkInv, NEW w \in Worker, NEW u \in User, NEW op \in Ops \ {"forgot"},
         NEW label \in {"free", "save", "delete"}, NEW object \in Row,
         object.link \in {rows[u].link, NoLink},
         Begin(w, u, label, [op |-> op, user |-> u], object), used' = used
  PROVE  LinkInv'
<1> DEFINE r == [op |-> op, user |-> u]
<1>1. r.user = u /\ r.op = op
  BY RequestFields
<1> HIDE DEF r
<1>2. Functions
  BY TypeParts
<1>3. /\ \A v \in Worker \ {w} : pc'[v] = pc[v] /\ req'[v] = req[v] /\ held'[v] = held[v]
      /\ pc'[w] = label /\ req'[w] = r /\ held'[w] = object /\ Exists(u)
      /\ rows' = rows /\ told' = told
  BY <1>2 DEF Begin, Goto, Functions, r
<1>4. Carries(w)
  BY <1>1, <1>3 DEF Carries
<1> QED BY <1>3, <1>4, CarriesOthers, LinksKept DEF Exists

LEMMA BeginInsertCarries ==
  ASSUME TypeInv, TypeInv', LinkInv, NEW w \in Worker, NEW object \in Row,
         object.link = NoLink, BeginInsert(w, object)
  PROVE  LinkInv'
<1>1. Functions
  BY TypeParts
<1>2. /\ \A v \in Worker \ {w} : pc'[v] = pc[v] /\ req'[v] = req[v] /\ held'[v] = held[v]
      /\ pc'[w] = "insert" /\ held'[w] = object
      /\ rows' = rows /\ told' = told /\ used' = used
  BY <1>1 DEF BeginInsert, Goto, Functions, ghosts
<1>3. Carries(w)
  BY <1>2 DEF Carries, OnUser
<1> QED BY <1>2, <1>3, CarriesOthers, LinksKept DEF Exists

\* A link that is made is new
LEMMA ForgotLinks ==
  ASSUME TypeInv, TypeInv', LinkInv, NEW w \in Worker, NEW u \in User, NEW l \in Link, Forgot(w, u, l)
  PROVE  LinkInv'
<1> DEFINE r == [op |-> "forgot", user |-> u]
           h == WithLink(rows[u], l)
<1>1. r.user = u /\ r.op = "forgot"
  OBVIOUS
<1>2. Functions /\ Shared
  BY TypeParts
<1>3. rows[u] \in Row
  BY <1>2 DEF Forgot, Begin, Exists, Shared
<1>4. h.link = l
  BY <1>3, RowWith
<1> HIDE DEF r, h
<1>5. /\ \A v \in Worker \ {w} : pc'[v] = pc[v] /\ req'[v] = req[v] /\ held'[v] = held[v]
      /\ pc'[w] = "save" /\ req'[w] = r /\ held'[w] = h
      /\ rows' = rows /\ told' = told /\ used' = used \cup {l} /\ l \notin used
  BY <1>2 DEF Forgot, Begin, Goto, Functions, r, h
<1>6. \A v \in Worker : OnUser(v) => req[v].user \in User /\ (req[v].op = "forgot" => held[v].link \in Link)
  BY RequestFields DEF TypeInv, Control
<1>7. ASSUME NEW x \in User, NEW k \in LinksOf(x)'
      PROVE  k \in LinksOf(x) \/ (x = u /\ k = l)
  BY <1>1, <1>4, <1>5, <1>7 DEF LinksOf, OnUser, Exists
<1>8. ASSUME NEW v \in Worker, Pending(v)'
      PROVE  (Pending(v) /\ v # w /\ held'[v] = held[v]) \/ (v = w /\ held'[v].link = l)
  BY <1>4, <1>5, <1>8 DEF Pending, OnUser
<1>9. ASSUME NEW v \in Worker, Pending(v) PROVE held[v].link # l
  <2>1. held[v].link \in LinksOf(req[v].user) /\ req[v].user \in User
    BY <1>6, <1>9 DEF Pending, LinksOf
  <2> QED BY <1>5, <2>1 DEF LinkInv
<1>10. told' \subseteq used' /\ \A x \in User : LinksOf(x)' \subseteq used'
  BY <1>5, <1>7 DEF LinkInv
<1>11. \A x, y \in User : x # y => LinksOf(x)' \cap LinksOf(y)' = {}
  BY <1>5, <1>7 DEF LinkInv
<1>12. \A v \in Worker : Pending(v)' => held'[v].link \notin told'
  BY <1>5, <1>8 DEF LinkInv
<1>13. \A v, x \in Worker : Pending(v)' /\ Pending(x)' /\ v # x => held'[v].link # held'[x].link
  BY <1>8, <1>9 DEF LinkInv
<1>14. \A v \in Worker : pc'[v] = "insert" => held'[v].link = NoLink
  BY <1>5 DEF LinkInv
<1> QED BY <1>10, <1>11, <1>12, <1>13, <1>14 DEF LinkInv

\* A link that is mailed is nobody else's
LEMMA MailedLinks ==
  ASSUME TypeInv, TypeInv', LinkInv, NEW w \in Worker, Mailed(w)
  PROVE  LinkInv' /\ \A u \in User \ {req[w].user} : Exists(u) => rows[u].link # held[w].link
<1> DEFINE l == held[w].link
           u == req[w].user
<1>1. /\ \A v \in Worker \ {w} : pc'[v] = pc[v] /\ req'[v] = req[v] /\ held'[v] = held[v]
      /\ pc'[w] = "idle" /\ told' = told \cup {l} /\ rows' = rows /\ used' = used /\ pc[w] = "mail"
  BY AnswerFollows DEF Mailed, Answer, Goto
<1>2. Pending(w) /\ u \in User /\ l \in Link
  BY <1>1, RequestFields DEF Pending, OnUser, TypeInv, Control
<1>3. l \in LinksOf(u)
  BY <1>2 DEF Pending, LinksOf
<1>4. \A x \in User : LinksOf(x)' \subseteq LinksOf(x)
  BY <1>1 DEF LinksOf, OnUser, Exists
<1>5. \A v \in Worker : Pending(v)' => v # w /\ Pending(v) /\ held'[v] = held[v]
  BY <1>1 DEF Pending, OnUser
<1>6. told' \subseteq used'
  BY <1>1, <1>2, <1>3 DEF LinkInv
<1>7. \A x, y \in User : x # y => LinksOf(x)' \cap LinksOf(y)' = {}
  BY <1>4 DEF LinkInv
<1>8. \A x \in User : LinksOf(x)' \subseteq used'
  BY <1>1, <1>4 DEF LinkInv
<1>9. \A v \in Worker : Pending(v)' => held'[v].link \notin told'
  BY <1>1, <1>2, <1>5 DEF LinkInv
<1>10. \A v, x \in Worker : Pending(v)' /\ Pending(x)' /\ v # x => held'[v].link # held'[x].link
  BY <1>5 DEF LinkInv
<1>11. \A v \in Worker : pc'[v] = "insert" => held'[v].link = NoLink
  BY <1>1 DEF LinkInv
<1>12. ASSUME NEW x \in User \ {u}, Exists(x) PROVE rows[x].link # l
  BY <1>2, <1>3, <1>12 DEF LinkInv, LinksOf
<1> QED BY <1>6, <1>7, <1>8, <1>9, <1>10, <1>11, <1>12 DEF LinkInv

\* The new row has no link, the saved one one of its user's
LEMMA WriteLinks ==
  ASSUME TypeInv, TypeInv', LinkInv, NEW w \in Worker, Write(w)
  PROVE  LinkInv'
<1>1. Shared /\ Functions /\ OnUser(w)
  BY TypeParts DEF Write, Goto, Answer, OnUser
<1>0. PICK u \in User : u = req[w].user
  BY <1>1, RequestFields DEF TypeInv, Control
<1>2. held[w] \in Row /\ held[w].link \in Link \cup {NoLink}
  BY <1>1, RowFields DEF TypeInv, Control, OnUser
<1>3. rows' = [rows EXCEPT ![u] = Stored(w)] /\ used' = used /\ told' = told
  BY <1>0 DEF Write
<1>4. Exists(u)' => Stored(w).link = held[w].link \/ (Exists(u) /\ Stored(w).link = rows[u].link)
  <2>1. rows'[u] = Stored(w)
    BY <1>1, <1>2, <1>3 DEF Shared
  <2>2. Stored(w) # NoUser => Stored(w).link = held[w].link \/ (Exists(u) /\ Stored(w).link = rows[u].link)
    BY <1>0, <1>1, StoredLink
  <2> QED BY <2>1, <2>2 DEF Exists
<1>5. held[w].link \in LinksOf(u) \cup {NoLink}
  BY <1>0, <1>1, <1>2 DEF LinksOf
<1>6. \A x \in User : Exists(x)' =>
        \/ Exists(x) /\ rows'[x].link = rows[x].link
        \/ rows'[x].link \in LinksOf(x) \cup {NoLink}
  <2>1. rows'[u] = Stored(w) /\ \A x \in User \ {u} : rows'[x] = rows[x]
    BY <1>1, <1>2, <1>3 DEF Shared
  <2>2. Exists(u)' => \/ Exists(u) /\ rows'[u].link = rows[u].link
                     \/ rows'[u].link \in LinksOf(u) \cup {NoLink}
    BY <1>4, <1>5, <2>1
  <2>3. ASSUME NEW x \in User \ {u}, Exists(x)' PROVE Exists(x) /\ rows'[x].link = rows[x].link
    BY <2>1, <2>3 DEF Exists
  <2> QED BY <2>2, <2>3
<1>7. \A v \in Worker : Carries(v)
  <2>1. CASE req[w].op = "forgot"
    <3>1. pc' = [pc EXCEPT ![w] = "mail"] /\ UNCHANGED <<req, held>>
      BY <2>1 DEF Write, Goto
    <3> QED BY <1>1, <3>1 DEF Carries, OnUser, Functions, LinkInv
  <2>2. CASE req[w].op # "forgot"
    BY <2>2, AnswerCarries DEF Write
  <2> QED BY <2>1, <2>2
<1> QED BY <1>3, <1>6, <1>7, LinksKept

LEMMA ReceiveLinks ==
  ASSUME TypeInv, TypeInv', LinkInv, NEW w \in Worker, Receive(w)
  PROVE  LinkInv'
<1>1. ASSUME NEW u \in User, Exists(u) PROVE rows[u] \in Row
  BY <1>1, TypeParts DEF Shared, Exists
<1>2. CASE \E n \in Name, t \in Tenant, p \in Password : Register(w, n, t, p)
  <2>1. PICK n \in Name, t \in Tenant, p \in Password : Register(w, n, t, p)
    BY <1>2
  <2>2. Account(n, t, p, NoLink) \in Row /\ Account(n, t, p, NoLink).link = NoLink
    BY DEF Account, Row
  <2> QED BY <2>1, <2>2, BeginInsertCarries DEF Register
<1>3. CASE FirstLogin(w)
  <2>1. /\ Account(Email, Provider, Random, NoLink) \in Row
        /\ Account(Email, Provider, Random, NoLink).link = NoLink
    BY AccountsAssumption DEF Account, Row, AccountsAssumption
  <2> QED BY <1>3, <2>1, BeginInsertCarries DEF FirstLogin
<1>4. ASSUME NEW u \in User, Touch(w, u) PROVE LinkInv'
  <2>1. Begin(w, u, "save", [op |-> "touch", user |-> u], rows[u]) /\ used' = used
    BY <1>4 DEF Touch
  <2>2. rows[u] \in Row /\ "touch" \in Ops \ {"forgot"}
    BY <1>1, <2>1 DEF Begin, Ops
  <2> QED BY <2>1, <2>2, BeginCarries
<1>5. ASSUME NEW u \in User, BeginRemove(w, u) PROVE LinkInv'
  <2>1. Begin(w, u, "delete", [op |-> "remove", user |-> u], rows[u]) /\ used' = used
    BY <1>5 DEF BeginRemove
  <2>2. rows[u] \in Row /\ "remove" \in Ops \ {"forgot"}
    BY <1>1, <2>1 DEF Begin, Ops
  <2> QED BY <2>1, <2>2, BeginCarries
<1>6. ASSUME NEW u \in User, NEW p \in Password, SetPassword(w, u, p) PROVE LinkInv'
  <2>1. /\ Begin(w, u, "save", [op |-> "password", user |-> u], WithPassword(rows[u], p))
        /\ used' = used
    BY <1>6 DEF SetPassword
  <2>2. /\ WithPassword(rows[u], p) \in Row /\ WithPassword(rows[u], p).link = rows[u].link
        /\ "password" \in Ops \ {"forgot"}
    BY <1>1, <2>1, RowWith DEF Begin, Ops
  <2> QED BY <2>1, <2>2, BeginCarries
<1>7. ASSUME NEW u \in User, NEW n \in Name, Rename(w, u, n) PROVE LinkInv'
  <2>1. /\ Begin(w, u, "free", [op |-> "rename", user |-> u], WithName(rows[u], n))
        /\ used' = used
    BY <1>7 DEF Rename
  <2>2. /\ WithName(rows[u], n) \in Row /\ WithName(rows[u], n).link = rows[u].link
        /\ "rename" \in Ops \ {"forgot"}
    BY <1>1, <2>1, RowWith DEF Begin, Ops
  <2> QED BY <2>1, <2>2, BeginCarries
<1>8. ASSUME NEW u \in User, NEW l \in Link, Forgot(w, u, l) PROVE LinkInv'
  BY <1>8, ForgotLinks
<1>9. ASSUME NEW u \in User, NEW l \in Link, NEW p \in Password, Reset(w, u, l, p)
      PROVE  LinkInv'
  <2>1. /\ Begin(w, u, "save", [op |-> "reset", user |-> u],
                 WithLink(WithPassword(rows[u], p), NoLink))
        /\ used' = used
    BY <1>9 DEF Reset
  <2>2. WithPassword(rows[u], p) \in Row
    BY <1>1, <2>1, RowWith DEF Begin
  <2>3. /\ WithLink(WithPassword(rows[u], p), NoLink) \in Row
        /\ WithLink(WithPassword(rows[u], p), NoLink).link = NoLink
        /\ "reset" \in Ops \ {"forgot"}
    BY <2>2, RowWith DEF Ops
  <2> QED BY <2>1, <2>3, BeginCarries
<1> QED BY <1>2, <1>3, <1>4, <1>5, <1>6, <1>7, <1>8, <1>9 DEF Receive

LEMMA NextLinks == TypeInv /\ TypeInv' /\ LinkInv /\ [Next]_vars => LinkInv'
<1> SUFFICES ASSUME TypeInv, TypeInv', LinkInv, [Next]_vars PROVE LinkInv'
  OBVIOUS
<1>1. Shared /\ Functions
  BY TypeParts
<1>2. ASSUME NEW w \in Worker, NEW u \in User, Insert(w, u) PROVE LinkInv'
  <2>1. rows' = [rows EXCEPT ![u] = held[w]] /\ held[w].link = NoLink /\ told' = told /\ used \subseteq used'
    BY <1>2 DEF Insert, Answer, Goto, LinkInv
  <2> QED BY <1>1, <1>2, <2>1, AnswerCarries, LinksKept DEF Insert, Exists, Shared
<1>3. ASSUME NEW w \in Worker, FindFree(w) \/ Compare(w) PROVE LinkInv'
  <2>1. \A v \in Worker : Carries(v)
    BY <1>1, <1>3 DEF FindFree, Compare, Goto, Functions, Carries, OnUser, LinkInv
  <2> QED BY <1>3, <2>1, LinksKept DEF FindFree, Compare, ghosts, Exists
<1>4. ASSUME NEW w \in Worker, NotMailed(w) PROVE LinkInv'
  <2>1. OnUser(w) /\ held[w] \in Row /\ req[w].user \in User
    BY <1>4, RequestFields DEF NotMailed, Goto, OnUser, TypeInv, Control
  <2>2. WithLink(held[w], NoLink).link = NoLink
    BY <2>1, RowWith
  <2>3. /\ \A v \in Worker \ {w} : pc'[v] = pc[v] /\ req'[v] = req[v] /\ held'[v] = held[v]
        /\ pc'[w] = "save" /\ held'[w] = WithLink(held[w], NoLink)
        /\ req'[w].user = req[w].user /\ req'[w].op = "unlink"
    BY <1>1, <1>4 DEF NotMailed, Goto, Functions
  <2>4. Carries(w)
    BY <2>1, <2>2, <2>3 DEF Carries
  <2> QED BY <1>4, <2>3, <2>4, CarriesOthers, LinksKept DEF NotMailed, ghosts, Exists
<1>5. ASSUME NEW w \in Worker, Delete(w) PROVE LinkInv'
  <2>1. \A u \in User : rows'[u] \in {rows[u], NoUser}
    BY <1>1, <1>5 DEF Delete, Shared
  <2> QED BY <1>5, <2>1, AnswerCarries, LinksKept DEF Delete, Exists
<1>6. ASSUME NEW w \in Worker, Fail(w) PROVE LinkInv'
  BY <1>6, AnswerCarries, LinksKept DEF Fail, ghosts, Exists
<1>7. ASSUME NEW l \in Link, Lapse(l) PROVE LinkInv'
  BY <1>7 DEF Lapse, ghosts, LinkInv, LinksOf, Pending, OnUser, Exists
<1>8. CASE UNCHANGED vars
  BY <1>8 DEF vars, ghosts, LinkInv, LinksOf, Pending, OnUser, Exists
<1>9. ASSUME NEW w \in Worker, Proceed(w) PROVE LinkInv'
  BY <1>2, <1>3, <1>4, <1>5, <1>9, MailedLinks, WriteLinks DEF Proceed
<1> QED BY <1>6, <1>7, <1>8, <1>9, ReceiveLinks DEF Next

LEMMA InitLinks == Init => LinkInv
BY DEF Init, LinkInv, LinksOf, Pending, OnUser, Exists

(***************************************************************************)
(* What a user was last told                                               *)
(***************************************************************************)

\* Unless two requests crossed on him, a user has at most one request, which
\* holds what his row has but for what it is there to change.
Alone ==
    \A w, v \in Worker :
        w # v /\ OnUser(w) /\ OnUser(v) /\ req[w].user = req[v].user => req[w].user \in crossed

Faithful(w) ==
    LET u == req[w].user
    IN  /\ Exists(u)
        /\ pc[w] = "write" => found[w] = rows[u]
        /\ req[w].op \notin {"password", "reset"} => held[w].password = rows[u].password
        /\ req[w].op \in {"touch", "rename", "password", "remove"} => held[w].link = rows[u].link
        /\ req[w].op \in {"unlink", "reset"} => held[w].link = NoLink
        /\ pc[w] = "mail" => held[w].link = rows[u].link /\ last[u].link = NoLink

AllFaithful == \A w \in Worker : OnUser(w) /\ req[w].user \notin crossed => Faithful(w)

LastInv == Alone /\ AllFaithful /\ LastWord

Word(u) ==
    /\ Exists(u) <=> last[u] # NoUser
    /\ Exists(u) =>
        /\ rows[u].password = last[u].password
        /\ rows[u].link \in told \cup {last[u].link} => rows[u].link = last[u].link

LEMMA WordByWord == LastWord <=> \A u \in User \ crossed : Word(u)
BY DEF LastWord, Word

\* A step of one request on one user
LEMMA LastKept ==
  ASSUME TypeInv, TypeInv', LastInv, NEW w \in Worker, NEW u \in User,
         \A v \in Worker \ {w} : /\ pc'[v] = pc[v] /\ req'[v] = req[v]
                                 /\ held'[v] = held[v] /\ found'[v] = found[v],
         \A x \in User \ {u} : /\ rows'[x] = rows[x] /\ last'[x] = last[x]
                               /\ Exists(x) /\ rows[x].link \in told' => rows[x].link \in told,
         crossed \subseteq crossed',
         OnUser(w)' => req'[w].user = u,
         u \notin crossed' =>
            /\ \A v \in Worker \ {w} : OnUser(v) => req[v].user # u
            /\ OnUser(w)' => Faithful(w)'
            /\ Word(u)'
  PROVE  LastInv'
<1>1. \A v \in Worker : OnUser(v) => req[v].user \in User
  BY RequestFields DEF TypeInv, Control
<1>2. \A v \in Worker \ {w} : OnUser(v)' <=> OnUser(v)
  BY DEF OnUser
<1>3. Alone'
  BY <1>2 DEF LastInv, Alone
<1>4. ASSUME NEW v \in Worker, OnUser(v)', req'[v].user \notin crossed' PROVE Faithful(v)'
  <2>1. CASE v = w
    BY <1>4, <2>1
  <2>2. CASE v # w
    <3>1. OnUser(v) /\ Faithful(v) /\ req[v].user \in User \ {u}
      BY <1>1, <1>2, <1>4, <2>2 DEF LastInv, AllFaithful
    <3> QED BY <2>2, <3>1 DEF Faithful, Exists
  <2> QED BY <2>1, <2>2
<1>5. ASSUME NEW x \in User \ crossed' PROVE Word(x)'
  <2>1. CASE x = u
    BY <1>5, <2>1
  <2>2. CASE x # u
    BY <1>5, <2>2, WordByWord DEF LastInv, Word, Exists
  <2> QED BY <2>1, <2>2
<1>6. AllFaithful'
  BY <1>4 DEF AllFaithful
<1>7. LastWord'
  BY <1>5 DEF LastWord, Word
<1> QED BY <1>3, <1>6, <1>7 DEF LastInv

\* What is true of a user nothing happens to
LEMMA StillTrue ==
  ASSUME TypeInv, LastInv, NEW u \in User, u \notin crossed,
         rows'[u] = rows[u], last'[u] = last[u], told' = told
  PROVE  Word(u)'
BY WordByWord DEF LastInv, Word, Exists

LEMMA AnswerMoves ==
  ASSUME TypeInv, NEW w \in Worker, NEW from, Answer(w, from)
  PROVE  /\ pc[w] = from /\ ~OnUser(w)'
         /\ \A v \in Worker \ {w} : /\ pc'[v] = pc[v] /\ req'[v] = req[v]
                                    /\ held'[v] = held[v] /\ found'[v] = found[v]
BY TypeParts DEF Answer, Goto, Functions, OnUser

\* A request that ends without writing
LEMMA EndsLast ==
  ASSUME TypeInv, TypeInv', LastInv, NEW w \in Worker, NEW from, Answer(w, from),
         UNCHANGED <<rows, last, told, crossed>>
  PROVE  LastInv'
<1>1. ASSUME NEW v \in Worker, OnUser(v)' PROVE OnUser(v) /\ v # w
  BY <1>1, AnswerMoves DEF OnUser
<1>2. Alone'
  BY <1>1, AnswerMoves DEF LastInv, Alone
<1>3. AllFaithful'
  <2> SUFFICES ASSUME NEW v \in Worker, OnUser(v)', req'[v].user \notin crossed' PROVE Faithful(v)'
    BY DEF AllFaithful
  <2>1. OnUser(v) /\ v # w /\ Faithful(v)
    BY <1>1, AnswerMoves DEF LastInv, AllFaithful
  <2> QED BY <2>1, AnswerMoves DEF Faithful, Exists
<1>4. LastWord'
  BY DEF LastInv, LastWord, Exists
<1> QED BY <1>2, <1>3, <1>4 DEF LastInv

\* A request comes
LEMMA BeginLast ==
  ASSUME TypeInv, TypeInv', LastInv, NEW w \in Worker, NEW u \in User, NEW op \in Ops,
         NEW label \in {"free", "save", "delete"}, NEW object \in Row,
         Begin(w, u, label, [op |-> op, user |-> u], object),
         op \notin {"password", "reset"} => object.password = rows[u].password,
         op \in {"touch", "rename", "password", "remove"} => object.link = rows[u].link,
         op \in {"unlink", "reset"} => object.link = NoLink
  PROVE  LastInv'
<1> DEFINE r == [op |-> op, user |-> u]
<1>1. r.user = u /\ r.op = op
  BY RequestFields
<1> HIDE DEF r
<1>2. /\ \A v \in Worker \ {w} : /\ pc'[v] = pc[v] /\ req'[v] = req[v]
                                 /\ held'[v] = held[v] /\ found'[v] = found[v]
      /\ pc'[w] = label /\ req'[w] = r /\ held'[w] = object /\ Exists(u)
      /\ rows' = rows /\ told' = told /\ last' = last
      /\ crossed \subseteq crossed' /\ (Working(u) = {} \/ u \in crossed')
  BY TypeParts DEF Begin, Goto, Functions, r
<1>3. \A v \in Worker : OnUser(v) => req[v].op # "insert"
  BY RequestFields DEF TypeInv, Control, Ops
<1>4. u \notin crossed' => \A v \in Worker \ {w} : OnUser(v) => req[v].user # u
  BY <1>2, <1>3 DEF Working, OnUser
<1>5. Faithful(w)'
  BY <1>1, <1>2 DEF Faithful, Exists
<1>6. u \notin crossed' => Word(u)'
  BY <1>2, StillTrue
<1> QED BY <1>1, <1>2, <1>4, <1>5, <1>6, LastKept

LEMMA BeginInsertLast ==
  ASSUME TypeInv, TypeInv', LastInv, NEW w \in Worker, NEW object, BeginInsert(w, object)
  PROVE  LastInv'
<1>1. /\ \A v \in Worker \ {w} : /\ pc'[v] = pc[v] /\ req'[v] = req[v]
                                 /\ held'[v] = held[v] /\ found'[v] = found[v]
      /\ pc'[w] = "insert" /\ UNCHANGED <<rows, told, last, crossed>>
  BY TypeParts DEF BeginInsert, Goto, Functions, ghosts
<1>2. ASSUME NEW v \in Worker, OnUser(v)' PROVE OnUser(v) /\ v # w
  BY <1>1, <1>2 DEF OnUser
<1>3. Alone'
  BY <1>1, <1>2 DEF LastInv, Alone
<1>4. AllFaithful'
  <2> SUFFICES ASSUME NEW v \in Worker, OnUser(v)', req'[v].user \notin crossed' PROVE Faithful(v)'
    BY DEF AllFaithful
  <2>1. OnUser(v) /\ v # w /\ Faithful(v)
    BY <1>1, <1>2 DEF LastInv, AllFaithful
  <2> QED BY <1>1, <2>1 DEF Faithful, Exists
<1>5. LastWord'
  BY <1>1 DEF LastInv, LastWord, Exists
<1> QED BY <1>3, <1>4, <1>5 DEF LastInv

LEMMA TellDoes ==
  ASSUME Shared, NEW u \in User, NEW p, NEW l, Tell(u, p, l)
  PROVE  /\ \A x \in User \ {u} : last'[x] = last[x]
         /\ last'[u] # NoUser <=> last[u] # NoUser
         /\ last[u] # NoUser => last'[u].password = p /\ last'[u].link = l
<1>1. [password |-> p, link |-> l] # NoUser
  BY DEF NoUser
<1>2. CASE last[u] = NoUser
  BY <1>2 DEF Tell
<1>3. CASE last[u] # NoUser
  <2>1. last' = [last EXCEPT ![u] = [password |-> p, link |-> l]]
    BY <1>3 DEF Tell
  <2>2. last'[u] = [password |-> p, link |-> l] /\ \A x \in User \ {u} : last'[x] = last[x]
    BY <2>1 DEF Shared
  <2> QED BY <1>1, <1>3, <2>2
<1> QED BY <1>2, <1>3

LEMMA InsertLast ==
  ASSUME TypeInv, TypeInv', IdentityInv, LinkInv, LastInv, NEW w \in Worker, NEW u \in User,
         Insert(w, u)
  PROVE  LastInv'
<1>1. Shared /\ held[w] \in Row /\ held[w].link = NoLink
  BY TypeParts DEF Insert, Answer, Goto, TypeInv, Control, LinkInv
<1>2. /\ rows' = [rows EXCEPT ![u] = held[w]]
      /\ last' = [last EXCEPT ![u] = [password |-> held[w].password, link |-> NoLink]]
      /\ told' = told /\ crossed' = crossed /\ u \notin used
  BY DEF Insert
<1>3. /\ rows'[u] = held[w] /\ last'[u] = [password |-> held[w].password, link |-> NoLink]
      /\ \A x \in User \ {u} : rows'[x] = rows[x] /\ last'[x] = last[x]
  BY <1>1, <1>2 DEF Shared
<1>4. last'[u] # NoUser /\ last'[u].password = held[w].password /\ last'[u].link = NoLink
  BY <1>3 DEF NoUser
<1>5. Word(u)'
  <2>1. rows'[u] # NoUser
    BY <1>1, <1>3, RowFields
  <2> QED BY <1>1, <1>3, <1>4, <2>1 DEF Word, Exists
<1>6. \A v \in Worker : OnUser(v) => req[v].user # u
  BY <1>2 DEF IdentityInv, Origin
<1> QED BY <1>2, <1>3, <1>5, <1>6, AnswerMoves, LastKept DEF Insert

\* A request that is on nobody else's user, with a row known to it
LEMMA Undisturbed ==
  ASSUME TypeInv, LastInv, NEW w \in Worker, OnUser(w)
  PROVE  /\ req[w].user \in User /\ req[w].op \in Ops /\ held[w] \in Row
         /\ req[w].user \notin crossed =>
              /\ Faithful(w) /\ Word(req[w].user)
              /\ \A v \in Worker \ {w} : OnUser(v) => req[v].user # req[w].user
BY WordByWord, RequestFields DEF TypeInv, Control, OnUser, LastInv, Alone, AllFaithful

LEMMA WriteLast ==
  ASSUME TypeInv, TypeInv', LinkInv, LastInv, NEW w \in Worker, Write(w)
  PROVE  LastInv'
<1>1. Shared /\ Functions /\ OnUser(w) /\ pc[w] = "write"
  BY TypeParts DEF Write, Goto, Answer, OnUser
<1>2. PICK u \in User : u = req[w].user
  BY <1>1, Undisturbed
<1> DEFINE op == req[w].op
           p == IF op \in {"password", "reset"} THEN held[w].password ELSE last[u].password
           l == IF op \in {"forgot", "unlink", "reset"} THEN NoLink ELSE last[u].link
<1>3. /\ rows' = [rows EXCEPT ![u] = Stored(w)] /\ told' = told /\ crossed' = crossed
      /\ Tell(u, p, l)
  BY <1>2 DEF Write, Saved
<1> HIDE DEF p, l
<1>4. /\ \A x \in User \ {u} : last'[x] = last[x]
      /\ last'[u] # NoUser <=> last[u] # NoUser
      /\ last[u] # NoUser => last'[u].password = p /\ last'[u].link = l
  BY <1>1, <1>3, TellDoes
<1>5. /\ rows'[u] = Stored(w)
      /\ \A x \in User \ {u} : rows'[x] = rows[x]
  BY <1>1, <1>3 DEF Shared
<1>6. ASSUME u \notin crossed
      PROVE  /\ Faithful(w) /\ Word(u) /\ Exists(u) /\ found[w] = rows[u]
             /\ Stored(w) \in Row /\ Stored(w).password = held[w].password
             /\ Stored(w).link = held[w].link
  <2>1. Faithful(w) /\ Word(u) /\ Exists(u) /\ found[w] = rows[u]
    BY <1>1, <1>2, <1>6, Undisturbed DEF Faithful
  <2> QED BY <1>1, <1>2, <2>1, StoredLink
<1>7. ASSUME u \notin crossed PROVE Word(u)'
  <2>1. rows'[u] # NoUser /\ rows'[u].password = held[w].password /\ rows'[u].link = held[w].link
    BY <1>5, <1>6, <1>7, RowFields
  <2>2. last[u] # NoUser
    BY <1>6, <1>7 DEF Word
  <2>3. held[w].password = p
    BY <1>2, <1>6, <1>7 DEF p, Faithful, Word
  <2>4. ASSUME held[w].link \in told \cup {l} PROVE held[w].link = l
    <3>1. CASE op \in {"unlink", "reset"}
      BY <1>6, <1>7, <3>1 DEF l, Faithful
    <3>2. CASE op = "forgot"
      <4>1. held[w].link \notin told
        BY <1>1, <3>2 DEF LinkInv, Pending
      <4> QED BY <2>4, <4>1
    <3>3. CASE op \in {"touch", "rename", "password", "remove"}
      <4>1. l = last[u].link /\ held[w].link = rows[u].link
        BY <1>2, <1>6, <1>7, <3>3 DEF l, Faithful
      <4> QED BY <1>6, <1>7, <2>4, <4>1 DEF Word
    <3> QED BY <1>1, <3>1, <3>2, <3>3, Undisturbed DEF Ops
  <2> QED BY <1>3, <1>4, <2>1, <2>2, <2>3, <2>4 DEF Word, Exists
<1>8. /\ \A v \in Worker \ {w} : /\ pc'[v] = pc[v] /\ req'[v] = req[v]
                                 /\ held'[v] = held[v] /\ found'[v] = found[v]
      /\ OnUser(w)' => /\ op = "forgot" /\ pc'[w] = "mail" /\ req'[w] = req[w]
                       /\ held'[w] = held[w] /\ found'[w] = found[w]
  <2>1. CASE op = "forgot"
    BY <1>1, <2>1 DEF Write, Goto, Functions
  <2>2. CASE op # "forgot"
    BY <2>2, AnswerMoves DEF Write
  <2> QED BY <2>1, <2>2
<1>9. ASSUME u \notin crossed, OnUser(w)' PROVE Faithful(w)'
  <2>1. rows'[u] # NoUser /\ rows'[u].password = held[w].password /\ rows'[u].link = held[w].link
    BY <1>5, <1>6, <1>9, RowFields
  <2>2. last'[u].link = NoLink
    BY <1>4, <1>6, <1>8, <1>9 DEF l, Word
  <2> QED BY <1>2, <1>8, <1>9, <2>1, <2>2 DEF Faithful, Exists
<1> QED BY <1>1, <1>2, <1>3, <1>4, <1>5, <1>7, <1>8, <1>9, Undisturbed, LastKept

LEMMA MailedLast ==
  ASSUME TypeInv, TypeInv', LinkInv, LastInv, NEW w \in Worker, Mailed(w)
  PROVE  LastInv'
<1>1. Shared /\ OnUser(w) /\ pc[w] = "mail"
  BY TypeParts DEF Mailed, Goto, Answer, OnUser
<1>2. PICK u \in User : u = req[w].user
  BY <1>1, Undisturbed
<1>3. /\ told' = told \cup {held[w].link} /\ rows' = rows /\ crossed' = crossed
      /\ Tell(u, last[u].password, held[w].link)
  BY <1>2 DEF Mailed
<1>4. /\ \A x \in User \ {u} : last'[x] = last[x]
      /\ last'[u] # NoUser <=> last[u] # NoUser
      /\ last[u] # NoUser => last'[u].password = last[u].password /\ last'[u].link = held[w].link
  BY <1>1, <1>3, TellDoes
<1>5. \A x \in User \ {u} : Exists(x) => rows[x].link # held[w].link
  BY <1>2, MailedLinks
<1>6. ASSUME u \notin crossed PROVE Word(u)'
  <2>1. Word(u) /\ Exists(u) /\ held[w].link = rows[u].link
    BY <1>1, <1>2, <1>6, Undisturbed DEF Faithful
  <2> QED BY <1>3, <1>4, <2>1 DEF Word, Exists
<1>7. ~OnUser(w)' /\ \A v \in Worker \ {w} : /\ pc'[v] = pc[v] /\ req'[v] = req[v]
                                             /\ held'[v] = held[v] /\ found'[v] = found[v]
  BY AnswerMoves DEF Mailed
<1>8. u \notin crossed => \A v \in Worker \ {w} : OnUser(v) => req[v].user # u
  BY <1>1, <1>2, Undisturbed
<1>9. \A x \in User \ {u} : /\ rows'[x] = rows[x] /\ last'[x] = last[x]
                            /\ Exists(x) /\ rows[x].link \in told' => rows[x].link \in told
  BY <1>3, <1>4, <1>5
<1> QED BY <1>3, <1>6, <1>7, <1>8, <1>9, LastKept

LEMMA NotMailedLast ==
  ASSUME TypeInv, TypeInv', LastInv, NEW w \in Worker, NotMailed(w)
  PROVE  LastInv'
<1>1. Functions /\ OnUser(w) /\ pc[w] = "mail" /\ req[w].op = "forgot"
  BY TypeParts DEF NotMailed, Goto, OnUser, TypeInv, Control
<1>2. PICK u \in User : u = req[w].user
  BY <1>1, Undisturbed
<1> DEFINE h == WithLink(held[w], NoLink)
           r == [op |-> "unlink", user |-> u]
<1>3. h.password = held[w].password /\ h.link = NoLink
  BY <1>1, Undisturbed, RowWith
<1>4. r.user = u /\ r.op = "unlink"
  OBVIOUS
<1> HIDE DEF h, r
<1>5. /\ \A v \in Worker \ {w} : /\ pc'[v] = pc[v] /\ req'[v] = req[v]
                                 /\ held'[v] = held[v] /\ found'[v] = found[v]
      /\ pc'[w] = "save" /\ req'[w] = r /\ held'[w] = h
      /\ UNCHANGED <<rows, last, told, crossed>>
  BY <1>1, <1>2 DEF NotMailed, Goto, Functions, ghosts, h, r
<1>6. ASSUME u \notin crossed
      PROVE  /\ Faithful(w)' /\ Word(u)'
             /\ \A v \in Worker \ {w} : OnUser(v) => req[v].user # u
  <2>1. /\ Faithful(w) /\ \A v \in Worker \ {w} : OnUser(v) => req[v].user # u
    BY <1>1, <1>2, <1>6, Undisturbed
  <2>2. Faithful(w)'
    BY <1>1, <1>2, <1>3, <1>4, <1>5, <2>1 DEF Faithful, Exists
  <2> QED BY <1>5, <1>6, <2>1, <2>2, StillTrue
<1> QED BY <1>4, <1>5, <1>6, LastKept

LEMMA DeleteLast ==
  ASSUME TypeInv, TypeInv', LastInv, NEW w \in Worker, Delete(w)
  PROVE  LastInv'
<1>1. Shared /\ OnUser(w)
  BY TypeParts DEF Delete, Goto, Answer, OnUser
<1>2. PICK u \in User : u = req[w].user
  BY <1>1, Undisturbed
<1>3. /\ rows'[u] = NoUser /\ last'[u] = NoUser /\ told' = told /\ crossed' = crossed
      /\ \A x \in User \ {u} : rows'[x] = rows[x] /\ last'[x] = last[x]
  BY <1>1, <1>2 DEF Delete, Shared
<1>4. Word(u)'
  BY <1>3 DEF Word, Exists
<1>5. ~OnUser(w)' /\ \A v \in Worker \ {w} : /\ pc'[v] = pc[v] /\ req'[v] = req[v]
                                             /\ held'[v] = held[v] /\ found'[v] = found[v]
  BY AnswerMoves DEF Delete
<1>6. u \notin crossed => \A v \in Worker \ {w} : OnUser(v) => req[v].user # u
  BY <1>1, <1>2, Undisturbed
<1> QED BY <1>3, <1>4, <1>5, <1>6, LastKept

\* The name was free, or the row was read
LEMMA ReadLast ==
  ASSUME TypeInv, TypeInv', LastInv, NEW w \in Worker, FindFree(w) \/ Compare(w)
  PROVE  LastInv'
<1>1. Functions /\ OnUser(w) /\ pc[w] \in {"free", "save"}
  BY TypeParts DEF FindFree, Compare, Goto, OnUser
<1>2. PICK u \in User : u = req[w].user
  BY <1>1, Undisturbed
<1>3. /\ \A v \in Worker \ {w} : /\ pc'[v] = pc[v] /\ req'[v] = req[v]
                                 /\ held'[v] = held[v] /\ found'[v] = found[v]
      /\ req'[w] = req[w] /\ held'[w] = held[w] /\ pc'[w] \in {"save", "write"}
      /\ pc'[w] = "write" => found'[w] = rows[u]
      /\ UNCHANGED <<rows, last, told, crossed>>
  BY <1>1, <1>2 DEF FindFree, Compare, Goto, Functions, ghosts
<1>4. ASSUME u \notin crossed
      PROVE  /\ Faithful(w)' /\ Word(u)'
             /\ \A v \in Worker \ {w} : OnUser(v) => req[v].user # u
  <2>1. /\ Faithful(w) /\ \A v \in Worker \ {w} : OnUser(v) => req[v].user # u
    BY <1>1, <1>2, <1>4, Undisturbed
  <2>2. Faithful(w)'
    BY <1>2, <1>3, <2>1 DEF Faithful, Exists
  <2> QED BY <1>3, <1>4, <2>1, <2>2, StillTrue
<1> QED BY <1>2, <1>3, <1>4, LastKept

LEMMA ReceiveLast ==
  ASSUME TypeInv, TypeInv', LastInv, NEW w \in Worker, Receive(w)
  PROVE  LastInv'
<1>1. ASSUME NEW u \in User, Exists(u) PROVE rows[u] \in Row
  BY <1>1, TypeParts DEF Shared, Exists
<1>2. CASE \/ \E n \in Name, t \in Tenant, p \in Password : Register(w, n, t, p)
           \/ FirstLogin(w)
  BY <1>2, BeginInsertLast DEF Register, FirstLogin
<1>3. ASSUME NEW u \in User, Touch(w, u) PROVE LastInv'
  <2>1. Begin(w, u, "save", [op |-> "touch", user |-> u], rows[u])
    BY <1>3 DEF Touch
  <2>2. rows[u] \in Row /\ "touch" \in Ops
    BY <1>1, <2>1 DEF Begin, Ops
  <2> QED BY <2>1, <2>2, BeginLast
<1>4. ASSUME NEW u \in User, BeginRemove(w, u) PROVE LastInv'
  <2>1. Begin(w, u, "delete", [op |-> "remove", user |-> u], rows[u])
    BY <1>4 DEF BeginRemove
  <2>2. rows[u] \in Row /\ "remove" \in Ops
    BY <1>1, <2>1 DEF Begin, Ops
  <2> QED BY <2>1, <2>2, BeginLast
<1>5. ASSUME NEW u \in User, NEW p \in Password, SetPassword(w, u, p) PROVE LastInv'
  <2>1. Begin(w, u, "save", [op |-> "password", user |-> u], WithPassword(rows[u], p))
    BY <1>5 DEF SetPassword
  <2>2. rows[u] \in Row /\ "password" \in Ops
    BY <1>1, <2>1 DEF Begin, Ops
  <2>3. WithPassword(rows[u], p) \in Row /\ WithPassword(rows[u], p).link = rows[u].link
    BY <2>2, RowWith
  <2> QED BY <2>1, <2>2, <2>3, BeginLast
<1>6. ASSUME NEW u \in User, NEW n \in Name, Rename(w, u, n) PROVE LastInv'
  <2>1. Begin(w, u, "free", [op |-> "rename", user |-> u], WithName(rows[u], n))
    BY <1>6 DEF Rename
  <2>2. rows[u] \in Row /\ "rename" \in Ops
    BY <1>1, <2>1 DEF Begin, Ops
  <2>3. /\ WithName(rows[u], n) \in Row
        /\ WithName(rows[u], n).password = rows[u].password
        /\ WithName(rows[u], n).link = rows[u].link
    BY <2>2, RowWith
  <2> QED BY <2>1, <2>2, <2>3, BeginLast
<1>7. ASSUME NEW u \in User, NEW l \in Link, Forgot(w, u, l) PROVE LastInv'
  <2>1. Begin(w, u, "save", [op |-> "forgot", user |-> u], WithLink(rows[u], l))
    BY <1>7 DEF Forgot
  <2>2. rows[u] \in Row /\ "forgot" \in Ops
    BY <1>1, <2>1 DEF Begin, Ops
  <2>3. WithLink(rows[u], l) \in Row /\ WithLink(rows[u], l).password = rows[u].password
    BY <2>2, RowWith
  <2> QED BY <2>1, <2>2, <2>3, BeginLast
<1>8. ASSUME NEW u \in User, NEW l \in Link, NEW p \in Password, Reset(w, u, l, p) PROVE LastInv'
  <2>1. Begin(w, u, "save", [op |-> "reset", user |-> u], WithLink(WithPassword(rows[u], p), NoLink))
    BY <1>8 DEF Reset
  <2>2. rows[u] \in Row /\ "reset" \in Ops
    BY <1>1, <2>1 DEF Begin, Ops
  <2>3. WithPassword(rows[u], p) \in Row
    BY <2>2, RowWith
  <2>4. /\ WithLink(WithPassword(rows[u], p), NoLink) \in Row
        /\ WithLink(WithPassword(rows[u], p), NoLink).link = NoLink
    BY <2>3, RowWith
  <2> QED BY <2>1, <2>2, <2>4, BeginLast
<1> QED BY <1>2, <1>3, <1>4, <1>5, <1>6, <1>7, <1>8 DEF Receive

LEMMA NextLast ==
  TypeInv /\ TypeInv' /\ IdentityInv /\ LinkInv /\ LastInv /\ [Next]_vars => LastInv'
<1> SUFFICES ASSUME TypeInv, TypeInv', IdentityInv, LinkInv, LastInv, [Next]_vars PROVE LastInv'
  OBVIOUS
<1>1. ASSUME NEW w \in Worker, Proceed(w) PROVE LastInv'
  BY <1>1, InsertLast, ReadLast, WriteLast, MailedLast, NotMailedLast, DeleteLast DEF Proceed
<1>2. ASSUME NEW w \in Worker, Fail(w) PROVE LastInv'
  BY <1>2, EndsLast DEF Fail, ghosts
<1>3. CASE UNCHANGED <<rows, pc, req, held, found, ghosts>>
  <2>1. UNCHANGED <<rows, pc, req, held, found, last, told, crossed>>
    BY <1>3 DEF ghosts
  <2> QED BY <2>1 DEF LastInv, Alone, AllFaithful, Faithful, LastWord, OnUser, Exists
<1>4. ASSUME NEW l \in Link, Lapse(l) PROVE LastInv'
  BY <1>3, <1>4 DEF Lapse
<1>5. CASE UNCHANGED vars
  BY <1>3, <1>5 DEF vars
<1> QED BY <1>1, <1>2, <1>4, <1>5, ReceiveLast DEF Next

LEMMA InitLast == Init => LastInv
BY DEF Init, LastInv, Alone, AllFaithful, LastWord, OnUser, Exists

\* A user on whom no two requests crossed has the password and the reset link he
\* was last told of, for any number of users, links and requests, failures and
\* failed mails (requestPasswordReset, resetPassword, updateUser).
THEOREM LastWordCorrect == Spec => []LastWord
<1>1. LastInv => LastWord
  BY DEF LastInv
<1> QED BY <1>1, InitTyped, NextTyped, InitIdentity, NextIdentity, InitLinks, NextLinks,
           InitLast, NextLast, PTL DEF Spec

=============================================================================
