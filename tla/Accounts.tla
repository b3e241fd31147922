------------------------------- MODULE Accounts -------------------------------
(***************************************************************************)
(* The rows of users and the requests that write them (auth.service.ts):   *)
(* registration, edits and removal by an administrator, the mailed link    *)
(* that resets a password, and the first and later log-ins through a       *)
(* provider.                                                               *)
(*                                                                         *)
(* All but registration work on an object loaded before other awaits and   *)
(* save it: save() reads the row again and writes the columns that differ, *)
(* whoever changed them.                                                   *)
(***************************************************************************)
EXTENDS FiniteSets

CONSTANTS
    User,      \* ids a row can be given; an id is given once
    Name,      \* user names
    Email,     \* the name a user of the provider gets: his address
    Tenant,
    Provider,  \* stands for the tenant of users who came through the provider
    Password, Random,   \* passwords users choose; the one of a provider's user
    Link, NoLink,       \* links that reset a password; each is mailed once
    Worker     \* the requests in flight at once

ASSUME AccountsAssumption ==
    /\ Email \in Name
    /\ Provider \notin Tenant /\ Random \notin Password /\ NoLink \notin Link

VARIABLES
    rows,      \* the user rows
    pc, req,   \* the next await of each request, and its parameters
    held,      \* the User object it works on
    found,     \* the row its save compares that object with
    lapsed,    \* links whose hour is over
    (* history variables, read by properties and for fresh ids only *)
    used,      \* ids and links given so far
    told,      \* links whose mail the server reported as sent
    last,      \* what became of each user, by the requests on him in their order
    crossed,   \* users whom two requests worked on at once
    renamed    \* an administrator renamed a user of the provider

ghosts == <<used, told, last, crossed, renamed>>
vars   == <<rows, pc, req, held, found, lapsed, ghosts>>

NoUser == [of |-> "nobody"]
NoReq  == [op |-> "none"]

Account(name, of, password, link) ==
    [name |-> name, of |-> of, password |-> password, link |-> link]

WithName(r, n)     == Account(n, r.of, r.password, r.link)
WithPassword(r, p) == Account(r.name, r.of, p, r.link)
WithLink(r, l)     == Account(r.name, r.of, r.password, l)

Exists(u) == rows[u] # NoUser

\* The unique column
Free(n, u) == \A v \in User \ {u} : Exists(v) => rows[v].name # n

(***************************************************************************)
(* Requests                                                                *)
(***************************************************************************)

Working(u) == {w \in Worker : pc[w] # "idle" /\ req[w].op # "insert" /\ req[w].user = u}

Goto(w, from, to) ==
    /\ pc[w] = from
    /\ pc' = [pc EXCEPT ![w] = to]

Answer(w, from) ==
    /\ Goto(w, from, "idle")
    /\ req' = [req EXCEPT ![w] = NoReq]
    /\ held' = [held EXCEPT ![w] = NoUser]
    /\ found' = [found EXCEPT ![w] = NoUser]

\* A request that will insert a row, under an id not known yet
BeginInsert(w, object) ==
    /\ Goto(w, "idle", "insert")
    /\ req' = [req EXCEPT ![w] = [op |-> "insert"]]
    /\ held' = [held EXCEPT ![w] = object]
    /\ UNCHANGED <<rows, found, lapsed, ghosts>>

\* A request that has loaded a row and changed the object
Begin(w, u, label, r, object) ==
    /\ Exists(u)
    /\ Goto(w, "idle", label)
    /\ req' = [req EXCEPT ![w] = r]
    /\ held' = [held EXCEPT ![w] = object]
    /\ crossed' = IF Working(u) = {} THEN crossed ELSE crossed \cup {u}
    /\ UNCHANGED <<rows, found, lapsed, told, last, renamed>>

\* register: the name is looked for in the tenant, the password hashed; a tenant
\* that is not open refuses
Register(w, n, t, p) ==
    /\ \A u \in User : Exists(u) /\ rows[u].of = t => rows[u].name # n
    /\ BeginInsert(w, Account(n, t, p, NoLink))

BugInsert(w, u) ==
    /\ u \notin used
    /\ Answer(w, "insert")
    /\ rows' = [rows EXCEPT ![u] = held[w]]
    /\ last' = [last EXCEPT ![u] = [password |-> held[w].password, link |-> NoLink]]
    /\ used' = used \cup {u}
    /\ UNCHANGED <<lapsed, told, crossed, renamed>>

\* ... and the row is inserted, if the name is nobody's in any tenant
Insert(w, u) ==
    /\ u \notin used
    /\ Answer(w, "insert")
    /\ Free(held[w].name, u)
    /\ rows' = [rows EXCEPT ![u] = held[w]]
    /\ last' = [last EXCEPT ![u] = [password |-> held[w].password, link |-> NoLink]]
    /\ used' = used \cup {u}
    /\ UNCHANGED <<lapsed, told, crossed, renamed>>

\* oauthLogin: a user who came through the provider is looked for
FirstLogin(w) ==
    /\ \A u \in User : Exists(u) => rows[u].of # Provider
    /\ BeginInsert(w, Account(Email, Provider, Random, NoLink))

\* ... and found: his provider data are saved.  updateUser saves other columns of
\* any user the same way.
Touch(w, u) ==
    /\ Begin(w, u, "save", [op |-> "touch", user |-> u], rows[u])
    /\ UNCHANGED used

\* updateUser of the password
SetPassword(w, u, p) ==
    /\ Begin(w, u, "save", [op |-> "password", user |-> u], WithPassword(rows[u], p))
    /\ UNCHANGED used

\* updateUser of the name, which is looked for among all users
Rename(w, u, n) ==
    /\ Begin(w, u, "free", [op |-> "rename", user |-> u], WithName(rows[u], n))
    /\ rows[u].name # n
    /\ UNCHANGED used

FindFree(w) ==
    /\ Goto(w, "free", "save")
    /\ \A u \in User : Exists(u) => rows[u].name # held[w].name
    /\ UNCHANGED <<rows, req, held, found, lapsed, ghosts>>

\* requestPasswordReset, for a user with the address
Forgot(w, u, l) ==
    /\ l \notin used
    /\ Begin(w, u, "save", [op |-> "forgot", user |-> u], WithLink(rows[u], l))
    /\ used' = used \cup {l}

BugReset(w, u, l, p) ==
    /\ Exists(u) /\ rows[u].link = l /\ l \notin lapsed
    /\ Begin(w, u, "save", [op |-> "reset", user |-> u], WithPassword(rows[u], p))
    /\ UNCHANGED used

\* resetPassword, by whoever has the link
Reset(w, u, l, p) ==
    /\ Exists(u) /\ rows[u].link = l /\ l \notin lapsed
    /\ Begin(w, u, "save", [op |-> "reset", user |-> u],
             WithLink(WithPassword(rows[u], p), NoLink))
    /\ UNCHANGED used

\* save() reads the row ...
Compare(w) ==
    /\ Goto(w, "save", "write")
    /\ found' = [found EXCEPT ![w] = rows[req[w].user]]
    /\ UNCHANGED <<rows, req, held, lapsed, ghosts>>

\* ... and writes the columns that differ; a row it did not find is inserted, one
\* deleted since is left alone
Stored(w) ==
    LET u == req[w].user
        was == found[w]
        new == held[w]
        now == rows[u]
    IN  IF was = NoUser THEN new
        ELSE IF now = NoUser THEN NoUser
        ELSE Account(IF new.name # was.name THEN new.name ELSE now.name, now.of,
                     IF new.password # was.password THEN new.password ELSE now.password,
                     IF new.link # was.link THEN new.link ELSE now.link)

\* What u has been told, unless he was removed
Tell(u, password, link) ==
    last' = IF last[u] = NoUser THEN last
            ELSE [last EXCEPT ![u] = [password |-> password, link |-> link]]

Saved(w) ==
    LET r == req[w]
    IN  Tell(r.user,
             IF r.op \in {"password", "reset"} THEN held[w].password ELSE last[r.user].password,
             IF r.op \in {"forgot", "unlink", "reset"} THEN NoLink ELSE last[r.user].link)

Write(w) ==
    LET u == req[w].user
        row == Stored(w)
    IN  /\ IF req[w].op = "forgot"
           THEN Goto(w, "write", "mail") /\ UNCHANGED <<req, held, found>>
           ELSE Answer(w, "write")
        /\ found[w] = NoUser => ~Exists(u)
        /\ row # NoUser => Free(row.name, u)
        /\ rows' = [rows EXCEPT ![u] = row]
        /\ Saved(w)
        /\ renamed' = (renamed \/ (held[w].of = Provider /\ held[w].name # Email))
        /\ UNCHANGED <<lapsed, used, told, crossed>>

\* The mail with the link is sent
Mailed(w) ==
    /\ Answer(w, "mail")
    /\ told' = told \cup {held[w].link}
    /\ Tell(req[w].user, last[req[w].user].password, held[w].link)
    /\ UNCHANGED <<rows, lapsed, used, crossed, renamed>>

BugNotMailed(w) ==
    /\ pc[w] = "mail"
    /\ held' = [held EXCEPT ![w] = WithLink(@, NoLink)]
    /\ UNCHANGED <<rows, pc, req, found, lapsed, ghosts>>

\* It is not: the same object is saved again, without the link
NotMailed(w) ==
    /\ Goto(w, "mail", "save")
    /\ req' = [req EXCEPT ![w] = [op |-> "unlink", user |-> req[w].user]]
    /\ held' = [held EXCEPT ![w] = WithLink(@, NoLink)]
    /\ UNCHANGED <<rows, found, lapsed, ghosts>>

BeginRemove(w, u) ==
    /\ Begin(w, u, "delete", [op |-> "remove", user |-> u], rows[u])
    /\ UNCHANGED used

\* Refused while other rows refer to the user: Fail
Delete(w) ==
    /\ Answer(w, "delete")
    /\ rows' = [rows EXCEPT ![req[w].user] = NoUser]
    /\ last' = [last EXCEPT ![req[w].user] = NoUser]
    /\ UNCHANGED <<lapsed, used, told, crossed, renamed>>

\* An await rejects, a check refuses, or the process dies
Fail(w) ==
    /\ pc[w] # "idle"
    /\ Answer(w, pc[w])
    /\ UNCHANGED <<rows, lapsed, ghosts>>

Lapse(l) ==
    /\ l \in used \ lapsed
    /\ lapsed' = lapsed \cup {l}
    /\ UNCHANGED <<rows, pc, req, held, found, ghosts>>

Init ==
    /\ rows  = [u \in User |-> NoUser]
    /\ pc    = [w \in Worker |-> "idle"]
    /\ req   = [w \in Worker |-> NoReq]
    /\ held  = [w \in Worker |-> NoUser]
    /\ found = [w \in Worker |-> NoUser]
    /\ last  = [u \in User |-> NoUser]
    /\ lapsed = {} /\ used = {} /\ told = {} /\ crossed = {} /\ renamed = FALSE

Receive(w) ==
    \/ \E n \in Name, t \in Tenant, p \in Password : Register(w, n, t, p)
    \/ FirstLogin(w)
    \/ \E u \in User :
        \/ Touch(w, u) \/ BeginRemove(w, u)
        \/ \E p \in Password : SetPassword(w, u, p)
        \/ \E n \in Name : Rename(w, u, n)
        \/ \E l \in Link : Forgot(w, u, l)
        \/ \E l \in Link, p \in Password : Reset(w, u, l, p)

Proceed(w) ==
    \/ \E u \in User : Insert(w, u)
    \/ FindFree(w) \/ Compare(w) \/ Write(w) \/ Mailed(w) \/ NotMailed(w) \/ Delete(w)

Next ==
    \/ \E w \in Worker : Receive(w) \/ Proceed(w) \/ Fail(w)
    \/ \E l \in Link : Lapse(l)

Spec == Init /\ [][Next]_vars

(***************************************************************************)
(* Properties                                                              *)
(***************************************************************************)

Row == [name : Name, of : Tenant \cup {Provider}, password : Password \cup {Random},
        link : Link \cup {NoLink}]

Request ==
    [op : {"insert"}]
    \cup [op : {"touch", "password", "rename", "forgot", "unlink", "reset", "remove"}, user : User]

\* Type invariant: a request that saves holds an object.
TypeOK ==
    /\ rows \in [User -> Row \cup {NoUser}]
    /\ pc \in [Worker -> {"idle", "insert", "free", "save", "write", "mail", "delete"}]
    /\ req \in [Worker -> Request \cup {NoReq}]
    /\ held \in [Worker -> Row \cup {NoUser}]
    /\ found \in [Worker -> Row \cup {NoUser}]
    /\ \A w \in Worker : pc[w] # "idle" => req[w] # NoReq /\ held[w] # NoUser
    /\ lapsed \subseteq Link /\ told \subseteq Link
    /\ used \subseteq User \cup Link
    /\ last \in [User -> [password : Password \cup {Random}, link : Link \cup {NoLink}] \cup {NoUser}]
    /\ crossed \subseteq User
    /\ renamed \in BOOLEAN

\* A user whom never two requests worked on at once has the password he was last
\* given, and the last link the server said it mailed him is the only such link
\* that works: not once it was used, replaced or taken back, and not for a user
\* who was removed, wherever requests failed (requestPasswordReset, resetPassword,
\* updateUser, oauthLogin, removeUser).
LastWord ==
    \A u \in User \ crossed :
        /\ Exists(u) <=> last[u] # NoUser
        /\ Exists(u) =>
            /\ rows[u].password = last[u].password
            /\ rows[u].link \in told \cup {last[u].link} => rows[u].link = last[u].link

\* However many first log-ins through the provider overlap, with registrations
\* under the same name and stale saves of removed users, one person has one row:
\* oauthLogin relies on the user name being his address and unique.
IdentityOnce ==
    ~renamed =>
        \A u, v \in User :
            Exists(u) /\ Exists(v) /\ rows[u].of = Provider /\ rows[v].of = Provider => u = v
=============================================================================
