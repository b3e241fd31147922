---------------------------- MODULE Subscriptions ----------------------------
(***************************************************************************)
(* Subscriptions, the two columns of a user and the column of a tenant     *)
(* that speak of them, the requests that write them and the nightly job.   *)
(*                                                                         *)
(* Here the services do write through the query runner, so what a request  *)
(* writes becomes visible at its commit, all at once; it reads through the *)
(* repositories, before.  A row a transaction has updated is locked until  *)
(* it ends.  A user is loaded whole and saved with the columns in which    *)
(* the object in memory differs from the row found just before.            *)
(***************************************************************************)
EXTENDS Naturals, FiniteSets

CONSTANTS
    User, Tenant, Sub, Worker,
    MaxBusy,   \* bound on the requests and jobs under way at once
    TenantOf,  \* the tenant of each user
    Opening,   \* the statuses a caller may give a new subscription
    Target,    \* the statuses staff set
    NoSub,
    Keep       \* in what a save will write: a column in which nothing differs

Status == {"active", "trial", "canceled", "expired", "pending", "failed"}

ASSUME SubscriptionsAssumption ==
    /\ MaxBusy \in Nat
    /\ User # {}
    /\ TenantOf \in [User -> Tenant]
    /\ Opening \subseteq Status
    /\ Target \subseteq Status
    /\ NoSub \notin Sub /\ Keep \notin Sub \cup {NoSub} \cup Status

VARIABLES
    status,  \* subscription rows
    owner,   \* the user of each row; the choice for a row not there is free
    late,    \* subscriptions whose end date has passed
    user,    \* status and current: subscriptionStatus and subscriptionId
    tenant,  \* the tenant's subscriptionId
    pc, mem, \* what each request waits for, and what it holds in memory
    job,     \* the nightly job: what it still has to do and what it has loaded
    stillborn,  \* history: subscriptions created with a status that is over
    apart    \* history: users of whom a reader may no longer expect that their
             \* rows agree, see Overlap

vars == <<status, owner, late, user, tenant, stillborn, pc, mem, job, apart>>
rows == <<status, owner, late, user, tenant, stillborn>>

Running == {"active", "trial"}
Over == {"canceled", "expired"}
UserStatus == Running \cup Over

\* Statuses of a subscription that leave its user's as it is
Silent == {"pending", "failed"}
UserRow == [status : UserStatus, current : Sub \cup {NoSub}]

Save == [sub : Status \cup {Keep}, status : UserStatus \cup {Keep}, current : Sub \cup {NoSub, Keep}]
Saving(sub, st, current) == [sub |-> sub, status |-> st, current |-> current]

\* kind: which handler.  loaded: the user it loaded, while that matters.  save:
\* what it will have written at its commit.
Memory == [kind : {"none", "create", "trial", "patch", "edit"}, user : User,
           sub : Sub \cup {NoSub}, status : Status, loaded : UserRow, save : Save]
Mem(kind, u, s, st, loaded, save) ==
    [kind |-> kind, user |-> u, sub |-> s, status |-> st, loaded |-> loaded, save |-> save]

\* The nightly job.  at: what it waits for; sub: the subscription it is at; seen:
\* the users as loaded with its list.
Job(todo, at, s, seen, save) ==
    [todo |-> todo, at |-> at, sub |-> s, seen |-> seen, save |-> save]

Blank == [status |-> "trial", current |-> NoSub]
Unchanged == Saving(Keep, Keep, Keep)
Nothing == Mem("none", CHOOSE u \in User : TRUE, NoSub, "trial", Blank, Unchanged)
Off == Job({}, "off", NoSub, [u \in User |-> Blank], Unchanged)

\* save() compares the object in memory with the row found ...
Change(new, found) == IF new = found THEN Keep ELSE new
UserSave(sub, st, current, found) ==
    Saving(sub, Change(st, found.status), Change(current, found.current))

\* ... and writes the columns that differ
Column(new, old) == IF new = Keep THEN old ELSE new
Written(save, old) ==
    [status |-> Column(save.status, old.status), current |-> Column(save.current, old.current)]

\* A row updated in an open transaction waits for its end
Locked(s) == \E v \in Worker : pc[v] = "commit" /\ mem[v].sub = s /\ mem[v].save.sub # Keep

Step(w, at, m) == pc' = [pc EXCEPT ![w] = at] /\ mem' = [mem EXCEPT ![w] = m]
Leave(w) == Step(w, "idle", Nothing)

Tonight(u) == \E s \in job.todo \cup ({job.sub} \ {NoSub}) : owner[s] = u
Busy(u) == Tonight(u) \/ \E v \in Worker : pc[v] # "idle" /\ mem[v].user = u

Room == Cardinality({w \in Worker : pc[w] # "idle"}) + (IF job.at = "off" THEN 0 ELSE 1) < MaxBusy

\* Requests about one user that overlap, with each other or with the night
Overlap(u) == apart' = IF Busy(u) THEN apart \cup {u} ELSE apart

(***************************************************************************)
(* Requests                                                                *)
(***************************************************************************)

BugBeginNew(w, u, kind) ==
    /\ pc[w] = "idle" /\ Room
    /\ \A s \in Sub : owner[s] = u => status[s] # "active"
    /\ Overlap(u)
    /\ Step(w, "insert", Mem(kind, u, NoSub, "trial", Blank, Unchanged))
    /\ UNCHANGED <<rows, job>>

\* createSubscription and startTrial go on when the user has no subscription that
\* runs.  The user they have loaded is saved with both columns set anew.
BeginNew(w, u, kind) ==
    /\ pc[w] = "idle" /\ Room
    /\ \A s \in Sub : owner[s] = u => status[s] \notin Running
    /\ Overlap(u)
    /\ Step(w, "insert", Mem(kind, u, NoSub, "trial", Blank, Unchanged))
    /\ UNCHANGED <<rows, job>>

BugInsert(w, s, st) ==
    /\ pc[w] = "insert"
    /\ status[s] = "none" /\ \A v \in Worker : pc[v] = "commit" => mem[v].sub # s
    /\ st \in IF mem[w].kind = "trial" THEN {"trial"} ELSE Opening
    /\ Step(w, "commit", Mem(mem[w].kind, mem[w].user, NoSub, "trial", Blank,
                             UserSave(st, "active", s, user[mem[w].user])))
    /\ UNCHANGED <<rows, job, apart>>

BugInsertUser(w, s, st) ==
    /\ pc[w] = "insert"
    /\ status[s] = "none" /\ \A v \in Worker : pc[v] = "commit" => mem[v].sub # s
    /\ st \in IF mem[w].kind = "trial" THEN {"trial"} ELSE Opening
    /\ Step(w, "commit", Mem(mem[w].kind, mem[w].user, s, "trial", Blank, Saving(st, Keep, Keep)))
    /\ user' = [user EXCEPT ![mem[w].user] =
                  [status |-> IF mem[w].kind = "trial" THEN "trial" ELSE "active", current |-> s]]
    /\ UNCHANGED <<status, owner, late, tenant, stillborn, job, apart>>

\* The new row, with whatever status the caller asked for or TRIAL, and the user,
\* who is to point at it and counts as subscribed, compared with the row found
Insert(w, s, st) ==
    /\ pc[w] = "insert"
    /\ status[s] = "none" /\ \A v \in Worker : pc[v] = "commit" => mem[v].sub # s
    /\ st \in IF mem[w].kind = "trial" THEN {"trial"} ELSE Opening
    /\ Step(w, "commit", Mem(mem[w].kind, mem[w].user, s, "trial", Blank,
                             UserSave(st, IF mem[w].kind = "trial" THEN "trial" ELSE "active",
                                      s, user[mem[w].user])))
    /\ UNCHANGED <<rows, job, apart>>

\* updateSubscription and cancelSubscription load the row with its user.  Staff
\* may set a subscription running again, whatever else the user has.
BeginPatch(w, s, st) ==
    /\ pc[w] = "idle" /\ Room
    /\ status[s] # "none"
    /\ IF st \in Running THEN apart' = apart \cup {owner[s]} ELSE Overlap(owner[s])
    /\ Step(w, "patch", Mem("patch", owner[s], s, st, user[owner[s]], Unchanged))
    /\ UNCHANGED <<rows, job>>

\* A patch without a status writes the status it loaded
BeginEdit(w, s) ==
    /\ pc[w] = "idle" /\ Room
    /\ status[s] # "none"
    /\ Overlap(owner[s])
    /\ Step(w, "patch", Mem("edit", owner[s], s, status[s], Blank, Unchanged))
    /\ UNCHANGED <<rows, job>>

\* What becomes of the user when staff set a subscription's status
Following(st, old) ==
    IF st \in Over THEN "canceled" ELSE IF st \in Silent THEN old ELSE st

\* The subscription is compared and updated, then the user compared
Patch(w) ==
    /\ pc[w] = "patch"
    /\ ~Locked(mem[w].sub)
    /\ LET m == mem[w]
           sub == Change(m.status, status[m.sub])
           save == IF m.kind = "edit" THEN Saving(sub, Keep, Keep)
                   ELSE UserSave(sub, Following(m.status, m.loaded.status),
                                 m.loaded.current, user[m.user])
       IN  Step(w, "commit", Mem(m.kind, m.user, m.sub, "trial", Blank, save))
    /\ UNCHANGED <<rows, job, apart>>

\* All that a request has written becomes visible at once
Commit(w) ==
    LET m == mem[w]
        new == m.kind \in {"create", "trial"}
    IN  /\ pc[w] = "commit"
        /\ status' = [status EXCEPT ![m.sub] = Column(m.save.sub, @)]
        /\ owner' = IF new THEN [owner EXCEPT ![m.sub] = m.user] ELSE owner
        /\ user' = [user EXCEPT ![m.user] = Written(m.save, user[m.user])]
        /\ tenant' = IF m.kind = "create"
                     THEN [tenant EXCEPT ![TenantOf[m.user]] = m.sub] ELSE tenant
        /\ stillborn' = IF new /\ m.save.sub \in Over THEN stillborn \cup {m.sub} ELSE stillborn
        /\ Leave(w)
        /\ UNCHANGED <<late, job, apart>>

\* Any await may reject: the transaction is rolled back
Fail(w) ==
    /\ pc[w] # "idle"
    /\ Leave(w)
    /\ UNCHANGED <<rows, job, apart>>

(***************************************************************************)
(* The nightly job                                                         *)
(***************************************************************************)

\* End dates pass
Lapse(s) ==
    /\ status[s] = "trial" /\ s \notin late
    /\ late' = late \cup {s}
    /\ UNCHANGED <<status, owner, user, tenant, stillborn, pc, mem, job, apart>>

Expired == {s \in late : status[s] = "trial"}

Timely == {s \in Sub \ late : status[s] = "trial"}

BugMidnight ==
    /\ job.at = "off" /\ Room
    /\ Timely # {}
    /\ job' = Job(Timely, "next", NoSub,
                  [u \in User |-> IF \E s \in Timely : owner[s] = u THEN user[u] ELSE Blank],
                  Unchanged)
    /\ apart' = apart \cup {owner[s] : s \in {t \in Timely : Busy(owner[t])}}
    /\ UNCHANGED <<rows, pc, mem>>

\* checkExpiredTrials loads all trials that are over, each with its user
Midnight ==
    /\ job.at = "off" /\ Room
    /\ Expired # {}
    /\ job' = Job(Expired, "next", NoSub,
                  [u \in User |-> IF \E s \in Expired : owner[s] = u THEN user[u] ELSE Blank],
                  Unchanged)
    /\ apart' = apart \cup {owner[s] : s \in {t \in Expired : Busy(owner[t])}}
    /\ UNCHANGED <<rows, pc, mem>>

After(todo) == IF todo = {} THEN Off ELSE Job(todo, "next", NoSub, job.seen, Unchanged)

\* It saves one of them as expired ...
Expire(s) ==
    /\ job.at = "next" /\ s \in job.todo
    /\ ~Locked(s)
    /\ status' = [status EXCEPT ![s] = "expired"]
    /\ job' = Job(job.todo \ {s}, "user", s, job.seen, Unchanged)
    /\ UNCHANGED <<owner, late, user, tenant, stillborn, pc, mem, apart>>

\* ... compares its user, as loaded with the job's list, ...
CompareUser ==
    /\ job.at = "user"
    /\ LET u == owner[job.sub]
       IN  job' = Job(job.todo, "save", job.sub, job.seen,
                      UserSave(Keep, "expired", job.seen[u].current, user[u]))
    /\ UNCHANGED <<rows, pc, mem, apart>>

BugExpireUser ==
    /\ job.at = "save"
    /\ job' = After(job.todo)
    /\ UNCHANGED <<rows, pc, mem, apart>>

\* ... and saves it; then comes the mail, and the next one
ExpireUser ==
    /\ job.at = "save"
    /\ user' = [user EXCEPT ![owner[job.sub]] = Written(job.save, @)]
    /\ job' = After(job.todo)
    /\ UNCHANGED <<status, owner, late, tenant, stillborn, pc, mem, apart>>

\* An error is logged and the job goes on with the next one; the user of one
\* whose subscription is saved already keeps his status for good
Skip ==
    /\ \/ \E s \in job.todo : job.at = "next" /\ ~Locked(s) /\ job' = After(job.todo \ {s}) /\ UNCHANGED apart
       \/ /\ job.at \in {"user", "save"}
          /\ job' = After(job.todo)
          /\ apart' = apart \cup {owner[job.sub]}
    /\ UNCHANGED <<rows, pc, mem>>

\* The server stops, and starts again
Crash ==
    /\ job.at # "off" \/ \E w \in Worker : pc[w] # "idle"
    /\ pc' = [w \in Worker |-> "idle"]
    /\ mem' = [w \in Worker |-> Nothing]
    /\ job' = Off
    /\ apart' = IF job.at \in {"user", "save"} THEN apart \cup {owner[job.sub]} ELSE apart
    /\ UNCHANGED rows

Init ==
    /\ status = [s \in Sub |-> "none"]
    /\ owner = [s \in Sub |-> Nothing.user]
    /\ late = {}
    /\ user = [u \in User |-> Blank]
    /\ tenant = [t \in Tenant |-> NoSub]
    /\ stillborn = {}
    /\ pc = [w \in Worker |-> "idle"]
    /\ mem = [w \in Worker |-> Nothing]
    /\ job = Off
    /\ apart = {}

Request(w) ==
    \/ \E u \in User, kind \in {"create", "trial"} : BeginNew(w, u, kind)
    \/ \E s \in Sub, st \in Target : BeginPatch(w, s, st)
    \/ \E s \in Sub : BeginEdit(w, s)

Proceed(w) ==
    \/ Patch(w) \/ Commit(w) \/ Fail(w)
    \/ \E s \in Sub, st \in Status : Insert(w, s, st)

Night == Midnight \/ CompareUser \/ ExpireUser \/ Skip \/ \E s \in Sub : Expire(s)

Next ==
    \/ \E w \in Worker : Request(w) \/ Proceed(w)
    \/ \E s \in Sub : Lapse(s)
    \/ Night
    \/ Crash

\* Requests end, the job is started every night and goes on, and the save of a
\* subscription, tried every night, succeeds some night
Spec ==
    /\ Init /\ [][Next]_vars
    /\ \A w \in Worker : WF_vars(Proceed(w))
    /\ SF_vars(Night)
    /\ \A s \in Sub : SF_vars(Expire(s))

(***************************************************************************)
(* Properties                                                              *)
(***************************************************************************)

\* Type invariant: a request at its commit, or changing a subscription, has one.
TypeOK ==
    /\ status \in [Sub -> Status \cup {"none"}]
    /\ owner \in [Sub -> User]
    /\ late \subseteq Sub
    /\ user \in [User -> UserRow]
    /\ tenant \in [Tenant -> Sub \cup {NoSub}]
    /\ stillborn \subseteq Sub
    /\ pc \in [Worker -> {"idle", "insert", "patch", "commit"}]
    /\ mem \in [Worker -> Memory]
    /\ job \in [todo : SUBSET Sub, at : {"off", "next", "user", "save"}, sub : Sub \cup {NoSub},
                seen : [User -> UserRow], save : Save]
    /\ apart \subseteq User
    /\ \A w \in Worker : pc[w] \in {"patch", "commit"} => mem[w].sub \in Sub
    /\ job.at \in {"user", "save"} => job.sub \in Sub

\* The subscription a user or a tenant points at exists and is one of its own,
\* whatever fails between the writes of a creation, whoever saves the user with
\* what he loaded before, and whenever the server stops.
PointersWhole ==
    /\ \A u \in User : user[u].current # NoSub =>
        status[user[u].current] # "none" /\ owner[user[u].current] = u
    /\ \A t \in Tenant : tenant[t] # NoSub =>
        status[tenant[t]] # "none" /\ TenantOf[owner[tenant[t]]] = t

\* As long as requests about a user do not overlap with each other or the night,
\* and staff do not set an old subscription running, he has at most one that runs
\* (subscription.service.ts:124, 345).
OneRunning ==
    \A u \in User \ apart :
        \A s, t \in Sub : {status[s], status[t]} \subseteq Running /\ owner[s] = u /\ owner[t] = u => s = t

\* Under the same conditions, and unless the night failed half way with him, no
\* request and no night leaves a user subscribed who points at a subscription that
\* was canceled or has expired.  A caller who creates one canceled or expired does
\* (subscription.service.ts:134-147), and one set to pending or failed leaves its
\* user subscribed (245-256).
UserFollows ==
    \A u \in User \ apart :
        LET current == user[u].current
        IN  ~Busy(u) /\ user[u].status \in Running /\ current # NoSub /\ status[current] \in Over =>
                current \in stillborn

\* A trial past its end ends, whatever requests, failures and crashes come in
\* between (subscription.scheduler.ts:12 "Check for expired trials every day").
TrialEnds == \A s \in Sub : (s \in Expired ~> s \notin Expired) \/ []<><<Crash>>_vars
=============================================================================
