-------------------------- MODULE Subscriptions_proofs --------------------------
(***************************************************************************)
(* Proofs about Subscriptions, in two layers.                              *)
(*                                                                         *)
(* PointInv: what the rows, the requests and the job hold always points at *)
(* subscriptions that exist and belong to the user in question, because no *)
(* step takes a subscription away or gives it to someone else; the one a   *)
(* request creates is nobody's until its commit.                           *)
(*                                                                         *)
(* RunInv: a user who is not apart has one thing happening to him at a     *)
(* time, so what a request or the job knows of him is still true when it   *)
(* writes.                                                                 *)
(***************************************************************************)
EXTENDS Subscriptions, TLAPS

(***************************************************************************)
(* Records                                                                 *)
(***************************************************************************)

LEMMA SavingFields ==
  ASSUME NEW sub \in Status \cup {Keep}, NEW st \in UserStatus \cup {Keep},
         NEW current \in Sub \cup {NoSub, Keep}
  PROVE  /\ Saving(sub, st, current) \in Save
         /\ Saving(sub, st, current).sub = sub /\ Saving(sub, st, current).status = st
         /\ Saving(sub, st, current).current = current
BY DEF Saving, Save

LEMMA SaveFields ==
  ASSUME NEW save \in Save
  PROVE  /\ save.sub \in Status \cup {Keep} /\ save.status \in UserStatus \cup {Keep}
         /\ save.current \in Sub \cup {NoSub, Keep}
BY DEF Save

LEMMA RowFields ==
  /\ \A row \in UserRow : row.status \in UserStatus /\ row.current \in Sub \cup {NoSub}
  /\ \A st \in UserStatus, c \in Sub \cup {NoSub} :
        /\ [status |-> st, current |-> c] \in UserRow
        /\ [status |-> st, current |-> c].status = st
        /\ [status |-> st, current |-> c].current = c
BY DEF UserRow

LEMMA Constants ==
  /\ Keep \notin Sub \cup {NoSub} \cup Status /\ NoSub \notin Sub
  /\ UserStatus \subseteq Status /\ Running \subseteq UserStatus
  /\ Blank \in UserRow /\ Blank.current = NoSub /\ Blank.status = "trial"
  /\ Unchanged \in Save /\ Unchanged.sub = Keep /\ Unchanged.status = Keep /\ Unchanged.current = Keep
BY SubscriptionsAssumption
   DEF SubscriptionsAssumption, Status, UserStatus, Running, Over, Blank, UserRow, Unchanged, Saving, Save

Kinds == {"none", "create", "trial", "patch", "edit"}

LEMMA MemFields ==
  ASSUME NEW kind \in Kinds, NEW u \in User, NEW s \in Sub \cup {NoSub}, NEW st \in Status,
         NEW loaded \in UserRow, NEW save \in Save
  PROVE  LET m == Mem(kind, u, s, st, loaded, save)
         IN  /\ m \in Memory /\ m.kind = kind /\ m.user = u /\ m.sub = s /\ m.status = st
             /\ m.loaded = loaded /\ m.save = save
BY DEF Mem, Memory, Kinds

LEMMA MemoryFields ==
  ASSUME NEW m \in Memory
  PROVE  /\ m.kind \in Kinds /\ m.user \in User /\ m.sub \in Sub \cup {NoSub} /\ m.status \in Status
         /\ m.loaded \in UserRow /\ m.save \in Save
BY DEF Memory, Kinds

LEMMA NothingFields ==
  Nothing \in Memory /\ Nothing.kind = "none"
<1>1. (CHOOSE u \in User : TRUE) \in User
  BY SubscriptionsAssumption DEF SubscriptionsAssumption
<1>2. "trial" \in Status /\ "none" \in Kinds /\ NoSub \in Sub \cup {NoSub}
  BY DEF Status, Kinds
<1> QED BY <1>1, <1>2, MemFields, Constants DEF Nothing

Jobs == [todo : SUBSET Sub, at : {"off", "next", "user", "save"}, sub : Sub \cup {NoSub},
         seen : [User -> UserRow], save : Save]

LEMMA JobFields ==
  ASSUME NEW todo \in SUBSET Sub, NEW at \in {"off", "next", "user", "save"},
         NEW s \in Sub \cup {NoSub}, NEW seen \in [User -> UserRow], NEW save \in Save
  PROVE  LET j == Job(todo, at, s, seen, save)
         IN  /\ j \in Jobs /\ j.todo = todo /\ j.at = at /\ j.sub = s /\ j.seen = seen /\ j.save = save
BY DEF Job, Jobs

LEMMA JobsFields ==
  ASSUME NEW j \in Jobs
  PROVE  /\ j.todo \in SUBSET Sub /\ j.at \in {"off", "next", "user", "save"}
         /\ j.sub \in Sub \cup {NoSub} /\ j.seen \in [User -> UserRow] /\ j.save \in Save
BY DEF Jobs

LEMMA OffFields ==
  /\ Off \in Jobs /\ Off.todo = {} /\ Off.at = "off" /\ Off.sub = NoSub
  /\ Off.seen = [u \in User |-> Blank]
<1> DEFINE seen == [u \in User |-> Blank]
<1>1. seen \in [User -> UserRow]
  BY Constants
<1>2. Off = Job({}, "off", NoSub, seen, Unchanged)
  BY DEF Off
<1> HIDE DEF seen
<1>3. {} \in SUBSET Sub /\ NoSub \in Sub \cup {NoSub} /\ Unchanged \in Save
  BY Constants
<1> DEFINE j == Job({}, "off", NoSub, seen, Unchanged)
<1>4. /\ j \in Jobs /\ j.todo = {} /\ j.at = "off" /\ j.sub = NoSub /\ j.seen = seen
  BY <1>1, <1>3, JobFields
<1> HIDE DEF j
<1>5. Off = j
  BY <1>2 DEF j
<1> QED BY <1>4, <1>5 DEF seen

(***************************************************************************)
(* What a save does                                                        *)
(***************************************************************************)

LEMMA ChangeColumn ==
  ASSUME NEW new, NEW old, new # Keep
  PROVE  /\ Change(new, old) \in {new, Keep} /\ Column(Change(new, old), old) = new
         /\ Change(old, old) = Keep /\ Column(Keep, old) = old
BY DEF Change, Column

LEMMA UserSaveFields ==
  ASSUME NEW sub \in Status \cup {Keep}, NEW st \in UserStatus, NEW c \in Sub \cup {NoSub},
         NEW found \in UserRow
  PROVE  LET save == UserSave(sub, st, c, found)
         IN  /\ save \in Save /\ save.sub = sub /\ save.status = Change(st, found.status)
             /\ save.current = Change(c, found.current)
<1>1. /\ Change(st, found.status) \in UserStatus \cup {Keep}
      /\ Change(c, found.current) \in Sub \cup {NoSub, Keep}
  BY DEF Change
<1> QED BY <1>1, SavingFields DEF UserSave

LEMMA WrittenFields ==
  ASSUME NEW save \in Save, NEW old \in UserRow
  PROVE  /\ Written(save, old) \in UserRow
         /\ Written(save, old).status = Column(save.status, old.status)
         /\ Written(save, old).current = Column(save.current, old.current)
<1>1. Column(save.status, old.status) \in UserStatus /\ Column(save.current, old.current) \in Sub \cup {NoSub}
  BY SaveFields, RowFields DEF Column
<1> QED BY <1>1, RowFields DEF Written

LEMMA FollowingStatus ==
  ASSUME NEW st \in Status, NEW old \in UserStatus
  PROVE  Following(st, old) \in UserStatus
BY DEF Following, Status, UserStatus, Running, Over, Silent

(***************************************************************************)
(* Types                                                                   *)
(***************************************************************************)

Rows ==
    /\ status \in [Sub -> Status \cup {"none"}]
    /\ owner \in [Sub -> User]
    /\ late \subseteq Sub
    /\ user \in [User -> UserRow]
    /\ tenant \in [Tenant -> Sub \cup {NoSub}]
    /\ stillborn \subseteq Sub

Desks ==
    /\ pc \in [Worker -> {"idle", "insert", "patch", "commit"}]
    /\ mem \in [Worker -> Memory]
    /\ \A w \in Worker : pc[w] \in {"patch", "commit"} => mem[w].sub \in Sub

JobTyped == job \in Jobs /\ (job.at \in {"user", "save"} => job.sub \in Sub)

LEMMA TypeParts == TypeOK <=> Rows /\ Desks /\ JobTyped /\ apart \subseteq User
BY DEF TypeOK, Rows, Desks, JobTyped, Jobs

LEMMA TypedNext == Rows' /\ Desks' /\ JobTyped' /\ apart' \subseteq User => TypeOK'
BY DEF TypeOK, Rows, Desks, JobTyped, Jobs

LEMMA StepTyped ==
  ASSUME Desks, NEW w \in Worker, NEW at \in {"idle", "insert", "patch", "commit"},
         NEW m \in Memory, at \in {"patch", "commit"} => m.sub \in Sub, Step(w, at, m)
  PROVE  /\ Desks' /\ pc'[w] = at /\ mem'[w] = m
         /\ \A v \in Worker \ {w} : pc'[v] = pc[v] /\ mem'[v] = mem[v]
BY DEF Desks, Step

LEMMA LeaveTyped ==
  ASSUME Desks, NEW w \in Worker, Leave(w)
  PROVE  /\ Desks' /\ pc'[w] = "idle" /\ mem'[w] = Nothing
         /\ \A v \in Worker \ {w} : pc'[v] = pc[v] /\ mem'[v] = mem[v]
BY StepTyped, NothingFields DEF Leave

LEMMA AfterTyped ==
  ASSUME JobTyped, NEW todo \in SUBSET job.todo
  PROVE  LET j == After(todo)
         IN  /\ j \in Jobs /\ j.todo = todo /\ j.sub = NoSub
             /\ j.at \in {"off", "next"} /\ (j.at = "off" => todo = {})
             /\ j.seen \in {job.seen, Off.seen} /\ (todo # {} => j.seen = job.seen)
<1>1. todo \in SUBSET Sub /\ job.seen \in [User -> UserRow]
  BY JobsFields DEF JobTyped
<1>2. CASE todo = {}
  BY <1>2, OffFields DEF After
<1>3. CASE todo # {}
  <2>1. After(todo) = Job(todo, "next", NoSub, job.seen, Unchanged)
    BY <1>3 DEF After
  <2> QED BY <1>1, <1>3, <2>1, JobFields, Constants
<1> QED BY <1>2, <1>3

(***************************************************************************)
(* What the steps do                                                       *)
(***************************************************************************)

\* A request that creates a subscription; a request under way
New(w) == mem[w].kind \in {"create", "trial"}
Active(w) == pc[w] # "idle"

Exists(s) == status[s] # "none"

\* What may stand in a column of u that points at a subscription
Points(c, u) == c = NoSub \/ (c \in Sub /\ Exists(c) /\ owner[c] = u)

LEMMA BeginNewDoes ==
  ASSUME TypeOK, NEW w \in Worker, NEW u \in User, NEW kind \in {"create", "trial"}, BeginNew(w, u, kind)
  PROVE  /\ UNCHANGED <<rows, job>> /\ Overlap(u) /\ pc[w] = "idle" /\ pc'[w] = "insert"
         /\ mem'[w].kind = kind /\ mem'[w].user = u
         /\ \A v \in Worker \ {w} : pc'[v] = pc[v] /\ mem'[v] = mem[v]
         /\ Desks'
<1> DEFINE m == Mem(kind, u, NoSub, "trial", Blank, Unchanged)
<1>1. m \in Memory /\ m.kind = kind /\ m.user = u
  BY Constants, MemFields DEF Kinds, Status
<1> HIDE DEF m
<1>2. /\ Step(w, "insert", m) /\ UNCHANGED <<rows, job>> /\ Overlap(u) /\ pc[w] = "idle"
  BY DEF BeginNew, m
<1> QED BY <1>1, <1>2, StepTyped, TypeParts

LEMMA BeginPatchDoes ==
  ASSUME TypeOK, NEW w \in Worker, NEW s \in Sub, NEW st \in Target, BeginPatch(w, s, st)
  PROVE  /\ UNCHANGED <<rows, job>> /\ pc[w] = "idle" /\ Exists(s) /\ owner[s] \in User
         /\ IF st \in Running THEN apart' = apart \cup {owner[s]} ELSE Overlap(owner[s])
         /\ pc'[w] = "patch" /\ mem'[w].kind = "patch" /\ mem'[w].user = owner[s] /\ mem'[w].sub = s
         /\ mem'[w].status = st /\ mem'[w].loaded = user[owner[s]]
         /\ \A v \in Worker \ {w} : pc'[v] = pc[v] /\ mem'[v] = mem[v]
         /\ Desks'
<1> DEFINE m == Mem("patch", owner[s], s, st, user[owner[s]], Unchanged)
<1>1. Rows
  BY TypeParts
<1>2. /\ m \in Memory /\ m.kind = "patch" /\ m.user = owner[s] /\ m.sub = s /\ m.status = st
      /\ m.loaded = user[owner[s]]
  BY <1>1, Constants, MemFields, SubscriptionsAssumption DEF Kinds, Rows, SubscriptionsAssumption
<1> HIDE DEF m
<1>3. /\ Step(w, "patch", m) /\ UNCHANGED <<rows, job>> /\ pc[w] = "idle" /\ Exists(s)
      /\ IF st \in Running THEN apart' = apart \cup {owner[s]} ELSE Overlap(owner[s])
  BY DEF BeginPatch, Exists, m
<1> QED BY <1>1, <1>2, <1>3, StepTyped, TypeParts DEF Rows

LEMMA BeginEditDoes ==
  ASSUME TypeOK, NEW w \in Worker, NEW s \in Sub, BeginEdit(w, s)
  PROVE  /\ UNCHANGED <<rows, job>> /\ pc[w] = "idle" /\ Exists(s) /\ owner[s] \in User
         /\ Overlap(owner[s])
         /\ pc'[w] = "patch" /\ mem'[w].kind = "edit" /\ mem'[w].user = owner[s] /\ mem'[w].sub = s
         /\ mem'[w].status = status[s] /\ mem'[w].loaded = Blank
         /\ \A v \in Worker \ {w} : pc'[v] = pc[v] /\ mem'[v] = mem[v]
         /\ Desks'
<1> DEFINE m == Mem("edit", owner[s], s, status[s], Blank, Unchanged)
<1>1. Rows
  BY TypeParts
<1>2. /\ m \in Memory /\ m.kind = "edit" /\ m.user = owner[s] /\ m.sub = s /\ m.status = status[s]
      /\ m.loaded = Blank
  BY <1>1, Constants, MemFields DEF Kinds, Rows, BeginEdit
<1> HIDE DEF m
<1>3. /\ Step(w, "patch", m) /\ UNCHANGED <<rows, job>> /\ pc[w] = "idle" /\ Exists(s)
      /\ Overlap(owner[s])
  BY DEF BeginEdit, Exists, m
<1> QED BY <1>1, <1>2, <1>3, StepTyped, TypeParts DEF Rows

LEMMA BeginTyped ==
  ASSUME TypeOK, NEW w \in Worker, Request(w)
  PROVE  TypeOK'
<1>1. Rows /\ Desks /\ JobTyped /\ apart \subseteq User
  BY TypeParts
<1>2. UNCHANGED <<rows, job>> /\ Desks' /\ apart' \subseteq User
  BY <1>1, BeginNewDoes, BeginPatchDoes, BeginEditDoes DEF Request, Overlap
<1> QED BY <1>1, <1>2, TypedNext DEF Rows, rows, JobTyped

\* What a creation and a change will write
LEMMA InsertSave ==
  ASSUME TypeOK, NEW w \in Worker, NEW s \in Sub, NEW st \in Status, Insert(w, s, st)
  PROVE  \E m \in Memory :
            /\ Step(w, "commit", m) /\ m.kind = mem[w].kind /\ m.user = mem[w].user /\ m.sub = s
            /\ m.save.sub = st
            /\ m.save.current = Change(s, user[mem[w].user].current)
<1>1. mem[w] \in Memory /\ user \in [User -> UserRow]
  BY TypeParts DEF Desks, Rows
<1>2. mem[w].kind \in Kinds /\ mem[w].user \in User /\ user[mem[w].user] \in UserRow
  BY <1>1, MemoryFields
<1> DEFINE st1 == IF mem[w].kind = "trial" THEN "trial" ELSE "active"
           save == UserSave(st, st1, s, user[mem[w].user])
           m == Mem(mem[w].kind, mem[w].user, s, "trial", Blank, save)
<1>3. st1 \in UserStatus
  BY DEF UserStatus, Running
<1>4. Step(w, "commit", m)
  BY DEF Insert
<1> HIDE DEF st1
<1>6. /\ save \in Save /\ save.sub = st
      /\ save.current = Change(s, user[mem[w].user].current)
  BY <1>2, <1>3, UserSaveFields
<1> HIDE DEF save
<1>7. /\ m \in Memory /\ m.kind = mem[w].kind /\ m.user = mem[w].user /\ m.sub = s /\ m.save = save
  BY <1>2, <1>6, Constants, MemFields DEF Status
<1> HIDE DEF m
<1> QED BY <1>4, <1>6, <1>7

LEMMA PatchSave ==
  ASSUME TypeOK, NEW w \in Worker, Patch(w)
  PROVE  \E m \in Memory :
            /\ pc[w] = "patch" /\ Step(w, "commit", m)
            /\ m.kind = mem[w].kind /\ m.user = mem[w].user /\ m.sub = mem[w].sub /\ m.sub \in Sub
            /\ m.save.sub = Change(mem[w].status, status[mem[w].sub])
            /\ IF mem[w].kind = "edit" THEN m.save.status = Keep /\ m.save.current = Keep
               ELSE LET u == user[mem[w].user]
                    IN  /\ m.save.status =
                             Change(Following(mem[w].status, mem[w].loaded.status), u.status)
                        /\ m.save.current = Change(mem[w].loaded.current, u.current)
<1>1. mem[w] \in Memory /\ mem[w].sub \in Sub /\ user \in [User -> UserRow] /\ pc[w] = "patch"
  BY TypeParts DEF Desks, Rows, Patch
<1>2. /\ mem[w].kind \in Kinds /\ mem[w].user \in User /\ user[mem[w].user] \in UserRow
      /\ mem[w].status \in Status /\ mem[w].loaded \in UserRow
  BY <1>1, MemoryFields
<1>3. mem[w].loaded.status \in UserStatus /\ mem[w].loaded.current \in Sub \cup {NoSub}
  BY <1>2, RowFields
<1> DEFINE sub == Change(mem[w].status, status[mem[w].sub])
           st == Following(mem[w].status, mem[w].loaded.status)
           c == mem[w].loaded.current
           found == user[mem[w].user]
           save1 == UserSave(sub, st, c, found)
           save2 == Saving(sub, Keep, Keep)
           save == IF mem[w].kind = "edit" THEN save2 ELSE save1
           m == Mem(mem[w].kind, mem[w].user, mem[w].sub, "trial", Blank, save)
<1>4. Step(w, "commit", m)
  BY DEF Patch
<1>5. sub \in Status \cup {Keep} /\ st \in UserStatus
  BY <1>2, <1>3, FollowingStatus DEF Change
<1>10. c \in Sub \cup {NoSub} /\ found \in UserRow
  BY <1>2, <1>3
<1> HIDE DEF sub, st, c, found
<1>6. /\ save1 \in Save /\ save1.sub = sub /\ save1.status = Change(st, found.status)
      /\ save1.current = Change(c, found.current)
  BY <1>5, <1>10, UserSaveFields
<1>7. save2 \in Save /\ save2.sub = sub /\ save2.status = Keep /\ save2.current = Keep
  BY <1>5, SavingFields
<1> HIDE DEF save1, save2
<1>8. save \in Save
  BY <1>6, <1>7
<1> HIDE DEF save
<1>9. /\ m \in Memory /\ m.kind = mem[w].kind /\ m.user = mem[w].user /\ m.sub = mem[w].sub
      /\ m.save = save
  BY <1>1, <1>2, <1>8, Constants, MemFields DEF Status
<1> HIDE DEF m
<1> QED BY <1>1, <1>4, <1>6, <1>7, <1>9 DEF save, sub, st, c, found

LEMMA CommitDoes ==
  ASSUME TypeOK, NEW w \in Worker, Commit(w)
  PROVE  LET m == mem[w]
         IN  /\ m \in Memory /\ m.sub \in Sub /\ m.user \in User /\ m.save \in Save
             /\ pc[w] = "commit" /\ Leave(w) /\ UNCHANGED <<late, job, apart>>
             /\ Rows'
             /\ status'[m.sub] = Column(m.save.sub, status[m.sub])
             /\ owner'[m.sub] = IF New(w) THEN m.user ELSE owner[m.sub]
             /\ \A s \in Sub \ {m.sub} : status'[s] = status[s] /\ owner'[s] = owner[s]
             /\ user'[m.user].status = Column(m.save.status, user[m.user].status)
             /\ user'[m.user].current = Column(m.save.current, user[m.user].current)
             /\ \A u \in User \ {m.user} : user'[u] = user[u]
             /\ \A t \in Tenant : tenant'[t] = tenant[t]
                                  \/ (New(w) /\ t = TenantOf[m.user] /\ tenant'[t] = m.sub)
             /\ stillborn \subseteq stillborn'
             /\ New(w) /\ m.save.sub \in Over => m.sub \in stillborn'
<1>1. Rows /\ mem[w] \in Memory /\ mem[w].sub \in Sub /\ pc[w] = "commit"
  BY TypeParts DEF Desks, Commit
<1>2. PICK m \in Memory : m = mem[w]
  BY <1>1
<1>3. m.user \in User /\ m.sub \in Sub /\ m.save \in Save
  BY <1>1, <1>2, MemoryFields
<1>4. user[m.user] \in UserRow
  BY <1>1, <1>3 DEF Rows
<1>5. PICK row \in UserRow :
        /\ row = Written(m.save, user[m.user])
        /\ row.status = Column(m.save.status, user[m.user].status)
        /\ row.current = Column(m.save.current, user[m.user].current)
  BY <1>3, <1>4, WrittenFields
<1>6. PICK st \in Status \cup {"none"} : st = Column(m.save.sub, status[m.sub])
  <2>1. m.save.sub \in Status \cup {Keep}
    BY <1>3, SaveFields
  <2> QED BY <1>1, <1>3, <2>1 DEF Column, Rows
<1>7. /\ status' = [status EXCEPT ![m.sub] = st]
      /\ owner' = IF New(w) THEN [owner EXCEPT ![m.sub] = m.user] ELSE owner
      /\ user' = [user EXCEPT ![m.user] = row]
      /\ tenant' = IF m.kind = "create" THEN [tenant EXCEPT ![TenantOf[m.user]] = m.sub] ELSE tenant
      /\ stillborn' = IF New(w) /\ m.save.sub \in Over THEN stillborn \cup {m.sub} ELSE stillborn
      /\ Leave(w) /\ UNCHANGED <<late, job, apart>>
  BY <1>1, <1>2, <1>5, <1>6 DEF Commit, New, Rows
<1>8. /\ status' \in [Sub -> Status \cup {"none"}]
      /\ status'[m.sub] = st /\ \A s \in Sub \ {m.sub} : status'[s] = status[s]
  BY <1>1, <1>3, <1>7 DEF Rows
<1>9. /\ owner' \in [Sub -> User]
      /\ owner'[m.sub] = IF New(w) THEN m.user ELSE owner[m.sub]
      /\ \A s \in Sub \ {m.sub} : owner'[s] = owner[s]
  BY <1>1, <1>3, <1>7 DEF Rows
<1>10. /\ user' \in [User -> UserRow]
       /\ user'[m.user] = row /\ \A u \in User \ {m.user} : user'[u] = user[u]
  BY <1>1, <1>3, <1>7 DEF Rows
<1>11. /\ tenant' \in [Tenant -> Sub \cup {NoSub}]
       /\ \A t \in Tenant : tenant'[t] = tenant[t]
                            \/ (New(w) /\ t = TenantOf[m.user] /\ tenant'[t] = m.sub)
  <2>1. CASE m.kind = "create"
    <3>1. tenant' = [tenant EXCEPT ![TenantOf[m.user]] = m.sub] /\ New(w)
      BY <1>2, <1>7, <2>1 DEF New
    <3> QED BY <1>1, <1>3, <3>1 DEF Rows
  <2>2. CASE m.kind # "create"
    BY <1>1, <1>7, <2>2 DEF Rows
  <2> QED BY <2>1, <2>2
<1>13. /\ stillborn' \subseteq Sub /\ stillborn \subseteq stillborn'
       /\ New(w) /\ m.save.sub \in Over => m.sub \in stillborn'
  BY <1>1, <1>3, <1>7 DEF Rows
<1>12. Rows'
  BY <1>1, <1>7, <1>8, <1>9, <1>10, <1>11, <1>13 DEF Rows
<1> QED BY <1>1, <1>2, <1>3, <1>5, <1>6, <1>7, <1>8, <1>9, <1>10, <1>11, <1>12, <1>13

LEMMA ExpireDoes ==
  ASSUME TypeOK, NEW s \in Sub, Expire(s)
  PROVE  /\ job.at = "next" /\ s \in job.todo
         /\ UNCHANGED <<owner, late, user, tenant, stillborn, pc, mem, apart>>
         /\ status'[s] = "expired" /\ \A t \in Sub \ {s} : status'[t] = status[t]
         /\ job'.todo = job.todo \ {s} /\ job'.at = "user" /\ job'.sub = s
         /\ job'.seen = job.seen
         /\ TypeOK'
<1>1. Rows /\ Desks /\ JobTyped /\ apart \subseteq User
  BY TypeParts
<1>2. PICK todo \in SUBSET Sub, seen \in [User -> UserRow] : todo = job.todo \ {s} /\ seen = job.seen
  BY <1>1, JobsFields DEF JobTyped
<1>3. job' = Job(todo, "user", s, seen, Unchanged)
  BY <1>2 DEF Expire
<1>4. /\ job' \in Jobs /\ job'.todo = todo /\ job'.at = "user" /\ job'.sub = s /\ job'.seen = seen
  BY <1>3, JobFields, Constants
<1>5. /\ job.at = "next" /\ s \in job.todo
      /\ UNCHANGED <<owner, late, user, tenant, stillborn, pc, mem, apart>>
      /\ status' = [status EXCEPT ![s] = "expired"]
  BY DEF Expire
<1>6. /\ status'[s] = "expired" /\ \A t \in Sub \ {s} : status'[t] = status[t]
      /\ Rows'
  BY <1>1, <1>5 DEF Rows, Status
<1>7. Desks' /\ JobTyped' /\ apart' \subseteq User
  BY <1>1, <1>4, <1>5 DEF Desks, JobTyped
<1> QED BY <1>2, <1>4, <1>5, <1>6, <1>7, TypedNext

LEMMA CompareUserDoes ==
  ASSUME TypeOK, CompareUser
  PROVE  /\ job.at = "user" /\ job.sub \in Sub
         /\ UNCHANGED <<rows, pc, mem, apart>>
         /\ job'.todo = job.todo /\ job'.at = "save" /\ job'.sub = job.sub
         /\ job'.seen = job.seen
         /\ LET u == owner[job.sub]
            IN  /\ u \in User
                /\ job'.save.status = Change("expired", user[u].status)
                /\ job'.save.current = Change(job.seen[u].current, user[u].current)
         /\ TypeOK'
<1>1. Rows /\ Desks /\ JobTyped /\ apart \subseteq User /\ job.at = "user" /\ job.sub \in Sub
  BY TypeParts DEF CompareUser, JobTyped
<1>2. PICK todo \in SUBSET Sub, seen \in [User -> UserRow] : todo = job.todo /\ seen = job.seen
  BY <1>1, JobsFields DEF JobTyped
<1>3. PICK u \in User : u = owner[job.sub]
  BY <1>1 DEF Rows
<1>4. /\ user[u] \in UserRow /\ seen[u].current \in Sub \cup {NoSub} /\ "expired" \in UserStatus
  BY <1>1, RowFields DEF Rows, UserStatus, Over
<1>9. PICK found \in UserRow, c \in Sub \cup {NoSub} : found = user[u] /\ c = seen[u].current
  BY <1>4
<1>13. PICK st \in UserStatus, k \in Status \cup {Keep} : st = "expired" /\ k = Keep
  BY <1>4
<1>10. /\ UserSave(k, st, c, found) \in Save
       /\ UserSave(k, st, c, found).status = Change(st, found.status)
       /\ UserSave(k, st, c, found).current = Change(c, found.current)
  BY UserSaveFields
<1>5. PICK save \in Save :
        /\ save = UserSave(Keep, "expired", seen[u].current, user[u])
        /\ save.status = Change("expired", user[u].status)
        /\ save.current = Change(seen[u].current, user[u].current)
  BY <1>9, <1>10, <1>13
<1>6. job' = Job(todo, "save", job.sub, seen, save) /\ UNCHANGED <<rows, pc, mem, apart>>
  BY <1>2, <1>3, <1>5 DEF CompareUser
<1>11. PICK s \in Sub \cup {NoSub}, at \in {"off", "next", "user", "save"} :
         s = job.sub /\ at = "save"
  BY <1>1
<1>12. job' = Job(todo, at, s, seen, save)
  BY <1>6, <1>11
<1>7. /\ job' \in Jobs /\ job'.todo = todo /\ job'.at = "save" /\ job'.sub = job.sub
      /\ job'.seen = seen /\ job'.save = save
  BY <1>11, <1>12 DEF Job, Jobs
<1>8. Rows' /\ Desks' /\ JobTyped' /\ apart' \subseteq User
  BY <1>1, <1>6, <1>7 DEF Rows, rows, Desks, JobTyped
<1> QED BY <1>1, <1>2, <1>3, <1>5, <1>6, <1>7, <1>8, TypedNext

LEMMA ExpireUserDoes ==
  ASSUME TypeOK, ExpireUser
  PROVE  /\ job.at = "save" /\ job.sub \in Sub
         /\ UNCHANGED <<status, owner, late, tenant, stillborn, pc, mem, apart>>
         /\ job' = After(job.todo)
         /\ LET u == owner[job.sub]
            IN  /\ u \in User
                /\ user'[u].status = Column(job.save.status, user[u].status)
                /\ user'[u].current = Column(job.save.current, user[u].current)
                /\ \A v \in User \ {u} : user'[v] = user[v]
         /\ TypeOK'
<1>1. Rows /\ Desks /\ JobTyped /\ apart \subseteq User /\ job.at = "save" /\ job.sub \in Sub
  BY TypeParts DEF ExpireUser, JobTyped
<1>2. PICK u \in User : u = owner[job.sub]
  BY <1>1 DEF Rows
<1>3. user[u] \in UserRow /\ job.save \in Save /\ job.todo \in SUBSET job.todo
  BY <1>1, JobsFields DEF Rows, JobTyped
<1>4. PICK row \in UserRow :
        /\ row = Written(job.save, user[u])
        /\ row.status = Column(job.save.status, user[u].status)
        /\ row.current = Column(job.save.current, user[u].current)
  BY <1>3, WrittenFields
<1>5. /\ user' = [user EXCEPT ![u] = row] /\ job' = After(job.todo)
      /\ UNCHANGED <<status, owner, late, tenant, stillborn, pc, mem, apart>>
  BY <1>1, <1>2, <1>4 DEF ExpireUser, Rows
<1>6. Rows' /\ user'[u] = row /\ \A v \in User \ {u} : user'[v] = user[v]
  BY <1>1, <1>5 DEF Rows
<1>7. job' \in Jobs /\ job'.at \in {"off", "next"}
  BY <1>1, <1>3, <1>5, AfterTyped
<1>8. Desks' /\ JobTyped' /\ apart' \subseteq User
  BY <1>1, <1>5, <1>7 DEF Desks, JobTyped
<1> QED BY <1>1, <1>2, <1>4, <1>5, <1>6, <1>8, TypedNext

LEMMA SkipDoes ==
  ASSUME TypeOK, Skip
  PROVE  /\ UNCHANGED <<rows, pc, mem>>
         /\ \E todo \in SUBSET job.todo : job' = After(todo)
         /\ \/ job.at = "next" /\ apart' = apart
            \/ /\ job.at \in {"user", "save"} /\ job.sub \in Sub
               /\ apart' = apart \cup {owner[job.sub]}
         /\ TypeOK'
<1>1. Rows /\ Desks /\ JobTyped /\ apart \subseteq User
  BY TypeParts
<1>2. PICK todo \in SUBSET job.todo :
        /\ job' = After(todo) /\ UNCHANGED <<rows, pc, mem>>
        /\ \/ job.at = "next" /\ apart' = apart
           \/ job.at \in {"user", "save"} /\ apart' = apart \cup {owner[job.sub]}
  <2>1. CASE job.at = "next"
    <3>1. PICK s \in job.todo : job' = After(job.todo \ {s}) /\ apart' = apart
      BY <2>1 DEF Skip
    <3> QED BY <2>1, <3>1 DEF Skip
  <2>2. CASE job.at # "next"
    BY <2>2 DEF Skip
  <2> QED BY <2>1, <2>2
<1>3. job.at \in {"user", "save"} => job.sub \in Sub /\ owner[job.sub] \in User
  BY <1>1 DEF JobTyped, Rows
<1>4. job' \in Jobs /\ job'.at \in {"off", "next"}
  BY <1>1, <1>2, AfterTyped
<1>5. Rows' /\ Desks' /\ JobTyped' /\ apart' \subseteq User
  BY <1>1, <1>2, <1>3, <1>4 DEF Rows, rows, Desks, JobTyped
<1> QED BY <1>2, <1>3, <1>5, TypedNext

LEMMA MidnightDoes ==
  ASSUME TypeOK, Midnight
  PROVE  /\ job.at = "off" /\ UNCHANGED <<rows, pc, mem>>
         /\ job'.at = "next" /\ job'.todo = Expired /\ job'.sub = NoSub
         /\ \A u \in User :
              job'.seen[u] = IF \E s \in Expired : owner[s] = u THEN user[u] ELSE Blank
         /\ apart' = apart \cup {owner[s] : s \in {t \in Expired : Busy(owner[t])}}
         /\ TypeOK'
<1>1. Rows /\ Desks /\ JobTyped /\ apart \subseteq User
  BY TypeParts
<1> DEFINE seen == [u \in User |-> IF \E s \in Expired : owner[s] = u THEN user[u] ELSE Blank]
<1>2. Expired \in SUBSET Sub /\ seen \in [User -> UserRow] /\ NoSub \in Sub \cup {NoSub}
  BY <1>1, Constants DEF Expired, Rows
<1>3. \A u \in User : seen[u] = IF \E s \in Expired : owner[s] = u THEN user[u] ELSE Blank
  OBVIOUS
<1>4. /\ job.at = "off" /\ UNCHANGED <<rows, pc, mem>>
      /\ job' = Job(Expired, "next", NoSub, seen, Unchanged)
      /\ apart' = apart \cup {owner[s] : s \in {t \in Expired : Busy(owner[t])}}
  BY DEF Midnight
<1> HIDE DEF seen
<1>5. /\ job' \in Jobs /\ job'.todo = Expired /\ job'.at = "next" /\ job'.sub = NoSub
      /\ job'.seen = seen
  BY <1>2, <1>4, JobFields, Constants
<1>6. \A s \in Expired : owner[s] \in User
  BY <1>1, <1>2 DEF Rows
<1>7. Rows' /\ Desks' /\ JobTyped' /\ apart' \subseteq User
  BY <1>1, <1>4, <1>5, <1>6 DEF Rows, rows, Desks, JobTyped
<1> QED BY <1>3, <1>4, <1>5, <1>7, TypedNext

LEMMA CrashDoes ==
  ASSUME TypeOK, Crash
  PROVE  /\ UNCHANGED rows /\ job' = Off
         /\ \A w \in Worker : pc'[w] = "idle" /\ mem'[w] = Nothing
         /\ IF job.at \in {"user", "save"}
            THEN job.sub \in Sub /\ apart' = apart \cup {owner[job.sub]}
            ELSE apart' = apart
         /\ TypeOK'
<1>1. Rows /\ Desks /\ JobTyped /\ apart \subseteq User
  BY TypeParts
<1>2. /\ UNCHANGED rows /\ job' = Off
      /\ pc' = [w \in Worker |-> "idle"] /\ mem' = [w \in Worker |-> Nothing]
      /\ apart' = IF job.at \in {"user", "save"} THEN apart \cup {owner[job.sub]} ELSE apart
  BY DEF Crash
<1>3. job.at \in {"user", "save"} => job.sub \in Sub /\ owner[job.sub] \in User
  BY <1>1 DEF JobTyped, Rows
<1>4. Rows' /\ Desks' /\ JobTyped' /\ apart' \subseteq User
  BY <1>1, <1>2, <1>3, NothingFields, OffFields DEF Rows, rows, Desks, JobTyped
<1> QED BY <1>2, <1>3, <1>4, TypedNext

LEMMA NextTyped == TypeOK /\ [Next]_vars => TypeOK'
<1> SUFFICES ASSUME TypeOK, [Next]_vars PROVE TypeOK'
  OBVIOUS
<1>1. Rows /\ Desks /\ JobTyped /\ apart \subseteq User
  BY TypeParts
<1>2. ASSUME NEW w \in Worker, Request(w) PROVE TypeOK'
  BY <1>2, BeginTyped DEF Request
<1>3. ASSUME NEW w \in Worker, NEW s \in Sub, NEW st \in Status, Insert(w, s, st) PROVE TypeOK'
  <2>1. UNCHANGED <<rows, job, apart>>
    BY <1>3 DEF Insert
  <2> QED BY <1>1, <1>3, <2>1, InsertSave, StepTyped, TypedNext DEF Rows, rows, JobTyped
<1>4. ASSUME NEW w \in Worker, Patch(w) PROVE TypeOK'
  <2>1. UNCHANGED <<rows, job, apart>>
    BY <1>4 DEF Patch
  <2> QED BY <1>1, <1>4, <2>1, PatchSave, StepTyped, TypedNext DEF Rows, rows, JobTyped
<1>5. ASSUME NEW w \in Worker, Commit(w) PROVE TypeOK'
  BY <1>1, <1>5, CommitDoes, LeaveTyped, TypedNext DEF JobTyped
<1>6. ASSUME NEW w \in Worker, Fail(w) PROVE TypeOK'
  BY <1>1, <1>6, LeaveTyped, TypedNext DEF Fail, Rows, rows, JobTyped
<1>7. ASSUME NEW s \in Sub, Lapse(s) PROVE TypeOK'
  BY <1>1, <1>7, TypedNext DEF Lapse, Rows, Desks, JobTyped
<1>8. CASE Night
  BY <1>8, ExpireDoes, CompareUserDoes, ExpireUserDoes, SkipDoes, MidnightDoes DEF Night
<1>9. CASE Crash
  BY <1>9, CrashDoes
<1>10. CASE UNCHANGED vars
  BY <1>1, <1>10, TypedNext DEF vars, rows, Rows, Desks, JobTyped
<1> QED BY <1>2, <1>3, <1>4, <1>5, <1>6, <1>7, <1>8, <1>9, <1>10 DEF Next, Proceed

LEMMA InitTyped == Init => TypeOK
<1> SUFFICES ASSUME Init PROVE TypeOK
  OBVIOUS
<1>1. Nothing.user \in User
  BY NothingFields, MemoryFields
<1>2. Rows
  BY <1>1, Constants DEF Init, Rows
<1>3. Desks /\ JobTyped /\ apart \subseteq User
  BY NothingFields, OffFields DEF Init, Desks, JobTyped
<1> QED BY <1>2, <1>3, TypeParts

\* Subscriptions, users, tenants, what open transactions will save and the
\* night's list stay well-formed, for any number of them
\* (subscription.service.ts).
THEOREM TypeCorrect == Spec => []TypeOK
BY InitTyped, NextTyped, PTL DEF Spec

(***************************************************************************)
(* Whose subscriptions are                                                 *)
(***************************************************************************)

\* What request w holds points at subscriptions of its user; the one it creates is
\* nobody's yet
Points1(w) ==
    LET m == mem[w]
    IN  /\ pc[w] = "insert" => New(w)
        /\ pc[w] = "patch" => m.kind \in {"patch", "edit"}
        /\ pc[w] = "commit" => m.kind # "none"
        /\ pc[w] \in {"patch", "commit"} /\ ~New(w) => Exists(m.sub) /\ owner[m.sub] = m.user
        /\ pc[w] = "patch" => Points(m.loaded.current, m.user)
        /\ pc[w] = "commit" /\ ~New(w) => m.save.current = Keep \/ Points(m.save.current, m.user)
        /\ pc[w] = "commit" /\ New(w) => /\ ~Exists(m.sub)
                                         /\ m.save.sub \in Status
                                         /\ m.save.current = m.sub

\* No two requests create the same one
Apart ==
    \A w, v \in Worker :
        w # v /\ pc[w] = "commit" /\ New(w) /\ pc[v] = "commit" => mem[w].sub # mem[v].sub

\* ... and so does what the job holds
PointsJob ==
    /\ job.at = "off" => job.todo = {}
    /\ job.at \in {"off", "next"} => job.sub = NoSub
    /\ \A s \in job.todo : Exists(s)
    /\ \A u \in User : Points(job.seen[u].current, u)
    /\ job.at \in {"user", "save"} => Exists(job.sub)
    /\ job.at = "save" => job.save.current = Keep \/ Points(job.save.current, owner[job.sub])

PointInv == PointersWhole /\ (\A w \in Worker : Points1(w)) /\ Apart /\ PointsJob

(***************************************************************************)
(* Users whose requests do not overlap                                     *)
(***************************************************************************)

\* One thing at a time happens to such a user
Alone ==
    /\ \A w, v \in Worker : w # v /\ Active(w) /\ Active(v) /\ mem[w].user = mem[v].user => mem[w].user \in apart
    /\ \A w \in Worker : Active(w) /\ Tonight(mem[w].user) => mem[w].user \in apart

\* ... so that what request w knows of him is still true
Knows(w) ==
    LET m == mem[w]
        u == m.user
    IN  /\ New(w) => \A s \in Sub : owner[s] = u => status[s] \notin Running
        /\ pc[w] = "patch" /\ m.kind = "patch" => m.status \notin Running /\ m.loaded = user[u]
        /\ pc[w] = "patch" /\ m.kind = "edit" => m.status = status[m.sub]
        /\ pc[w] = "commit" /\ m.kind = "edit" => m.save = Unchanged
        /\ pc[w] = "commit" /\ m.kind = "patch" =>
            /\ m.save.sub \notin Running /\ m.save.current = Keep
            /\ \/ m.save.sub \in ({Keep} \cup Silent) /\ m.save.status = Keep
               \/ Column(m.save.status, user[u].status) = "canceled"

\* The job is between the two saves for u
At(u) == job.at \in {"user", "save"} /\ owner[job.sub] = u

\* ... and what the job knows of him
KnowsJob(u) ==
    /\ Tonight(u) => job.seen[u].current = user[u].current
    /\ job.at = "save" /\ At(u) =>
        job.save.current = Keep /\ Column(job.save.status, user[u].status) = "expired"

\* At most one of his subscriptions runs
One(u) ==
    \A s, t \in Sub : {status[s], status[t]} \subseteq Running /\ owner[s] = u /\ owner[t] = u => s = t

\* ... and his rows agree but while the job is between them
Agrees(u) ==
    ~At(u) =>
        (user[u].status \in Running /\ user[u].current # NoSub /\
            status[user[u].current] \in Over => user[u].current \in stillborn)

\* What holds of users about whom one thing happens at a time
RunInv ==
    /\ Alone
    /\ \A w \in Worker : Active(w) /\ mem[w].user \notin apart => Knows(w)
    /\ \A u \in User \ apart : KnowsJob(u) /\ One(u) /\ Agrees(u)

\* No step takes a subscription away or gives it to another user
Stable == \A s \in Sub : Exists(s) => status'[s] # "none" /\ owner'[s] = owner[s]

LEMMA QuietStable == UNCHANGED <<status, owner>> => Stable
BY DEF Stable, Exists

LEMMA PointsKept ==
  ASSUME Stable, NEW c, NEW u, Points(c, u)
  PROVE  c = NoSub \/ (c \in Sub /\ status'[c] # "none" /\ owner'[c] = u)
BY DEF Stable, Points

LEMMA OthersKept ==
  ASSUME TypeOK, Stable, NEW v \in Worker, Points1(v), pc'[v] = pc[v], mem'[v] = mem[v],
         pc[v] = "commit" /\ New(v) => status'[mem[v].sub] = status[mem[v].sub]
  PROVE  Points1(v)'
<1>1. pc[v] \in {"patch", "commit"} => mem[v].sub \in Sub
  BY DEF TypeOK
<1>2. New(v)' <=> New(v)
  BY DEF New
<1>3. PICK m : m = mem[v]
  OBVIOUS
<1>4. pc[v] \in {"patch", "commit"} /\ ~New(v) => status'[m.sub] # "none" /\ owner'[m.sub] = m.user
  BY <1>1, <1>3 DEF Points1, Stable
<1>5. pc[v] = "patch" => Points(m.loaded.current, m.user)'
  BY <1>3, PointsKept DEF Points1, Points, Exists
<1>6. pc[v] = "commit" /\ ~New(v) => m.save.current = Keep \/ Points(m.save.current, m.user)'
  BY <1>3, PointsKept DEF Points1, Points, Exists
<1>7. pc[v] = "commit" /\ New(v) => status'[m.sub] = "none"
  BY <1>3 DEF Points1, Exists
<1> QED BY <1>2, <1>3, <1>4, <1>5, <1>6, <1>7 DEF Points1, Exists

LEMMA WholeKept ==
  ASSUME TypeOK, PointersWhole, Stable,
         \A u \in User : \/ user'[u].current = user[u].current
                         \/ \E c : user'[u].current = c /\ (Points(c, u) \/ Points(c, u)'),
         \A t \in Tenant : \/ tenant'[t] = tenant[t]
                           \/ status'[tenant'[t]] # "none" /\ TenantOf[owner'[tenant'[t]]] = t
  PROVE  PointersWhole'
<1>1. /\ \A u \in User : user[u].current \in Sub \cup {NoSub}
      /\ \A t \in Tenant : tenant[t] \in Sub \cup {NoSub}
  BY TypeParts, RowFields DEF Rows
<1>2. ASSUME NEW u \in User, user'[u].current # NoSub
      PROVE  status'[user'[u].current] # "none" /\ owner'[user'[u].current] = u
  <2>1. CASE user'[u].current = user[u].current
    <3>1. Points(user[u].current, u)
      BY <1>1, <1>2, <2>1 DEF PointersWhole, Points, Exists
    <3> QED BY <1>2, <2>1, <3>1, PointsKept
  <2>2. ASSUME NEW c, user'[u].current = c, Points(c, u) \/ Points(c, u)'
        PROVE  status'[user'[u].current] # "none" /\ owner'[user'[u].current] = u
    <3>1. c \in Sub /\ status'[c] # "none" /\ owner'[c] = u
      BY <1>2, <2>2, PointsKept DEF Points, Exists
    <3> QED BY <2>2, <3>1
  <2> QED BY <1>2, <2>1, <2>2
<1>3. ASSUME NEW t \in Tenant, tenant'[t] # NoSub
      PROVE  status'[tenant'[t]] # "none" /\ TenantOf[owner'[tenant'[t]]] = t
  <2>1. CASE tenant'[t] = tenant[t]
    BY <1>1, <1>3, <2>1 DEF PointersWhole, Stable, Exists
  <2> QED BY <2>1
<1> QED BY <1>2, <1>3 DEF PointersWhole

LEMMA JobKept ==
  ASSUME TypeOK, PointsJob, Stable, UNCHANGED job
  PROVE  PointsJob'
<1>1. job \in Jobs /\ (job.at \in {"user", "save"} => job.sub \in Sub) /\ job.todo \in SUBSET Sub
  BY TypeParts, JobsFields DEF JobTyped
<1>2. /\ job.at = "off" => job.todo = {}
      /\ job.at \in {"off", "next"} => job.sub = NoSub
  BY DEF PointsJob
<1>3. /\ \A s \in job.todo : Exists(s)'
      /\ job.at \in {"user", "save"} => Exists(job.sub)' /\ owner'[job.sub] = owner[job.sub]
  BY <1>1 DEF PointsJob, Stable, Exists
<1>4. \A u \in User : Points(job.seen[u].current, u)'
  BY PointsKept DEF PointsJob, Points, Exists
<1>5. job.at = "save" => job.save.current = Keep \/ Points(job.save.current, owner[job.sub])'
  <2> SUFFICES ASSUME job.at = "save", job.save.current # Keep
               PROVE  Points(job.save.current, owner[job.sub])'
    OBVIOUS
  <2>1. Points(job.save.current, owner[job.sub]) /\ owner'[job.sub] = owner[job.sub]
    BY <1>3 DEF PointsJob
  <2> QED BY <2>1, PointsKept DEF Points, Exists
<1> QED BY <1>2, <1>3, <1>4, <1>5 DEF PointsJob, Exists

\* The steps of one request, the rows as they were
LEMMA DeskKept ==
  ASSUME TypeOK, PointInv, UNCHANGED <<status, owner, user, tenant, job>>, NEW w \in Worker,
         \A v \in Worker \ {w} : pc'[v] = pc[v] /\ mem'[v] = mem[v],
         Points1(w)',
         pc'[w] = "commit" =>
            \A v \in Worker \ {w} : pc[v] = "commit" /\ (New(w)' \/ New(v)) => mem[v].sub # mem'[w].sub
  PROVE  PointInv'
<1>1. Stable
  BY QuietStable
<1>2. PointersWhole' /\ PointsJob'
  BY <1>1, JobKept DEF PointInv, PointersWhole
<1>3. \A v \in Worker : Points1(v)'
  BY <1>1, OthersKept DEF PointInv
<1>4. Apart'
  BY DEF PointInv, Apart, New
<1> QED BY <1>2, <1>3, <1>4 DEF PointInv

LEMMA CommitStable ==
  ASSUME TypeOK, PointInv, NEW w \in Worker, Commit(w)
  PROVE  /\ Stable /\ status'[mem[w].sub] # "none" /\ owner'[mem[w].sub] = mem[w].user
         /\ mem[w].sub \in Sub /\ mem[w].user \in User /\ Points1(w) /\ UNCHANGED <<late, job, apart>>
<1>1. PICK m \in Memory : m = mem[w]
  BY CommitDoes
<1>2. /\ m.sub \in Sub /\ m.user \in User /\ m.save \in Save /\ pc[w] = "commit"
      /\ UNCHANGED <<late, job, apart>> /\ Points1(w) /\ Rows
  BY <1>1, CommitDoes, TypeParts DEF PointInv
<1>3. status[m.sub] \in Status \cup {"none"} /\ m.save.sub \in Status \cup {Keep}
  BY <1>2, SaveFields DEF Rows
<1>4. /\ status'[m.sub] = Column(m.save.sub, status[m.sub])
      /\ owner'[m.sub] = IF New(w) THEN m.user ELSE owner[m.sub]
      /\ \A s \in Sub \ {m.sub} : status'[s] = status[s] /\ owner'[s] = owner[s]
      /\ user'[m.user].current = Column(m.save.current, user[m.user].current)
      /\ \A u \in User \ {m.user} : user'[u] = user[u]
      /\ \A t \in Tenant : tenant'[t] = tenant[t]
                           \/ (New(w) /\ t = TenantOf[m.user] /\ tenant'[t] = m.sub)
  BY <1>1, CommitDoes
<1>5. status'[m.sub] # "none" /\ owner'[m.sub] = m.user
  <2>1. CASE New(w)
    <3>1. m.save.sub \in Status
      BY <1>1, <1>2, <2>1 DEF Points1
    <3>2. m.save.sub # Keep /\ m.save.sub # "none"
      BY <1>3, <3>1, Constants DEF Running, Status
    <3> QED BY <1>4, <2>1, <3>2 DEF Column
  <2>2. CASE ~New(w)
    <3>1. status[m.sub] # "none" /\ owner[m.sub] = m.user
      BY <1>1, <1>2, <2>2 DEF Points1, Exists
    <3> QED BY <1>3, <1>4, <2>2, <3>1 DEF Column, Status
  <2> QED BY <2>1, <2>2
<1>6. Stable
  <2>1. New(w) => ~Exists(m.sub)
    BY <1>1, <1>2 DEF Points1
  <2> QED BY <1>4, <1>5, <2>1 DEF Stable, Exists
<1> QED BY <1>1, <1>2, <1>5, <1>6

LEMMA CommitPoints ==
  ASSUME TypeOK, PointInv, NEW w \in Worker, Commit(w)
  PROVE  PointInv'
<1>1. PICK m \in Memory : m = mem[w]
  BY CommitDoes
<1>2. /\ m.sub \in Sub /\ m.user \in User /\ Points1(w) /\ pc[w] = "commit"
      /\ UNCHANGED <<late, job, apart>>
  BY <1>1, CommitDoes DEF PointInv
<1>4. /\ \A s \in Sub \ {m.sub} : status'[s] = status[s] /\ owner'[s] = owner[s]
      /\ user'[m.user].current = Column(m.save.current, user[m.user].current)
      /\ \A u \in User \ {m.user} : user'[u] = user[u]
      /\ \A t \in Tenant : tenant'[t] = tenant[t]
                           \/ (New(w) /\ t = TenantOf[m.user] /\ tenant'[t] = m.sub)
  BY <1>1, CommitDoes
<1>5. status'[m.sub] # "none" /\ owner'[m.sub] = m.user
  BY <1>1, CommitStable
<1>6. Stable
  BY CommitStable
<1>7. PointersWhole'
  <2>1. ASSUME NEW u \in User
        PROVE  \/ user'[u].current = user[u].current
               \/ \E c : user'[u].current = c /\ (Points(c, u) \/ Points(c, u)')
    <3>1. CASE u # m.user
      BY <1>4, <3>1
    <3>2. CASE u = m.user /\ m.save.current = Keep
      BY <1>4, <3>2 DEF Column
    <3>3. CASE u = m.user /\ m.save.current # Keep
      <4>1. user'[u].current = m.save.current
        BY <1>4, <3>3 DEF Column
      <4>2. CASE New(w)
        <5>1. m.save.current = m.sub
          BY <1>1, <1>2, <4>2 DEF Points1
        <5>2. Points(m.sub, u)'
          BY <1>2, <1>5, <3>3 DEF Points, Exists
        <5> QED BY <4>1, <5>1, <5>2
      <4>3. CASE ~New(w)
        <5>1. Points(m.save.current, u)
          BY <1>1, <1>2, <3>3, <4>3 DEF Points1
        <5> QED BY <4>1, <5>1
      <4> QED BY <4>2, <4>3
    <3> QED BY <3>1, <3>2, <3>3
  <2>2. ASSUME NEW t \in Tenant
        PROVE  \/ tenant'[t] = tenant[t]
               \/ status'[tenant'[t]] # "none" /\ TenantOf[owner'[tenant'[t]]] = t
    BY <1>4, <1>5
  <2> QED BY <1>6, <2>1, <2>2, WholeKept DEF PointInv
<1>8. /\ \A v \in Worker \ {w} : pc'[v] = pc[v] /\ mem'[v] = mem[v]
      /\ pc'[w] = "idle" /\ mem'[w] = Nothing
  BY LeaveTyped, CommitDoes, TypeParts
<1>9. ASSUME NEW v \in Worker PROVE Points1(v)'
  <2>1. CASE v = w
    BY <1>8, <2>1 DEF Points1
  <2>2. CASE v # w
    <3>1. pc[v] = "commit" /\ New(v) => mem[v].sub # m.sub /\ mem[v].sub \in Sub
      BY <1>1, <1>2, <2>2 DEF PointInv, Apart, TypeOK
    <3>2. pc[v] = "commit" /\ New(v) => status'[mem[v].sub] = status[mem[v].sub]
      BY <1>4, <3>1
    <3> QED BY <1>6, <1>8, <2>2, <3>2, OthersKept DEF PointInv
  <2> QED BY <2>1, <2>2
<1>10. Apart'
  BY <1>8 DEF PointInv, Apart, New
<1>11. PointsJob'
  BY <1>2, <1>6, JobKept DEF PointInv
<1> QED BY <1>7, <1>9, <1>10, <1>11 DEF PointInv

LEMMA InsertPoints ==
  ASSUME TypeOK, PointInv, NEW w \in Worker, NEW s \in Sub, NEW st \in Status, Insert(w, s, st)
  PROVE  PointInv'
<1>1. /\ pc[w] = "insert" /\ ~Exists(s) /\ UNCHANGED <<rows, job, apart>>
      /\ \A v \in Worker : pc[v] = "commit" => mem[v].sub # s
  BY DEF Insert, Exists
<1>2. PICK m \in Memory :
        /\ Step(w, "commit", m) /\ m.kind = mem[w].kind /\ m.user = mem[w].user /\ m.sub = s
        /\ m.save.sub = st
        /\ m.save.current = Change(s, user[mem[w].user].current)
  BY InsertSave
<1>3. /\ pc'[w] = "commit" /\ mem'[w] = m
      /\ \A v \in Worker \ {w} : pc'[v] = pc[v] /\ mem'[v] = mem[v]
  <2>1. m.sub \in Sub
    BY <1>2
  <2> QED BY <1>2, <2>1, StepTyped, TypeParts
<1>4. New(w) /\ New(w)'
  BY <1>1, <1>2, <1>3 DEF PointInv, Points1, New
<1>5. m.save.current = s
  <2>1. mem[w].user \in User
    BY MemoryFields DEF TypeOK
  <2>2. user[mem[w].user].current # s
    BY <1>1, <2>1, SubscriptionsAssumption
    DEF PointInv, PointersWhole, Exists, SubscriptionsAssumption
  <2> QED BY <1>2, <2>2 DEF Change
<1>6. Points1(w)'
  BY <1>1, <1>2, <1>3, <1>4, <1>5 DEF Points1, New, Exists, rows
<1> QED BY <1>1, <1>2, <1>3, <1>6, DeskKept DEF rows

LEMMA PatchPoints ==
  ASSUME TypeOK, PointInv, NEW w \in Worker, Patch(w)
  PROVE  PointInv'
<1>1. UNCHANGED <<rows, job, apart>>
  BY DEF Patch
<1>2. PICK m \in Memory :
        /\ pc[w] = "patch" /\ Step(w, "commit", m)
        /\ m.kind = mem[w].kind /\ m.user = mem[w].user /\ m.sub = mem[w].sub /\ m.sub \in Sub
        /\ IF mem[w].kind = "edit" THEN m.save.current = Keep
           ELSE m.save.current = Change(mem[w].loaded.current, user[mem[w].user].current)
  BY PatchSave
<1>3. /\ pc'[w] = "commit" /\ mem'[w] = m
      /\ \A v \in Worker \ {w} : pc'[v] = pc[v] /\ mem'[v] = mem[v]
  BY <1>2, StepTyped, TypeParts
<1>4. ~New(w) /\ ~New(w)' /\ Exists(m.sub) /\ owner[m.sub] = m.user /\ m.kind # "none"
      /\ Points(mem[w].loaded.current, m.user)
  BY <1>2, <1>3 DEF PointInv, Points1, New
<1>5. m.save.current = Keep \/ Points(m.save.current, m.user)
  BY <1>2, <1>4 DEF Change
<1>6. Points1(w)'
  BY <1>1, <1>2, <1>3, <1>4, <1>5 DEF Points1, New, Exists, Points, rows
<1>7. \A v \in Worker \ {w} : pc[v] = "commit" /\ New(v) => mem[v].sub # m.sub
  BY <1>4 DEF PointInv, Points1
<1> QED BY <1>1, <1>3, <1>4, <1>6, <1>7, DeskKept DEF rows

LEMMA BeginPoints ==
  ASSUME TypeOK, PointInv, NEW w \in Worker, Request(w)
  PROVE  PointInv'
<1>1. ASSUME NEW u \in User, NEW kind \in {"create", "trial"}, BeginNew(w, u, kind) PROVE PointInv'
  <2>1. Points1(w)'
    BY <1>1, BeginNewDoes DEF Points1, New
  <2> QED BY <1>1, <2>1, BeginNewDoes, DeskKept DEF rows
<1>2. ASSUME NEW s \in Sub, NEW st \in Target, BeginPatch(w, s, st) PROVE PointInv'
  <2>1. Points(user[owner[s]].current, owner[s])
    BY <1>2, BeginPatchDoes, RowFields, TypeParts
    DEF PointInv, PointersWhole, Points, Exists, Rows
  <2>2. Points1(w)'
    BY <1>2, <2>1, BeginPatchDoes DEF Points1, New, Points, Exists, rows
  <2> QED BY <1>2, <2>2, BeginPatchDoes, DeskKept DEF rows
<1>3. ASSUME NEW s \in Sub, BeginEdit(w, s) PROVE PointInv'
  <2>1. Points1(w)'
    BY <1>3, BeginEditDoes, Constants DEF Points1, New, Points, Exists, rows
  <2> QED BY <1>3, <2>1, BeginEditDoes, DeskKept DEF rows
<1> QED BY <1>1, <1>2, <1>3 DEF Request

LEMMA FailPoints ==
  ASSUME TypeOK, PointInv, NEW w \in Worker, Fail(w)
  PROVE  PointInv'
<1>1. /\ pc'[w] = "idle" /\ UNCHANGED <<rows, job>>
      /\ \A v \in Worker \ {w} : pc'[v] = pc[v] /\ mem'[v] = mem[v]
  BY LeaveTyped, TypeParts DEF Fail
<1>2. Points1(w)'
  BY <1>1 DEF Points1
<1> QED BY <1>1, <1>2, DeskKept DEF rows

\* The steps of the job, which leave the requests alone
LEMMA NightKept ==
  ASSUME TypeOK, PointInv, Stable, UNCHANGED <<pc, mem>>, PointersWhole', PointsJob',
         \A s \in Sub : ~Exists(s) => status'[s] = status[s]
  PROVE  PointInv'
<1>1. ASSUME NEW v \in Worker PROVE Points1(v)'
  <2>1. pc[v] = "commit" /\ New(v) => status'[mem[v].sub] = status[mem[v].sub]
    BY DEF PointInv, Points1, TypeOK
  <2> QED BY <2>1, OthersKept DEF PointInv
<1>2. Apart'
  BY DEF PointInv, Apart, New
<1> QED BY <1>1, <1>2 DEF PointInv

LEMMA ExpirePoints ==
  ASSUME TypeOK, PointInv, NEW s \in Sub, Expire(s)
  PROVE  PointInv'
<1>1. Exists(s)
  BY ExpireDoes DEF PointInv, PointsJob
<1>2. Stable /\ \A t \in Sub : ~Exists(t) => status'[t] = status[t]
  BY <1>1, ExpireDoes DEF Stable, Exists
<1>3. PointersWhole'
  BY <1>2, ExpireDoes, WholeKept DEF PointInv
<1>4. PointsJob'
  <2>1. ASSUME NEW u \in User
        PROVE  LET c == job'.seen[u].current
               IN  c = NoSub \/ (c \in Sub /\ status'[c] # "none" /\ owner'[c] = u)
    <3>1. Points(job.seen[u].current, u) /\ job'.seen = job.seen
      BY ExpireDoes DEF PointInv, PointsJob
    <3> QED BY <1>2, <3>1, PointsKept
  <2>2. \A t \in job'.todo : status'[t] # "none"
    <3>1. job.todo \in SUBSET Sub
      BY JobsFields, TypeParts DEF JobTyped
    <3> QED BY <1>2, <3>1, ExpireDoes DEF PointInv, PointsJob, Stable
  <2> QED BY <2>1, <2>2, ExpireDoes DEF PointsJob, Exists, Points
<1> QED BY <1>2, <1>3, <1>4, ExpireDoes, NightKept

LEMMA AfterPoints ==
  ASSUME TypeOK, PointsJob, Stable, NEW todo \in SUBSET job.todo, job' = After(todo)
  PROVE  PointsJob'
<1>1. JobTyped
  BY TypeParts
<1>2. /\ job'.todo = todo /\ job'.sub = NoSub /\ job'.at \in {"off", "next"}
      /\ (job'.at = "off" => todo = {}) /\ job'.seen \in {job.seen, Off.seen}
  BY <1>1, AfterTyped
<1>3. \A s \in todo : status'[s] # "none"
  BY <1>1, JobsFields DEF PointsJob, Stable, JobTyped
<1>4. ASSUME NEW u \in User
      PROVE  LET c == job'.seen[u].current
             IN  c = NoSub \/ (c \in Sub /\ status'[c] # "none" /\ owner'[c] = u)
  <2>1. Off.seen[u].current = NoSub
    BY OffFields, Constants
  <2> QED BY <1>2, <2>1, PointsKept DEF PointsJob
<1> QED BY <1>2, <1>3, <1>4 DEF PointsJob, Points, Exists

LEMMA NightPoints ==
  ASSUME TypeOK, PointInv, Night
  PROVE  PointInv'
<1>1. CASE CompareUser
  <2>1. Stable /\ PointersWhole'
    BY <1>1, CompareUserDoes, QuietStable DEF PointInv, PointersWhole, rows
  <2>2. PICK u \in User : u = owner[job.sub] /\ owner'[job.sub] = u
    BY <1>1, CompareUserDoes DEF rows
  <2>3. PICK c : c = job.seen[u].current /\ Points(c, u)
    BY <2>2 DEF PointInv, PointsJob
  <2>4. job'.save.current \in {c, Keep}
    BY <1>1, <2>2, <2>3, CompareUserDoes DEF Change
  <2>5. PointsJob'
    BY <1>1, <2>2, <2>3, <2>4, CompareUserDoes DEF PointInv, PointsJob, Points, Exists, rows
  <2> QED BY <1>1, <2>1, <2>5, CompareUserDoes, NightKept DEF rows
<1>2. CASE ExpireUser
  <2>1. Stable
    BY <1>2, ExpireUserDoes, QuietStable
  <2>2. ASSUME NEW u \in User
        PROVE  \/ user'[u].current = user[u].current
               \/ \E c : user'[u].current = c /\ (Points(c, u) \/ Points(c, u)')
    <3>1. CASE u # owner[job.sub]
      BY <1>2, <3>1, ExpireUserDoes
    <3>2. CASE u = owner[job.sub]
      <4>1. user'[u].current = Column(job.save.current, user[u].current)
        BY <1>2, <3>2, ExpireUserDoes
      <4>2. job.save.current = Keep \/ Points(job.save.current, u)
        BY <1>2, <3>2, ExpireUserDoes DEF PointInv, PointsJob
      <4> QED BY <4>1, <4>2 DEF Column
    <3> QED BY <3>1, <3>2
  <2>3. PointersWhole'
    BY <1>2, <2>1, <2>2, ExpireUserDoes, WholeKept DEF PointInv
  <2>4. PointsJob'
    <3>1. job.todo \in SUBSET job.todo
      OBVIOUS
    <3> QED BY <1>2, <2>1, <3>1, ExpireUserDoes, AfterPoints DEF PointInv
  <2> QED BY <1>2, <2>1, <2>3, <2>4, ExpireUserDoes, NightKept
<1>3. CASE Skip
  <2>1. Stable /\ PointersWhole'
    BY <1>3, SkipDoes, QuietStable DEF PointInv, PointersWhole, rows
  <2>2. PointsJob'
    BY <1>3, <2>1, SkipDoes, AfterPoints DEF PointInv
  <2> QED BY <1>3, <2>1, <2>2, SkipDoes, NightKept DEF rows
<1>4. CASE Midnight
  <2>1. Stable /\ PointersWhole'
    BY <1>4, MidnightDoes, QuietStable DEF PointInv, PointersWhole, rows
  <2>2. \A s \in Expired : Exists(s)
    BY DEF Expired, Exists
  <2>3. ASSUME NEW u \in User PROVE Points(job'.seen[u].current, u)
    <3>1. user[u].current \in Sub \cup {NoSub}
      BY RowFields, TypeParts DEF Rows
    <3>2. Points(user[u].current, u)
      BY <3>1 DEF PointInv, PointersWhole, Points, Exists
    <3>3. Points(Blank.current, u)
      BY Constants DEF Points
    <3> QED BY <1>4, <3>2, <3>3, MidnightDoes
  <2>4. PointsJob'
    BY <1>4, <2>2, <2>3, MidnightDoes DEF PointsJob, Points, Exists, rows
  <2> QED BY <1>4, <2>1, <2>4, MidnightDoes, NightKept DEF rows
<1>5. ASSUME NEW s \in Sub, Expire(s) PROVE PointInv'
  BY <1>5, ExpirePoints
<1> QED BY <1>1, <1>2, <1>3, <1>4, <1>5 DEF Night

LEMMA PointStep == TypeOK /\ PointInv /\ [Next]_vars => PointInv'
<1> SUFFICES ASSUME TypeOK, PointInv, [Next]_vars PROVE PointInv'
  OBVIOUS
<1>1. ASSUME NEW w \in Worker, Request(w) \/ Proceed(w) PROVE PointInv'
  BY <1>1, BeginPoints, CommitPoints, InsertPoints, PatchPoints, FailPoints DEF Proceed
<1>2. ASSUME UNCHANGED <<status, owner, user, tenant, pc, mem, job>> PROVE PointInv'
  <2>1. Stable /\ PointersWhole'
    BY <1>2, QuietStable DEF PointInv, PointersWhole
  <2>2. PointsJob'
    BY <1>2, <2>1, JobKept DEF PointInv
  <2> QED BY <1>2, <2>1, <2>2, NightKept
<1>3. ASSUME NEW s \in Sub, Lapse(s) PROVE PointInv'
  BY <1>2, <1>3 DEF Lapse
<1>4. CASE Crash
  <2>1. PointersWhole'
    BY <1>4, CrashDoes DEF PointInv, PointersWhole, rows
  <2>2. (\A v \in Worker : Points1(v)') /\ Apart'
    BY <1>4, CrashDoes DEF Points1, Apart
  <2>3. PointsJob'
    BY <1>4, CrashDoes, OffFields, Constants DEF PointsJob, Points
  <2> QED BY <2>1, <2>2, <2>3 DEF PointInv
<1>5. CASE UNCHANGED vars
  BY <1>2, <1>5 DEF vars
<1> QED BY <1>1, <1>3, <1>4, <1>5, NightPoints DEF Next

LEMMA PointInit == Init => PointInv
BY OffFields, Constants DEF Init, PointInv, PointersWhole, Points1, Apart, PointsJob, Points, Exists

\* The subscription a user or a tenant points at exists and is one of its own,
\* for any number of users, subscriptions and requests, and wherever the server
\* stops (createSubscription, startTrial, updateSubscription,
\* checkExpiredTrials).
THEOREM PointersWholeCorrect == Spec => []PointersWhole
<1>1. PointInv => PointersWhole
  BY DEF PointInv
<1> QED BY <1>1, InitTyped, NextTyped, PointInit, PointStep, PTL DEF Spec

\* A step that leaves the rows of u alone, and what the job has to do with u
Rest(u) ==
    /\ user'[u] = user[u]
    /\ \A s \in Sub : \/ status'[s] = status[s] /\ owner'[s] = owner[s]
                      \/ ~(Exists(s) /\ owner[s] = u) /\ owner'[s] # u
    /\ stillborn \subseteq stillborn'

RestJob(u) ==
    /\ Tonight(u)' => Tonight(u) /\ job'.seen[u] = job.seen[u]
    /\ At(u)' <=> At(u)
    /\ job'.at = "save" /\ At(u)' => job.at = "save" /\ job'.save = job.save

LEMMA AtTonight ==
  ASSUME TypeOK, NEW u, At(u)
  PROVE  Tonight(u)
BY SubscriptionsAssumption DEF At, Tonight, TypeOK, SubscriptionsAssumption

\* As long as the job does nothing, it is at nobody else
LEMMA JobStill ==
  ASSUME TypeOK, PointInv, Stable, UNCHANGED job, NEW u
  PROVE  (Tonight(u)' <=> Tonight(u)) /\ (At(u)' <=> At(u)) /\ RestJob(u)
<1>1. /\ job.todo \in SUBSET Sub /\ job.sub \in Sub \cup {NoSub}
      /\ \A s \in job.todo \cup ({job.sub} \ {NoSub}) : s \in Sub /\ Exists(s)
  <2>1. job.todo \in SUBSET Sub /\ job.sub \in Sub \cup {NoSub} /\ job.at \in {"off", "next", "user", "save"}
    BY TypeParts, JobsFields DEF JobTyped
  <2> QED BY <2>1 DEF PointInv, PointsJob
<1>2. \A s \in job.todo \cup ({job.sub} \ {NoSub}) : owner'[s] = owner[s]
  BY <1>1 DEF Stable
<1>3. Tonight(u)' <=> Tonight(u)
  BY <1>2 DEF Tonight
<1>4. job.at \in {"user", "save"} => job.sub \in job.todo \cup ({job.sub} \ {NoSub})
  BY SubscriptionsAssumption DEF TypeOK, SubscriptionsAssumption
<1>5. At(u)' <=> At(u)
  BY <1>2, <1>4 DEF At
<1> QED BY <1>3, <1>5 DEF RestJob

LEMMA UserRests ==
  ASSUME TypeOK, PointInv, NEW u \in User, Rest(u), One(u), Agrees(u), At(u)' <=> At(u)
  PROVE  One(u)' /\ Agrees(u)'
<1>1. \A s \in Sub : status'[s] \in Running /\ owner'[s] = u => status[s] \in Running /\ owner[s] = u
  BY DEF Rest
<1>2. One(u)'
  BY <1>1 DEF One
<1>3. user[u].current \in Sub \cup {NoSub}
  BY TypeParts, RowFields DEF Rows
<1>4. ASSUME user[u].current # NoSub PROVE status'[user[u].current] = status[user[u].current]
  <2>1. Exists(user[u].current) /\ owner[user[u].current] = u
    BY <1>4 DEF PointInv, PointersWhole, Exists
  <2> QED BY <1>3, <1>4, <2>1 DEF Rest
<1>5. Agrees(u)'
  BY <1>4 DEF Agrees, Rest
<1> QED BY <1>2, <1>5

LEMMA JobRests ==
  ASSUME NEW u \in User, Rest(u), RestJob(u), KnowsJob(u)
  PROVE  KnowsJob(u)'
BY DEF Rest, RestJob, KnowsJob

\* What another request knows stays true
LEMMA KnowsRests ==
  ASSUME TypeOK, PointInv, NEW v \in Worker, pc'[v] = pc[v], mem'[v] = mem[v], Active(v),
         Rest(mem[v].user), Knows(v)
  PROVE  Knows(v)'
<1>1. PICK m \in Memory : m = mem[v] /\ m = mem'[v]
  BY TypeParts DEF Desks
<1>2. m.user \in User /\ (New(v)' <=> New(v))
  BY <1>1, MemoryFields DEF New
<1>3. user'[m.user] = user[m.user]
  BY <1>1 DEF Rest
<1>4. New(v) => \A s \in Sub : owner'[s] = m.user => status'[s] \notin Running
  BY <1>1, <1>2 DEF Knows, Rest
<1>5. pc[v] = "patch" /\ m.kind = "edit" => status'[m.sub] = status[m.sub]
  <2> SUFFICES ASSUME pc[v] = "patch", m.kind = "edit" PROVE status'[m.sub] = status[m.sub]
    OBVIOUS
  <2>1. Exists(m.sub) /\ owner[m.sub] = m.user /\ m.sub \in Sub
    BY <1>1 DEF PointInv, Points1, New, TypeOK
  <2> QED BY <1>1, <2>1 DEF Rest
<1> QED BY <1>1, <1>2, <1>3, <1>4, <1>5 DEF Knows

LEMMA SaveUnchanged ==
  ASSUME NEW save \in Save, save.sub = Keep, save.status = Keep, save.current = Keep
  PROVE  save = Unchanged
BY DEF Save, Unchanged, Saving

\* The steps of a request that is not at its commit
LEMMA DeskRun ==
  ASSUME TypeOK, PointInv, RunInv, UNCHANGED <<status, owner, user, stillborn, job>>, NEW w \in Worker,
         \A v \in Worker \ {w} : pc'[v] = pc[v] /\ mem'[v] = mem[v], apart \subseteq apart',
         Active(w)' => /\ mem'[w].user \in User
                       /\ \/ Active(w) /\ mem'[w].user = mem[w].user
                          \/ Busy(mem'[w].user) => mem'[w].user \in apart'
                       /\ mem'[w].user \notin apart' => Knows(w)'
  PROVE  RunInv'
<1>1. \A u : Rest(u)
  BY DEF Rest
<1>2. Stable
  BY QuietStable
<1>3. ASSUME NEW u \in User \ apart' PROVE KnowsJob(u)' /\ One(u)' /\ Agrees(u)'
  <2>1. KnowsJob(u) /\ One(u) /\ Agrees(u)
    BY DEF RunInv
  <2> QED BY <1>1, <1>2, <2>1, JobStill, JobRests, UserRests
<1>4. ASSUME NEW v \in Worker, Active(v)', mem'[v].user \notin apart' PROVE Knows(v)'
  <2>1. CASE v = w
    BY <1>4, <2>1
  <2>2. CASE v # w
    <3>1. Active(v) /\ pc'[v] = pc[v] /\ mem'[v] = mem[v] /\ mem[v].user \notin apart
      BY <1>4, <2>2 DEF Active
    <3> QED BY <1>1, <3>1, KnowsRests DEF RunInv
  <2> QED BY <2>1, <2>2
<1>5. \A u : Tonight(u)' <=> Tonight(u)
  BY <1>2, JobStill
<1>6. ASSUME NEW v \in Worker \ {w}, Active(v)', Active(w)', mem'[v].user = mem'[w].user
      PROVE  mem'[w].user \in apart'
  <2>1. Active(v) /\ mem[v].user = mem'[w].user
    BY <1>6 DEF Active
  <2>2. Busy(mem'[w].user)
    BY <2>1 DEF Busy, Active
  <2> QED BY <1>6, <2>1, <2>2 DEF RunInv, Alone
<1>7. ASSUME NEW v \in Worker, NEW x \in Worker, v # x, Active(v)', Active(x)', mem'[v].user = mem'[x].user
      PROVE  mem'[v].user \in apart'
  <2>1. CASE v = w \/ x = w
    BY <1>6, <1>7, <2>1
  <2>2. CASE v # w /\ x # w
    BY <1>7, <2>2 DEF RunInv, Alone, Active
  <2> QED BY <2>1, <2>2
<1>8. ASSUME NEW v \in Worker, Active(v)', NEW u, u = mem'[v].user, Tonight(u)'
      PROVE  u \in apart'
  <2>1. CASE v = w
    BY <1>5, <1>8, <2>1 DEF RunInv, Alone, Busy
  <2>2. CASE v # w
    BY <1>5, <1>8, <2>2 DEF RunInv, Alone, Active
  <2> QED BY <2>1, <2>2
<1>10. Alone'
  BY <1>7, <1>8 DEF Alone, Tonight, Active
<1> QED BY <1>3, <1>4, <1>10 DEF RunInv

LEMMA BusyApart ==
  ASSUME NEW u, Overlap(u)
  PROVE  apart \subseteq apart' /\ (Busy(u) => u \in apart')
BY DEF Overlap

LEMMA BeginRun ==
  ASSUME TypeOK, PointInv, RunInv, NEW w \in Worker, Request(w)
  PROVE  RunInv'
<1>1. ASSUME NEW u \in User, NEW kind \in {"create", "trial"}, BeginNew(w, u, kind) PROVE RunInv'
  <2>1. \A s \in Sub : owner[s] = u => status[s] \notin Running
    BY <1>1 DEF BeginNew
  <2>2. Knows(w)'
    BY <1>1, <2>1, BeginNewDoes DEF Knows, New, rows
  <2> QED BY <1>1, <2>2, BeginNewDoes, BusyApart, DeskRun DEF rows
<1>2. ASSUME NEW s \in Sub, NEW st \in Target, BeginPatch(w, s, st) PROVE RunInv'
  <2>1. CASE st \in Running
    <3>1. apart' = apart \cup {owner[s]}
      BY <1>2, <2>1, BeginPatchDoes
    <3> QED BY <1>2, <3>1, BeginPatchDoes, DeskRun DEF rows
  <2>2. CASE st \notin Running
    <3>1. Overlap(owner[s])
      BY <1>2, <2>2, BeginPatchDoes
    <3>2. Knows(w)'
      BY <1>2, <2>2, BeginPatchDoes DEF Knows, New, rows
    <3> QED BY <1>2, <3>1, <3>2, BeginPatchDoes, BusyApart, DeskRun DEF rows
  <2> QED BY <2>1, <2>2
<1>3. ASSUME NEW s \in Sub, BeginEdit(w, s) PROVE RunInv'
  <2>1. Knows(w)'
    BY <1>3, BeginEditDoes DEF Knows, New, rows
  <2> QED BY <1>3, <2>1, BeginEditDoes, BusyApart, DeskRun DEF rows
<1> QED BY <1>1, <1>2, <1>3 DEF Request

LEMMA InsertRun ==
  ASSUME TypeOK, PointInv, RunInv, NEW w \in Worker, NEW s \in Sub, NEW st \in Status, Insert(w, s, st)
  PROVE  RunInv'
<1>1. pc[w] = "insert" /\ UNCHANGED <<rows, job, apart>>
  BY DEF Insert
<1>2. PICK m \in Memory :
        /\ Step(w, "commit", m) /\ m.kind = mem[w].kind /\ m.user = mem[w].user /\ m.sub = s
  BY InsertSave
<1>3. /\ pc'[w] = "commit" /\ mem'[w] = m /\ m.user \in User
      /\ \A v \in Worker \ {w} : pc'[v] = pc[v] /\ mem'[v] = mem[v]
  <2>1. m.sub \in Sub /\ m.user \in User
    BY <1>2, MemoryFields
  <2> QED BY <1>2, <2>1, StepTyped, TypeParts
<1>4. Active(w) /\ New(w) /\ New(w)'
  BY <1>1, <1>2, <1>3 DEF PointInv, Points1, New, Active
<1>5. m.user \notin apart => \A t \in Sub : owner[t] = m.user => status[t] \notin Running
  BY <1>2, <1>4 DEF RunInv, Knows
<1>6. m.user \notin apart => Knows(w)'
  BY <1>1, <1>3, <1>4, <1>5 DEF Knows, New, rows
<1> QED BY <1>1, <1>2, <1>3, <1>4, <1>6, DeskRun DEF rows

LEMMA PatchRun ==
  ASSUME TypeOK, PointInv, RunInv, NEW w \in Worker, Patch(w)
  PROVE  RunInv'
<1>1. UNCHANGED <<rows, job, apart>>
  BY DEF Patch
<1>2. PICK m \in Memory :
        /\ pc[w] = "patch" /\ Step(w, "commit", m)
        /\ m.kind = mem[w].kind /\ m.user = mem[w].user /\ m.sub = mem[w].sub /\ m.sub \in Sub
        /\ m.save.sub = Change(mem[w].status, status[mem[w].sub])
        /\ IF mem[w].kind = "edit" THEN m.save.status = Keep /\ m.save.current = Keep
           ELSE LET u == user[mem[w].user]
                IN  /\ m.save.status =
                         Change(Following(mem[w].status, mem[w].loaded.status), u.status)
                    /\ m.save.current = Change(mem[w].loaded.current, u.current)
  BY PatchSave
<1>3. /\ pc'[w] = "commit" /\ mem'[w] = m /\ m.user \in User /\ m.save \in Save
      /\ \A v \in Worker \ {w} : pc'[v] = pc[v] /\ mem'[v] = mem[v]
  BY <1>2, StepTyped, MemoryFields, TypeParts
<1>4. Active(w) /\ mem[w].kind \in {"patch", "edit"}
  BY <1>2 DEF PointInv, Points1, Active
<1>5. ASSUME m.user \notin apart PROVE Knows(w)'
  <2>1. Knows(w)
    BY <1>2, <1>4, <1>5 DEF RunInv
  <2>2. CASE m.kind = "edit"
    <3>1. m.save.sub = Keep /\ m.save.status = Keep /\ m.save.current = Keep
      BY <1>2, <2>1, <2>2 DEF Knows, Change
    <3>2. m.save = Unchanged
      BY <1>3, <3>1, SaveUnchanged
    <3> QED BY <1>3, <2>2, <3>2 DEF Knows, New
  <2>3. CASE m.kind = "patch"
    <3>1. PICK st \in Status, old \in UserRow :
            st = mem[w].status /\ st \notin Running /\ old = user[m.user] /\ mem[w].loaded = old
      <4>1. mem[w] \in Memory /\ user[m.user] \in UserRow
        BY <1>3, TypeParts DEF Desks, Rows
      <4> QED BY <1>2, <2>1, <2>3, <4>1, MemoryFields DEF Knows
    <3>2. /\ m.save.sub \in {st, Keep} /\ m.save.current = Keep
          /\ m.save.status = Change(Following(st, old.status), old.status)
      BY <1>2, <2>3, <3>1 DEF Change
    <3>3. m.save.sub \notin Running
      BY <3>1, <3>2, Constants
    <3>4. \/ m.save.sub \in ({Keep} \cup Silent) /\ m.save.status = Keep
          \/ Column(m.save.status, old.status) = "canceled"
      <4>1. CASE st \in Over
        <5>1. Following(st, old.status) = "canceled" /\ "canceled" # Keep
          BY <4>1, SubscriptionsAssumption DEF Following, SubscriptionsAssumption, Status
        <5> QED BY <3>2, <5>1, ChangeColumn
      <4>2. CASE st \in Silent
        BY <3>2, <4>2 DEF Following, Change, Over, Silent
      <4> QED BY <3>1, <4>1, <4>2 DEF Status, Running, Over, Silent
    <3> QED BY <1>1, <1>3, <2>3, <3>1, <3>2, <3>3, <3>4 DEF Knows, New, rows
  <2> QED BY <1>2, <1>4, <2>2, <2>3
<1> QED BY <1>1, <1>2, <1>3, <1>4, <1>5, DeskRun DEF rows

LEMMA FailRun ==
  ASSUME TypeOK, PointInv, RunInv, NEW w \in Worker, Fail(w)
  PROVE  RunInv'
<1>1. /\ pc'[w] = "idle" /\ UNCHANGED <<rows, job, apart>>
      /\ \A v \in Worker \ {w} : pc'[v] = pc[v] /\ mem'[v] = mem[v]
  BY LeaveTyped, TypeParts DEF Fail
<1>2. ~Active(w)'
  BY <1>1 DEF Active
<1> QED BY <1>1, <1>2, DeskRun DEF rows

\* What a commit makes of the rows of a user about whom nothing else happens
LEMMA CommitOwn ==
  ASSUME TypeOK, PointInv, RunInv, NEW w \in Worker, Commit(w), NEW u \in User \ apart, u = mem[w].user
  PROVE  KnowsJob(u)' /\ One(u)' /\ Agrees(u)'
<1>1. PICK m \in Memory : m = mem[w]
  BY CommitDoes
<1>2. u = m.user
  BY <1>1
<1>3. /\ m.sub \in Sub /\ m.save \in Save /\ pc[w] = "commit" /\ UNCHANGED <<late, job, apart>>
      /\ status'[m.sub] = Column(m.save.sub, status[m.sub]) /\ owner'[m.sub] = u
      /\ \A s \in Sub \ {m.sub} : status'[s] = status[s] /\ owner'[s] = owner[s]
      /\ user'[u].status = Column(m.save.status, user[u].status)
      /\ user'[u].current = Column(m.save.current, user[u].current)
      /\ stillborn \subseteq stillborn'
      /\ New(w) /\ m.save.sub \in Over => m.sub \in stillborn'
  BY <1>1, <1>2, CommitDoes, CommitStable
<1>4. Knows(w) /\ Points1(w) /\ ~Tonight(u) /\ One(u) /\ Agrees(u)
  BY <1>1, <1>2, <1>3 DEF RunInv, Alone, Active, PointInv
<1>5. ~Tonight(u)' /\ ~At(u)' /\ ~At(u)
  BY <1>3, <1>4, JobStill, CommitStable, AtTonight
<1>6. KnowsJob(u)'
  BY <1>5 DEF KnowsJob
<1>7. m.save.sub # Keep => status'[m.sub] = m.save.sub
  BY <1>3 DEF Column
<1>8. user[u].current \in Sub \cup {NoSub}
  BY TypeParts, RowFields DEF Rows
<1>9. CASE New(w)
  <2>1. /\ \A s \in Sub : owner[s] = u => status[s] \notin Running
        /\ m.save.sub \in Status /\ m.save.current = m.sub
    BY <1>1, <1>2, <1>3, <1>4, <1>9 DEF Knows, Points1
  <2>2. m.save.sub # Keep /\ m.save.current # Keep
    BY <1>3, <2>1, Constants DEF Running, Status
  <2>3. One(u)'
    BY <1>3, <2>1 DEF One
  <2>4. user'[u].current = m.sub /\ (status'[m.sub] \in Over => m.sub \in stillborn')
    BY <1>3, <1>7, <1>9, <2>1, <2>2 DEF Column
  <2>5. Agrees(u)'
    BY <2>4 DEF Agrees
  <2> QED BY <1>6, <2>3, <2>5
<1>10. CASE ~New(w)
  <2>1. owner[m.sub] = u /\ m.kind \in {"patch", "edit"}
    <3>1. m.kind # "none" /\ m.kind \in Kinds
      BY <1>1, <1>3, <1>4, MemoryFields DEF Points1
    <3> QED BY <1>1, <1>2, <1>3, <1>4, <1>10, <3>1 DEF Points1, Kinds, New
  <2>2. m.save.current = Keep /\ m.save.sub \notin Running
    BY <1>1, <1>2, <1>3, <1>4, <2>1, Constants DEF Knows
  <2>3. user'[u].current = user[u].current
    BY <1>3, <2>2 DEF Column
  <2>4. status'[m.sub] = status[m.sub] \/ (status'[m.sub] = m.save.sub /\ m.save.sub # Keep)
    BY <1>3 DEF Column
  <2>8. \A s \in Sub : status'[s] \in Running /\ owner'[s] = u => status[s] \in Running /\ owner[s] = u
    BY <1>3, <2>1, <2>2, <2>4
  <2>5. One(u)'
    BY <1>4, <2>8 DEF One
  <2>6. \/ user'[u].status = "canceled"
        \/ user'[u].status = user[u].status /\ status'[m.sub] \in ({status[m.sub]} \cup Silent)
    BY <1>1, <1>2, <1>3, <1>4, <2>1, <2>4, Constants DEF Knows, Column
  <2>7. Agrees(u)'
    <3>1. CASE user'[u].status = "canceled"
      BY <3>1 DEF Agrees, Running, Over
    <3>2. CASE user'[u].status = user[u].status /\ status'[m.sub] \in ({status[m.sub]} \cup Silent)
      BY <1>3, <1>4, <1>5, <1>8, <2>3, <3>2 DEF Agrees, Over, Silent
    <3> QED BY <2>6, <3>1, <3>2
  <2> QED BY <1>6, <2>5, <2>7
<1> QED BY <1>9, <1>10

LEMMA CommitRun ==
  ASSUME TypeOK, PointInv, RunInv, NEW w \in Worker, Commit(w)
  PROVE  RunInv'
<1>1. PICK u0 \in User : u0 = mem[w].user
  BY CommitStable
<1>2. /\ UNCHANGED <<late, job, apart>> /\ Stable /\ pc[w] = "commit"
      /\ \A v \in Worker \ {w} : pc'[v] = pc[v] /\ mem'[v] = mem[v]
      /\ pc'[w] = "idle"
  BY CommitDoes, CommitStable, LeaveTyped, TypeParts
<1>3. ASSUME NEW u \in User, u # u0 PROVE Rest(u)
  <2>1. user'[u] = user[u]
    BY <1>1, <1>3, CommitDoes
  <2>5. stillborn \subseteq stillborn'
    BY CommitDoes
  <2>2. \A s \in Sub \ {mem[w].sub} : status'[s] = status[s] /\ owner'[s] = owner[s]
    BY CommitDoes
  <2>3. owner'[mem[w].sub] = u0 /\ Points1(w)
    BY <1>1, CommitStable
  <2>4. ~(Exists(mem[w].sub) /\ owner[mem[w].sub] = u)
    BY <1>1, <1>2, <1>3, <2>3 DEF Points1
  <2> QED BY <1>3, <2>1, <2>2, <2>3, <2>4, <2>5 DEF Rest
<1>4. ASSUME NEW u \in User \ apart' PROVE KnowsJob(u)' /\ One(u)' /\ Agrees(u)'
  <2>1. KnowsJob(u) /\ One(u) /\ Agrees(u) /\ u \notin apart
    BY <1>2 DEF RunInv
  <2>2. CASE u = u0
    BY <1>1, <2>1, <2>2, CommitOwn
  <2>3. CASE u # u0
    BY <1>2, <1>3, <2>1, <2>3, JobStill, JobRests, UserRests
  <2> QED BY <2>2, <2>3
<1>5. ASSUME NEW v \in Worker, Active(v)', mem'[v].user \notin apart' PROVE Knows(v)'
  <2>1. v # w /\ Active(v) /\ pc'[v] = pc[v] /\ mem'[v] = mem[v] /\ mem[v].user \notin apart
    BY <1>2, <1>5 DEF Active
  <2>2. mem[v].user \in User /\ mem[v].user # u0
    <3>1. mem[v].user \in User
      BY TypeParts, MemoryFields DEF Desks
    <3> QED BY <1>1, <1>2, <2>1, <3>1 DEF RunInv, Alone, Active
  <2> QED BY <1>3, <2>1, <2>2, KnowsRests DEF RunInv
<1>6. \A u : Tonight(u)' <=> Tonight(u)
  BY <1>2, JobStill
<1>7. ASSUME NEW v \in Worker, Active(v)', NEW u, u = mem'[v].user, Tonight(u)'
      PROVE  u \in apart'
  BY <1>2, <1>6, <1>7 DEF RunInv, Alone, Active
<1>8. \A v, x \in Worker : v # x /\ Active(v)' /\ Active(x)' /\ mem'[v].user = mem'[x].user =>
        mem'[v].user \in apart'
  BY <1>2 DEF RunInv, Alone, Active
<1>9. Alone'
  BY <1>7, <1>8 DEF Alone, Tonight, Active
<1> QED BY <1>4, <1>5, <1>9 DEF RunInv

\* The steps of the job, which leave the requests alone
LEMMA NightRun ==
  ASSUME TypeOK, PointInv, RunInv, UNCHANGED <<pc, mem>>, apart \subseteq apart',
         \A u \in User \ apart' : KnowsJob(u)' /\ One(u)' /\ Agrees(u)',
         \A v \in Worker : Active(v) /\ mem[v].user \notin apart' =>
            Rest(mem[v].user) /\ (Tonight(mem[v].user)' => Tonight(mem[v].user))
  PROVE  RunInv'
<1>1. ASSUME NEW v \in Worker, Active(v)', mem'[v].user \notin apart' PROVE Knows(v)'
  <2>1. Active(v) /\ pc'[v] = pc[v] /\ mem'[v] = mem[v] /\ mem[v].user \notin apart /\ Rest(mem[v].user)
    BY <1>1 DEF Active
  <2> QED BY <2>1, KnowsRests DEF RunInv
<1>2. ASSUME NEW v \in Worker, Active(v)', NEW u, u = mem'[v].user, Tonight(u)', u \notin apart'
      PROVE  FALSE
  <2>1. Active(v) /\ mem[v].user = u
    BY <1>2 DEF Active
  <2>2. Tonight(u)
    BY <1>2, <2>1 DEF Tonight
  <2> QED BY <1>2, <2>1, <2>2 DEF RunInv, Alone
<1>3. \A v, x \in Worker : v # x /\ Active(v)' /\ Active(x)' /\ mem'[v].user = mem'[x].user =>
        mem'[v].user \in apart'
  BY DEF RunInv, Alone, Active
<1>4. Alone'
  BY <1>2, <1>3 DEF Alone, Tonight, Active
<1> QED BY <1>1, <1>4 DEF RunInv

\* The job has done with subscriptions
LEMMA AfterJob ==
  ASSUME TypeOK, NEW todo \in SUBSET job.todo, job' = After(todo), owner' = owner, NEW u
  PROVE  /\ Tonight(u)' => Tonight(u) /\ job'.seen = job.seen
         /\ ~At(u)' /\ job'.at # "save"
<1>1. JobTyped
  BY TypeParts
<1>2. /\ job'.todo = todo /\ job'.sub = NoSub /\ job'.at \in {"off", "next"}
      /\ (todo # {} => job'.seen = job.seen)
  BY <1>1, AfterTyped
<1> QED BY <1>2 DEF Tonight, At

LEMMA ExpireRun ==
  ASSUME TypeOK, PointInv, RunInv, NEW s \in Sub, Expire(s)
  PROVE  RunInv'
<1>1. PICK u0 \in User : u0 = owner[s]
  BY TypeParts DEF Rows
<1>2. Tonight(u0) /\ ~At(u0)
  BY <1>1, ExpireDoes, SubscriptionsAssumption DEF Tonight, At, SubscriptionsAssumption
<1>3. ASSUME NEW u \in User, u # u0 PROVE Rest(u) /\ RestJob(u)
  <2>1. Rest(u)
    BY <1>1, <1>3, ExpireDoes DEF Rest
  <2>2. ~At(u) /\ ~At(u)'
    BY <1>1, <1>3, ExpireDoes DEF At
  <2>3. Tonight(u)' => Tonight(u)
    BY <1>1, <1>3, ExpireDoes DEF Tonight
  <2> QED BY <2>1, <2>2, <2>3, ExpireDoes DEF RestJob
<1>4. At(u0)'
  BY <1>1, ExpireDoes DEF At
<1>5. ASSUME NEW u \in User \ apart' PROVE KnowsJob(u)' /\ One(u)' /\ Agrees(u)'
  <2>1. KnowsJob(u) /\ One(u) /\ Agrees(u)
    BY <1>5, ExpireDoes DEF RunInv
  <2>2. CASE u = u0
    <3>1. One(u)'
      <4>1. \A t \in Sub : status'[t] \in Running => status[t] \in Running
        BY ExpireDoes DEF Running
      <4> QED BY <2>1, <4>1, ExpireDoes DEF One
    <3>2. KnowsJob(u)'
      BY <1>2, <2>1, <2>2, ExpireDoes DEF KnowsJob
    <3> QED BY <1>4, <2>2, <3>1, <3>2 DEF Agrees
  <2>3. CASE u # u0
    BY <1>3, <2>1, <2>3, JobRests, UserRests DEF RestJob
  <2> QED BY <2>2, <2>3
<1>6. ASSUME NEW v \in Worker, Active(v), mem[v].user \notin apart'
      PROVE  Rest(mem[v].user) /\ (Tonight(mem[v].user)' => Tonight(mem[v].user))
  <2>1. mem[v].user \in User /\ mem[v].user # u0
    <3>1. mem[v].user \in User
      BY TypeParts, MemoryFields DEF Desks
    <3> QED BY <1>2, <1>6, <3>1, ExpireDoes DEF RunInv, Alone
  <2>2. Rest(mem[v].user) /\ RestJob(mem[v].user)
    BY <1>3, <2>1
  <2>3. PICK u : u = mem[v].user /\ u = mem'[v].user
    BY ExpireDoes
  <2> QED BY <1>3, <2>1, <2>2, <2>3, ExpireDoes DEF RestJob, Tonight
<1> QED BY <1>5, <1>6, ExpireDoes, NightRun

\* Steps of the job about the others
LEMMA RestOthers ==
  ASSUME TypeOK, PointInv, RunInv, UNCHANGED <<pc, mem>>, apart \subseteq apart',
         NEW u0 \in User, u0 \in apart' \/ (Tonight(u0) /\ KnowsJob(u0)' /\ One(u0)' /\ Agrees(u0)'),
         \A u \in User : u # u0 => Rest(u) /\ RestJob(u)
  PROVE  RunInv'
<1>1. ASSUME NEW u \in User \ apart' PROVE KnowsJob(u)' /\ One(u)' /\ Agrees(u)'
  <2>1. KnowsJob(u) /\ One(u) /\ Agrees(u)
    BY <1>1 DEF RunInv
  <2>2. CASE u = u0
    BY <1>1, <2>2
  <2>3. CASE u # u0
    BY <2>1, <2>3, JobRests, UserRests DEF RestJob
  <2> QED BY <2>2, <2>3
<1>2. ASSUME NEW v \in Worker, Active(v), mem[v].user \notin apart'
      PROVE  Rest(mem[v].user) /\ (Tonight(mem[v].user)' => Tonight(mem[v].user))
  <2>1. mem[v].user \in User
    BY TypeParts, MemoryFields DEF Desks
  <2>2. mem[v].user # u0
    BY <1>2 DEF RunInv, Alone
  <2>3. Rest(mem[v].user) /\ RestJob(mem[v].user)
    BY <2>1, <2>2
  <2>4. PICK u : u = mem[v].user /\ u = mem'[v].user
    OBVIOUS
  <2> QED BY <2>3, <2>4 DEF RestJob, Tonight
<1> QED BY <1>1, <1>2, NightRun

LEMMA CompareUserRun ==
  ASSUME TypeOK, PointInv, RunInv, CompareUser
  PROVE  RunInv'
<1>1. PICK u0 \in User : u0 = owner[job.sub]
  BY CompareUserDoes
<1>2. At(u0) /\ At(u0)' /\ Tonight(u0)
  BY <1>1, CompareUserDoes, AtTonight DEF At, rows
<1>3. \A u \in User : Rest(u) /\ (Tonight(u)' <=> Tonight(u)) /\ (At(u)' <=> At(u))
  BY CompareUserDoes DEF Rest, Tonight, At, rows
<1>4. ASSUME NEW u \in User, u # u0 PROVE RestJob(u)
  <2>1. ~At(u)'
    BY <1>1, <1>4, CompareUserDoes DEF At, rows
  <2> QED BY <1>3, <2>1, CompareUserDoes DEF RestJob
<1>5. ASSUME u0 \notin apart PROVE KnowsJob(u0)' /\ One(u0)' /\ Agrees(u0)'
  <2>1. KnowsJob(u0) /\ One(u0) /\ Agrees(u0)
    BY <1>5 DEF RunInv
  <2>2. job.seen[u0].current = user[u0].current
    BY <1>2, <2>1 DEF KnowsJob
  <2>3. job'.save.current = Keep /\ job'.save.status = Change("expired", user[u0].status)
    BY <1>1, <2>2, CompareUserDoes DEF Change
  <2>4. Column(job'.save.status, user[u0].status) = "expired"
    <3>1. "expired" # Keep
      BY SubscriptionsAssumption DEF SubscriptionsAssumption, Status
    <3> QED BY <2>3, <3>1 DEF Change, Column
  <2>5. KnowsJob(u0)'
    BY <2>2, <2>3, <2>4, CompareUserDoes DEF KnowsJob, rows
  <2> QED BY <1>2, <1>3, <2>1, <2>5, UserRests
<1> QED BY <1>2, <1>3, <1>4, <1>5, CompareUserDoes, RestOthers

LEMMA ExpireUserRun ==
  ASSUME TypeOK, PointInv, RunInv, ExpireUser
  PROVE  RunInv'
<1>1. PICK u0 \in User : u0 = owner[job.sub]
  BY ExpireUserDoes
<1>2. At(u0) /\ Tonight(u0) /\ job.at = "save" /\ job.todo \in SUBSET job.todo
  BY <1>1, ExpireUserDoes, AtTonight DEF At
<1>3. \A u : /\ Tonight(u)' => Tonight(u) /\ job'.seen = job.seen
             /\ ~At(u)' /\ job'.at # "save"
  BY <1>2, ExpireUserDoes, AfterJob
<1>4. ASSUME NEW u \in User, u # u0 PROVE Rest(u) /\ RestJob(u)
  <2>1. Rest(u)
    BY <1>1, <1>4, ExpireUserDoes DEF Rest
  <2>2. ~At(u)
    BY <1>1, <1>4 DEF At
  <2> QED BY <1>3, <2>1, <2>2 DEF RestJob
<1>5. ASSUME u0 \notin apart PROVE KnowsJob(u0)' /\ One(u0)' /\ Agrees(u0)'
  <2>1. KnowsJob(u0) /\ One(u0)
    BY <1>5 DEF RunInv
  <2>2. user'[u0].status = "expired" /\ user'[u0].current = user[u0].current
    BY <1>1, <1>2, <2>1, ExpireUserDoes DEF KnowsJob, Column
  <2>3. KnowsJob(u0)'
    BY <1>3, <2>1, <2>2 DEF KnowsJob
  <2>4. One(u0)'
    BY <2>1, ExpireUserDoes DEF One
  <2>5. Agrees(u0)'
    BY <2>2 DEF Agrees, Running, Over
  <2> QED BY <2>3, <2>4, <2>5
<1> QED BY <1>2, <1>4, <1>5, ExpireUserDoes, RestOthers

LEMMA SkipRun ==
  ASSUME TypeOK, PointInv, RunInv, Skip
  PROVE  RunInv'
<1>1. PICK todo \in SUBSET job.todo : job' = After(todo)
  BY SkipDoes
<1>2. \A u : /\ Tonight(u)' => Tonight(u) /\ job'.seen = job.seen
             /\ ~At(u)' /\ job'.at # "save"
  BY <1>1, SkipDoes, AfterJob DEF rows
<1>3. \A u \in User : Rest(u)
  BY SkipDoes DEF Rest, rows
<1>4. CASE job.at = "next"
  <2>1. \A u \in User : RestJob(u)
    BY <1>2, <1>4 DEF RestJob, At
  <2>2. apart' = apart
    BY <1>4, SkipDoes
  <2>3. ASSUME NEW u \in User \ apart' PROVE KnowsJob(u)' /\ One(u)' /\ Agrees(u)'
    BY <1>3, <2>1, <2>2, <2>3, JobRests, UserRests DEF RunInv, RestJob
  <2>4. ASSUME NEW v \in Worker
        PROVE  Rest(mem[v].user) /\ (Tonight(mem[v].user)' => Tonight(mem[v].user))
    <3>1. mem[v].user \in User
      BY TypeParts, MemoryFields DEF Desks
    <3>2. PICK u \in User : u = mem[v].user /\ u = mem'[v].user
      BY <3>1, SkipDoes
    <3> QED BY <1>2, <1>3, <3>2 DEF Tonight
  <2> QED BY <2>2, <2>3, <2>4, SkipDoes, NightRun
<1>5. CASE job.at # "next"
  <2>1. job.at \in {"user", "save"} /\ job.sub \in Sub /\ apart' = apart \cup {owner[job.sub]}
    BY <1>5, SkipDoes
  <2>2. PICK u0 \in User : u0 = owner[job.sub]
    BY <2>1, TypeParts DEF Rows
  <2>3. ASSUME NEW u \in User, u # u0 PROVE Rest(u) /\ RestJob(u)
    BY <1>2, <1>3, <2>2, <2>3 DEF RestJob, At
  <2> QED BY <2>1, <2>2, <2>3, SkipDoes, RestOthers
<1> QED BY <1>4, <1>5

LEMMA MidnightRun ==
  ASSUME TypeOK, PointInv, RunInv, Midnight
  PROVE  RunInv'
<1>1. \A u \in User : Rest(u) /\ ~At(u) /\ ~At(u)'
  BY MidnightDoes DEF Rest, At, rows
<1>2. ASSUME NEW u, Tonight(u)' PROVE \E s \in Expired : owner[s] = u
  BY <1>2, MidnightDoes DEF Tonight, rows
<1>3. ASSUME NEW u \in User \ apart' PROVE KnowsJob(u)' /\ One(u)' /\ Agrees(u)'
  <2>1. One(u) /\ Agrees(u)
    BY <1>3, MidnightDoes DEF RunInv
  <2>2. KnowsJob(u)'
    BY <1>1, <1>2, <1>3, MidnightDoes DEF KnowsJob, rows
  <2> QED BY <1>1, <1>3, <2>1, <2>2, UserRests
<1>4. ASSUME NEW v \in Worker, Active(v), mem[v].user \notin apart'
      PROVE  Rest(mem[v].user) /\ ~Tonight(mem[v].user)'
  <2>1. mem[v].user \in User
    BY TypeParts, MemoryFields DEF Desks
  <2>2. Busy(mem[v].user)
    BY <1>4 DEF Busy, Active
  <2>3. PICK u \in User : u = mem[v].user /\ u = mem'[v].user
    BY <2>1, MidnightDoes
  <2>4. ~\E s \in Expired : owner[s] = u
    BY <1>4, <2>2, <2>3, MidnightDoes
  <2>5. ~(\E s \in job'.todo \cup ({job'.sub} \ {NoSub}) : owner'[s] = u)
    BY <2>4, MidnightDoes DEF rows
  <2> QED BY <1>1, <2>3, <2>5 DEF Tonight
<1> QED BY <1>3, <1>4, MidnightDoes, NightRun

LEMMA CrashRun ==
  ASSUME TypeOK, PointInv, RunInv, Crash
  PROVE  RunInv'
<1>1. \A w \in Worker : ~Active(w)'
  BY CrashDoes DEF Active
<1>2. \A u : ~Tonight(u)' /\ ~At(u)' /\ job'.at # "save"
  BY CrashDoes, OffFields DEF Tonight, At
<1>3. ASSUME NEW u \in User \ apart' PROVE KnowsJob(u)' /\ One(u)' /\ Agrees(u)'
  <2>1. One(u) /\ Agrees(u) /\ ~At(u)
    BY <1>3, CrashDoes DEF RunInv, At
  <2>2. Rest(u)
    BY CrashDoes DEF Rest, rows
  <2>3. KnowsJob(u)'
    BY <1>2 DEF KnowsJob
  <2> QED BY <1>2, <1>3, <2>1, <2>2, <2>3, UserRests
<1> QED BY <1>1, <1>3 DEF RunInv, Alone

LEMMA RunStep == TypeOK /\ PointInv /\ RunInv /\ [Next]_vars => RunInv'
<1> SUFFICES ASSUME TypeOK, PointInv, RunInv, [Next]_vars PROVE RunInv'
  OBVIOUS
<1>1. ASSUME NEW w \in Worker, Request(w) \/ Proceed(w) PROVE RunInv'
  BY <1>1, BeginRun, CommitRun, InsertRun, PatchRun, FailRun DEF Proceed
<1>2. ASSUME UNCHANGED <<status, owner, user, stillborn, pc, mem, job, apart>> PROVE RunInv'
  <2>1. \A u \in User : Rest(u) /\ RestJob(u)
    BY <1>2, QuietStable, JobStill DEF Rest
  <2>2. ASSUME NEW u \in User \ apart' PROVE KnowsJob(u)' /\ One(u)' /\ Agrees(u)'
    BY <1>2, <2>1, <2>2, JobRests, UserRests DEF RunInv, RestJob
  <2>3. \A v \in Worker : mem[v].user \in User
    BY TypeParts, MemoryFields DEF Desks
  <2>4. \A v \in Worker : Tonight(mem[v].user)' => Tonight(mem[v].user)
    BY <1>2 DEF Tonight
  <2> QED BY <1>2, <2>1, <2>2, <2>3, <2>4, NightRun
<1>3. ASSUME NEW s \in Sub, Lapse(s) PROVE RunInv'
  BY <1>2, <1>3 DEF Lapse
<1>4. CASE Night
  BY <1>4, ExpireRun, CompareUserRun, ExpireUserRun, SkipRun, MidnightRun DEF Night
<1>5. CASE UNCHANGED vars
  BY <1>2, <1>5 DEF vars
<1> QED BY <1>1, <1>3, <1>4, <1>5, CrashRun DEF Next

LEMMA RunInit == Init => RunInv
BY OffFields, Constants
DEF Init, RunInv, Alone, Active, KnowsJob, One, Agrees, Tonight, At, Running, Status

LEMMA RunAlways == Spec => [](TypeOK /\ RunInv)
BY InitTyped, NextTyped, PointInit, PointStep, RunInit, RunStep, PTL DEF Spec

\* A user about whom only one thing happens at a time has at most one running
\* subscription, for any number of users, subscriptions and requests
\* (createSubscription, startTrial).
THEOREM OneRunningCorrect == Spec => []OneRunning
<1>1. RunInv => OneRunning
  BY DEF RunInv, One, OneRunning
<1> QED BY <1>1, RunAlways, PTL

\* A user about whom only one thing happens at a time, and whom the program takes
\* for subscribed, points at a subscription that is over only if it was created
\* over, whatever statuses callers and staff give (createSubscription,
\* updateSubscription, checkExpiredTrials).
THEOREM UserFollowsCorrect == Spec => []UserFollows
<1>1. TypeOK /\ RunInv => UserFollows
  BY AtTonight DEF RunInv, Agrees, UserFollows, Busy
<1> QED BY <1>1, RunAlways, PTL
=============================================================================
