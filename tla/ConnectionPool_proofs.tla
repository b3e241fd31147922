------------------------ MODULE ConnectionPool_proofs ------------------------
(***************************************************************************)
(* The pool never deadlocks when it has more connections than the requests *)
(* in flight can hold while they wait, two each, beside those that         *)
(* transactions failing to start may take away; and nothing else takes one *)
(* away: for every number of requests and every pool.                      *)
(*                                                                         *)
(* TypeOK says nothing of what a request may hold.  The invariant below    *)
(* does: a request holds the query runners its handler has open and at     *)
(* most the connection of the await it is at.  One that waits lacks that   *)
(* connection, so all it holds is query runners.                           *)
(***************************************************************************)
EXTENDS ConnectionPool, FiniteSetTheorems, TLAPS

\* A request that is over starts afresh; one being served holds what it has open
\* and the connection of its await, and waits only for that one.
Disciplined(w) ==
    /\ Serving(w) => Held(w) \subseteq Open(kind[w], at[w]) \cup {Needs(Step(w))}
    /\ ~Serving(w) => Held(w) = {} /\ at[w] = 1
    /\ Waiting(w) => Serving(w) /\ Needs(Step(w)) \in Slot \ Held(w)

\* The connections that never come back
LostConn == {c \in Conn : owner[c] = Lost}

PoolInv ==
    /\ TypeOK
    /\ Cardinality(LostConn) = unstarted
    /\ \A w \in Worker : Disciplined(w)

\* What is left alone when w alone goes on: the others, and what owner promises
Leaves(w) ==
    /\ \A v \in Worker \ {w} : Held(v)' = Held(v)
    /\ owner' \in [Conn -> (Worker \X Slot) \cup {Free, Lost}]
    /\ \A c, d \in Conn : owner'[c] = owner'[d] /\ owner'[c] \notin {Free, Lost} => c = d

\* A handler has only query runners open.
LEMMA OpenRunners == \A k, n : Open(k, n) \subseteq Runner
  BY DEF Open

\* A connection in use is neither free nor lost.
LEMMA Distinct == Free # Lost /\ Free \notin Worker \X Slot /\ Lost \notin Worker \X Slot
<1>1. Free # Lost
  BY DEF Free, Lost
<1> QED
  BY <1>1, ConnectionPoolAssumption

\* Giving connections back takes them from w alone, and keeps owner well typed.
LEMMA HeldAfterGiveBack ==
  ASSUME TypeOK, NEW w \in Worker, NEW S \in SUBSET Slot, GiveBack(w, S)
  PROVE  Held(w)' = Held(w) \ S /\ Leaves(w) /\ LostConn' = LostConn
<1>1. \A c \in Conn : owner'[c] = IF \E s \in S : owner[c] = <<w, s>> THEN Free ELSE owner[c]
  BY DEF GiveBack
<1>2. \A s : <<w, s>> # Free
  BY DEF Free
<1>3. Held(w)' = Held(w) \ S
  <2>1. \A s \in Slot, c \in Conn : owner'[c] = <<w, s>> <=> owner[c] = <<w, s>> /\ s \notin S
    <3> SUFFICES ASSUME NEW s \in Slot, NEW c \in Conn
                 PROVE  owner'[c] = <<w, s>> <=> owner[c] = <<w, s>> /\ s \notin S
      OBVIOUS
    <3>1. CASE \E t \in S : owner[c] = <<w, t>>
      <4>1. PICK t \in S : owner[c] = <<w, t>>
        BY <3>1
      <4>2. owner'[c] = Free
        BY <1>1, <3>1
      <4>3. owner[c] = <<w, s>> => s = t
        BY <4>1
      <4> QED
        BY <1>2, <4>2, <4>3
    <3>2. CASE ~ \E t \in S : owner[c] = <<w, t>>
      BY <1>1, <3>2
    <3> QED
      BY <3>1, <3>2
  <2> QED
    BY <2>1 DEF Held
<1>4. \A v \in Worker \ {w} : Held(v)' = Held(v)
  <2> SUFFICES ASSUME NEW v \in Worker \ {w} PROVE Held(v)' = Held(v)
    OBVIOUS
  <2>1. \A s \in Slot, c \in Conn : owner'[c] = <<v, s>> <=> owner[c] = <<v, s>>
    BY <1>1 DEF Free
  <2> QED
    BY <2>1 DEF Held
<1>5. owner' \in [Conn -> (Worker \X Slot) \cup {Free, Lost}]
  BY DEF GiveBack, TypeOK
<1>6. \A c, d \in Conn : owner'[c] = owner'[d] /\ owner'[c] \notin {Free, Lost} => c = d
  BY <1>1 DEF TypeOK
<1>7. \A c \in Conn : owner'[c] = Lost <=> owner[c] = Lost
  <2>1. \A s \in S : <<w, s>> # Lost
    BY Distinct
  <2> QED
    BY <1>1, <2>1, Distinct
<1>8. LostConn' = LostConn
  BY <1>7 DEF LostConn
<1> QED
  BY <1>3, <1>4, <1>5, <1>6, <1>8 DEF Leaves

\* A free connection handed to w for s adds s to what w holds.
LEMMA HeldAfterGrant ==
  ASSUME TypeOK, NEW w \in Worker, NEW s \in Slot \ Held(w), NEW c \in Conn,
         owner[c] = Free, owner' = [owner EXCEPT ![c] = <<w, s>>]
  PROVE  Held(w)' = Held(w) \cup {s} /\ Leaves(w) /\ LostConn' = LostConn
<1>1. \A d \in Conn : owner'[d] = IF d = c THEN <<w, s>> ELSE owner[d]
  BY DEF TypeOK
<1>2. \A v, u : <<v, u>> # Free
  BY DEF Free
<1>3. Held(w)' = Held(w) \cup {s}
  BY <1>1, <1>2 DEF Held
<1>4. \A v \in Worker \ {w} : Held(v)' = Held(v)
  <2> SUFFICES ASSUME NEW v \in Worker \ {w} PROVE Held(v)' = Held(v)
    OBVIOUS
  <2>1. \A u \in Slot, d \in Conn : owner'[d] = <<v, u>> <=> owner[d] = <<v, u>>
    BY <1>1, <1>2
  <2> QED
    BY <2>1 DEF Held
<1>5. owner' \in [Conn -> (Worker \X Slot) \cup {Free, Lost}]
  BY DEF TypeOK
<1>6. \A d \in Conn : owner[d] # <<w, s>>
  BY DEF Held
<1>7. \A b, d \in Conn : owner'[b] = owner'[d] /\ owner'[b] \notin {Free, Lost} => b = d
  BY <1>1, <1>6 DEF TypeOK
<1>8. LostConn' = LostConn
  BY <1>1, Distinct DEF LostConn
<1> QED
  BY <1>3, <1>4, <1>5, <1>7, <1>8 DEF Leaves

\* A transaction that fails to start takes exactly its own connection away.
LEMMA HeldAfterLoss ==
  ASSUME TypeOK, NEW w \in Worker, NEW s \in Held(w),
         owner' = [c \in Conn |-> IF owner[c] = <<w, s>> THEN Lost ELSE owner[c]]
  PROVE  /\ Held(w)' = Held(w) \ {s} /\ Leaves(w)
         /\ Cardinality(LostConn') = Cardinality(LostConn) + 1
<1>1. PICK b \in Conn : owner[b] = <<w, s>> /\ s \in Slot
  BY DEF Held
<1>2. \A v \in Worker, u \in Slot : <<v, u>> # Lost /\ <<v, u>> # Free
  BY Distinct
<1>3. \A c \in Conn : owner[c] = <<w, s>> <=> c = b
  BY <1>1, <1>2 DEF TypeOK
<1>4. \A c \in Conn : owner'[c] = IF c = b THEN Lost ELSE owner[c]
  BY <1>3
<1>5. Held(w)' = Held(w) \ {s}
  <2>1. \A u \in Slot, c \in Conn : owner'[c] = <<w, u>> <=> owner[c] = <<w, u>> /\ u # s
    <3> SUFFICES ASSUME NEW u \in Slot, NEW c \in Conn
                 PROVE  owner'[c] = <<w, u>> <=> owner[c] = <<w, u>> /\ u # s
      OBVIOUS
    <3>1. CASE c = b
      <4>1. owner'[c] = Lost /\ <<w, u>> # Lost
        BY <1>2, <1>4, <3>1
      <4>2. owner[c] = <<w, u>> => u = s
        BY <1>1, <3>1
      <4> QED
        BY <4>1, <4>2
    <3>2. CASE c # b
      <4>1. owner'[c] = owner[c] /\ owner[c] # <<w, s>>
        BY <1>3, <1>4, <3>2
      <4> QED
        BY <4>1
    <3> QED
      BY <3>1, <3>2
  <2> QED
    BY <2>1 DEF Held
<1>6. \A v \in Worker \ {w} : Held(v)' = Held(v)
  <2> SUFFICES ASSUME NEW v \in Worker \ {w} PROVE Held(v)' = Held(v)
    OBVIOUS
  <2>1. \A u \in Slot, c \in Conn : owner'[c] = <<v, u>> <=> owner[c] = <<v, u>>
    <3> SUFFICES ASSUME NEW u \in Slot, NEW c \in Conn
                 PROVE  owner'[c] = <<v, u>> <=> owner[c] = <<v, u>>
      OBVIOUS
    <3>1. CASE c = b
      <4>1. owner'[c] = Lost /\ <<v, u>> # Lost
        BY <1>2, <1>4, <3>1
      <4>2. owner[c] # <<v, u>>
        BY <1>1, <3>1
      <4> QED
        BY <4>1, <4>2
    <3>2. CASE c # b
      BY <1>4, <3>2
    <3> QED
      BY <3>1, <3>2
  <2> QED
    BY <2>1 DEF Held
<1>7. owner' \in [Conn -> (Worker \X Slot) \cup {Free, Lost}]
  BY DEF TypeOK
<1>8. \A c, d \in Conn : owner'[c] = owner'[d] /\ owner'[c] \notin {Free, Lost} => c = d
  BY <1>4 DEF TypeOK
<1>9. LostConn' = LostConn \cup {b} /\ b \notin LostConn
  BY <1>1, <1>2, <1>4 DEF LostConn
<1>10. IsFiniteSet(LostConn)
  BY FS_Subset, ConnectionPoolAssumption DEF LostConn
<1>11. Cardinality(LostConn') = Cardinality(LostConn) + 1
  BY <1>9, <1>10, FS_AddElement
<1> QED
  BY <1>5, <1>6, <1>7, <1>8, <1>11 DEF Leaves

\* A request that goes on, or is answered, holds what its new step allows.
LEMMA AfterAdvance ==
  ASSUME TypeOK, NEW w \in Worker, Serving(w), ~Waiting(w)',
         NEW n \in 1..(Len(Script[kind[w]]) + 1), Advance(w, n),
         Held(w)' \subseteq Open(kind[w], n)
  PROVE  /\ Disciplined(w)'
         /\ kind' \in [Worker -> DOMAIN Script \cup {"none"}]
         /\ at' \in [Worker -> Nat]
         /\ Serving(w)' => at'[w] \in DOMAIN Script[kind'[w]]
         /\ \A v \in Worker \ {w} : kind'[v] = kind[v] /\ at'[v] = at[v]
<1>1. kind[w] \in DOMAIN Script
  BY DEF TypeOK, Serving
<1>2. /\ Len(Script[kind[w]]) \in Nat \ {0}
      /\ DOMAIN Script[kind[w]] = 1..Len(Script[kind[w]])
      /\ Open(kind[w], Len(Script[kind[w]]) + 1) = {}
  BY <1>1, BalancedScripts
<1>4. CASE n \in DOMAIN Script[kind[w]]
  <2>1. at' = [at EXCEPT ![w] = n] /\ kind' = kind
    BY <1>4 DEF Advance
  <2>2. at'[w] = n /\ at' \in [Worker -> Nat]
    BY <2>1, <1>2 DEF TypeOK
  <2>3. \A v \in Worker \ {w} : at'[v] = at[v]
    BY <2>1 DEF TypeOK
  <2> QED
    BY <1>4, <2>1, <2>2, <2>3 DEF TypeOK, Disciplined, Serving
<1>5. CASE n \notin DOMAIN Script[kind[w]]
  <2>1. at' = [at EXCEPT ![w] = 1] /\ kind' = [kind EXCEPT ![w] = "none"]
    BY <1>5 DEF Advance
  <2>2. Open(kind[w], n) = {}
    <3>1. n = Len(Script[kind[w]]) + 1
      BY <1>2, <1>5
    <3> QED
      BY <1>2, <3>1
  <2>3. ~Serving(w)' /\ Held(w)' = {} /\ at'[w] = 1
    BY <2>1, <2>2 DEF Serving, TypeOK
  <2> QED
    BY <2>1, <2>3 DEF TypeOK, Disciplined
<1> QED
  BY <1>4, <1>5

\* A request that another's step leaves alone stays as it was.
LEMMA Undisturbed ==
  ASSUME NEW v \in Worker, Disciplined(v), kind'[v] = kind[v], at'[v] = at[v],
         Held(v)' = Held(v), Waiting(v)' => Waiting(v)
  PROVE  Disciplined(v)'
<1>1. (Serving(v)' <=> Serving(v)) /\ Step(v)' = Step(v)
  BY DEF Serving, Step
<1> QED
  BY <1>1 DEF Disciplined

\* The head of the waiting list leaves it.
LEMMA HeadLeaves ==
  ASSUME TypeOK, queue # <<>>, queue' = Tail(queue), NEW w, w = Head(queue)
  PROVE  /\ w \in Worker /\ Waiting(w) /\ ~Waiting(w)'
         /\ queue' \in Seq(Worker)
         /\ \A m, n \in DOMAIN queue' : queue'[m] = queue'[n] => m = n
         /\ \A v \in Worker : Waiting(v)' => Waiting(v)
<1>1. /\ w = queue[1] /\ w \in Worker /\ 1 \in DOMAIN queue /\ Len(queue) \in Nat \ {0}
      /\ queue' \in Seq(Worker) /\ Len(queue') = Len(queue) - 1
      /\ DOMAIN queue = 1..Len(queue) /\ DOMAIN queue' = 1..Len(queue')
      /\ \A n \in 1..Len(queue') : queue'[n] = queue[n + 1]
  BY DEF TypeOK
<1>2. \A n \in DOMAIN queue' : n + 1 \in DOMAIN queue /\ n + 1 # 1 /\ queue'[n] = queue[n + 1]
  BY <1>1
<1>3. \A m, n \in DOMAIN queue : queue[m] = queue[n] => m = n
  BY DEF TypeOK
<1>4. \A n \in DOMAIN queue' : queue'[n] # w
  BY <1>1, <1>2, <1>3
<1>5. \A m, n \in DOMAIN queue' : queue'[m] = queue'[n] => m = n
  BY <1>1, <1>2, <1>3
<1>6. Waiting(w) /\ \A v \in Worker : Waiting(v)' => Waiting(v)
  BY <1>1 DEF Waiting
<1> QED
  BY <1>1, <1>4, <1>5, <1>6 DEF Waiting

\* A step by which w alone goes on, left with no more than its new step has open,
\* preserves the invariant.
LEMMA MovesOn ==
  ASSUME PoolInv, NEW w \in Worker, Serving(w), ~Waiting(w)',
         queue' \in Seq(Worker),
         \A m, n \in DOMAIN queue' : queue'[m] = queue'[n] => m = n,
         \A v \in Worker \ {w} : Waiting(v)' => Waiting(v),
         NEW n \in 1..(Len(Script[kind[w]]) + 1), Advance(w, n),
         Leaves(w), Held(w)' \subseteq Open(kind[w], n),
         unstarted' \in 0..MaxUnstarted, Cardinality(LostConn') = unstarted'
  PROVE  PoolInv'
<1>1. /\ Disciplined(w)'
      /\ kind' \in [Worker -> DOMAIN Script \cup {"none"}]
      /\ at' \in [Worker -> Nat]
      /\ Serving(w)' => at'[w] \in DOMAIN Script[kind'[w]]
      /\ \A v \in Worker \ {w} : kind'[v] = kind[v] /\ at'[v] = at[v]
  BY AfterAdvance DEF PoolInv
<1>2. \A v \in Worker \ {w} : Disciplined(v)'
  BY <1>1, Undisturbed DEF PoolInv, Leaves
<1>3. TypeOK'
  BY <1>1 DEF PoolInv, TypeOK, Serving, Leaves
<1> QED
  BY <1>1, <1>2, <1>3 DEF PoolInv

\* The same of a step that gives the connections of S back, and asks for none.
LEMMA GoesOn ==
  ASSUME PoolInv, NEW w \in Worker, Serving(w), ~Waiting(w), UNCHANGED <<queue, unstarted>>,
         NEW n \in 1..(Len(Script[kind[w]]) + 1), Advance(w, n),
         NEW S \in SUBSET Slot, GiveBack(w, S),
         Held(w) \ S \subseteq Open(kind[w], n)
  PROVE  PoolInv'
<1>1. Held(w)' = Held(w) \ S /\ Leaves(w) /\ LostConn' = LostConn
  BY HeldAfterGiveBack DEF PoolInv
<1>2. \A v \in Worker : Waiting(v)' <=> Waiting(v)
  BY DEF Waiting
<1>3. /\ queue' \in Seq(Worker) /\ unstarted' \in 0..MaxUnstarted
      /\ \A m, l \in DOMAIN queue' : queue'[m] = queue'[l] => m = l
      /\ Cardinality(LostConn') = unstarted'
  BY <1>1 DEF PoolInv, TypeOK
<1> QED
  BY <1>1, <1>2, <1>3, MovesOn

\* Giving nothing back is giving back the empty set.
LEMMA GiveNothing ==
  ASSUME TypeOK, NEW w \in Worker, UNCHANGED owner
  PROVE  GiveBack(w, {})
  BY DEF GiveBack, TypeOK

\* A rejected await leaves the handler with no more than is open where it goes on.
LEMMA AfterErrorOpen ==
  ASSUME TypeOK, NEW w \in Worker, Serving(w)
  PROVE  /\ AfterError(w) \in 1..(Len(Script[kind[w]]) + 1)
         /\ Open(kind[w], at[w]) \ Unwound(w) \subseteq Open(kind[w], AfterError(w))
         /\ Unwound(w) \in SUBSET Slot
<1>1. kind[w] \in DOMAIN Script /\ at[w] \in DOMAIN Script[kind[w]]
  BY DEF TypeOK, Serving
<1>2. Len(Script[kind[w]]) \in Nat \ {0}
  BY <1>1, BalancedScripts
<1>3. {"call", "stockRunner"} \subseteq Slot /\ Runner \subseteq Slot
  BY DEF Slot, Runner
<1>4. CASE Step(w) \in InDecrease
  <2>1. AfterError(w) = AfterDecrease(kind[w], at[w]) /\ Unwound(w) = {"call", "stockRunner"}
    BY <1>4 DEF AfterError, Unwound
  <2>2. /\ AfterDecrease(kind[w], at[w]) \in 1..(Len(Script[kind[w]]) + 1)
        /\ Open(kind[w], AfterDecrease(kind[w], at[w])) = Open(kind[w], at[w]) \ {"stockRunner"}
    BY <1>1, <1>4, BalancedScripts DEF Step
  <2> QED
    BY <1>3, <2>1, <2>2
<1>5. CASE Step(w) \notin InDecrease
  <2>1. AfterError(w) = Len(Script[kind[w]]) + 1 /\ Unwound(w) = Slot
    BY <1>5 DEF AfterError, Unwound
  <2> QED
    BY <1>2, <1>3, <2>1, OpenRunners
<1> QED
  BY <1>4, <1>5

\* The empty pool serves nobody.
LEMMA InitPool == Init => PoolInv
<1> SUFFICES ASSUME Init PROVE PoolInv
  OBVIOUS
<1>1. \A w \in Worker : ~Serving(w) /\ ~Waiting(w)
  BY DEF Init, Serving, Waiting
<1>2. \A w \in Worker : Held(w) = {}
  BY DEF Init, Held, Free
<1>3. TypeOK
  BY <1>1, Distinct, ConnectionPoolAssumption DEF Init, TypeOK
<1>4. \A w \in Worker : at[w] = 1
  BY DEF Init
<1>5. LostConn = {} /\ unstarted = 0
  BY Distinct DEF Init, LostConn
<1> QED
  BY <1>1, <1>2, <1>3, <1>4, <1>5, FS_EmptySet DEF PoolInv, Disciplined

\* Every action keeps what a request holds in step with where it is.
LEMMA NextPool == PoolInv /\ [Next]_vars => PoolInv'
<1> SUFFICES ASSUME PoolInv, [Next]_vars PROVE PoolInv'
  OBVIOUS
<1> USE DEF PoolInv
<1>s. ASSUME NEW w \in Worker, Serving(w)
      PROVE  /\ kind[w] \in DOMAIN Script
             /\ at[w] \in 1..Len(Script[kind[w]])
             /\ at[w] + 1 \in 1..(Len(Script[kind[w]]) + 1)
             /\ Len(Script[kind[w]]) + 1 \in 1..(Len(Script[kind[w]]) + 1)
             /\ at[w] \in DOMAIN Script[kind[w]]
  <2>1. kind[w] \in DOMAIN Script /\ at[w] \in DOMAIN Script[kind[w]]
    BY <1>s DEF TypeOK, Serving
  <2>2. DOMAIN Script[kind[w]] = 1..Len(Script[kind[w]]) /\ Len(Script[kind[w]]) \in Nat \ {0}
    BY <2>1, BalancedScripts
  <2> QED
    BY <2>1, <2>2
<1>1. ASSUME NEW w \in Worker, NEW k \in Kinds, Arrive(w, k)
      PROVE  PoolInv'
  <2>1. k \in DOMAIN Script /\ k # "none"
    BY ConnectionPoolAssumption
  <2>2. /\ kind' \in [Worker -> DOMAIN Script \cup {"none"}]
        /\ kind'[w] = k /\ \A v \in Worker \ {w} : kind'[v] = kind[v]
    BY <1>1, <2>1 DEF Arrive, TypeOK
  <2>3. /\ Held(w) = {} /\ ~Waiting(w)
        /\ \A v \in Worker : Held(v)' = Held(v) /\ (Waiting(v)' <=> Waiting(v))
    BY <1>1 DEF Arrive, Disciplined, Held, Waiting
  <2>4. \A v \in Worker \ {w} : Disciplined(v)'
    BY <1>1, <2>2, <2>3, Undisturbed DEF Arrive
  <2>5. at'[w] = 1 /\ 1 \in DOMAIN Script[k]
    <3>1. DOMAIN Script[k] = 1..Len(Script[k]) /\ Len(Script[k]) \in Nat \ {0}
      BY <2>1, BalancedScripts
    <3> QED
      BY <1>1, <3>1 DEF Arrive, Disciplined
  <2>6. Disciplined(w)'
    BY <2>1, <2>2, <2>3, <2>5 DEF Disciplined, Serving
  <2>7. TypeOK'
    BY <1>1, <2>1, <2>2, <2>5 DEF Arrive, TypeOK, Serving
  <2>8. LostConn' = LostConn /\ unstarted' = unstarted
    BY <1>1 DEF Arrive, LostConn
  <2> QED
    BY <2>4, <2>6, <2>7, <2>8
<1>2. ASSUME NEW w \in Worker, Ask(w)
      PROVE  PoolInv'
  <2>1. queue' = Append(queue, w) /\ queue \in Seq(Worker) /\ UNCHANGED <<kind, at, owner>>
    BY <1>2 DEF Ask, TypeOK
  <2>2. /\ queue' \in Seq(Worker) /\ Len(queue') = Len(queue) + 1
        /\ DOMAIN queue = 1..Len(queue) /\ DOMAIN queue' = 1..Len(queue')
        /\ queue'[Len(queue) + 1] = w /\ Len(queue) \in Nat
        /\ \A n \in 1..Len(queue) : queue'[n] = queue[n]
    BY <2>1
  <2>3. \A v \in Worker : /\ Held(v)' = Held(v)
                          /\ v # w /\ Waiting(v)' => Waiting(v)
    BY <2>1, <2>2 DEF Waiting, Held
  <2>4. \A v \in Worker \ {w} : Disciplined(v)'
    BY <2>1, <2>3, Undisturbed
  <2>5. Disciplined(w)'
    BY <1>2, <2>1, <2>3 DEF Disciplined, Ask, Serving, Step
  <2>6. \A m, n \in DOMAIN queue' : queue'[m] = queue'[n] => m = n
    BY <1>2, <2>2 DEF Ask, Waiting, TypeOK
  <2>7. LostConn' = LostConn /\ unstarted' = unstarted
    BY <1>2 DEF Ask, LostConn
  <2>8. TypeOK'
    BY <2>1, <2>2, <2>6, <2>7 DEF TypeOK, Serving
  <2> QED
    BY <2>4, <2>5, <2>7, <2>8
<1>3. ASSUME NEW w \in Worker, Started(w)
      PROVE  PoolInv'
  <2>1. Serving(w) /\ Step(w) \in Runner /\ Step(w) \in Held(w) /\ Advance(w, at[w] + 1)
    BY <1>3 DEF Started
  <2>2. Needs(Step(w)) = Step(w)
    BY <2>1 DEF Needs, Runner
  <2>3. ~Waiting(w)
    BY <2>1, <2>2 DEF Disciplined
  <2>4. Open(kind[w], at[w] + 1) = Open(kind[w], at[w]) \cup {Step(w)}
    BY <1>s, <2>1, BalancedScripts DEF Step
  <2>5. Held(w) \ {} \subseteq Open(kind[w], at[w] + 1)
    BY <2>1, <2>2, <2>4 DEF Disciplined
  <2> QED
    BY <1>3, <1>s, <2>1, <2>3, <2>5, GiveNothing, GoesOn DEF Started
<1>4. ASSUME NEW w \in Worker, EndCall(w)
      PROVE  PoolInv'
  <2>1. /\ Serving(w) /\ Needs(Step(w)) = "call" /\ "call" \in Held(w)
        /\ GiveBack(w, {"call"}) /\ Advance(w, at[w] + 1)
    BY <1>4 DEF EndCall
  <2>2. ~Waiting(w)
    BY <2>1 DEF Disciplined
  <2>3. Step(w) \in {"call", "stockCall"}
    BY <2>1 DEF Needs
  <2>4. Open(kind[w], at[w] + 1) = Open(kind[w], at[w])
    BY <1>s, <2>1, <2>3, BalancedScripts DEF Step
  <2>5. Held(w) \ {"call"} \subseteq Open(kind[w], at[w] + 1)
    BY <2>1, <2>4 DEF Disciplined
  <2>6. {"call"} \in SUBSET Slot
    BY DEF Slot
  <2> QED
    BY <1>4, <1>s, <2>1, <2>2, <2>5, <2>6, GoesOn DEF EndCall
<1>5. ASSUME NEW w \in Worker, EndQuery(w)
      PROVE  PoolInv'
  <2>1. Serving(w) /\ Step(w) = "query" /\ Advance(w, at[w] + 1)
    BY <1>5 DEF EndQuery
  <2>2. Needs(Step(w)) \notin Slot
    BY <2>1 DEF Needs, Slot, Runner
  <2>3. ~Waiting(w)
    BY <2>2 DEF Disciplined
  <2>4. Open(kind[w], at[w] + 1) = Open(kind[w], at[w])
    BY <1>s, <2>1, BalancedScripts DEF Step
  <2>5. Held(w) \ {} \subseteq Open(kind[w], at[w] + 1)
    BY <2>1, <2>2, <2>4 DEF Disciplined, Held
  <2> QED
    BY <1>5, <1>s, <2>1, <2>3, <2>5, GiveNothing, GoesOn DEF EndQuery
<1>6. ASSUME NEW w \in Worker, Release(w)
      PROVE  PoolInv'
  <2>1. Serving(w) /\ Advance(w, at[w] + 1) /\ UNCHANGED <<queue, unstarted>>
    BY <1>6 DEF Release
  <2>2. Step(w) \in {"endRunner", "endStock"} => Needs(Step(w)) = Step(w) /\ Step(w) \notin Slot
    BY DEF Needs, Slot, Runner
  <2>3. Step(w) \in {"endRunner", "endStock"} => ~Waiting(w)
    BY <2>2 DEF Disciplined
  <2>3a. Step(w) \in {"endRunner", "endStock"} => Held(w) \subseteq Open(kind[w], at[w])
    BY <2>1, <2>2 DEF Disciplined, Held
  <2>4. CASE Step(w) = "endRunner" /\ GiveBack(w, {"runner"})
    <3>1. Open(kind[w], at[w] + 1) = Open(kind[w], at[w]) \ {"runner"}
      BY <1>s, <2>1, <2>4, BalancedScripts DEF Step
    <3>2. Held(w) \ {"runner"} \subseteq Open(kind[w], at[w] + 1)
      BY <2>3a, <2>4, <3>1
    <3>3. {"runner"} \in SUBSET Slot
      BY DEF Slot, Runner
    <3> QED
      BY <1>s, <2>1, <2>3, <2>4, <3>2, <3>3, GoesOn
  <2>5. CASE Step(w) = "endStock" /\ GiveBack(w, {"stockRunner"})
    <3>1. Open(kind[w], at[w] + 1) = Open(kind[w], at[w]) \ {"stockRunner"}
      BY <1>s, <2>1, <2>5, BalancedScripts DEF Step
    <3>2. Held(w) \ {"stockRunner"} \subseteq Open(kind[w], at[w] + 1)
      BY <2>3a, <2>5, <3>1
    <3>3. {"stockRunner"} \in SUBSET Slot
      BY DEF Slot, Runner
    <3> QED
      BY <1>s, <2>1, <2>3, <2>5, <3>2, <3>3, GoesOn
  <2> QED
    BY <1>6, <2>4, <2>5 DEF Release
<1>7. ASSUME NEW w \in Worker, Fail(w)
      PROVE  PoolInv'
  <2>1. /\ Serving(w)
        /\ Step(w) = "query" \/ "call" \in Held(w)
        /\ GiveBack(w, Unwound(w)) /\ Advance(w, AfterError(w))
        /\ UNCHANGED <<queue, unstarted>>
    BY <1>7 DEF Fail
  <2>2. "call" \notin Runner /\ "query" \notin Slot /\ "call" \in Unwound(w)
    BY DEF Runner, Slot, Unwound
  <2>3. /\ ~Waiting(w)
        /\ Held(w) \subseteq Open(kind[w], at[w]) \cup {"call"}
    <3>1. CASE Step(w) = "query"
      <4>1. Needs(Step(w)) \notin Slot
        BY <2>2, <3>1 DEF Needs
      <4> QED
        BY <2>1, <4>1 DEF Disciplined, Held
    <3>2. CASE "call" \in Held(w)
      <4>1. Needs(Step(w)) = "call"
        BY <2>1, <2>2, <3>2, OpenRunners DEF Disciplined
      <4> QED
        BY <2>1, <3>2, <4>1 DEF Disciplined
    <3> QED
      BY <2>1, <3>1, <3>2
  <2>4. /\ AfterError(w) \in 1..(Len(Script[kind[w]]) + 1)
        /\ Open(kind[w], at[w]) \ Unwound(w) \subseteq Open(kind[w], AfterError(w))
        /\ Unwound(w) \in SUBSET Slot
    BY <2>1, AfterErrorOpen
  <2>5. Held(w) \ Unwound(w) \subseteq Open(kind[w], AfterError(w))
    BY <2>2, <2>3, <2>4
  <2> QED
    BY <2>1, <2>3, <2>4, <2>5, GoesOn
<1>8. ASSUME NEW w \in Worker, FailToStart(w)
      PROVE  PoolInv'
  <2>1. /\ Serving(w) /\ Step(w) \in Runner /\ Step(w) \in Held(w)
        /\ unstarted < MaxUnstarted /\ unstarted' = unstarted + 1
        /\ Advance(w, AfterError(w)) /\ UNCHANGED queue
    BY <1>8 DEF FailToStart
  <2>2. /\ Held(w)' = Held(w) \ {Step(w)} /\ Leaves(w)
        /\ Cardinality(LostConn') = Cardinality(LostConn) + 1
    BY <1>8, <2>1, HeldAfterLoss DEF FailToStart
  <2>3. Needs(Step(w)) = Step(w) /\ ~Waiting(w)
    <3>1. Needs(Step(w)) = Step(w)
      BY <2>1 DEF Needs, Runner
    <3> QED
      BY <2>1, <3>1 DEF Disciplined
  <2>4. /\ AfterError(w) \in 1..(Len(Script[kind[w]]) + 1)
        /\ Open(kind[w], at[w]) \ Unwound(w) \subseteq Open(kind[w], AfterError(w))
    BY <2>1, AfterErrorOpen
  <2>5. Open(kind[w], at[w]) \ {Step(w)} \subseteq Open(kind[w], at[w]) \ Unwound(w)
    <3>1. CASE Step(w) = "runner"
      BY <1>s, <2>1, <3>1, BalancedScripts DEF Step
    <3>2. CASE Step(w) = "stockRunner"
      <4>1. Unwound(w) = {"call", "stockRunner"} /\ "call" \notin Runner
        BY <3>2 DEF Unwound, InDecrease, Runner
      <4> QED
        BY <3>2, <4>1, OpenRunners
    <3> QED
      BY <2>1, <3>1, <3>2 DEF Runner
  <2>6. Held(w)' \subseteq Open(kind[w], AfterError(w))
    BY <2>1, <2>2, <2>3, <2>4, <2>5 DEF Disciplined
  <2>7. \A v \in Worker : Waiting(v)' <=> Waiting(v)
    BY <2>1 DEF Waiting
  <2>8. unstarted' \in 0..MaxUnstarted /\ Cardinality(LostConn') = unstarted'
    BY <2>1, <2>2, ConnectionPoolAssumption DEF TypeOK
  <2>9. queue' \in Seq(Worker) /\ \A m, n \in DOMAIN queue' : queue'[m] = queue'[n] => m = n
    BY <2>1 DEF TypeOK
  <2> QED
    BY <2>1, <2>2, <2>3, <2>4, <2>6, <2>7, <2>8, <2>9, MovesOn
<1>9. ASSUME Grant
      PROVE  PoolInv'
  <2>1. PICK w, c :
          /\ queue # <<>> /\ w = Head(queue) /\ c \in Conn /\ owner[c] = Free
          /\ owner' = [owner EXCEPT ![c] = <<w, Needs(Step(w))>>]
          /\ queue' = Tail(queue) /\ UNCHANGED <<kind, at, unstarted>>
    BY <1>9 DEF Grant
  <2>2. /\ w \in Worker /\ Waiting(w) /\ ~Waiting(w)'
        /\ queue' \in Seq(Worker)
        /\ \A m, n \in DOMAIN queue' : queue'[m] = queue'[n] => m = n
        /\ \A v \in Worker : Waiting(v)' => Waiting(v)
    BY <2>1, HeadLeaves
  <2>3. Serving(w) /\ Needs(Step(w)) \in Slot \ Held(w)
    BY <2>2 DEF Disciplined
  <2>4. Held(w)' = Held(w) \cup {Needs(Step(w))} /\ Leaves(w) /\ LostConn' = LostConn
    BY <2>1, <2>2, <2>3, HeldAfterGrant
  <2>5. \A v \in Worker \ {w} : Disciplined(v)'
    BY <2>1, <2>2, <2>4, Undisturbed DEF Leaves
  <2>6. Disciplined(w)'
    BY <2>1, <2>2, <2>3, <2>4 DEF Disciplined, Serving, Step
  <2>7. TypeOK'
    BY <2>1, <2>2, <2>4 DEF TypeOK, Serving, Leaves
  <2> QED
    BY <2>1, <2>4, <2>5, <2>6, <2>7
<1>10. ASSUME Refuse
       PROVE  PoolInv'
  <2>1. PICK w :
          /\ queue # <<>> /\ w = Head(queue)
          /\ GiveBack(w, Unwound(w)) /\ Advance(w, AfterError(w))
          /\ queue' = Tail(queue) /\ unstarted' = unstarted
    BY <1>10 DEF Refuse
  <2>2. /\ w \in Worker /\ Waiting(w) /\ ~Waiting(w)'
        /\ queue' \in Seq(Worker)
        /\ \A m, n \in DOMAIN queue' : queue'[m] = queue'[n] => m = n
        /\ \A v \in Worker : Waiting(v)' => Waiting(v)
    BY <2>1, HeadLeaves
  <2>3. Serving(w) /\ Held(w) \subseteq Open(kind[w], at[w])
    BY <2>2 DEF Disciplined
  <2>4. /\ AfterError(w) \in 1..(Len(Script[kind[w]]) + 1)
        /\ Open(kind[w], at[w]) \ Unwound(w) \subseteq Open(kind[w], AfterError(w))
        /\ Unwound(w) \in SUBSET Slot
    BY <2>2, <2>3, AfterErrorOpen
  <2>5. Held(w)' = Held(w) \ Unwound(w) /\ Leaves(w) /\ LostConn' = LostConn
    BY <2>1, <2>2, <2>4, HeldAfterGiveBack
  <2>6. unstarted' \in 0..MaxUnstarted /\ Cardinality(LostConn') = unstarted'
    BY <2>1, <2>5 DEF TypeOK
  <2> QED
    BY <2>1, <2>2, <2>3, <2>4, <2>5, <2>6, MovesOn
<1>11. CASE UNCHANGED vars
  <2>1. \A v \in Worker : Held(v)' = Held(v) /\ (Waiting(v)' <=> Waiting(v))
    BY <1>11 DEF vars, Held, Waiting
  <2>2. \A v \in Worker : Disciplined(v)'
    BY <1>11, <2>1, Undisturbed DEF vars
  <2>3. LostConn' = LostConn /\ unstarted' = unstarted
    BY <1>11 DEF vars, LostConn
  <2>4. TypeOK'
    BY <1>11 DEF vars, TypeOK, Serving
  <2> QED
    BY <2>2, <2>3, <2>4
<1> QED
  BY <1>1, <1>2, <1>3, <1>4, <1>5, <1>6, <1>7, <1>8, <1>9, <1>10, <1>11
  DEF Next, Handle, Serve

\* What the requests hold and wait for stays in step with the handlers' code.
THEOREM PoolInvCorrect == Spec => []PoolInv
  BY InitPool, NextPool, PTL DEF Spec

\* Connections, the waiting list and the requests' places in their scripts stay
\* well-formed.
THEOREM TypeCorrect == Spec => []TypeOK
<1>1. PoolInv => TypeOK
  BY DEF PoolInv
<1> QED
  BY <1>1, PoolInvCorrect, PTL

\* A request that is over has given every connection back, but for those lost to
\* transactions that did not start: for any number of requests and connections.
THEOREM OnlyStartsLeakCorrect == Spec => []OnlyStartsLeak
<1>1. PoolInv => OnlyStartsLeak
  BY DEF PoolInv, Disciplined, OnlyStartsLeak, LostConn
<1> QED
  BY <1>1, PoolInvCorrect, PTL

\* With more connections than two for every request in flight beside the lost
\* ones, a free one is left or is with a request at work: what waits holds query
\* runners only, so the requests that wait cannot hold all of the rest.
LEMMA Enough ==
  ASSUME Cardinality(Conn) > 2 * Cardinality(Worker) + MaxUnstarted, PoolInv
  PROVE  NotStuck
<1> SUFFICES ASSUME ~ \E c \in Conn : owner[c] = Free,
                    ~ \E w \in Worker : Serving(w) /\ Held(w) # {} /\ ~Waiting(w)
             PROVE  FALSE
  BY DEF NotStuck
<1> DEFINE Left == Conn \ LostConn
<1>1. \A c \in Left : owner[c] \in Worker \X Runner
  <2> SUFFICES ASSUME NEW c \in Left PROVE owner[c] \in Worker \X Runner
    OBVIOUS
  <2>1. PICK w \in Worker, s \in Slot : owner[c] = <<w, s>>
    BY DEF PoolInv, TypeOK, LostConn
  <2>2. s \in Held(w)
    BY <2>1 DEF Held
  <2>3. Serving(w) /\ Waiting(w)
    BY <2>2 DEF PoolInv, Disciplined
  <2>4. s \in Open(kind[w], at[w])
    BY <2>2, <2>3 DEF PoolInv, Disciplined
  <2> QED
    BY <2>1, <2>4, OpenRunners
<1>2. [c \in Left |-> owner[c]] \in Injection(Left, Worker \X Runner)
  BY <1>1 DEF PoolInv, TypeOK, LostConn, Injection, IsInjective
<1>3. IsFiniteSet(Runner) /\ Cardinality(Runner) = 2
  <2>1. Runner = {"runner"} \cup {"stockRunner"} /\ "stockRunner" \notin {"runner"}
    BY DEF Runner
  <2>2. IsFiniteSet({"runner"}) /\ Cardinality({"runner"}) = 1
    BY FS_Singleton
  <2> QED
    BY <2>1, <2>2, FS_AddElement
<1>4. /\ IsFiniteSet(Worker \X Runner)
      /\ Cardinality(Worker \X Runner) = Cardinality(Worker) * Cardinality(Runner)
  BY <1>3, FS_Product, ConnectionPoolAssumption
<1>5. IsFiniteSet(Left) /\ Cardinality(Left) = Cardinality(Conn) - Cardinality(Conn \cap LostConn)
  BY FS_Difference, ConnectionPoolAssumption
<1>6. Conn \cap LostConn = LostConn
  BY DEF LostConn
<1>7. Cardinality(Left) <= Cardinality(Worker \X Runner)
  BY <1>2, <1>4, FS_Injection
<1>8. Cardinality(Worker) \in Nat /\ Cardinality(Conn) \in Nat
  BY FS_CardinalityType, ConnectionPoolAssumption
<1>9. Cardinality(LostConn) \in 0..MaxUnstarted
  BY DEF PoolInv, TypeOK
<1> HIDE DEF Left
<1>10. Cardinality(Left) <= Cardinality(Worker) * 2
  BY <1>3, <1>4, <1>7
<1>11. Cardinality(Left) = Cardinality(Conn) - Cardinality(LostConn)
  BY <1>5, <1>6
<1> QED
  BY <1>8, <1>9, <1>10, <1>11, ConnectionPoolAssumption

\* Requests never wait for each other's connections for ever in a pool of more
\* than two connections per request in flight (create and update of an order
\* hold two while they wait for a third) beside those lost to transactions that
\* did not start.
THEOREM NotStuckCorrect ==
  Cardinality(Conn) > 2 * Cardinality(Worker) + MaxUnstarted => (Spec => []NotStuck)
<1> SUFFICES ASSUME Cardinality(Conn) > 2 * Cardinality(Worker) + MaxUnstarted
             PROVE  Spec => []NotStuck
  OBVIOUS
<1>1. PoolInv => NotStuck
  BY Enough
<1> QED
  BY <1>1, PoolInvCorrect, PTL
=============================================================================
