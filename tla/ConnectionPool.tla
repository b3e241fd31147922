--------------------------- MODULE ConnectionPool ---------------------------
(***************************************************************************)
(* Who holds which database connection while waiting for another.          *)
(*                                                                         *)
(* A handler that opens a query runner keeps its connection until          *)
(* `finally'.  Its repository calls take a second connection from the same *)
(* pool; only what it asks of the runner itself does not.  decreaseStock,  *)
(* called for every line of an order, opens a query runner of its own in   *)
(* adjustStock and needs a third.  The pool hands connections out in the   *)
(* order they are asked for and, as app.module.ts configures it, lets a    *)
(* request wait for ever.                                                  *)
(***************************************************************************)
EXTENDS Naturals, Sequences, FiniteSets

CONSTANTS
    Worker,     \* the requests the server can have in flight at once
    Conn,       \* the connections of the pool
    Kinds,      \* the kinds of requests clients send in this instance
    MaxUnstarted    \* bound: transactions that fail to start

Runner == {"runner", "stockRunner"}
Slot   == Runner \cup {"call"}
Free   == <<>>
Lost   == <<"lost">>    \* a connection whose handler is gone without releasing it

\* The steps within decreaseStock's try block
InDecrease == {"stockRunner", "stockCall", "endStock"}

(***************************************************************************)
(* What each handler that opens a query runner awaits, in order, and       *)
(* updateStatus.  A "query" is one on its own runner; a "stockCall" is a   *)
(* repository call whose failure decreaseStock swallows.                   *)
(***************************************************************************)

\* StockService.adjustStock: find, save, history; commit; find again
AdjustStock == <<"stockRunner", "stockCall", "stockCall", "stockCall", "endStock", "stockCall">>

\* One iteration of the items loop: menu item, line, then decreaseStock
OrderLine == <<"call", "call", "stockCall">> \o AdjustStock

\* OrderService.create of an order of one line
Create == <<"runner", "call", "call">> \o OrderLine \o
          <<"call", "call", "call", "endRunner", "call">>

\* OrderService.update replacing the lines by one
Rewrite == <<"call", "runner", "call">> \o OrderLine \o <<"call", "call", "endRunner">>

\* OrderService.remove of the last order of a table
Remove == <<"call", "runner", "call", "call", "call", "call", "call", "endRunner">>

\* OrderService.updateStatus to COMPLETED: no query runner
Complete == <<"call", "call", "call", "call">>

\* SubscriptionService.createSubscription, startTrial, updateSubscription
Subscribe == <<"runner", "call", "call", "call", "query", "query", "query", "endRunner">>
Trial     == <<"runner", "call", "call", "call", "query", "query", "endRunner">>
Change    == <<"runner", "call", "query", "query", "endRunner">>

\* AuthService.register, TenantService.create: all within the transaction but
\* the tenant's look for its name
Register     == <<"runner", "query", "query", "query", "endRunner">>
CreateTenant == <<"call", "runner", "query", "query", "endRunner">>

\* PaymentService.create, rolled back in either case: a transition to PENDING is
\* refused unsent, one to COMPLETED, saved on another connection, by the database
PayByCard == <<"call", "runner", "call", "call", "call", "query", "endRunner">>
PayCash   == <<"call", "runner", "call", "call", "call", "query", "call", "endRunner">>

\* InvoiceService.create of a draft, which prints nothing
Invoice == <<"runner", "call", "call", "call", "call", "call", "endRunner", "call">>

\* PurchaseOrderService.receiveOrder, which has no items to go through
Receive == <<"runner", "call", "endRunner", "call">>

Script == [create |-> Create, rewrite |-> Rewrite, remove |-> Remove,
           complete |-> Complete, adjust |-> AdjustStock,
           subscribe |-> Subscribe, trial |-> Trial, change |-> Change,
           register |-> Register, tenant |-> CreateTenant,
           card |-> PayByCard, cash |-> PayCash,
           invoice |-> Invoice, receive |-> Receive]

\* The first step after decreaseStock's try block that surrounds step n; past
\* the script when the request consists of adjustStock alone
AfterDecrease(k, n) ==
    LET rest == {m \in DOMAIN Script[k] :
                    m > n /\ Script[k][m] \notin InDecrease}
    IN  IF rest = {} THEN Len(Script[k]) + 1
        ELSE CHOOSE m \in rest : \A l \in rest : m <= l

End(runner) == IF runner = "runner" THEN "endRunner" ELSE "endStock"

\* The query runners open when a handler comes to step n
Open(k, n) ==
    {r \in Runner : \E m \in 1..(n - 1) :
        Script[k][m] = r /\ \A l \in m..(n - 1) : Script[k][l] # End(r)}

ASSUME ConnectionPoolAssumption ==
    /\ IsFiniteSet(Worker) /\ IsFiniteSet(Conn)
    /\ {Free, Lost} \cap (Worker \X Slot) = {}
    /\ "none" \notin DOMAIN Script
    /\ Kinds \subseteq DOMAIN Script
    /\ MaxUnstarted \in Nat

\* The try/finally blocks nest: every handler closes what it opened, also when
\* decreaseStock is left by an error.
ASSUME BalancedScripts ==
    \A k \in DOMAIN Script :
        /\ Len(Script[k]) \in Nat \ {0} /\ DOMAIN Script[k] = 1..Len(Script[k])
        /\ Open(k, 1) = {} /\ Open(k, Len(Script[k]) + 1) = {}
        /\ \A n \in DOMAIN Script[k] :
            /\ Script[k][n] \in Runner => Open(k, n + 1) = Open(k, n) \cup {Script[k][n]}
            /\ Script[k][n] = "runner" => Open(k, n) = {}
            /\ Script[k][n] = "endRunner" => Open(k, n + 1) = Open(k, n) \ {"runner"}
            /\ Script[k][n] = "endStock" => Open(k, n + 1) = Open(k, n) \ {"stockRunner"}
            /\ Script[k][n] \in {"call", "query"} => Open(k, n + 1) = Open(k, n)
            /\ Script[k][n] = "stockCall" => Open(k, n + 1) = Open(k, n)
            /\ Script[k][n] \in InDecrease =>
                /\ AfterDecrease(k, n) \in 1..(Len(Script[k]) + 1)
                /\ Open(k, AfterDecrease(k, n)) = Open(k, n) \ {"stockRunner"}

VARIABLES
    kind,   \* what each request slot is serving; "none" between requests
    at,     \* the step of its script it is at
    owner,  \* who has each connection, and for what
    queue,  \* the pool's waiting list: requests, first come first
    unstarted   \* history: how many transactions failed to start

vars == <<kind, at, owner, queue, unstarted>>

Step(w)    == Script[kind[w]][at[w]]
Serving(w) == kind[w] # "none"
Waiting(w) == \E n \in DOMAIN queue : queue[n] = w
Held(w)    == {s \in Slot : \E c \in Conn : owner[c] = <<w, s>>}

\* The connection a step needs
Needs(step) == IF step = "stockCall" THEN "call" ELSE step

\* The request moves to step n of its script, or is answered after the last
Advance(w, n) ==
    IF n \in DOMAIN Script[kind[w]]
    THEN at' = [at EXCEPT ![w] = n] /\ UNCHANGED kind
    ELSE at' = [at EXCEPT ![w] = 1] /\ kind' = [kind EXCEPT ![w] = "none"]

\* Where the request goes on when what it awaits rejects: decreaseStock swallows
\* the error of adjustStock, any other ends the request
AfterError(w) ==
    IF Step(w) \in InDecrease THEN AfterDecrease(kind[w], at[w]) ELSE Len(Script[kind[w]]) + 1

\* What the try/finally blocks it leaves on the way release, with the connection
\* of the repository call itself
Unwound(w) == IF Step(w) \in InDecrease THEN {"call", "stockRunner"} ELSE Slot

\* The connections w has for the uses in S go back to the pool
GiveBack(w, S) ==
    owner' = [c \in Conn |-> IF \E s \in S : owner[c] = <<w, s>> THEN Free ELSE owner[c]]

Arrive(w, k) ==
    /\ ~Serving(w)
    /\ kind' = [kind EXCEPT ![w] = k]
    /\ UNCHANGED <<at, owner, queue, unstarted>>

BugAsk(w) ==
    /\ Serving(w)
    /\ Needs(Step(w)) \in Slot \ Held(w)
    /\ queue' = Append(queue, w)
    /\ UNCHANGED <<kind, at, owner, unstarted>>

\* The next await asks the pool for a connection
Ask(w) ==
    /\ Serving(w)
    /\ Needs(Step(w)) \in Slot \ Held(w)
    /\ ~Waiting(w)
    /\ queue' = Append(queue, w)
    /\ UNCHANGED <<kind, at, owner, unstarted>>

\* The pool serves the head of its waiting list when a connection is free
Grant ==
    LET w == Head(queue)
        c == CHOOSE c \in Conn : owner[c] = Free
    IN
    /\ queue # <<>>
    /\ \E d \in Conn : owner[d] = Free
    /\ owner' = [owner EXCEPT ![c] = <<w, Needs(Step(w))>>]
    /\ queue' = Tail(queue)
    /\ UNCHANGED <<kind, at, unstarted>>

\* The pool opens a connection for the head of its waiting list and the database
\* refuses: connect(), or the repository call, rejects
Refuse ==
    LET w == Head(queue)
    IN
    /\ queue # <<>>
    /\ \E d \in Conn : owner[d] = Free
    /\ GiveBack(w, Unwound(w))
    /\ Advance(w, AfterError(w))
    /\ queue' = Tail(queue)
    /\ UNCHANGED unstarted

\* connect() and startTransaction() are through; the handler enters its try block
Started(w) ==
    /\ Serving(w)
    /\ Step(w) \in Runner \cap Held(w)
    /\ Advance(w, at[w] + 1)
    /\ UNCHANGED <<owner, queue, unstarted>>

\* A repository call answers and gives its connection back
EndCall(w) ==
    /\ Serving(w)
    /\ Needs(Step(w)) = "call" /\ "call" \in Held(w)
    /\ GiveBack(w, {"call"})
    /\ Advance(w, at[w] + 1)
    /\ UNCHANGED <<queue, unstarted>>

\* A query on the request's own runner answers
EndQuery(w) ==
    /\ Serving(w)
    /\ Step(w) = "query"
    /\ Advance(w, at[w] + 1)
    /\ UNCHANGED <<owner, queue, unstarted>>

BugRelease(w) ==
    /\ Serving(w)
    /\ \/ Step(w) = "endRunner" /\ GiveBack(w, {"runner"})
       \/ /\ Step(w) = "endStock"
          /\ owner' = [c \in Conn |-> IF owner[c] = <<w, "stockRunner">> THEN Lost ELSE owner[c]]
    /\ Advance(w, at[w] + 1)
    /\ UNCHANGED <<queue, unstarted>>

\* commit and, in `finally', release
Release(w) ==
    /\ Serving(w)
    /\ \/ Step(w) = "endRunner" /\ GiveBack(w, {"runner"})
       \/ Step(w) = "endStock" /\ GiveBack(w, {"stockRunner"})
    /\ Advance(w, at[w] + 1)
    /\ UNCHANGED <<queue, unstarted>>

BugRetry(w) ==
    /\ Serving(w)
    /\ "call" \in Held(w)
    /\ GiveBack(w, {"call"})
    /\ Advance(w, at[w])
    /\ UNCHANGED <<queue, unstarted>>

BugFail(w) ==
    /\ Serving(w)
    /\ Step(w) = "query" \/ "call" \in Held(w)
    /\ GiveBack(w, Unwound(w) \ {"runner"})
    /\ Advance(w, AfterError(w))
    /\ UNCHANGED <<queue, unstarted>>

\* A query rejects inside the try block: the transaction is rolled back and the
\* query runner released.
Fail(w) ==
    /\ Serving(w)
    /\ Step(w) = "query" \/ "call" \in Held(w)
    /\ GiveBack(w, Unwound(w))
    /\ Advance(w, AfterError(w))
    /\ UNCHANGED <<queue, unstarted>>

\* startTransaction() rejects.  It stands before the try block, so no `finally'
\* releases the runner just connected: its connection never comes back.
FailToStart(w) ==
    /\ Serving(w)
    /\ Step(w) \in Runner \cap Held(w)
    /\ unstarted < MaxUnstarted
    /\ owner' = [c \in Conn |-> IF owner[c] = <<w, Step(w)>> THEN Lost ELSE owner[c]]
    /\ unstarted' = unstarted + 1
    /\ Advance(w, AfterError(w))
    /\ UNCHANGED queue

Init ==
    /\ kind  = [w \in Worker |-> "none"]
    /\ at    = [w \in Worker |-> 1]
    /\ owner = [c \in Conn |-> Free]
    /\ queue = <<>>
    /\ unstarted = 0

Handle(w) ==
    \/ Ask(w) \/ Started(w) \/ EndCall(w) \/ EndQuery(w) \/ Release(w)
    \/ Fail(w) \/ FailToStart(w)

\* The pool serves the head of its waiting list, in one way or the other
Serve == Grant \/ Refuse

Next ==
    \/ \E w \in Worker, k \in Kinds : Arrive(w, k)
    \/ \E w \in Worker : Handle(w)
    \/ Serve

\* The event loop runs every handler that can go on, the database answers every
\* call, and the pool hands out what is free.
Fairness == WF_vars(Serve) /\ \A w \in Worker : WF_vars(Handle(w))

Spec == Init /\ [][Next]_vars /\ Fairness

(***************************************************************************)
(* Properties                                                              *)
(***************************************************************************)

\* Type invariant: a request waits for one connection at a time, and has one
\* connection for one use.
TypeOK ==
    /\ kind \in [Worker -> DOMAIN Script \cup {"none"}]
    /\ \A w \in Worker : Serving(w) => at[w] \in DOMAIN Script[kind[w]]
    /\ at \in [Worker -> Nat]
    /\ owner \in [Conn -> (Worker \X Slot) \cup {Free, Lost}]
    /\ \A c, d \in Conn : owner[c] = owner[d] /\ owner[c] \notin {Free, Lost} => c = d
    /\ queue \in Seq(Worker)
    /\ \A m, n \in DOMAIN queue : queue[m] = queue[n] => m = n
    /\ unstarted \in 0..MaxUnstarted

\* Requests that wait are never all that holds the pool: a connection is free or
\* one is with a request at work (create and update of an order hold two while
\* they wait for a third: order.service.ts, stock.service.ts adjustStock).
NotStuck ==
    queue # <<>> =>
        \/ \E c \in Conn : owner[c] = Free
        \/ \E w \in Worker : Serving(w) /\ Held(w) # {} /\ ~Waiting(w)

\* A request that is over has given every connection back, however it ended, but
\* for one: a transaction that fails to start costs the pool its connection for
\* good (order.service.ts create awaits startTransaction before its try), and
\* nothing else does.
OnlyStartsLeak ==
    /\ \A w \in Worker : ~Serving(w) => Held(w) = {}
    /\ Cardinality({c \in Conn : owner[c] = Lost}) = unstarted

\* Every request is answered.
Answered == \A w \in Worker : Serving(w) ~> ~Serving(w)
=============================================================================
