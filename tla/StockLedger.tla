----------------------------- MODULE StockLedger -----------------------------
(***************************************************************************)
(* Stock rows and the requests that change their quantity                  *)
(* (stock.service.ts): orders, manual adjustments, edits.                  *)
(*                                                                         *)
(* adjustStock reads the row, computes in memory and saves the row, each   *)
(* through the repository: other requests run in between, and the          *)
(* transaction it opens covers none of it.  save() itself is two queries:  *)
(* it reads the row again and updates the columns that differ.             *)
(*                                                                         *)
(* Quantities are in hundredths, as decimal(10,2) stores them.  The driver *)
(* returns decimals as strings: `-' and comparisons with a number convert  *)
(* them, `+=' appends to them and comparisons between two go by letters.   *)
(***************************************************************************)
EXTENDS Integers, FiniteSets

CONSTANTS
    Stock,      \* ids a stock row can be given
    MenuItem,
    Worker,     \* the requests in flight at once
    Desk,       \* Desk[w]: the stocks request slot w is used for
    Actions,    \* the action types staff adjust with in this instance
    Quantities, \* the quantities ordered, and those a stock is created with
    Amounts,    \* the quantities staff adjust by; nothing keeps them positive
    Minima,     \* the minimum quantities clients send
    Edits,      \* the fields edits set: quantity and minimum, or Keep
    MaxSold,    \* bound: what orders may take of one stock in an instance
    MaxQuantity \* bound: what an adjustment may bring a stock to

\* "waste" stands for the nine types adjustStock leaves the quantity alone for
StockActionType == {"increase", "decrease", "adjustment", "waste"}

Keep == -1      \* a field the client leaves out

ASSUME StockLedgerAssumption ==
    /\ Desk \in [Worker -> SUBSET Stock]
    /\ Actions \subseteq StockActionType
    /\ Quantities \subseteq Nat /\ Amounts \subseteq Int /\ Minima \subseteq Nat
    /\ Edits \subseteq (Nat \cup {Keep}) \X (Nat \cup {Keep})
    /\ MaxSold \in Nat /\ MaxQuantity \in Nat

VARIABLES
    rows,       \* the stock rows
    history,    \* the stocks a stock-history row refers to
    pc, req,    \* the next await of each request, and its parameters
    held,       \* the Stock object it works on
    found,      \* the row its save compares that object with
    (* history variables, read by properties and the bound only *)
    opening,    \* the quantity each stock was created with
    sold,       \* what orders have taken of it until staff set its quantity
    recounted,  \* the stocks whose quantity staff have set or adjusted
    miscounted  \* those staff have set to less than nothing

ghosts == <<opening, sold, recounted, miscounted>>
vars   == <<rows, history, pc, req, held, found, ghosts>>

NoStock == [item |-> "none"]
NoReq   == [op |-> "none"]

StockRow(m, q, min, low) == [item |-> m, quantity |-> q, min |-> min, low |-> low]

Exists(s)   == rows[s] # NoStock
StocksOf(m) == {s \in Stock : Exists(s) /\ rows[s].item = m}

(***************************************************************************)
(* JavaScript on decimal strings                                           *)
(***************************************************************************)

LeadingDigit(n) == CHOOSE d \in 0..9 : \E p \in {1, 10, 100, 1000, 10000} :
                        d * p <= n /\ n < (d + 1) * p /\ (d = 0 => n = 0)

\* The column refuses "12.50-7" and "12.507.5"
Appendable(n) == n >= 0 /\ n % 100 = 0

\* "12.50" + 7 is "12.507"; the column rounds it to two places
Appended(x, n) ==
    LET carry == IF LeadingDigit(n \div 100) >= 5 THEN 1 ELSE 0
    IN  IF x < 0 THEN x - carry ELSE x + carry

\* The place of the digits before the point in the order of letters, where the
\* point comes before the digits.  Bound: two digits.
Place(n) == IF n < 10 THEN 11 * (n + 1) ELSE 11 * ((n \div 10) + 1) + (n % 10) + 1

\* y is not negative; a minus sign comes before the digits
TextBelow(x, y) ==
    \/ x < 0
    \/ Place(x \div 100) < Place(y \div 100)
    \/ Place(x \div 100) = Place(y \div 100) /\ x < y

(***************************************************************************)
(* What the requests make of the object they loaded                        *)
(***************************************************************************)

BugNewQuantity(action, old, n) ==
    IF action = "increase" THEN Appended(old, n)
    ELSE IF action = "decrease" THEN n - old
    ELSE IF action = "adjustment" THEN n ELSE old

NewQuantity(action, old, n) ==
    IF action = "increase" THEN Appended(old, n)
    ELSE IF action = "decrease" THEN old - n
    ELSE IF action = "adjustment" THEN n ELSE old

\* newQuantity <= stock.minQuantity: of two strings unless the action computes
BelowMinimum(action, old, n, min) ==
    IF action \in {"decrease", "adjustment"} THEN NewQuantity(action, old, n) <= min
    ELSE TextBelow(old, min) \/ (old = min /\ action # "increase")

\* The object adjustStock saves
Adjusted(row, action, n) ==
    StockRow(row.item, NewQuantity(action, row.quantity, n), row.min,
             BelowMinimum(action, row.quantity, n, row.min))

BugGiven(field, old) == field

Given(field, old) == IF field = Keep THEN old ELSE field

BugUpdated(row, n, min) ==
    StockRow(row.item, Given(n, row.quantity), Given(min, row.min), row.low)

\* The object update saves
Updated(row, n, min) ==
    LET q == Given(n, row.quantity)
        m == Given(min, row.min)
    IN  StockRow(row.item, q, m,
                 IF n = Keep /\ min = Keep THEN TextBelow(q, m) \/ q = m ELSE q <= m)

\* The columns of the object that hold something else than the driver would
\* return for the row, a number or a longer string
Computed(r) ==
    IF r.op = "update"
    THEN (IF r.quantity = Keep THEN {} ELSE {"quantity"}) \cup
         (IF r.min = Keep THEN {} ELSE {"min"})
    ELSE IF r.action = "waste" THEN {} ELSE {"quantity"}

\* save(): of the row now in the database, the columns that were found to
\* differ are set
Merged(now, old, new, computed) ==
    StockRow(now.item,
             IF "quantity" \in computed \/ old.quantity # new.quantity THEN new.quantity ELSE now.quantity,
             IF "min" \in computed \/ old.min # new.min THEN new.min ELSE now.min,
             IF old.low # new.low THEN new.low ELSE now.low)

(***************************************************************************)
(* Requests                                                                *)
(***************************************************************************)

Start(w, label, r) ==
    /\ pc[w] = "idle"
    /\ pc' = [pc EXCEPT ![w] = label]
    /\ req' = [req EXCEPT ![w] = r]
    /\ UNCHANGED found

Goto(w, from, to) ==
    /\ pc[w] = from
    /\ pc' = [pc EXCEPT ![w] = to]

Forget(w, remains) ==
    /\ req' = [req EXCEPT ![w] = remains]
    /\ held' = [held EXCEPT ![w] = NoStock]
    /\ found' = [found EXCEPT ![w] = NoStock]

Answer(w, from) == Goto(w, from, "idle") /\ Forget(w, NoReq)

\* The row is saved; its history row is not
GoNote(w, from, s) == Goto(w, from, "note") /\ Forget(w, [op |-> "noted", stock |-> s])

\* findOne, and the object as the request changes it before the next await
Load(w, s, object) ==
    /\ Exists(s)
    /\ held' = [held EXCEPT ![w] = object]

\* create: no stock of the menu item is found
BeginCreate(w, m, n, min) ==
    /\ StocksOf(m) = {}
    /\ Start(w, "insert", [op |-> "create", item |-> m, quantity |-> n, min |-> min])
    /\ UNCHANGED <<rows, history, held, ghosts>>

\* ... and the row is inserted under a new id
Insert(w, s) ==
    /\ GoNote(w, "insert", s)
    /\ rows[s] = NoStock /\ opening[s] = Keep
    /\ rows' = [rows EXCEPT ![s] = StockRow(req[w].item, req[w].quantity, req[w].min,
                                            req[w].quantity <= req[w].min)]
    /\ opening' = [opening EXCEPT ![s] = req[w].quantity]
    /\ UNCHANGED <<history, sold, recounted, miscounted>>

BugOrder(w, s, n) ==
    /\ sold[s] + n <= MaxSold
    /\ Load(w, s, Adjusted(rows[s], "decrease", n))
    /\ Start(w, "save", [op |-> "order", stock |-> s, action |-> "decrease", quantity |-> n])
    /\ UNCHANGED <<rows, history, ghosts>>

\* decreaseStock for a line of an order: a stock of its menu item is looked up
\* and adjusted.  With too little in stock nothing happens: the error is
\* swallowed and the order goes on.
Order(w, s, n) ==
    /\ sold[s] + n <= MaxSold
    /\ Load(w, s, Adjusted(rows[s], "decrease", n))
    /\ n <= rows[s].quantity
    /\ Start(w, "save", [op |-> "order", stock |-> s, action |-> "decrease", quantity |-> n])
    /\ UNCHANGED <<rows, history, ghosts>>

\* PATCH /stock/:id/adjust
Adjust(w, s, a, n) ==
    /\ a = "increase" => Appendable(n)
    /\ Load(w, s, Adjusted(rows[s], a, n))
    /\ a = "decrease" => n <= rows[s].quantity
    /\ NewQuantity(a, rows[s].quantity, n) <= MaxQuantity
    /\ Start(w, "save", [op |-> "adjust", stock |-> s, action |-> a, quantity |-> n])
    /\ UNCHANGED <<rows, history, ghosts>>

\* PATCH /stock/:id
BeginUpdate(w, s, n, min) ==
    /\ Load(w, s, Updated(rows[s], n, min))
    /\ Start(w, "save", [op |-> "update", stock |-> s, quantity |-> n, min |-> min])
    /\ UNCHANGED <<rows, history, ghosts>>

\* save(stock) reads the row ...
Compare(w) ==
    /\ Goto(w, "save", "write")
    /\ found' = [found EXCEPT ![w] = rows[req[w].stock]]
    /\ UNCHANGED <<rows, history, req, held, ghosts>>

\* ... and writes the columns that differ.  A row it did not find is inserted,
\* unless it is there again; one deleted since is left alone.
Stored(w) ==
    LET s == req[w].stock IN
    IF found[w] = NoStock THEN held[w]
    ELSE IF rows[s] = NoStock THEN NoStock
    ELSE Merged(rows[s], found[w], held[w], Computed(req[w]))

SetByStaff(r) == r.op = "adjust" \/ (r.op = "update" /\ r.quantity # Keep)

BelowZero(r) == r.op = "adjust" /\ r.action = "adjustment" /\ r.quantity < 0

Write(w) ==
    LET s == req[w].stock IN
    /\ IF req[w].op = "update" THEN Answer(w, "write") ELSE GoNote(w, "write", s)
    /\ found[w] = NoStock => rows[s] = NoStock
    /\ rows' = [rows EXCEPT ![s] = Stored(w)]
    /\ sold' = IF req[w].op = "order" /\ s \notin recounted
               THEN [sold EXCEPT ![s] = @ + req[w].quantity] ELSE sold
    /\ recounted' = IF SetByStaff(req[w]) THEN recounted \cup {s} ELSE recounted
    /\ miscounted' = IF BelowZero(req[w]) THEN miscounted \cup {s} ELSE miscounted
    /\ UNCHANGED <<history, opening>>

\* createStockHistory, for a stock that must exist (foreign key)
Note(w) ==
    /\ Answer(w, "note")
    /\ Exists(req[w].stock)
    /\ history' = history \cup {req[w].stock}
    /\ UNCHANGED <<rows, ghosts>>

BeginRemove(w, s) ==
    /\ Load(w, s, rows[s])
    /\ Start(w, "delete", [op |-> "remove", stock |-> s])
    /\ UNCHANGED <<rows, history, ghosts>>

\* The DELETE is refused while a history row refers to the stock
Delete(w) ==
    /\ Answer(w, "delete")
    /\ req[w].stock \notin history
    /\ rows' = [rows EXCEPT ![req[w].stock] = NoStock]
    /\ UNCHANGED <<history, ghosts>>

\* Any await rejects, or the process dies; what was saved stays
Fail(w) ==
    /\ pc[w] # "idle"
    /\ Answer(w, pc[w])
    /\ UNCHANGED <<rows, history, ghosts>>

Init ==
    /\ rows = [s \in Stock |-> NoStock]
    /\ history = {}
    /\ pc    = [w \in Worker |-> "idle"]
    /\ req   = [w \in Worker |-> NoReq]
    /\ held  = [w \in Worker |-> NoStock]
    /\ found = [w \in Worker |-> NoStock]
    /\ opening = [s \in Stock |-> Keep]
    /\ sold = [s \in Stock |-> 0]
    /\ recounted = {} /\ miscounted = {}

Receive(w) ==
    \/ \E m \in MenuItem, n \in Quantities, min \in Minima : BeginCreate(w, m, n, min)
    \/ \E s \in Desk[w] :
        \/ \E n \in Quantities : Order(w, s, n)
        \/ \E n \in Amounts, a \in Actions : Adjust(w, s, a, n)
        \/ \E edit \in Edits : BeginUpdate(w, s, edit[1], edit[2])
        \/ BeginRemove(w, s)

Proceed(w) ==
    \/ \E s \in Desk[w] : Insert(w, s)
    \/ Compare(w) \/ Write(w) \/ Note(w) \/ Delete(w)

Next == \E w \in Worker : Receive(w) \/ Proceed(w) \/ Fail(w)

Spec == Init /\ [][Next]_vars

(***************************************************************************)
(* Properties of every interleaving                                        *)
(***************************************************************************)

Row == [item : MenuItem, quantity : Int, min : Nat, low : BOOLEAN]

Request ==
       [op : {"create"}, item : MenuItem, quantity : Quantities, min : Minima]
  \cup [op : {"noted", "remove"}, stock : Stock]
  \cup [op : {"order"}, stock : Stock, action : {"decrease"}, quantity : Quantities]
  \cup [op : {"adjust"}, stock : Stock, action : Actions, quantity : Amounts]
  \cup {[op |-> "update", stock |-> s, quantity |-> e[1], min |-> e[2]] : s \in Stock, e \in Edits}

\* Type invariant.
TypeOK ==
    /\ rows \in [Stock -> Row \cup {NoStock}]
    /\ history \subseteq Stock
    /\ pc \in [Worker -> {"idle", "insert", "save", "write", "note", "delete"}]
    /\ req \in [Worker -> Request \cup {NoReq}]
    /\ held \in [Worker -> Row \cup {NoStock}]
    /\ found \in [Worker -> Row \cup {NoStock}]
    /\ opening \in [Stock -> Nat \cup {Keep}]
    /\ sold \in [Stock -> Nat]
    /\ recounted \subseteq Stock /\ miscounted \subseteq recounted

\* No stock goes below zero unless staff set it there, although what is checked
\* is the quantity read before and others save in between (adjustStock).
NeverNegative ==
    \A s \in Stock \ miscounted : Exists(s) => rows[s].quantity >= 0

\* While only orders change a stock it never shows less than what they left:
\* overlapping orders lose reductions, they never take one twice (README.md:55
\* "Automatic stock reduction on order").
NeverUnderstated ==
    \A s \in Stock \ recounted :
        Exists(s) => rows[s].quantity + sold[s] >= opening[s]

(***************************************************************************)
(* Why they hold: the invariant that is inductive                          *)
(***************************************************************************)

Saving(w) == pc[w] \in {"save", "write"}

\* Requests stand where their endpoint has an await, with the object they save.
Control ==
    \A w \in Worker :
        /\ pc[w] = "insert" => req[w].op = "create"
        /\ Saving(w) => req[w].op \in {"order", "adjust", "update"} /\ held[w] # NoStock
        /\ pc[w] = "note" => req[w].op = "noted"
        /\ pc[w] = "delete" => req[w].op = "remove"

\* A stock there ever was keeps its opening quantity.
Opened ==
    /\ \A s \in Stock : Exists(s) => opening[s] # Keep
    /\ \A w \in Worker : Saving(w) => opening[req[w].stock] # Keep

Taken(r) == IF r.op = "order" THEN r.quantity ELSE 0

\* What a request is about to store is not negative, and no less than orders
\* left, its own included; unless staff have set the quantity or it will.
Sound(w) ==
    LET r == req[w]
        q == held[w].quantity
    IN  /\ r.stock \notin miscounted /\ ~BelowZero(r) => q >= 0
        /\ r.stock \notin recounted /\ ~SetByStaff(r) =>
              q + sold[r.stock] + Taken(r) >= opening[r.stock]

Inv == /\ TypeOK /\ Control /\ Opened
       /\ \A w \in Worker : Saving(w) => Sound(w)
       /\ NeverNegative /\ NeverUnderstated

(***************************************************************************)
(* Properties while no two requests work on the same stock at once         *)
(***************************************************************************)

Level(row) ==
    IF row = NoStock THEN row
    ELSE [quantity |-> row.quantity, min |-> row.min, low |-> row.low]

Shelf == INSTANCE StockLevels
    WITH shelf <- [s \in Stock |-> Level(rows[s])], Closed <- NoStock

\* Requests on different stocks keep the promise of the stock pages: each stock
\* moves by one whole change at a time, its low-stock flag with it, whatever
\* overlaps or fails (create, adjustStock, update, remove).
ImplementsStockLevels == Shelf!Spec

\* The instances of which it is said: no two requests on one stock, no action
\* and no edit that leaves the quantity the string it was.
OwnDesks == \A v, w \in Worker : v # w => Desk[v] \cap Desk[w] = {}
Computing ==
    /\ Actions \subseteq {"decrease", "adjustment"}
    /\ Edits \subseteq ((Quantities \cup {Keep}) \X (Minima \cup {Keep})) \ {<<Keep, Keep>>}

\* Why it holds: from its load to its write a request finds the row unchanged.
Undisturbed(w) ==
    LET r == req[w] IN
    /\ Exists(r.stock)
    /\ pc[w] = "write" => found[w] = rows[r.stock]
    /\ IF r.op = "update" THEN held[w] = Updated(rows[r.stock], r.quantity, r.min)
       ELSE /\ held[w] = Adjusted(rows[r.stock], r.action, r.quantity)
            /\ r.action = "decrease" => r.quantity <= rows[r.stock].quantity

Marked == \A s \in Stock : Exists(s) => (rows[s].low <=> rows[s].quantity <= rows[s].min)

OnDesk == \A w \in Worker : pc[w] \in {"save", "write", "delete"} => req[w].stock \in Desk[w]

Own == Marked /\ OnDesk /\ \A w \in Worker : Saving(w) => Undisturbed(w)

(***************************************************************************)
(* What a test of the code says and the code does not do                   *)
(***************************************************************************)

\* stock.service.test.ts:244 "should increase stock quantity": an increase adds
\* its quantity to the one it read.
IncreaseAdds ==
    [][\A w \in Worker : \A s \in Stock :
        Write(w) /\ req[w].op = "adjust" /\ req[w].stock = s =>
            rows'[s].quantity = rows[s].quantity + req[w].quantity]_vars
=============================================================================
