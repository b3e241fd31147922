-------------------------- MODULE StockLedger_proofs --------------------------
(***************************************************************************)
(* What overlapping requests can do to a stock, for any number of          *)
(* requests, stocks and quantities: they lose changes, but never bring a   *)
(* stock below zero or below what orders left; and requests on different   *)
(* stocks keep the promise of StockLevels.                                 *)
(*                                                                         *)
(* NeverNegative and NeverUnderstated speak of the rows; a request writes  *)
(* what it computed awaits ago, so the invariant speaks of that too.       *)
(***************************************************************************)
EXTENDS StockLedger, TLAPS

(***************************************************************************)
(* Rows and requests                                                       *)
(***************************************************************************)

\* A well-typed row is there, and its columns are of their types.
LEMMA RowFields ==
  ASSUME NEW r \in Row
  PROVE  /\ r # NoStock
         /\ r.item \in MenuItem /\ r.quantity \in Int /\ r.min \in Nat /\ r.low \in BOOLEAN
  BY DEF Row, NoStock

\* StockRow builds rows.
LEMMA RowBuilt ==
  ASSUME NEW m \in MenuItem, NEW q \in Int, NEW min \in Nat, NEW low \in BOOLEAN
  PROVE  /\ StockRow(m, q, min, low) \in Row
         /\ StockRow(m, q, min, low).item = m
         /\ StockRow(m, q, min, low).quantity = q
         /\ StockRow(m, q, min, low).min = min
         /\ StockRow(m, q, min, low).low = low
  BY DEF StockRow, Row

\* Edits are pairs of fields.
LEMMA EditFields ==
  ASSUME NEW e \in Edits
  PROVE  /\ e = <<e[1], e[2]>>
         /\ e[1] \in Nat \cup {Keep} /\ e[2] \in Nat \cup {Keep}
  BY StockLedgerAssumption

\* Requests that save name a stock, and carry what their endpoint is given.
LEMMA SavedFields ==
  ASSUME NEW r \in Request, r.op \in {"order", "adjust", "update"}
  PROVE  /\ r.stock \in Stock
         /\ r.op = "order" => r.action = "decrease" /\ r.quantity \in Quantities
         /\ r.op = "adjust" => r.action \in Actions /\ r.quantity \in Amounts
         /\ r.op = "update" => <<r.quantity, r.min>> \in Edits
<1>1. CASE r.op = "update"
  <2>1. PICK s \in Stock, e \in Edits :
              r = [op |-> "update", stock |-> s, quantity |-> e[1], min |-> e[2]]
    BY <1>1 DEF Request
  <2> QED
    BY <2>1, EditFields
<1>2. CASE r.op # "update"
  BY <1>2 DEF Request
<1> QED
  BY <1>1, <1>2

LEMMA CreateFields ==
  ASSUME NEW r \in Request, r.op = "create"
  PROVE  r.item \in MenuItem /\ r.quantity \in Quantities /\ r.min \in Minima
  BY DEF Request

LEMMA StockFields ==
  ASSUME NEW r \in Request, r.op \in {"noted", "remove"}
  PROVE  r.stock \in Stock
  BY DEF Request

(***************************************************************************)
(* What is computed                                                        *)
(***************************************************************************)

\* Appending digits to a number keeps it a number on its side of zero.
LEMMA AppendedSign ==
  ASSUME NEW x \in Int, NEW n
  PROVE  /\ Appended(x, n) \in Int
         /\ x >= 0 => Appended(x, n) >= 0
  BY DEF Appended

\* A decrease within the quantity and an increase leave a stock of at least zero.
LEMMA NewQuantitySign ==
  ASSUME NEW a, NEW old \in Int, NEW n \in Int
  PROVE  /\ NewQuantity(a, old, n) \in Int
         /\ a = "decrease" => NewQuantity(a, old, n) = old - n
         /\ old >= 0 /\ (a = "decrease" => n <= old) /\ (a = "adjustment" => n >= 0)
              => NewQuantity(a, old, n) >= 0
  BY AppendedSign DEF NewQuantity

\* adjustStock changes the quantity and the flag of the object it loaded.
LEMMA AdjustedRow ==
  ASSUME NEW r \in Row, NEW a, NEW n \in Int
  PROVE  /\ Adjusted(r, a, n) \in Row
         /\ Adjusted(r, a, n).item = r.item
         /\ Adjusted(r, a, n).quantity = NewQuantity(a, r.quantity, n)
<1>1. BelowMinimum(a, r.quantity, n, r.min) \in BOOLEAN
  <2>1. CASE a \in {"decrease", "adjustment"}
    <3>1. BelowMinimum(a, r.quantity, n, r.min) = (NewQuantity(a, r.quantity, n) <= r.min)
      BY <2>1, Zenon DEF BelowMinimum
    <3> QED
      BY <3>1, RowFields, NewQuantitySign
  <2>2. CASE a \notin {"decrease", "adjustment"}
    BY <2>2, Zenon DEF BelowMinimum
  <2> QED
    BY <2>1, <2>2
<1>2. NewQuantity(a, r.quantity, n) \in Int
  BY RowFields, NewQuantitySign
<1>3. Adjusted(r, a, n) = StockRow(r.item, NewQuantity(a, r.quantity, n), r.min,
                                   BelowMinimum(a, r.quantity, n, r.min))
  BY Zenon DEF Adjusted
<1>4. r.item \in MenuItem /\ r.min \in Nat
  BY RowFields
<1>5. \A q \in Int, low \in BOOLEAN :
        LET new == StockRow(r.item, q, r.min, low)
        IN  new \in Row /\ new.item = r.item /\ new.quantity = q
  BY <1>4, RowBuilt
<1> QED
  BY <1>1, <1>2, <1>3, <1>5

\* A field that is given is stored, one that is not stays.
LEMMA GivenType ==
  /\ \A f \in Nat \cup {Keep}, old \in Int : Given(f, old) \in Int
  /\ \A f \in Nat \cup {Keep}, old \in Nat : Given(f, old) \in Nat
  /\ \A f \in Nat \cup {Keep}, old \in Int : old >= 0 => Given(f, old) >= 0
  /\ \A f, old : f = Keep => Given(f, old) = old
  BY DEF Given, Keep

\* update changes the fields given, and the flag.
LEMMA UpdatedRow ==
  ASSUME NEW r \in Row, NEW n \in Nat \cup {Keep}, NEW min \in Nat \cup {Keep}
  PROVE  /\ Updated(r, n, min) \in Row
         /\ Updated(r, n, min).item = r.item
         /\ Updated(r, n, min).quantity = Given(n, r.quantity)
<1> DEFINE q == Given(n, r.quantity)
           m == Given(min, r.min)
           low == IF n = Keep /\ min = Keep THEN TextBelow(q, m) \/ q = m ELSE q <= m
<1>1. r.item \in MenuItem /\ q \in Int /\ m \in Nat
  BY RowFields, GivenType
<1>2. low \in BOOLEAN
  <2>1. CASE n = Keep /\ min = Keep
    BY <2>1, Zenon
  <2>2. CASE ~(n = Keep /\ min = Keep)
    <3>1. low = (q <= m)
      BY <2>2, Zenon
    <3>2. \A x \in Int, y \in Nat : (x <= y) \in BOOLEAN
      OBVIOUS
    <3> QED
      BY <1>1, <3>1, <3>2, Zenon
  <2> QED
    BY <2>1, <2>2
<1>3. Updated(r, n, min) = StockRow(r.item, q, m, low)
  BY DEF Updated
<1> QED
  BY <1>1, <1>2, <1>3, RowBuilt

\* Only columns are mixed when a save sets some of them.
LEMMA MergedRow ==
  ASSUME NEW now \in Row, NEW old \in Row, NEW new \in Row, NEW computed
  PROVE  /\ Merged(now, old, new, computed) \in Row
         /\ Merged(now, old, new, computed).quantity \in {now.quantity, new.quantity}
         /\ "quantity" \in computed => Merged(now, old, new, computed).quantity = new.quantity
<1> DEFINE q == IF "quantity" \in computed \/ old.quantity # new.quantity THEN new.quantity ELSE now.quantity
           m == IF "min" \in computed \/ old.min # new.min THEN new.min ELSE now.min
           low == IF old.low # new.low THEN new.low ELSE now.low
<1>1. now.item \in MenuItem /\ q \in Int /\ m \in Nat /\ low \in BOOLEAN
  BY RowFields
<1>2. Merged(now, old, new, computed) = StockRow(now.item, q, m, low)
  BY DEF Merged
<1> QED
  BY <1>1, <1>2, RowBuilt

(***************************************************************************)
(* The invariant                                                           *)
(***************************************************************************)

\* An order takes a natural quantity, anything else nothing.
LEMMA TakenType ==
  ASSUME NEW r \in Request, r.op \in {"order", "adjust", "update"}
  PROVE  Taken(r) \in Nat
  BY SavedFields, StockLedgerAssumption DEF Taken

\* What the variables of a request at work on a save are.
LEMMA SavingFields ==
  ASSUME TypeOK, Control, NEW w \in Worker, Saving(w)
  PROVE  /\ req[w] \in Request /\ req[w].op \in {"order", "adjust", "update"}
         /\ req[w].stock \in Stock
         /\ held[w] \in Row /\ held[w].quantity \in Int
         /\ Taken(req[w]) \in Nat
<1>1. req[w].op \in {"order", "adjust", "update"} /\ held[w] # NoStock
  BY DEF Control
<1>2. NoReq.op = "none"
  BY DEF NoReq
<1>3. req[w] \in Request /\ held[w] \in Row
  BY <1>1, <1>2 DEF TypeOK
<1> QED
  BY <1>1, <1>3, SavedFields, RowFields, TakenType

\* The steps of others take nothing from what makes a save sound: staff's settings
\* stay set, and sales only add up.
LEMMA SoundStays ==
  ASSUME TypeOK, Control, NEW v \in Worker, Saving(v), Sound(v),
         opening[req[v].stock] # Keep,
         pc'[v] = pc[v], req'[v] = req[v], held'[v] = held[v],
         recounted \subseteq recounted', miscounted \subseteq miscounted',
         \A s \in Stock : sold'[s] \in Nat /\ sold'[s] >= sold[s],
         \A s \in Stock : opening[s] # Keep => opening'[s] = opening[s]
  PROVE  Saving(v)' /\ Sound(v)' /\ opening'[req'[v].stock] # Keep
<1>1. /\ req[v].stock \in Stock /\ held[v].quantity \in Int /\ Taken(req[v]) \in Nat
  BY SavingFields
<1>2. PICK s \in Stock : s = req[v].stock
  BY <1>1
<1>3. opening[s] \in Nat /\ opening'[s] = opening[s]
  <2>1. opening \in [Stock -> Nat \cup {Keep}]
    BY DEF TypeOK
  <2> QED
    BY <1>2, <2>1
<1>4. sold[s] \in Nat /\ sold'[s] \in Nat /\ sold'[s] >= sold[s]
  <2>1. sold \in [Stock -> Nat]
    BY DEF TypeOK
  <2> QED
    BY <1>2, <2>1
<1>5. Saving(v)' /\ opening'[req'[v].stock] # Keep
  BY <1>2, <1>3 DEF Saving
<1>6. ASSUME s \notin miscounted', ~BelowZero(req[v])
      PROVE  held[v].quantity >= 0
  BY <1>2, <1>6 DEF Sound
<1>7. ASSUME s \notin recounted', ~SetByStaff(req[v])
      PROVE  held[v].quantity + sold'[s] + Taken(req[v]) >= opening'[s]
  <2>1. held[v].quantity + sold[s] + Taken(req[v]) >= opening[s]
    BY <1>2, <1>7 DEF Sound
  <2> QED
    BY <1>1, <1>3, <1>4, <2>1
<1> QED
  BY <1>2, <1>5, <1>6, <1>7 DEF Sound, BelowZero, SetByStaff, Taken

\* A step on behalf of w that leaves the ghosts alone keeps the others' saves sound.
LEMMA OthersSound ==
  ASSUME Inv, NEW w \in Worker, UNCHANGED ghosts,
         \A v \in Worker \ {w} : pc'[v] = pc[v] /\ req'[v] = req[v] /\ held'[v] = held[v]
  PROVE  \A v \in Worker \ {w} :
            Saving(v)' => Sound(v)' /\ opening'[req'[v].stock] # Keep
<1> SUFFICES ASSUME NEW v \in Worker \ {w}, Saving(v)'
             PROVE  Sound(v)' /\ opening'[req'[v].stock] # Keep
  OBVIOUS
<1>1. Saving(v)
  BY DEF Saving
<1>2. TypeOK /\ Control /\ Sound(v) /\ opening[req[v].stock] # Keep
  BY <1>1 DEF Inv, Opened
<1>3. /\ recounted' = recounted /\ miscounted' = miscounted /\ sold' = sold /\ opening' = opening
  BY DEF ghosts
<1>4. \A s \in Stock : sold[s] \in Nat /\ sold[s] >= sold[s]
  BY <1>2 DEF TypeOK
<1> QED
  BY <1>1, <1>2, <1>3, <1>4, SoundStays

\* Nothing the properties say of the rows changes with the rows unchanged.
LEMMA RowsKept ==
  ASSUME Inv, UNCHANGED <<rows, ghosts>>
  PROVE  /\ NeverNegative' /\ NeverUnderstated'
         /\ \A s \in Stock : rows'[s] # NoStock => opening'[s] # Keep
  BY DEF Inv, NeverNegative, NeverUnderstated, Opened, Exists, ghosts

\* Requests of others are where they were.
Alone(w) ==
    \A v \in Worker \ {w} : pc'[v] = pc[v] /\ req'[v] = req[v] /\ held'[v] = held[v]

\* A step that writes no row and leaves w without an object to save keeps the
\* invariant.
LEMMA Quiet ==
  ASSUME Inv, NEW w \in Worker, UNCHANGED <<rows, ghosts>>, Alone(w),
         ~Saving(w)', TypeOK', Control'
  PROVE  Inv'
<1>1. /\ NeverNegative' /\ NeverUnderstated'
      /\ \A s \in Stock : rows'[s] # NoStock => opening'[s] # Keep
  BY RowsKept
<1>2. \A v \in Worker : Saving(v)' => Sound(v)' /\ opening'[req'[v].stock] # Keep
  BY OthersSound DEF Alone
<1> QED
  BY <1>1, <1>2 DEF Inv, Opened, Exists

\* A request that has loaded a stock and computed something sound keeps it.
LEMMA Loaded ==
  ASSUME Inv, NEW w \in Worker, NEW s \in Stock, NEW r \in Request, NEW object \in Row,
         Load(w, s, object), Start(w, "save", r), UNCHANGED <<rows, history, ghosts>>,
         r.op \in {"order", "adjust", "update"}, r.stock = s,
         s \notin miscounted /\ ~BelowZero(r) => object.quantity >= 0,
         s \notin recounted /\ ~SetByStaff(r) => object.quantity + Taken(r) >= rows[s].quantity
  PROVE  Inv'
<1>1. /\ pc' = [pc EXCEPT ![w] = "save"] /\ req' = [req EXCEPT ![w] = r]
      /\ held' = [held EXCEPT ![w] = object] /\ found' = found
      /\ pc[w] = "idle" /\ Exists(s)
  BY DEF Start, Load
<1>2. TypeOK /\ Control
  BY DEF Inv
<1>3. /\ pc'[w] = "save" /\ req'[w] = r /\ held'[w] = object
      /\ Alone(w)
  BY <1>1, <1>2 DEF TypeOK, Alone
<1>4. TypeOK'
  BY <1>1, <1>2 DEF TypeOK, ghosts
<1>5. Control'
  BY <1>2, <1>3, RowFields DEF Control, Saving, Alone
<1>6. /\ NeverNegative' /\ NeverUnderstated'
      /\ \A t \in Stock : rows'[t] # NoStock => opening'[t] # Keep
  BY RowsKept
<1>7. opening'[s] # Keep
  BY <1>1 DEF Inv, Opened, ghosts
<1>8. Sound(w)'
  <2>1. rows[s] \in Row /\ rows[s].quantity \in Int /\ opening[s] \in Nat /\ sold[s] \in Nat
    <3>1. rows \in [Stock -> Row \cup {NoStock}] /\ sold \in [Stock -> Nat]
          /\ opening \in [Stock -> Nat \cup {Keep}]
      BY <1>2 DEF TypeOK
    <3>2. rows[s] \in Row /\ opening[s] # Keep
      BY <1>1, <1>7, <3>1 DEF Exists, ghosts
    <3> QED
      BY <3>1, <3>2, RowFields
  <2>2. ASSUME s \notin recounted, ~SetByStaff(r)
        PROVE  object.quantity + sold[s] + Taken(r) >= opening[s]
    <3>1. rows[s].quantity + sold[s] >= opening[s]
      BY <1>1, <2>2 DEF Inv, NeverUnderstated
    <3>2. object.quantity \in Int /\ Taken(r) \in Nat
      BY RowFields, TakenType
    <3> QED
      BY <2>1, <2>2, <3>1, <3>2
  <2> QED
    BY <1>3, <2>2 DEF Sound, BelowZero, SetByStaff, Taken, ghosts
<1>9. \A v \in Worker \ {w} : Saving(v)' => Sound(v)' /\ opening'[req'[v].stock] # Keep
  BY <1>3, OthersSound DEF Alone
<1> QED
  BY <1>3, <1>4, <1>5, <1>6, <1>7, <1>8, <1>9 DEF Inv, Opened, Exists

(***************************************************************************)
(* One lemma per action that is not quiet                                  *)
(***************************************************************************)

\* decreaseStock: what it takes was there when it looked.
LEMMA OrderInv ==
  ASSUME Inv, NEW w \in Worker, NEW s \in Stock, NEW n \in Quantities, Order(w, s, n)
  PROVE  Inv'
<1> DEFINE r == [op |-> "order", stock |-> s, action |-> "decrease", quantity |-> n]
           object == Adjusted(rows[s], "decrease", n)
<1>1. rows[s] \in Row /\ rows[s].quantity \in Int /\ n \in Nat /\ n <= rows[s].quantity
  <2>1. rows \in [Stock -> Row \cup {NoStock}]
    BY DEF Inv, TypeOK
  <2> QED
    BY <2>1, RowFields, StockLedgerAssumption DEF Order, Load, Exists
<1>2. r \in Request /\ r.op = "order" /\ r.stock = s /\ r.quantity = n
  BY DEF Request
<1>3. object \in Row /\ object.quantity = rows[s].quantity - n
  BY <1>1, AdjustedRow, NewQuantitySign
<1>4. Taken(r) = n
  BY <1>2 DEF Taken
<1>5. object.quantity >= 0 /\ object.quantity + Taken(r) >= rows[s].quantity
  BY <1>1, <1>3, <1>4
<1>6. Load(w, s, object) /\ Start(w, "save", r) /\ UNCHANGED <<rows, history, ghosts>>
  BY DEF Order
<1> HIDE DEF r, object
<1> QED
  BY <1>2, <1>3, <1>5, <1>6, Loaded

\* adjustStock called by staff: only an adjustment sets a negative quantity.
LEMMA AdjustInv ==
  ASSUME Inv, NEW w \in Worker, NEW s \in Stock, NEW a \in Actions, NEW n \in Amounts,
         Adjust(w, s, a, n)
  PROVE  Inv'
<1> DEFINE r == [op |-> "adjust", stock |-> s, action |-> a, quantity |-> n]
           object == Adjusted(rows[s], a, n)
<1>1. rows[s] \in Row /\ rows[s].quantity \in Int /\ n \in Int
      /\ (a = "decrease" => n <= rows[s].quantity)
  <2>1. rows \in [Stock -> Row \cup {NoStock}]
    BY DEF Inv, TypeOK
  <2> QED
    BY <2>1, RowFields, StockLedgerAssumption DEF Adjust, Load, Exists
<1>2. r \in Request /\ r.op = "adjust" /\ r.stock = s /\ r.action = a /\ r.quantity = n
  BY DEF Request
<1>3. object \in Row /\ object.quantity = NewQuantity(a, rows[s].quantity, n)
  BY <1>1, AdjustedRow
<1>4. SetByStaff(r)
  BY <1>2 DEF SetByStaff
<1>5. s \notin miscounted /\ ~BelowZero(r) => object.quantity >= 0
  <2> SUFFICES ASSUME s \notin miscounted, ~BelowZero(r)
               PROVE  object.quantity >= 0
    OBVIOUS
  <2>1. a = "adjustment" => n >= 0
    BY <1>1, <1>2 DEF BelowZero
  <2>2. rows[s].quantity >= 0
    BY DEF Inv, NeverNegative, Adjust, Load
  <2> QED
    BY <1>1, <1>3, <2>1, <2>2, NewQuantitySign
<1>6. Load(w, s, object) /\ Start(w, "save", r) /\ UNCHANGED <<rows, history, ghosts>>
  BY DEF Adjust
<1> HIDE DEF r, object
<1> QED
  BY <1>2, <1>3, <1>4, <1>5, <1>6, Loaded

\* update: a quantity that is given is not negative, one that is not stays.
LEMMA UpdateInv ==
  ASSUME Inv, NEW w \in Worker, NEW s \in Stock, NEW e \in Edits,
         BeginUpdate(w, s, e[1], e[2])
  PROVE  Inv'
<1> DEFINE r == [op |-> "update", stock |-> s, quantity |-> e[1], min |-> e[2]]
           object == Updated(rows[s], e[1], e[2])
<1>1. rows[s] \in Row /\ rows[s].quantity \in Int
  <2>1. rows \in [Stock -> Row \cup {NoStock}]
    BY DEF Inv, TypeOK
  <2> QED
    BY <2>1, RowFields DEF BeginUpdate, Load, Exists
<1>2. e[1] \in Nat \cup {Keep} /\ e[2] \in Nat \cup {Keep}
  BY EditFields
<1>3. r \in Request /\ r.op = "update" /\ r.stock = s /\ r.quantity = e[1]
  BY DEF Request
<1>4. object \in Row /\ object.quantity = Given(e[1], rows[s].quantity)
  BY <1>1, <1>2, UpdatedRow
<1>5. s \notin miscounted => object.quantity >= 0
  <2>1. s \notin miscounted => rows[s].quantity >= 0
    BY DEF Inv, NeverNegative, BeginUpdate, Load
  <2> QED
    BY <1>1, <1>2, <1>4, <2>1, GivenType
<1>6. ~SetByStaff(r) => object.quantity + Taken(r) >= rows[s].quantity
  <2>1. ~SetByStaff(r) => object.quantity = rows[s].quantity
    BY <1>3, <1>4, GivenType DEF SetByStaff
  <2>2. Taken(r) = 0
    BY <1>3 DEF Taken
  <2> QED
    BY <1>1, <2>1, <2>2
<1>7. Load(w, s, object) /\ Start(w, "save", r) /\ UNCHANGED <<rows, history, ghosts>>
  BY DEF BeginUpdate
<1> HIDE DEF r, object
<1> QED
  BY <1>3, <1>4, <1>5, <1>6, <1>7, Loaded

\* Nothing to save is left when a request begins a creation or removal, has its
\* history row, or fails.
LEMMA QuietInv ==
  ASSUME Inv, NEW w \in Worker,
         \/ \E m \in MenuItem, n \in Quantities, min \in Minima : BeginCreate(w, m, n, min)
         \/ \E s \in Stock : BeginRemove(w, s)
         \/ Note(w) \/ Fail(w)
  PROVE  Inv'
<1>1. TypeOK /\ Control
  BY DEF Inv
<1>2. ASSUME NEW m \in MenuItem, NEW n \in Quantities, NEW min \in Minima,
             BeginCreate(w, m, n, min)
      PROVE  Inv'
  <2> DEFINE r == [op |-> "create", item |-> m, quantity |-> n, min |-> min]
  <2>1. /\ pc' = [pc EXCEPT ![w] = "insert"] /\ req' = [req EXCEPT ![w] = r]
        /\ UNCHANGED <<rows, history, held, found, opening, sold, recounted, miscounted>>
    BY <1>2 DEF BeginCreate, Start, ghosts
  <2>2. r \in Request /\ r.op = "create"
    BY DEF Request
  <2> HIDE DEF r
  <2>3. TypeOK' /\ Control' /\ ~Saving(w)' /\ Alone(w)
    BY <1>1, <2>1, <2>2 DEF TypeOK, Control, Saving, Alone
  <2> QED
    BY <2>1, <2>3, Quiet DEF ghosts
<1>3. ASSUME NEW s \in Stock, BeginRemove(w, s)
      PROVE  Inv'
  <2> DEFINE r == [op |-> "remove", stock |-> s]
  <2>1. /\ pc' = [pc EXCEPT ![w] = "delete"] /\ req' = [req EXCEPT ![w] = r]
        /\ held' = [held EXCEPT ![w] = rows[s]]
        /\ UNCHANGED <<rows, history, found, opening, sold, recounted, miscounted>>
    BY <1>3 DEF BeginRemove, Load, Start, ghosts
  <2>2. r \in Request /\ r.op = "remove"
    BY DEF Request
  <2> HIDE DEF r
  <2>3. TypeOK' /\ Control' /\ ~Saving(w)' /\ Alone(w)
    BY <1>1, <2>1, <2>2 DEF TypeOK, Control, Saving, Alone
  <2> QED
    BY <2>1, <2>3, Quiet DEF ghosts
<1>4. ASSUME \/ Note(w)
             \/ Fail(w)
      PROVE  Inv'
  <2>1. /\ pc' = [pc EXCEPT ![w] = "idle"] /\ req' = [req EXCEPT ![w] = NoReq]
        /\ held' = [held EXCEPT ![w] = NoStock] /\ found' = [found EXCEPT ![w] = NoStock]
        /\ UNCHANGED <<rows, opening, sold, recounted, miscounted>>
    BY <1>4 DEF Note, Fail, Answer, Goto, Forget, ghosts
  <2>2. history' \subseteq Stock
    <3>1. CASE Note(w)
      <4>1. req[w] \in Request /\ req[w].op = "noted"
        <5>1. req[w].op = "noted"
          BY <1>1, <3>1 DEF Control, Note, Answer, Goto
        <5> QED
          BY <1>1, <5>1 DEF TypeOK, NoReq
      <4> QED
        BY <1>1, <3>1, <4>1, StockFields DEF Note, TypeOK
    <3>2. CASE Fail(w)
      BY <1>1, <3>2 DEF Fail, TypeOK
    <3> QED
      BY <1>4, <3>1, <3>2
  <2>3. TypeOK' /\ Control' /\ ~Saving(w)' /\ Alone(w)
    BY <1>1, <2>1, <2>2 DEF TypeOK, Control, Saving, Alone
  <2> QED
    BY <2>1, <2>3, Quiet DEF ghosts
<1> QED
  BY <1>2, <1>3, <1>4

\* The read of save changes nothing of what will be written.
LEMMA CompareInv ==
  ASSUME Inv, NEW w \in Worker, Compare(w)
  PROVE  Inv'
<1>1. TypeOK /\ Control /\ Saving(w)
  BY DEF Inv, Compare, Goto, Saving
<1>2. /\ pc' = [pc EXCEPT ![w] = "write"] /\ found' = [found EXCEPT ![w] = rows[req[w].stock]]
      /\ UNCHANGED <<rows, history, req, held, opening, sold, recounted, miscounted>>
  BY DEF Compare, Goto, ghosts
<1>3. req[w].stock \in Stock
  BY <1>1, SavingFields
<1>4. TypeOK'
  BY <1>1, <1>2, <1>3 DEF TypeOK
<1>5. Control' /\ Alone(w)
  BY <1>1, <1>2 DEF Control, Saving, Alone, TypeOK
<1>6. /\ NeverNegative' /\ NeverUnderstated'
      /\ \A t \in Stock : rows'[t] # NoStock => opening'[t] # Keep
  BY <1>2, RowsKept DEF ghosts
<1>7. Sound(w) /\ opening[req[w].stock] # Keep
  BY <1>1 DEF Inv, Opened
<1>8. Sound(w)' /\ opening'[req'[w].stock] # Keep
  BY <1>2, <1>7 DEF Sound, BelowZero, SetByStaff, Taken
<1>9. \A v \in Worker \ {w} : Saving(v)' => Sound(v)' /\ opening'[req'[v].stock] # Keep
  BY <1>2, <1>5, OthersSound DEF Alone, ghosts
<1> QED
  BY <1>4, <1>5, <1>6, <1>8, <1>9 DEF Inv, Opened, Exists

\* A deleted row leaves less to say.
LEMMA DeleteInv ==
  ASSUME Inv, NEW w \in Worker, Delete(w)
  PROVE  Inv'
<1>1. TypeOK /\ Control
  BY DEF Inv
<1>2. /\ pc' = [pc EXCEPT ![w] = "idle"] /\ req' = [req EXCEPT ![w] = NoReq]
      /\ held' = [held EXCEPT ![w] = NoStock] /\ found' = [found EXCEPT ![w] = NoStock]
      /\ rows' = [rows EXCEPT ![req[w].stock] = NoStock]
      /\ UNCHANGED <<history, opening, sold, recounted, miscounted>>
  BY DEF Delete, Answer, Goto, Forget, ghosts
<1>3. TypeOK' /\ Control' /\ ~Saving(w)' /\ Alone(w)
  BY <1>1, <1>2 DEF TypeOK, Control, Saving, Alone
<1>4. \A t \in Stock : rows'[t] # NoStock => rows'[t] = rows[t]
  BY <1>1, <1>2 DEF TypeOK
<1>5. /\ NeverNegative' /\ NeverUnderstated'
      /\ \A t \in Stock : rows'[t] # NoStock => opening'[t] # Keep
  BY <1>2, <1>4 DEF Inv, NeverNegative, NeverUnderstated, Opened, Exists
<1>6. \A v \in Worker : Saving(v)' => Sound(v)' /\ opening'[req'[v].stock] # Keep
  BY <1>2, <1>3, OthersSound DEF Alone, ghosts
<1> QED
  BY <1>3, <1>5, <1>6 DEF Inv, Opened, Exists

\* A new stock has its opening quantity, and no save at hand is for it.
LEMMA InsertInv ==
  ASSUME Inv, NEW w \in Worker, NEW s \in Stock, Insert(w, s)
  PROVE  Inv'
<1> DEFINE new == StockRow(req[w].item, req[w].quantity, req[w].min,
                           req[w].quantity <= req[w].min)
           noted == [op |-> "noted", stock |-> s]
<1>1. TypeOK /\ Control
  BY DEF Inv
<1>2. /\ pc[w] = "insert" /\ rows[s] = NoStock /\ opening[s] = Keep
      /\ pc' = [pc EXCEPT ![w] = "note"] /\ req' = [req EXCEPT ![w] = noted]
      /\ held' = [held EXCEPT ![w] = NoStock] /\ found' = [found EXCEPT ![w] = NoStock]
      /\ rows' = [rows EXCEPT ![s] = new]
      /\ opening' = [opening EXCEPT ![s] = req[w].quantity]
      /\ UNCHANGED <<history, sold, recounted, miscounted>>
  BY DEF Insert, GoNote, Goto, Forget
<1>3. req[w].item \in MenuItem /\ req[w].quantity \in Nat /\ req[w].min \in Nat
  <2>1. req[w] \in Request /\ req[w].op = "create"
    <3>1. req[w].op = "create"
      BY <1>1, <1>2 DEF Control
    <3> QED
      BY <1>1, <3>1 DEF TypeOK, NoReq
  <2> QED
    BY <2>1, CreateFields, StockLedgerAssumption
<1>4. new \in Row /\ new.quantity = req[w].quantity
  <2>1. (req[w].quantity <= req[w].min) \in BOOLEAN
    BY <1>3
  <2>2. \A low \in BOOLEAN :
          LET row == StockRow(req[w].item, req[w].quantity, req[w].min, low)
          IN  row \in Row /\ row.quantity = req[w].quantity
    BY <1>3, RowBuilt
  <2> QED
    BY <2>1, <2>2
<1>5. noted \in Request /\ noted.op = "noted"
  BY DEF Request
<1> HIDE DEF new, noted
<1>6. TypeOK' /\ Control' /\ ~Saving(w)' /\ Alone(w)
  BY <1>1, <1>2, <1>3, <1>4, <1>5 DEF TypeOK, Control, Saving, Alone
<1>7. /\ rows'[s] = new /\ opening'[s] = req[w].quantity /\ opening'[s] # Keep
      /\ \A t \in Stock \ {s} : rows'[t] = rows[t] /\ opening'[t] = opening[t]
  BY <1>1, <1>2, <1>3 DEF TypeOK, Keep
<1>8. sold[s] \in Nat
  BY <1>1 DEF TypeOK
<1>9. /\ NeverNegative' /\ NeverUnderstated'
      /\ \A t \in Stock : rows'[t] # NoStock => opening'[t] # Keep
  <2> SUFFICES ASSUME NEW t \in Stock, rows'[t] # NoStock
               PROVE  /\ t \notin miscounted' => rows'[t].quantity >= 0
                      /\ t \notin recounted' => rows'[t].quantity + sold'[t] >= opening'[t]
                      /\ opening'[t] # Keep
    BY DEF NeverNegative, NeverUnderstated, Exists
  <2>1. CASE t = s
    BY <1>2, <1>3, <1>4, <1>7, <1>8, <2>1
  <2>2. CASE t # s
    BY <1>2, <1>7, <2>2 DEF Inv, NeverNegative, NeverUnderstated, Opened, Exists
  <2> QED
    BY <2>1, <2>2
<1>10. ASSUME NEW v \in Worker, Saving(v)'
       PROVE  Sound(v)' /\ opening'[req'[v].stock] # Keep
  <2>1. v # w /\ Saving(v)
    BY <1>6, <1>10 DEF Saving, Alone
  <2>2. Sound(v) /\ opening[req[v].stock] # Keep
    BY <2>1 DEF Inv, Opened
  <2>3. /\ pc'[v] = pc[v] /\ req'[v] = req[v] /\ held'[v] = held[v]
        /\ recounted \subseteq recounted' /\ miscounted \subseteq miscounted'
    BY <1>2, <1>6, <2>1 DEF Alone
  <2>4. \A t \in Stock : sold'[t] \in Nat /\ sold'[t] >= sold[t]
    BY <1>1, <1>2 DEF TypeOK
  <2>5. \A t \in Stock : opening[t] # Keep => opening'[t] = opening[t]
    BY <1>2, <1>7
  <2> QED
    BY <1>1, <2>1, <2>2, <2>3, <2>4, <2>5, SoundStays
<1> QED
  BY <1>6, <1>9, <1>10 DEF Inv, Opened, Exists

\* What a save leaves of the row: nothing, or a row with the quantity of the
\* object or the one it had; an order leaves that of its object.
LEMMA StoredRow ==
  ASSUME Inv, NEW w \in Worker, pc[w] = "write"
  PROVE  LET s == req[w].stock IN
         \/ Stored(w) = NoStock
         \/ /\ Stored(w) \in Row
            /\ \/ Stored(w).quantity = held[w].quantity
               \/ Exists(s) /\ req[w].op # "order" /\ Stored(w).quantity = rows[s].quantity
<1>1. TypeOK /\ Control /\ Saving(w)
  BY DEF Inv, Saving
<1>2. req[w] \in Request /\ req[w].op \in {"order", "adjust", "update"}
      /\ req[w].stock \in Stock /\ held[w] \in Row
  BY <1>1, SavingFields
<1>3. CASE found[w] = NoStock
  BY <1>2, <1>3 DEF Stored
<1>4. CASE found[w] # NoStock /\ rows[req[w].stock] = NoStock
  BY <1>4 DEF Stored
<1>5. CASE found[w] # NoStock /\ rows[req[w].stock] # NoStock
  <2>1. found[w] \in Row /\ rows[req[w].stock] \in Row
    BY <1>1, <1>2, <1>5 DEF TypeOK
  <2>2. Stored(w) = Merged(rows[req[w].stock], found[w], held[w], Computed(req[w]))
    BY <1>5 DEF Stored
  <2>3. req[w].op = "order" => "quantity" \in Computed(req[w])
    BY <1>2, SavedFields DEF Computed
  <2>4. /\ Stored(w) \in Row
        /\ Stored(w).quantity \in {rows[req[w].stock].quantity, held[w].quantity}
        /\ "quantity" \in Computed(req[w]) => Stored(w).quantity = held[w].quantity
    <3>1. \A c : LET m == Merged(rows[req[w].stock], found[w], held[w], c)
                 IN  /\ m \in Row
                     /\ m.quantity \in {rows[req[w].stock].quantity, held[w].quantity}
                     /\ "quantity" \in c => m.quantity = held[w].quantity
      BY <1>2, <2>1, MergedRow
    <3> QED
      BY <2>2, <3>1, Zenon
  <2> QED
    BY <1>5, <2>3, <2>4 DEF Exists
<1> QED
  BY <1>3, <1>4, <1>5

\* A save stores what is sound, and counts what it took.
LEMMA WriteInv ==
  ASSUME Inv, NEW w \in Worker, Write(w)
  PROVE  Inv'
<1>1. TypeOK /\ Control /\ pc[w] = "write" /\ Saving(w)
  BY DEF Inv, Write, Answer, GoNote, Goto, Saving
<1>2. /\ req[w] \in Request /\ req[w].op \in {"order", "adjust", "update"}
      /\ held[w] \in Row /\ held[w].quantity \in Int /\ Taken(req[w]) \in Nat
  BY <1>1, SavingFields
<1>3. PICK s \in Stock : s = req[w].stock
  BY <1>1, SavingFields
<1>4. PICK left \in {NoReq, [op |-> "noted", stock |-> s]}, label \in {"idle", "note"} :
        /\ label = "note" => left.op = "noted"
        /\ pc' = [pc EXCEPT ![w] = label] /\ req' = [req EXCEPT ![w] = left]
        /\ held' = [held EXCEPT ![w] = NoStock] /\ found' = [found EXCEPT ![w] = NoStock]
  BY <1>3 DEF Write, Answer, GoNote, Goto, Forget
<1>5. left \in Request \cup {NoReq}
  BY DEF Request
<1>6. PICK new \in Row \cup {NoStock} : new = Stored(w)
  BY <1>1, StoredRow
<1>7. /\ rows' = [rows EXCEPT ![s] = new]
      /\ sold' = IF req[w].op = "order" /\ s \notin recounted
                 THEN [sold EXCEPT ![s] = @ + req[w].quantity] ELSE sold
      /\ recounted' = IF SetByStaff(req[w]) THEN recounted \cup {s} ELSE recounted
      /\ miscounted' = IF BelowZero(req[w]) THEN miscounted \cup {s} ELSE miscounted
      /\ UNCHANGED <<history, opening>>
  BY <1>3, <1>6 DEF Write
<1>8. /\ \A t \in Stock : sold[t] \in Nat /\ sold'[t] \in Nat /\ sold'[t] >= sold[t]
      /\ s \notin recounted => sold'[s] = sold[s] + Taken(req[w])
      /\ sold' \in [Stock -> Nat]
  <2>1. sold \in [Stock -> Nat]
    BY <1>1 DEF TypeOK
  <2> QED
    BY <1>2, <1>7, <2>1 DEF Taken
<1>9. TypeOK'
  <2>1. miscounted' \subseteq recounted' /\ recounted' \subseteq Stock
    BY <1>1, <1>7 DEF TypeOK, BelowZero, SetByStaff
  <2> QED
    BY <1>1, <1>4, <1>5, <1>7, <1>8, <2>1 DEF TypeOK
<1>10. Control' /\ ~Saving(w)' /\ Alone(w)
  BY <1>1, <1>4 DEF Control, Saving, Alone, TypeOK
<1>11. /\ Sound(w) /\ opening[s] \in Nat /\ opening' = opening
       /\ Exists(s) => rows[s].quantity \in Int
  <2>1. Sound(w) /\ opening[s] # Keep
    BY <1>1, <1>3 DEF Inv, Opened
  <2> QED
    BY <1>1, <1>7, <2>1, RowFields DEF TypeOK, Exists
<1>12. ASSUME new # NoStock
       PROVE  /\ s \notin miscounted' => new.quantity >= 0
              /\ s \notin recounted' => new.quantity + sold'[s] >= opening[s]
  <2>1. \/ new.quantity = held[w].quantity
        \/ Exists(s) /\ req[w].op # "order" /\ new.quantity = rows[s].quantity
    BY <1>1, <1>3, <1>6, <1>12, StoredRow
  <2>2. CASE new.quantity = held[w].quantity
    <3>1. s \notin miscounted' => s \notin miscounted /\ ~BelowZero(req[w])
      BY <1>7
    <3>2. s \notin recounted' => s \notin recounted /\ ~SetByStaff(req[w])
      BY <1>7
    <3>3. s \notin miscounted' => held[w].quantity >= 0
      BY <1>3, <1>11, <3>1 DEF Sound
    <3>4. s \notin recounted' => held[w].quantity + sold[s] + Taken(req[w]) >= opening[s]
      BY <1>3, <1>11, <3>2 DEF Sound
    <3> QED
      BY <1>2, <1>8, <1>11, <2>2, <3>2, <3>3, <3>4
  <2>3. CASE Exists(s) /\ new.quantity = rows[s].quantity
    <3>1. /\ s \notin miscounted' => rows[s].quantity >= 0
          /\ s \notin recounted' => rows[s].quantity + sold[s] >= opening[s]
      BY <1>7, <2>3 DEF Inv, NeverNegative, NeverUnderstated
    <3> QED
      BY <1>8, <1>11, <2>3, <3>1
  <2> QED
    BY <2>1, <2>2, <2>3
<1>13. /\ NeverNegative' /\ NeverUnderstated'
       /\ \A t \in Stock : rows'[t] # NoStock => opening'[t] # Keep
  <2> SUFFICES ASSUME NEW t \in Stock, rows'[t] # NoStock
               PROVE  /\ t \notin miscounted' => rows'[t].quantity >= 0
                      /\ t \notin recounted' => rows'[t].quantity + sold'[t] >= opening'[t]
                      /\ opening'[t] # Keep
    BY DEF NeverNegative, NeverUnderstated, Exists
  <2>1. CASE t = s
    <3>1. rows'[t] = new
      BY <1>1, <1>7, <2>1 DEF TypeOK
    <3>2. opening[s] # Keep
      BY <1>1, <1>3 DEF Inv, Opened
    <3> QED
      BY <1>11, <1>12, <2>1, <3>1, <3>2
  <2>2. CASE t # s
    <3>1. rows'[t] = rows[t] /\ sold'[t] = sold[t] /\ opening'[t] = opening[t]
      BY <1>1, <1>7, <2>2 DEF TypeOK
    <3>2. (t \notin miscounted' => t \notin miscounted) /\ (t \notin recounted' => t \notin recounted)
      BY <1>7
    <3> QED
      BY <3>1, <3>2 DEF Inv, NeverNegative, NeverUnderstated, Opened, Exists
  <2> QED
    BY <2>1, <2>2
<1>14. ASSUME NEW v \in Worker, Saving(v)'
       PROVE  Sound(v)' /\ opening'[req'[v].stock] # Keep
  <2>1. v # w /\ Saving(v)
    BY <1>10, <1>14 DEF Saving, Alone
  <2>2. Sound(v) /\ opening[req[v].stock] # Keep
    BY <2>1 DEF Inv, Opened
  <2>3. /\ pc'[v] = pc[v] /\ req'[v] = req[v] /\ held'[v] = held[v]
        /\ recounted \subseteq recounted' /\ miscounted \subseteq miscounted'
    BY <1>7, <1>10, <2>1 DEF Alone
  <2>4. \A t \in Stock : sold'[t] \in Nat /\ sold'[t] >= sold[t]
    BY <1>8
  <2>5. \A t \in Stock : opening[t] # Keep => opening'[t] = opening[t]
    BY <1>11
  <2> QED
    BY <1>1, <2>1, <2>2, <2>3, <2>4, <2>5, SoundStays
<1> QED
  BY <1>9, <1>10, <1>13, <1>14 DEF Inv, Opened, Exists

(***************************************************************************)
(* The results                                                             *)
(***************************************************************************)

LEMMA InitInv == Init => Inv
<1> SUFFICES ASSUME Init PROVE Inv
  OBVIOUS
<1>1. TypeOK
  BY DEF Init, TypeOK, Keep
<1>2. \A s \in Stock : ~Exists(s)
  BY DEF Init, Exists
<1>3. Control /\ \A w \in Worker : ~Saving(w)
  BY DEF Init, Control, Saving
<1> QED
  BY <1>1, <1>2, <1>3 DEF Inv, Opened, NeverNegative, NeverUnderstated

LEMMA NextInv == Inv /\ [Next]_vars => Inv'
<1> SUFFICES ASSUME Inv, [Next]_vars PROVE Inv'
  OBVIOUS
<1>1. CASE UNCHANGED vars
  BY <1>1 DEF vars, ghosts, Inv, TypeOK, Control, Opened, Saving, Sound, BelowZero, SetByStaff,
              Taken, NeverNegative, NeverUnderstated, Exists
<1>2. ASSUME NEW w \in Worker, Receive(w)
      PROVE  Inv'
  <2>1. Desk[w] \subseteq Stock
    BY StockLedgerAssumption
  <2>2. CASE \E m \in MenuItem, n \in Quantities, min \in Minima : BeginCreate(w, m, n, min)
    BY <2>2, QuietInv
  <2>3. CASE \E s \in Desk[w], n \in Quantities : Order(w, s, n)
    BY <2>1, <2>3, OrderInv
  <2>4. CASE \E s \in Desk[w], n \in Amounts, a \in Actions : Adjust(w, s, a, n)
    BY <2>1, <2>4, AdjustInv
  <2>5. CASE \E s \in Desk[w], e \in Edits : BeginUpdate(w, s, e[1], e[2])
    BY <2>1, <2>5, UpdateInv
  <2>6. CASE \E s \in Desk[w] : BeginRemove(w, s)
    BY <2>1, <2>6, QuietInv
  <2> QED
    BY <1>2, <2>2, <2>3, <2>4, <2>5, <2>6 DEF Receive
<1>3. ASSUME NEW w \in Worker, Proceed(w)
      PROVE  Inv'
  <2>1. CASE \E s \in Desk[w] : Insert(w, s)
    BY <2>1, StockLedgerAssumption, InsertInv
  <2>2. CASE Compare(w)
    BY <2>2, CompareInv
  <2>3. CASE Write(w)
    BY <2>3, WriteInv
  <2>4. CASE Note(w)
    BY <2>4, QuietInv
  <2>5. CASE Delete(w)
    BY <2>5, DeleteInv
  <2> QED
    BY <1>3, <2>1, <2>2, <2>3, <2>4, <2>5 DEF Proceed
<1>4. ASSUME NEW w \in Worker, Fail(w)
      PROVE  Inv'
  BY <1>4, QuietInv
<1> QED
  BY <1>1, <1>2, <1>3, <1>4 DEF Next

\* What every pending save of a stock holds, like the row, is not negative and no
\* less than what orders left (stock.service.ts).
THEOREM InvCorrect == Spec => []Inv
  BY InitInv, NextInv, PTL DEF Spec

\* Rows, requests and the objects they hold stay well-formed.
THEOREM TypeCorrect == Spec => []TypeOK
<1>1. Inv => TypeOK
  BY DEF Inv
<1> QED
  BY <1>1, InvCorrect, PTL

\* No stock goes below zero unless staff set it there, for any number of orders,
\* adjustments, edits, removals and failures at once (adjustStock).
THEOREM NeverNegativeCorrect == Spec => []NeverNegative
<1>1. Inv => NeverNegative
  BY DEF Inv
<1> QED
  BY <1>1, InvCorrect, PTL

\* A stock only orders have changed never shows less than they left, however
\* they overlap or fail (decreaseStock).
THEOREM NeverUnderstatedCorrect == Spec => []NeverUnderstated
<1>1. Inv => NeverUnderstated
  BY DEF Inv
<1> QED
  BY <1>1, InvCorrect, PTL

(***************************************************************************)
(* Requests on different stocks: StockLevels                               *)
(***************************************************************************)

\* The flag of a row belongs to its quantity and minimum.
Flagged(row) == row.low <=> row.quantity <= row.min

\* Rows are equal when their columns are.
LEMMA RowEqual ==
  ASSUME NEW r \in Row, NEW t \in Row,
         r.item = t.item, r.quantity = t.quantity, r.min = t.min, r.low = t.low
  PROVE  r = t
  BY DEF Row

\* A row built with the flag its quantity calls for is flagged.
LEMMA FlaggedRow ==
  ASSUME NEW m \in MenuItem, NEW q \in Int, NEW min \in Nat
  PROVE  LET new == StockRow(m, q, min, q <= min)
         IN  /\ new \in Row /\ Flagged(new)
             /\ new.item = m /\ new.quantity = q /\ new.min = min
<1>1. \A low \in BOOLEAN : (low <=> q <= min) =>
        LET new == StockRow(m, q, min, low)
        IN  /\ new \in Row /\ Flagged(new)
            /\ new.item = m /\ new.quantity = q /\ new.min = min
  BY RowBuilt DEF Flagged
<1>2. (q <= min) \in BOOLEAN
  OBVIOUS
<1> QED
  BY <1>1, <1>2, Zenon

\* Saving over the row the object was loaded from stores the object.
LEMMA MergedSame ==
  ASSUME NEW now \in Row, NEW new \in Row, NEW computed, now.item = new.item
  PROVE  Merged(now, now, new, computed) = new
<1> DEFINE q == IF "quantity" \in computed \/ now.quantity # new.quantity THEN new.quantity ELSE now.quantity
           m == IF "min" \in computed \/ now.min # new.min THEN new.min ELSE now.min
           low == IF now.low # new.low THEN new.low ELSE now.low
<1>1. q = new.quantity /\ m = new.min /\ low = new.low
  OBVIOUS
<1>2. Merged(now, now, new, computed) = StockRow(now.item, q, m, low)
  BY DEF Merged
<1>3. StockRow(now.item, new.quantity, new.min, new.low) = new
  <2>1. new.item \in MenuItem /\ new.quantity \in Int /\ new.min \in Nat /\ new.low \in BOOLEAN
    BY RowFields
  <2>2. PICK r \in Row : /\ r = StockRow(now.item, new.quantity, new.min, new.low)
                         /\ r.item = new.item /\ r.quantity = new.quantity
                         /\ r.min = new.min /\ r.low = new.low
    BY <2>1, RowBuilt
  <2> QED
    BY <2>2, RowEqual
<1> HIDE DEF q, m, low
<1> QED
  BY <1>1, <1>2, <1>3

\* A decrease or an adjustment moves the quantity and the flag with it.
LEMMA AdjustedFlag ==
  ASSUME NEW r \in Row, NEW a \in {"decrease", "adjustment"}, NEW n \in Int
  PROVE  LET new == Adjusted(r, a, n)
         IN  /\ new \in Row /\ new.item = r.item /\ new.min = r.min /\ Flagged(new)
             /\ a = "decrease" => new.quantity = r.quantity - n
             /\ a = "adjustment" => new.quantity = n
<1> DEFINE q == NewQuantity(a, r.quantity, n)
           low == BelowMinimum(a, r.quantity, n, r.min)
<1>1. r.item \in MenuItem /\ r.quantity \in Int /\ r.min \in Nat
  BY RowFields
<1>2. q \in Int /\ (a = "decrease" => q = r.quantity - n) /\ (a = "adjustment" => q = n)
  BY <1>1 DEF NewQuantity
<1>3. low = (q <= r.min)
  BY Zenon DEF BelowMinimum
<1>4. Adjusted(r, a, n) = StockRow(r.item, q, r.min, q <= r.min)
  BY <1>3, Zenon DEF Adjusted
<1> HIDE DEF q, low
<1>5. LET new == StockRow(r.item, q, r.min, q <= r.min)
      IN  /\ new \in Row /\ Flagged(new)
          /\ new.item = r.item /\ new.quantity = q /\ new.min = r.min
  BY <1>1, <1>2, FlaggedRow
<1> QED
  BY <1>2, <1>4, <1>5, Zenon

\* An edit sets what it is given and the flag with it.
LEMMA UpdatedFlag ==
  ASSUME Computing, NEW r \in Row, NEW e \in Edits
  PROVE  LET new == Updated(r, e[1], e[2])
         IN  /\ new \in Row /\ new.item = r.item /\ Flagged(new)
             /\ new.quantity \in Quantities \cup {r.quantity}
             /\ new.min \in Minima \cup {r.min}
<1> DEFINE q == Given(e[1], r.quantity)
           m == Given(e[2], r.min)
<1>1. r.item \in MenuItem /\ r.quantity \in Int /\ r.min \in Nat
  BY RowFields
<1>2. /\ e[1] \in Quantities \cup {Keep} /\ e[2] \in Minima \cup {Keep}
      /\ ~(e[1] = Keep /\ e[2] = Keep)
  BY EditFields DEF Computing
<1>3. /\ q \in Quantities \cup {r.quantity} /\ q \in Int
      /\ m \in Minima \cup {r.min} /\ m \in Nat
  BY <1>1, <1>2, StockLedgerAssumption DEF Given
<1>4. Updated(r, e[1], e[2]) = StockRow(r.item, q, m, q <= m)
  BY <1>2, Zenon DEF Updated
<1> HIDE DEF q, m
<1>5. LET new == StockRow(r.item, q, m, q <= m)
      IN  /\ new \in Row /\ Flagged(new)
          /\ new.item = r.item /\ new.quantity = q /\ new.min = m
  BY <1>1, <1>3, FlaggedRow
<1> QED
  BY <1>3, <1>4, <1>5, Zenon

\* A save finds the row it loaded and stores its object: the level changes once,
\* by something taken that was there, or to something counted.
LEMMA WriteOwn ==
  ASSUME OwnDesks, Computing, Inv, Own, NEW w \in Worker, Write(w)
  PROVE  LET s == req[w].stock
             old == rows[s]
             new == held[w]
         IN  /\ s \in Stock /\ s \in Desk[w] /\ old \in Row /\ new \in Row
             /\ rows' = [rows EXCEPT ![s] = new] /\ Flagged(new)
             /\ \/ /\ new.min = old.min
                   /\ \E n \in Quantities \cup Amounts : n <= old.quantity /\ new.quantity = old.quantity - n
                \/ /\ new.min \in Minima \cup {old.min}
                   /\ new.quantity \in Quantities \cup Amounts \cup {old.quantity}
<1>1. TypeOK /\ Control /\ pc[w] = "write" /\ Saving(w)
  BY DEF Inv, Write, Answer, GoNote, Goto, Saving
<1>2. PICK r \in Request : r = req[w] /\ r.op \in {"order", "adjust", "update"}
  BY <1>1, SavingFields
<1>3. PICK s \in Stock : s = r.stock /\ s \in Desk[w]
  BY <1>1, <1>2, SavedFields DEF Own, OnDesk
<1>4. PICK old \in Row : old = rows[s] /\ found[w] = old
  <2>1. Exists(s) /\ found[w] = rows[s]
    BY <1>1, <1>2, <1>3 DEF Own, Undisturbed
  <2> QED
    BY <1>1, <2>1 DEF TypeOK, Exists
<1>5. PICK new \in Row : new = held[w]
  BY <1>1, SavingFields
<1>6. /\ r.op = "update" => new = Updated(old, r.quantity, r.min)
      /\ r.op # "update" => /\ new = Adjusted(old, r.action, r.quantity)
                            /\ r.action = "decrease" => r.quantity <= old.quantity
  BY <1>1, <1>2, <1>3, <1>4, <1>5 DEF Own, Undisturbed
<1>7. /\ new.item = old.item /\ Flagged(new)
      /\ \/ /\ new.min = old.min
            /\ \E n \in Quantities \cup Amounts : n <= old.quantity /\ new.quantity = old.quantity - n
         \/ /\ new.min \in Minima \cup {old.min}
            /\ new.quantity \in Quantities \cup Amounts \cup {old.quantity}
  <2>1. CASE r.op = "update"
    <3>1. PICK e \in Edits : r.quantity = e[1] /\ r.min = e[2]
      BY <1>2, <2>1, SavedFields
    <3>2. /\ new.item = old.item /\ Flagged(new)
          /\ new.quantity \in Quantities \cup {old.quantity}
          /\ new.min \in Minima \cup {old.min}
      BY <1>6, <2>1, <3>1, UpdatedFlag
    <3> QED
      BY <3>2
  <2>2. CASE r.op # "update"
    <3>1. /\ r.action \in {"decrease", "adjustment"}
          /\ r.quantity \in Quantities \cup Amounts /\ r.quantity \in Int
      <4>1. \/ r.action = "decrease" /\ r.quantity \in Quantities
            \/ r.action \in Actions /\ r.quantity \in Amounts
        BY <1>2, <2>2, SavedFields
      <4>2. Actions \subseteq {"decrease", "adjustment"}
        BY DEF Computing
      <4>3. Quantities \subseteq Int /\ Amounts \subseteq Int
        BY StockLedgerAssumption
      <4> QED
        BY <4>1, <4>2, <4>3
    <3>2. /\ new.item = old.item /\ new.min = old.min /\ Flagged(new)
          /\ r.action = "decrease" => new.quantity = old.quantity - r.quantity
          /\ r.action = "adjustment" => new.quantity = r.quantity
      <4>1. \A a \in {"decrease", "adjustment"}, n \in Int :
              LET m == Adjusted(old, a, n)
              IN  /\ m.item = old.item /\ m.min = old.min /\ Flagged(m)
                  /\ a = "decrease" => m.quantity = old.quantity - n
                  /\ a = "adjustment" => m.quantity = n
        BY AdjustedFlag
      <4> QED
        BY <1>6, <2>2, <3>1, <4>1
    <3> QED
      BY <1>6, <2>2, <3>1, <3>2
  <2> QED
    BY <2>1, <2>2
<1>8. rows' = [rows EXCEPT ![s] = new]
  <2>1. old # NoStock
    BY RowFields
  <2>2. Stored(w) = Merged(old, old, new, Computed(r))
    BY <1>2, <1>3, <1>4, <1>5, <2>1 DEF Stored
  <2>3. \A c : Merged(old, old, new, c) = new
    BY <1>7, MergedSame
  <2>4. Stored(w) = new
    BY <2>2, <2>3, Zenon
  <2> QED
    BY <1>2, <1>3, <2>4 DEF Write
<1> QED
  BY <1>2, <1>3, <1>4, <1>5, <1>7, <1>8

\* A step of w that changes rows of its desk alone leaves the others undisturbed.
LEMMA OthersOwn ==
  ASSUME OwnDesks, Inv, Own, NEW w \in Worker, Alone(w),
         \A v \in Worker \ {w} : found'[v] = found[v],
         \A s \in Stock : s \notin Desk[w] => rows'[s] = rows[s]
  PROVE  \A v \in Worker \ {w} :
            /\ pc'[v] \in {"save", "write", "delete"} => req'[v].stock \in Desk[v]
            /\ Saving(v)' => Undisturbed(v)'
<1> SUFFICES ASSUME NEW v \in Worker \ {w}
             PROVE  /\ pc'[v] \in {"save", "write", "delete"} => req'[v].stock \in Desk[v]
                    /\ Saving(v)' => Undisturbed(v)'
  OBVIOUS
<1>1. pc'[v] = pc[v] /\ req'[v] = req[v] /\ held'[v] = held[v] /\ found'[v] = found[v]
  BY DEF Alone
<1>2. ASSUME Saving(v)
      PROVE  Undisturbed(v)'
  <2>1. req[v].stock \in Stock /\ req[v].stock \in Desk[v]
    BY <1>2, SavingFields DEF Inv, Own, OnDesk, Saving
  <2>2. rows'[req[v].stock] = rows[req[v].stock]
    BY <2>1 DEF OwnDesks
  <2>3. Undisturbed(v)
    BY <1>2 DEF Own
  <2> QED
    BY <1>1, <2>2, <2>3 DEF Undisturbed, Exists
<1> QED
  BY <1>1, <1>2 DEF Own, OnDesk, Saving

\* A request that has loaded a row of its desk is undisturbed.
LEMMA LoadedOwn ==
  ASSUME OwnDesks, Inv, Own, NEW w \in Worker, NEW s \in Desk[w], NEW r, NEW object,
         Load(w, s, object), Start(w, "save", r), UNCHANGED <<rows, history, ghosts>>,
         r.stock = s,
         IF r.op = "update" THEN object = Updated(rows[s], r.quantity, r.min)
         ELSE /\ object = Adjusted(rows[s], r.action, r.quantity)
              /\ r.action = "decrease" => r.quantity <= rows[s].quantity
  PROVE  Own'
<1>1. /\ pc' = [pc EXCEPT ![w] = "save"] /\ req' = [req EXCEPT ![w] = r]
      /\ held' = [held EXCEPT ![w] = object] /\ found' = found
      /\ rows' = rows /\ Exists(s)
  BY DEF Start, Load
<1>2. /\ pc'[w] = "save" /\ req'[w] = r /\ held'[w] = object /\ Alone(w)
  BY <1>1 DEF Inv, TypeOK, Alone
<1>3. Undisturbed(w)'
  BY <1>1, <1>2 DEF Undisturbed, Exists
<1>4. Marked'
  BY <1>1 DEF Own, Marked, Exists
<1>5. \A v \in Worker \ {w} :
            /\ pc'[v] \in {"save", "write", "delete"} => req'[v].stock \in Desk[v]
            /\ Saving(v)' => Undisturbed(v)'
  BY <1>1, <1>2, OthersOwn
<1> QED
  BY <1>2, <1>3, <1>4, <1>5 DEF Own, OnDesk

\* A request without an object to save leaves everybody undisturbed.
LEMMA RestOwn ==
  ASSUME OwnDesks, Inv, Own, NEW w \in Worker, Alone(w), ~Saving(w)',
         \A v \in Worker \ {w} : found'[v] = found[v],
         \A s \in Stock : s \notin Desk[w] => rows'[s] = rows[s],
         pc'[w] = "delete" => req'[w].stock \in Desk[w],
         Marked'
  PROVE  Own'
<1>1. \A v \in Worker \ {w} :
            /\ pc'[v] \in {"save", "write", "delete"} => req'[v].stock \in Desk[v]
            /\ Saving(v)' => Undisturbed(v)'
  BY OthersOwn
<1> QED
  BY <1>1 DEF Own, OnDesk, Saving

\* A row that is written flagged, or no row, keeps every flag true.
LEMMA MarkedStays ==
  ASSUME Inv, Own, NEW s \in Stock, NEW new \in Row \cup {NoStock},
         new # NoStock => Flagged(new),
         rows' = [rows EXCEPT ![s] = new]
  PROVE  Marked'
<1>1. rows \in [Stock -> Row \cup {NoStock}]
  BY DEF Inv, TypeOK
<1>2. \A t \in Stock : rows'[t] = IF t = s THEN new ELSE rows[t]
  BY <1>1
<1> QED
  BY <1>2 DEF Own, Marked, Exists, Flagged

\* The row a creation inserts is flagged.
LEMMA InsertOwn ==
  ASSUME Inv, NEW w \in Worker, NEW s \in Desk[w], Insert(w, s)
  PROVE  \E new \in Row : /\ rows' = [rows EXCEPT ![s] = new] /\ Flagged(new)
                          /\ new.quantity \in Quantities /\ new.min \in Minima
<1>1. pc[w] = "insert"
  BY DEF Insert, GoNote, Goto
<1>2. req[w] \in Request /\ req[w].op = "create"
  <2>1. req[w].op = "create"
    BY <1>1 DEF Inv, Control
  <2> QED
    BY <2>1 DEF Inv, TypeOK, NoReq
<1>3. /\ req[w].item \in MenuItem /\ req[w].quantity \in Quantities /\ req[w].min \in Minima
      /\ req[w].quantity \in Int /\ req[w].min \in Nat
  <2>1. req[w].item \in MenuItem /\ req[w].quantity \in Quantities /\ req[w].min \in Minima
    BY <1>2, CreateFields
  <2>2. Quantities \subseteq Int /\ Minima \subseteq Nat
    BY StockLedgerAssumption
  <2> QED
    BY <2>1, <2>2
<1>4. \A m \in MenuItem, q \in Int, min \in Nat :
        LET new == StockRow(m, q, min, q <= min)
        IN  new \in Row /\ Flagged(new) /\ new.quantity = q /\ new.min = min
  BY FlaggedRow
<1>5. LET new == StockRow(req[w].item, req[w].quantity, req[w].min, req[w].quantity <= req[w].min)
      IN  new \in Row /\ Flagged(new) /\ new.quantity = req[w].quantity /\ new.min = req[w].min
  BY <1>3, <1>4, Zenon
<1>6. rows' = [rows EXCEPT ![s] =
          StockRow(req[w].item, req[w].quantity, req[w].min, req[w].quantity <= req[w].min)]
  BY DEF Insert
<1> QED
  BY <1>3, <1>5, <1>6, Zenon

\* Every step keeps what requests hold in line with the rows.
LEMMA OwnNext == OwnDesks /\ Computing /\ Inv /\ Own /\ [Next]_vars => Own'
<1> SUFFICES ASSUME OwnDesks, Computing, Inv, Own, [Next]_vars PROVE Own'
  OBVIOUS
<1>1. TypeOK /\ Control /\ Marked /\ OnDesk
  BY DEF Inv, Own
<1>2. CASE UNCHANGED vars
  BY <1>2 DEF vars, ghosts, Own, Marked, OnDesk, Saving, Undisturbed, Exists
<1>3. ASSUME NEW w \in Worker, Receive(w)
      PROVE  Own'
  <2>1. CASE \E m \in MenuItem, n \in Quantities, min \in Minima : BeginCreate(w, m, n, min)
    <3>1. /\ pc' = [pc EXCEPT ![w] = "insert"] /\ UNCHANGED <<rows, held, found>>
          /\ Alone(w)
      BY <1>1, <2>1 DEF BeginCreate, Start, Alone, TypeOK
    <3>2. Marked' /\ pc'[w] = "insert"
      BY <1>1, <3>1 DEF Marked, Exists, TypeOK
    <3> QED
      BY <3>1, <3>2, RestOwn DEF Saving
  <2>2. CASE \E s \in Desk[w], n \in Quantities : Order(w, s, n)
    <3>1. PICK s \in Desk[w], n \in Quantities : Order(w, s, n)
      BY <2>2
    <3> DEFINE r == [op |-> "order", stock |-> s, action |-> "decrease", quantity |-> n]
               object == Adjusted(rows[s], "decrease", n)
    <3>2. /\ Load(w, s, object) /\ Start(w, "save", r) /\ UNCHANGED <<rows, history, ghosts>>
          /\ n <= rows[s].quantity
      BY <3>1 DEF Order
    <3>3. r.stock = s /\ r.op # "update" /\ r.action = "decrease" /\ r.quantity = n
      OBVIOUS
    <3>4. object = Adjusted(rows[s], r.action, r.quantity)
      BY <3>3
    <3> HIDE DEF r, object
    <3> QED
      BY <3>2, <3>3, <3>4, LoadedOwn
  <2>3. CASE \E s \in Desk[w], n \in Amounts, a \in Actions : Adjust(w, s, a, n)
    <3>1. PICK s \in Desk[w], n \in Amounts, a \in Actions : Adjust(w, s, a, n)
      BY <2>3
    <3> DEFINE r == [op |-> "adjust", stock |-> s, action |-> a, quantity |-> n]
               object == Adjusted(rows[s], a, n)
    <3>2. /\ Load(w, s, object) /\ Start(w, "save", r) /\ UNCHANGED <<rows, history, ghosts>>
          /\ a = "decrease" => n <= rows[s].quantity
      BY <3>1 DEF Adjust
    <3>3. r.stock = s /\ r.op # "update" /\ r.action = a /\ r.quantity = n
      OBVIOUS
    <3>4. object = Adjusted(rows[s], r.action, r.quantity)
      BY <3>3
    <3> HIDE DEF r, object
    <3> QED
      BY <3>2, <3>3, <3>4, LoadedOwn
  <2>4. CASE \E s \in Desk[w], e \in Edits : BeginUpdate(w, s, e[1], e[2])
    <3>1. PICK s \in Desk[w], e \in Edits : BeginUpdate(w, s, e[1], e[2])
      BY <2>4
    <3> DEFINE r == [op |-> "update", stock |-> s, quantity |-> e[1], min |-> e[2]]
               object == Updated(rows[s], e[1], e[2])
    <3>2. Load(w, s, object) /\ Start(w, "save", r) /\ UNCHANGED <<rows, history, ghosts>>
      BY <3>1 DEF BeginUpdate
    <3>3. r.stock = s /\ r.op = "update" /\ r.quantity = e[1] /\ r.min = e[2]
      OBVIOUS
    <3>4. object = Updated(rows[s], r.quantity, r.min)
      BY <3>3
    <3> HIDE DEF r, object
    <3> QED
      BY <3>2, <3>3, <3>4, LoadedOwn
  <2>5. CASE \E s \in Desk[w] : BeginRemove(w, s)
    <3>1. PICK s \in Desk[w] : BeginRemove(w, s)
      BY <2>5
    <3> DEFINE r == [op |-> "remove", stock |-> s]
    <3>2. /\ pc' = [pc EXCEPT ![w] = "delete"] /\ req' = [req EXCEPT ![w] = r]
          /\ held' = [held EXCEPT ![w] = rows[s]] /\ UNCHANGED <<rows, found>>
      BY <3>1 DEF BeginRemove, Load, Start
    <3>3. r.stock = s
      OBVIOUS
    <3> HIDE DEF r
    <3>4. Marked' /\ Alone(w) /\ pc'[w] = "delete" /\ req'[w].stock \in Desk[w]
      BY <1>1, <3>2, <3>3 DEF Marked, Exists, TypeOK, Alone
    <3> QED
      BY <3>2, <3>4, RestOwn DEF Saving
  <2> QED
    BY <1>3, <2>1, <2>2, <2>3, <2>4, <2>5 DEF Receive
<1>4. ASSUME NEW w \in Worker, Proceed(w)
      PROVE  Own'
  <2>1. CASE \E s \in Desk[w] : Insert(w, s)
    <3>1. PICK s \in Desk[w] : Insert(w, s)
      BY <2>1
    <3>2. PICK new \in Row : rows' = [rows EXCEPT ![s] = new] /\ Flagged(new)
      BY <3>1, InsertOwn
    <3>3. s \in Stock
      BY StockLedgerAssumption
    <3>4. Marked'
      BY <3>2, <3>3, MarkedStays
    <3>5. /\ pc' = [pc EXCEPT ![w] = "note"]
          /\ Alone(w) /\ \A v \in Worker \ {w} : found'[v] = found[v]
      BY <1>1, <3>1 DEF Insert, GoNote, Goto, Forget, Alone, TypeOK
    <3>6. pc'[w] = "note" /\ \A t \in Stock : t \notin Desk[w] => rows'[t] = rows[t]
      BY <1>1, <3>2, <3>5 DEF TypeOK
    <3> QED
      BY <3>4, <3>5, <3>6, RestOwn DEF Saving
  <2>2. CASE Compare(w)
    <3>1. /\ pc[w] = "save" /\ pc' = [pc EXCEPT ![w] = "write"]
          /\ found' = [found EXCEPT ![w] = rows[req[w].stock]]
          /\ UNCHANGED <<rows, req, held>>
      BY <2>2 DEF Compare, Goto
    <3>2. Marked' /\ OnDesk' /\ Alone(w)
      BY <1>1, <3>1 DEF Marked, Exists, OnDesk, Alone, TypeOK
    <3>3. Undisturbed(w)'
      <4>1. Undisturbed(w)
        BY <3>1 DEF Own, Saving
      <4>2. found'[w] = rows[req[w].stock]
        BY <1>1, <3>1 DEF TypeOK
      <4> QED
        BY <3>1, <4>1, <4>2 DEF Undisturbed, Exists
    <3>4. \A v \in Worker \ {w} : Saving(v)' => Undisturbed(v)'
      <4>1. \A v \in Worker \ {w} : found'[v] = found[v]
        BY <1>1, <3>1 DEF TypeOK
      <4> QED
        BY <3>1, <3>2, <4>1, OthersOwn
    <3> QED
      BY <3>2, <3>3, <3>4 DEF Own
  <2>3. CASE Write(w)
    <3>1. PICK s \in Desk[w], new \in Row :
            s \in Stock /\ rows' = [rows EXCEPT ![s] = new] /\ Flagged(new)
      BY <2>3, WriteOwn
    <3>2. Marked'
      BY <3>1, MarkedStays
    <3>3. /\ pc' = [pc EXCEPT ![w] = IF req[w].op = "update" THEN "idle" ELSE "note"]
          /\ Alone(w) /\ \A v \in Worker \ {w} : found'[v] = found[v]
      BY <1>1, <2>3 DEF Write, Answer, GoNote, Goto, Forget, Alone, TypeOK
    <3>4. pc'[w] \in {"idle", "note"} /\ \A t \in Stock : t \notin Desk[w] => rows'[t] = rows[t]
      BY <1>1, <3>1, <3>3 DEF TypeOK
    <3> QED
      BY <3>2, <3>3, <3>4, RestOwn DEF Saving
  <2>4. CASE Note(w)
    <3>1. /\ pc' = [pc EXCEPT ![w] = "idle"] /\ rows' = rows
          /\ Alone(w) /\ \A v \in Worker \ {w} : found'[v] = found[v]
      BY <1>1, <2>4 DEF Note, Answer, Goto, Forget, Alone, TypeOK
    <3>2. Marked' /\ pc'[w] = "idle"
      BY <1>1, <3>1 DEF Marked, Exists, TypeOK
    <3> QED
      BY <3>1, <3>2, RestOwn DEF Saving
  <2>5. CASE Delete(w)
    <3>1. pc[w] = "delete" /\ pc' = [pc EXCEPT ![w] = "idle"]
          /\ rows' = [rows EXCEPT ![req[w].stock] = NoStock]
          /\ Alone(w) /\ \A v \in Worker \ {w} : found'[v] = found[v]
      BY <1>1, <2>5 DEF Delete, Answer, Goto, Forget, Alone, TypeOK
    <3>2. req[w].stock \in Desk[w] /\ req[w].stock \in Stock
      BY <1>1, <3>1, StockLedgerAssumption DEF OnDesk
    <3>3. Marked'
      BY <3>1, <3>2, MarkedStays
    <3>4. pc'[w] = "idle" /\ \A t \in Stock : t \notin Desk[w] => rows'[t] = rows[t]
      BY <1>1, <3>1, <3>2 DEF TypeOK
    <3> QED
      BY <3>1, <3>3, <3>4, RestOwn DEF Saving
  <2> QED
    BY <1>4, <2>1, <2>2, <2>3, <2>4, <2>5 DEF Proceed
<1>5. ASSUME NEW w \in Worker, Fail(w)
      PROVE  Own'
  <2>1. /\ pc' = [pc EXCEPT ![w] = "idle"] /\ rows' = rows
        /\ Alone(w) /\ \A v \in Worker \ {w} : found'[v] = found[v]
    BY <1>1, <1>5 DEF Fail, Answer, Goto, Forget, Alone, TypeOK
  <2>2. Marked' /\ pc'[w] = "idle"
    BY <1>1, <2>1 DEF Marked, Exists, TypeOK
  <2> QED
    BY <2>1, <2>2, RestOwn DEF Saving
<1> QED
  BY <1>2, <1>3, <1>4, <1>5 DEF Next

LEMMA InitOwn == Init => Own
  BY DEF Init, Own, Marked, OnDesk, Saving, Exists

\* What the rows show of a stock.
LEMMA LevelOfRow ==
  ASSUME NEW r \in Row, Flagged(r)
  PROVE  Level(r) = Shelf!Shown(r.quantity, r.min) /\ Level(r) # NoStock
<1>1. r # NoStock
  BY RowFields
<1>2. r.low = (r.quantity <= r.min)
  BY RowFields DEF Flagged
<1>3. Level(r) = [quantity |-> r.quantity, min |-> r.min, low |-> r.low]
  BY <1>1 DEF Level
<1>4. Level(r) = [quantity |-> r.quantity, min |-> r.min, low |-> r.quantity <= r.min]
  BY <1>2, <1>3
<1>5. \A low \in BOOLEAN : [quantity |-> r.quantity, min |-> r.min, low |-> low] # NoStock
  BY DEF NoStock
<1> QED
  BY <1>3, <1>4, <1>5, RowFields DEF Shelf!Shown

Levels == [s \in Stock |-> Level(rows[s])]

\* A written row moves one level.
LEMMA OneLevel ==
  ASSUME Inv, NEW s \in Stock, NEW new, rows' = [rows EXCEPT ![s] = new]
  PROVE  Levels' = [Levels EXCEPT ![s] = Level(new)]
<1>1. rows \in [Stock -> Row \cup {NoStock}]
  BY DEF Inv, TypeOK
<1>2. \A t \in Stock : rows'[t] = IF t = s THEN new ELSE rows[t]
  BY <1>1
<1>3. \A t \in Stock : Level(rows'[t]) = IF t = s THEN Level(new) ELSE Level(rows[t])
  BY <1>2
<1> QED
  BY <1>3 DEF Levels

\* Every step is a step of the levels, or leaves them as they are.
LEMMA LevelStep == OwnDesks /\ Computing /\ Inv /\ Own /\ [Next]_vars => Shelf!Next \/ UNCHANGED Levels
<1> SUFFICES ASSUME OwnDesks, Computing, Inv, Own, [Next]_vars
             PROVE  Shelf!Next \/ UNCHANGED Levels
  OBVIOUS
<1>1. rows \in [Stock -> Row \cup {NoStock}]
  BY DEF Inv, TypeOK
<1>2. CASE UNCHANGED rows
  BY <1>2 DEF Levels
<1>3. ASSUME NEW w \in Worker, NEW s \in Desk[w], Insert(w, s)
      PROVE  Shelf!Next
  <2>1. s \in Stock
    BY StockLedgerAssumption
  <2>2. PICK new \in Row : /\ rows' = [rows EXCEPT ![s] = new] /\ Flagged(new)
                           /\ new.quantity \in Quantities /\ new.min \in Minima
    BY <1>3, InsertOwn
  <2>3. Levels' = [Levels EXCEPT ![s] = Shelf!Shown(new.quantity, new.min)]
    BY <2>1, <2>2, OneLevel, LevelOfRow
  <2>4. Levels[s] = NoStock
    BY <1>3, <2>1 DEF Insert, Levels, Level
  <2>5. Shelf!Open(s)
    BY <2>2, <2>3, <2>4 DEF Shelf!Open, Shelf!Becomes, Levels
  <2> QED
    BY <2>1, <2>5 DEF Shelf!Next
<1>4. ASSUME NEW w \in Worker, Write(w)
      PROVE  Shelf!Next
  <2>1. PICK s \in Stock, old \in Row, new \in Row :
          /\ s = req[w].stock /\ old = rows[s]
          /\ rows' = [rows EXCEPT ![s] = new] /\ Flagged(new)
          /\ \/ /\ new.min = old.min
                /\ \E n \in Quantities \cup Amounts : n <= old.quantity /\ new.quantity = old.quantity - n
             \/ /\ new.min \in Minima \cup {old.min}
                /\ new.quantity \in Quantities \cup Amounts \cup {old.quantity}
    BY <1>4, WriteOwn
  <2>2. Levels' = [Levels EXCEPT ![s] = Shelf!Shown(new.quantity, new.min)]
    <3>1. Levels' = [Levels EXCEPT ![s] = Level(new)]
      BY <2>1, OneLevel
    <3>2. Level(new) = Shelf!Shown(new.quantity, new.min)
      BY <2>1, LevelOfRow
    <3> QED
      BY <3>1, <3>2
  <2>3. Levels[s] = Level(old) /\ Level(old) # NoStock
        /\ Level(old).quantity = old.quantity /\ Level(old).min = old.min
    <3>1. old # NoStock
      BY RowFields
    <3>2. Level(old) = [quantity |-> old.quantity, min |-> old.min, low |-> old.low]
      BY <3>1 DEF Level
    <3> QED
      BY <2>1, <3>2 DEF Levels, NoStock
  <2>4. CASE new.min = old.min /\ \E n \in Quantities \cup Amounts :
                n <= old.quantity /\ new.quantity = old.quantity - n
    <3>1. Shelf!Take(s)
      BY <2>2, <2>3, <2>4 DEF Shelf!Take, Shelf!Becomes, Levels
    <3> QED
      BY <2>3, <3>1 DEF Shelf!Next, Levels
  <2>5. CASE /\ new.min \in Minima \cup {old.min}
             /\ new.quantity \in Quantities \cup Amounts \cup {old.quantity}
    <3>1. Shelf!Count(s)
      BY <2>2, <2>3, <2>5 DEF Shelf!Count, Shelf!Becomes, Levels
    <3> QED
      BY <2>3, <3>1 DEF Shelf!Next, Levels
  <2> QED
    BY <2>1, <2>4, <2>5
<1>5. ASSUME NEW w \in Worker, Delete(w)
      PROVE  Shelf!Next \/ UNCHANGED Levels
  <2>1. pc[w] = "delete" /\ rows' = [rows EXCEPT ![req[w].stock] = NoStock]
    BY <1>5 DEF Delete, Answer, Goto
  <2>2. PICK s \in Stock : s = req[w].stock
    BY <2>1, StockLedgerAssumption DEF Own, OnDesk
  <2>3. Levels' = [Levels EXCEPT ![s] = NoStock]
    BY <2>1, <2>2, OneLevel DEF Level
  <2>4. CASE Levels[s] = NoStock
    BY <2>2, <2>3, <2>4 DEF Levels
  <2>5. CASE Levels[s] # NoStock
    <3>1. Shelf!Close(s)
      BY <2>3 DEF Shelf!Close, Shelf!Becomes, Levels
    <3> QED
      BY <2>5, <3>1 DEF Shelf!Next, Levels
  <2> QED
    BY <2>4, <2>5
<1>6. UNCHANGED rows \/ \E w \in Worker :
        (\E s \in Desk[w] : Insert(w, s)) \/ Write(w) \/ Delete(w)
  BY DEF vars, Next, Receive, Proceed, BeginCreate, Order, Adjust, BeginUpdate, BeginRemove,
         Compare, Note, Fail
<1> QED
  BY <1>2, <1>3, <1>4, <1>5, <1>6

\* From its load to its save the row a request changes stays as it found it, and
\* every flag belongs to its quantity (adjustStock, update, decreaseStock).
THEOREM OwnCorrect == OwnDesks /\ Computing => (Spec => []Own)
<1> SUFFICES ASSUME OwnDesks, Computing PROVE Spec => []Own
  OBVIOUS
<1>1. Inv /\ Own /\ [Next]_vars => Own'
  BY OwnNext
<1> QED
  BY <1>1, InvCorrect, InitOwn, PTL DEF Spec

\* Requests on different stocks implement the stock levels: every change of a
\* row is one whole change of its level, flag included (create, adjustStock,
\* update, remove).
THEOREM ImplementsStockLevelsCorrect == OwnDesks /\ Computing => (Spec => ImplementsStockLevels)
<1> SUFFICES ASSUME OwnDesks, Computing PROVE Spec => Shelf!Spec
  BY DEF ImplementsStockLevels
<1>1. Init => Shelf!Init
  BY DEF Init, Shelf!Init, Level
<1>2. Inv /\ Own /\ [Next]_vars => [Shelf!Next]_Levels
  BY LevelStep
<1>3. Spec => []Own
  BY OwnCorrect
<1> QED
  BY <1>1, <1>2, <1>3, InvCorrect, PTL DEF Spec, Shelf!Spec, Levels
=============================================================================
