-------------------------- MODULE OrderFlow_proofs --------------------------
(***************************************************************************)
(* Proofs about OrderFlow, for any number of orders, lines, tables and     *)
(* requests in flight.                                                     *)
(***************************************************************************)
EXTENDS OrderFlow, FiniteSetTheorems, TLAPS

(***************************************************************************)
(* Rows and requests                                                       *)
(***************************************************************************)

\* The statuses, and those clients may ask for.
LEMMA StatusTypes ==
    /\ ItemStatus \subseteq OrderStatus
    /\ "pending" \in ItemStatus /\ "completed" \in OrderStatus
    /\ "keep" \notin OrderStatus
    /\ {"available", "occupied"} \subseteq TableStatus
    /\ OrderTargets \subseteq OrderStatus
    /\ ItemTargets \subseteq ItemStatus
    /\ TableTargets \subseteq TableStatus
    /\ MaxLines \in Nat
BY OrderFlowAssumption DEF OrderStatus, ItemStatus, TableStatus

\* What a request carries, by endpoint.
LEMMA RequestFields ==
    ASSUME NEW r \in Request \cup {NoReq}
    PROVE  /\ r = NoReq <=> r.op = "none"
           /\ r.op \in Endpoint \cup {"none"}
           /\ r.op \notin {"none", "table"} => r.order \in Order
           /\ r.op \notin {"none", "table"} => r.target \in OrderStatus
           /\ r.op \notin {"none", "item", "kitchen"} => r.table \in Table
           /\ r.op = "table" => r.target \in TableStatus
           /\ r.op \in {"item", "kitchen"} => r.item \in Item /\ r.target \in ItemStatus
           /\ r.op \in {"create", "rewrite"} => r.asked \in Nat
BY StatusTypes DEF Request, NoReq, Endpoint

\* The requests the handlers build are well-formed.
LEMMA RequestsBuilt ==
    ASSUME NEW o \in Order, NEW t \in Table, NEW i \in Item, NEW n \in Nat,
           NEW s \in OrderStatus, NEW ts \in TableStatus
    PROVE  /\ \A op \in {"create", "rewrite"} :
                [op |-> op, order |-> o, table |-> t, asked |-> n, target |-> s] \in Request
           /\ \A op \in {"patch", "remove", "status"} :
                [op |-> op, order |-> o, table |-> t, target |-> s] \in Request
           /\ \A op \in {"item", "kitchen"} : s \in ItemStatus =>
                [op |-> op, order |-> o, item |-> i, target |-> s] \in Request
           /\ [op |-> "table", table |-> t, target |-> ts] \in Request
BY DEF Request

\* The rows the handlers write are well-formed.
LEMMA RowsBuilt ==
    /\ NoOrder \notin OrderRow /\ NoItem \notin ItemRow
    /\ \A t \in Table : NewOrder(t) \in OrderRow
    /\ \A r \in OrderRow, s \in OrderStatus, n \in Nat : Restated(r, s, n) \in OrderRow
    /\ \A r \in OrderRow : r.status \in OrderStatus /\ r.total \in Nat /\ r.table \in Table
    /\ \A s \in ItemStatus, o \in Order : [status |-> s, order |-> o] \in ItemRow
    /\ \A r \in ItemRow : r.status \in ItemStatus /\ r.order \in Order
BY DEF OrderRow, ItemRow, NoOrder, NoItem, NewOrder, Restated, OrderStatus, ItemStatus

(***************************************************************************)
(* Types and control                                                       *)
(***************************************************************************)

LEMMA InitTyped == Init => TypeOK /\ Control
BY OrderFlowAssumption
DEF Init, TypeOK, RowsOK, RequestsOK, HistoryOK, Control, Stands,
    NoOrder, NoItem, NoReq, NoMem, Label, TableStatus

\* A request that ends leaves nothing behind in memory.
LEMMA EndTyped ==
    ASSUME RequestsOK, Control, NEW w \in Worker,
           pc' = [pc EXCEPT ![w] = "idle"], Forget(w)
    PROVE  RequestsOK' /\ Control'
BY DEF Forget, RequestsOK, Control, Stands, NoOrder, NoReq, NoMem, Label

\* A request that goes on without changing what it remembers.
LEMMA MoveTyped ==
    ASSUME RequestsOK, Control, NEW w \in Worker, NEW from, NEW to \in Label, Goto(w, from, to),
           UNCHANGED memVars, Stands(req[w].op, to), to \in {"line", "stock"} => left[w] > 0
    PROVE  RequestsOK' /\ Control'
BY DEF Goto, RequestsOK, Control, memVars

\* What a loaded order and its lines are.
LEMMA LoadTyped ==
    ASSUME RowsOK, RequestsOK, NEW w \in Worker, NEW o \in Order, Load(w, o)
    PROVE  /\ row' \in [Worker -> OrderRow \cup {NoOrder}]
           /\ row'[w] = orders[o] /\ row'[w] # NoOrder
           /\ DOMAIN mem' = Worker
           /\ \A v \in Worker : /\ DOMAIN mem'[v] \subseteq Item
                                /\ \A i \in DOMAIN mem'[v] : mem'[v][i] \in ItemStatus
           /\ \A v \in Worker \ {w} : row'[v] = row[v] /\ mem'[v] = mem[v]
<1>1. DOMAIN LoadItems(o) \subseteq Item
  BY DEF LoadItems, Lines
<1>2. \A i \in DOMAIN LoadItems(o) : LoadItems(o)[i] \in ItemStatus
  BY RowsBuilt DEF LoadItems, Lines, RowsOK
<1>. QED  BY <1>1, <1>2 DEF Load, Exists, RowsOK, RequestsOK

\* A request that starts by loading an order.
LEMMA StartLoadedTyped ==
    ASSUME RowsOK, RequestsOK, Control, NEW w \in Worker, NEW o \in Order, Load(w, o),
           NEW label \in Label \ {"line", "stock"}, NEW r \in Request, Start(w, label, r),
           r.op \notin {"none", "table", "create"}, Stands(r.op, label),
           left' \in [Worker -> Nat], \A v \in Worker \ {w} : left'[v] = left[v]
    PROVE  RequestsOK' /\ Control'
<1>1. RequestsOK'
  BY LoadTyped DEF Start, RequestsOK
<1>2. Control'
  BY LoadTyped DEF Start, RequestsOK, Control
<1>. QED  BY <1>1, <1>2

LEMMA NextTyped ==
    ASSUME TypeOK, Control, [Next]_vars
    PROVE  TypeOK' /\ Control'
<1> USE DEF TypeOK
<1>1. CASE UNCHANGED vars
  BY <1>1 DEF vars, dbVars, memVars, history, RowsOK, RequestsOK, HistoryOK, Control
<1>2. ASSUME NEW w \in Worker, Receive(w)
      PROVE  TypeOK' /\ Control'
  <2>1. ASSUME NEW o \in Order, NEW t \in Table, NEW n \in 0..MaxLines, BeginCreate(w, o, t, n)
        PROVE  TypeOK' /\ Control'
    <3>0. n \in Nat
      BY StatusTypes
    <3> DEFINE r == [op |-> "create", order |-> o, table |-> t, asked |-> n, target |-> "pending"]
    <3>1. r \in Request /\ r.op = "create"
      BY <3>0, StatusTypes DEF Request
    <3>2. RequestsOK' /\ Control'
      <4>1. r \in Request /\ r.op = "create"
        BY <3>1
      <4> HIDE DEF r
      <4>2. Start(w, "insertOrder", r) /\ left' = [left EXCEPT ![w] = n] /\ UNCHANGED <<row, mem>>
        BY <2>1 DEF BeginCreate, r
      <4>3. mem[w] = NoMem /\ row[w] = NoOrder
        BY <4>2 DEF Start, RequestsOK, Control, Stands
      <4>. QED  BY <3>0, <4>1, <4>2, <4>3 DEF Start, RequestsOK, Control, Stands, Label
    <3>3. RowsOK' /\ HistoryOK'
      BY <2>1, <3>0 DEF BeginCreate, dbVars, RowsOK, HistoryOK
    <3>. QED  BY <3>2, <3>3
  <2>2. ASSUME NEW t \in Table, NEW s \in TableTargets, BeginTable(w, t, s)
        PROVE  TypeOK' /\ Control'
    <3> DEFINE r == [op |-> "table", table |-> t, target |-> s]
    <3>1. r \in Request /\ r.op = "table"
      BY StatusTypes DEF Request
    <3>2. RequestsOK' /\ Control'
      <4> HIDE DEF r
      <4>1. Start(w, "readTable", r) /\ UNCHANGED <<left, row, mem>>
        BY <2>2 DEF BeginTable, r
      <4>2. mem[w] = NoMem /\ row[w] = NoOrder
        BY <4>1 DEF Start, RequestsOK, Control, Stands
      <4>. QED  BY <3>1, <4>1, <4>2 DEF Start, RequestsOK, Control, Stands, Label
    <3>3. RowsOK' /\ HistoryOK'
      BY <2>2 DEF BeginTable, dbVars, history, RowsOK, HistoryOK
    <3>. QED  BY <3>2, <3>3
  <2>3. ASSUME NEW o \in Order, NEW label \in Label, NEW r \in Request,
               Load(w, o), Start(w, label, r), UNCHANGED <<dbVars, left, history>>,
               r.op \notin {"none", "table", "create"}, Stands(r.op, label),
               label \notin {"line", "stock"}
        PROVE  TypeOK' /\ Control'
    BY <2>3, StartLoadedTyped DEF dbVars, history, RowsOK, RequestsOK, HistoryOK
  <2>4. \A o \in Order : Exists(o) => orders[o].status \in OrderStatus /\ orders[o].table \in Table
    BY RowsBuilt DEF Exists, RowsOK
  <2>5. ASSUME NEW o \in Order, NEW s \in OrderTargets, BeginStatus(w, o, s)
        PROVE  TypeOK' /\ Control'
    <3> DEFINE r == [op |-> "status", order |-> o, table |-> orders[o].table, target |-> s]
    <3>1. r \in Request /\ r.op = "status"
      BY <2>4, <2>5, RequestsBuilt, StatusTypes DEF BeginStatus, Load, Request
    <3>2. AfterLoad(s) \in Label /\ AfterLoad(s) \in {"readTable", "saveOrder"}
      BY DEF AfterLoad, Label
    <3>3. Load(w, o) /\ Start(w, AfterLoad(s), r) /\ UNCHANGED <<dbVars, left, history>>
      BY <2>5 DEF BeginStatus
    <3>. HIDE DEF r
    <3>. QED  BY <2>3, <3>1, <3>2, <3>3 DEF Stands
  <2>6. ASSUME NEW o \in Order, NEW s \in OrderTargets \cup {"keep"}
        PROVE  Load(w, o) => PatchedStatus(o, s) \in OrderStatus
    BY <2>4, StatusTypes DEF PatchedStatus, Load
  <2>7. ASSUME NEW o \in Order, NEW s \in OrderTargets \cup {"keep"}, BeginPatch(w, o, s)
        PROVE  TypeOK' /\ Control'
    <3> DEFINE r == [op |-> "patch", order |-> o, table |-> orders[o].table,
                     target |-> PatchedStatus(o, s)]
    <3>1. Load(w, o) /\ Start(w, "saveOrder", r) /\ UNCHANGED <<dbVars, left, history>>
      BY <2>7 DEF BeginPatch
    <3>2. r \in Request /\ r.op = "patch"
      BY <2>4, <2>6, <3>1 DEF Load, Request
    <3>. HIDE DEF r
    <3>. QED  BY <2>3, <3>1, <3>2 DEF Stands, Label
  <2>8. ASSUME NEW o \in Order, NEW s \in OrderTargets \cup {"keep"}, NEW n \in 0..MaxLines,
               BeginRewrite(w, o, s, n)
        PROVE  TypeOK' /\ Control'
    <3>0. n \in Nat
      BY StatusTypes
    <3> DEFINE r == [op |-> "rewrite", order |-> o, table |-> orders[o].table,
                     asked |-> n, target |-> PatchedStatus(o, s)]
    <3>1. /\ Load(w, o) /\ Start(w, "dropItems", r) /\ UNCHANGED <<dbVars, history>>
          /\ left' = [left EXCEPT ![w] = n]
      BY <2>8 DEF BeginRewrite
    <3>2. r \in Request /\ r.op = "rewrite"
      BY <2>4, <2>6, <3>0, <3>1 DEF Load, Request
    <3>. HIDE DEF r
    <3>3. "dropItems" \in Label \ {"line", "stock"} /\ Stands(r.op, "dropItems")
      BY <3>2 DEF Stands, Label
    <3>4. left' \in [Worker -> Nat] /\ \A v \in Worker \ {w} : left'[v] = left[v]
      BY <3>0, <3>1 DEF RequestsOK
    <3>5. RequestsOK' /\ Control'
      BY <3>1, <3>2, <3>3, <3>4, StartLoadedTyped
    <3>. QED  BY <3>1, <3>5 DEF dbVars, history, RowsOK, HistoryOK
  <2>9. ASSUME NEW o \in Order, BeginRemove(w, o)
        PROVE  TypeOK' /\ Control'
    <3> DEFINE r == [op |-> "remove", order |-> o, table |-> orders[o].table,
                     target |-> orders[o].status]
    <3>1. Load(w, o) /\ Start(w, "dropItems", r) /\ UNCHANGED <<dbVars, left, history>>
      BY <2>9 DEF BeginRemove
    <3>2. r \in Request /\ r.op = "remove"
      BY <2>4, <3>1 DEF Load, Request
    <3>. HIDE DEF r
    <3>. QED  BY <2>3, <3>1, <3>2 DEF Stands, Label
  <2>10. ASSUME NEW op \in {"item", "kitchen"}, NEW o \in Order, NEW i \in Item,
                NEW s \in ItemTargets, BeginItem(w, op, o, i, s)
         PROVE  TypeOK' /\ Control'
    <3> DEFINE r == [op |-> op, order |-> o, item |-> i, target |-> s]
    <3>1. Load(w, o) /\ Start(w, "saveItem", r) /\ UNCHANGED <<dbVars, left, history>>
      BY <2>10 DEF BeginItem
    <3>2. r \in Request /\ r.op \in {"item", "kitchen"}
      BY StatusTypes DEF Request
    <3>. HIDE DEF r
    <3>. QED  BY <2>3, <3>1, <3>2 DEF Stands, Label
  <2>11. Desk[w] \subseteq Order
    BY OrderFlowAssumption
  <2>. QED  BY <1>2, <2>1, <2>2, <2>5, <2>7, <2>8, <2>9, <2>10, <2>11 DEF Receive
<1>3. ASSUME NEW w \in Worker, Proceed(w)
      PROVE  TypeOK' /\ Control'
  <2>0. /\ req[w] \in Request \cup {NoReq} /\ req[w].op \in Endpoint \cup {"none"}
        /\ req[w].op \notin {"none", "table"} => req[w].order \in Order
        /\ req[w].op \notin {"none", "table"} => req[w].target \in OrderStatus
        /\ req[w].op \notin {"none", "item", "kitchen"} => req[w].table \in Table
        /\ req[w].op = "table" => req[w].target \in TableStatus
        /\ req[w].op \in {"item", "kitchen"} => req[w].item \in Item /\ req[w].target \in ItemStatus
        /\ req[w].op \in {"create", "rewrite"} => req[w].asked \in Nat
        /\ Stands(req[w].op, pc[w])
        /\ pc[w] \in {"line", "stock"} => left[w] > 0
        /\ left[w] \in Nat
    BY RequestFields DEF RequestsOK, Control
  <2>1. CASE InsertOrder(w)
    <3>1. pc[w] = "insertOrder" /\ req[w].op = "create"
      BY <2>0, <2>1 DEF InsertOrder, Goto, Stands
    <3>2. RequestsOK' /\ Control'
      BY <2>0, <2>1, <3>1, MoveTyped DEF InsertOrder, LoopOrSave, Stands, Label
    <3>3. RowsOK' /\ HistoryOK'
      BY <2>0, <2>1, <3>1, RowsBuilt DEF InsertOrder, history, RowsOK, HistoryOK
    <3>. QED  BY <3>2, <3>3
  <2>2. CASE InsertLine(w)
    <3>1. pc[w] = "line" /\ req[w].op \in {"create", "rewrite"}
      BY <2>0, <2>2 DEF InsertLine, Goto, Stands
    <3>2. RequestsOK' /\ Control'
      BY <2>0, <2>2, <3>1, MoveTyped DEF InsertLine, Stands, Label
    <3>3. [status |-> "pending", order |-> req[w].order] \in ItemRow
      BY <2>0, <3>1, RowsBuilt, StatusTypes
    <3>4. RowsOK' /\ HistoryOK'
      BY <2>2, <3>3 DEF InsertLine, Fresh, history, RowsOK, HistoryOK
    <3>. QED  BY <3>2, <3>4
  <2>3. CASE DecreaseStock(w)
    <3>1. pc[w] = "stock" /\ req[w].op \in {"create", "rewrite"} /\ left[w] - 1 \in Nat
      BY <2>0, <2>3 DEF DecreaseStock, Goto, Stands
    <3>2. /\ LoopOrSave(req[w].op, left[w] - 1) \in Label
          /\ Stands(req[w].op, LoopOrSave(req[w].op, left[w] - 1))
          /\ LoopOrSave(req[w].op, left[w] - 1) \in {"line", "stock"} => left[w] - 1 > 0
      BY <3>1 DEF LoopOrSave, Stands, Label
    <3>3. RequestsOK' /\ Control'
      BY <2>3, <3>1, <3>2 DEF DecreaseStock, Goto, RequestsOK, Control
    <3>4. RowsOK' /\ HistoryOK'
      BY <2>0, <2>3, <3>1 DEF DecreaseStock, history, RowsOK, HistoryOK
    <3>. QED  BY <3>3, <3>4
  <2>4. CASE SaveTotal(w)
    <3>1. pc[w] = "saveTotal" /\ req[w].op = "create"
      BY <2>0, <2>4 DEF SaveTotal, Goto, Stands
    <3>2. RequestsOK' /\ Control'
      BY <2>0, <2>4, <3>1, MoveTyped DEF SaveTotal, Stands, Label
    <3>3. Restated(NewOrder(req[w].table), "pending", req[w].asked) \in OrderRow
      BY <2>0, <3>1, RowsBuilt, StatusTypes
    <3>4. RowsOK' /\ HistoryOK'
      BY <2>4, <3>3 DEF SaveTotal, history, RowsOK, HistoryOK
    <3>. QED  BY <3>2, <3>4
  <2>5. CASE Reply(w)
    <3>1. pc[w] = "reply" /\ req[w].op = "create"
      BY <2>0, <2>5 DEF Reply, Answer, Goto, Stands
    <3>2. RequestsOK' /\ Control'
      BY <2>5, EndTyped DEF Reply, Answer, Goto
    <3>3. RowsOK' /\ HistoryOK'
      BY <2>0, <2>5, <3>1 DEF Reply, dbVars, RowsOK, HistoryOK
    <3>. QED  BY <3>2, <3>3
  <2>6. CASE ReadTable(w)
    <3>1. req[w].op \in {"create", "status", "remove", "table"}
      BY <2>0, <2>6 DEF ReadTable, Goto, Stands
    <3>2. RequestsOK' /\ Control'
      BY <2>6, <3>1 DEF ReadTable, Goto, OrdersAt, RequestsOK, Control, Stands, Label
    <3>3. RowsOK' /\ HistoryOK'
      BY <2>6 DEF ReadTable, dbVars, history, RowsOK, HistoryOK
    <3>. QED  BY <3>2, <3>3
  <2>7. CASE SaveTable(w)
    <3>1. req[w].op \in {"create", "status", "remove", "table"}
      BY <2>0, <2>7 DEF SaveTable, Stands
    <3>2. TableTarget(req[w]) \in TableStatus
      BY <2>0, <3>1, StatusTypes DEF TableTarget
    <3>3. RowsOK' /\ HistoryOK'
      BY <2>0, <2>7, <3>2 DEF SaveTable, history, RowsOK, HistoryOK
    <3>4. RequestsOK' /\ Control'
      BY <2>7, <3>1, MoveTyped, EndTyped DEF SaveTable, Answer, Goto, Stands, Label
    <3>. QED  BY <3>3, <3>4
  <2>8. CASE SaveOrder(w)
    <3>1. /\ req[w].op \in {"status", "patch", "kitchen"} /\ req[w].order \in Order
          /\ row[w] \in OrderRow
      BY <2>0, <2>8 DEF SaveOrder, Answer, Goto, RequestsOK, Control, Stands
    <3>2. RequestsOK' /\ Control'
      BY <2>8, EndTyped DEF SaveOrder, Answer, Goto
    <3>3. Restated(row[w], req[w].target, row[w].total) \in OrderRow
      BY <2>0, <3>1, RowsBuilt
    <3>4. WriteBack(req[w].order, mem[w]) \in [Item -> ItemRow \cup {NoItem}]
      BY <3>1, RowsBuilt DEF WriteBack, RowsOK, RequestsOK
    <3>5. RowsOK' /\ HistoryOK'
      BY <2>8, <3>3, <3>4 DEF SaveOrder, history, RowsOK, HistoryOK
    <3>. QED  BY <3>2, <3>5
  <2>9. CASE DropItems(w)
    <3>1. req[w].op \in {"rewrite", "remove"}
      BY <2>0, <2>9 DEF DropItems, Goto, Stands
    <3>2. RequestsOK' /\ Control'
      <4>1. CASE req[w].op = "remove"
        BY <2>9, <4>1, MoveTyped DEF DropItems, Stands, Label
      <4>2. CASE req[w].op = "rewrite"
        BY <2>0, <2>9, <4>2, MoveTyped DEF DropItems, LoopOrSave, Stands, Label
      <4>. QED  BY <3>1, <4>1, <4>2
    <3>3. RowsOK' /\ HistoryOK'
      BY <2>0, <2>9, <3>1 DEF DropItems, RowsOK, HistoryOK
    <3>. QED  BY <3>2, <3>3
  <2>10. CASE SaveRewrite(w)
    <3>1. /\ req[w].op = "rewrite" /\ req[w].order \in Order
          /\ row[w] \in OrderRow
      BY <2>0, <2>10 DEF SaveRewrite, RequestsOK, Control
    <3>2. RequestsOK' /\ Control'
      BY <2>10, EndTyped DEF SaveRewrite, Answer, Goto
    <3>3. Restated(row[w], req[w].target, req[w].asked) \in OrderRow
      BY <2>0, <3>1, RowsBuilt
    <3>4. PICK again \in Injection(DOMAIN mem[w], Fresh) :
            /\ items' = WriteBack(req[w].order, Reinserted(mem[w], again))
            /\ used' = used \cup Range(again)
      BY <2>10 DEF SaveRewrite
    <3>5. /\ DOMAIN Reinserted(mem[w], again) \subseteq Item
          /\ \A i \in DOMAIN Reinserted(mem[w], again) : Reinserted(mem[w], again)[i] \in ItemStatus
          /\ Range(again) \subseteq Item
      BY <3>4 DEF Reinserted, Injection, Range, Fresh, RequestsOK
    <3>6. WriteBack(req[w].order, Reinserted(mem[w], again)) \in [Item -> ItemRow \cup {NoItem}]
      BY <3>1, <3>5, RowsBuilt DEF WriteBack, RowsOK
    <3>7. RowsOK' /\ HistoryOK'
      BY <2>10, <3>3, <3>4, <3>5, <3>6 DEF SaveRewrite, history, RowsOK, HistoryOK
    <3>. QED  BY <3>2, <3>7
  <2>11. CASE DropOrder(w)
    <3>1. req[w].op = "remove"
      BY <2>0, <2>11 DEF DropOrder, Goto, Stands
    <3>2. RequestsOK' /\ Control'
      BY <2>11, <3>1, MoveTyped DEF DropOrder, Stands, Label
    <3>3. RowsOK' /\ HistoryOK'
      BY <2>11 DEF DropOrder, history, RowsOK, HistoryOK
    <3>. QED  BY <3>2, <3>3
  <2>12. CASE FindPending(w)
    <3>1. req[w].op = "remove"
      BY <2>0, <2>12 DEF FindPending, Stands
    <3>2. RequestsOK' /\ Control'
      BY <2>12, <3>1, MoveTyped, EndTyped DEF FindPending, Answer, Goto, Stands, Label
    <3>3. RowsOK' /\ HistoryOK'
      BY <2>12 DEF FindPending, dbVars, history, RowsOK, HistoryOK
    <3>. QED  BY <3>2, <3>3
  <2>13. CASE SaveItem(w)
    <3>1. req[w].op \in {"item", "kitchen"}
      BY <2>0, <2>13 DEF SaveItem, Stands
    <3>2. RequestsOK' /\ Control'
      BY <2>13, <3>1, MoveTyped, EndTyped DEF SaveItem, Answer, Goto, Stands, Label
    <3>3. req[w].target \in ItemStatus /\ req[w].order \in Order
      BY <2>0, <3>1
    <3>4. [status |-> req[w].target, order |-> req[w].order] \in ItemRow
      BY <3>3, RowsBuilt
    <3>5. RowsOK' /\ HistoryOK'
      BY <2>13, <3>4 DEF SaveItem, history, RowsOK, HistoryOK
    <3>. QED  BY <3>2, <3>5
  <2>14. CASE RollUp(w)
    <3>1. req[w].op = "kitchen" /\ row[w] # NoOrder
      BY <2>0, <2>14 DEF RollUp, Stands, Control
    <3>2. CASE Answer(w, "rollUp") /\ UNCHANGED <<dbVars, history>>
      BY <3>2, EndTyped DEF Answer, Goto, dbVars, history, RowsOK, HistoryOK
    <3>3. ASSUME NEW s, Goto(w, "rollUp", "loadOrder"), UNCHANGED <<dbVars, history>>,
                 req' = [req EXCEPT ![w] = RolledUp(@, OrderStatusOf(s))],
                 UNCHANGED <<left, row, mem, seen>>
          PROVE  TypeOK' /\ Control'
      <4>1. OrderStatusOf(s) \in ItemStatus
        BY StatusTypes DEF OrderStatusOf
      <4>2. RolledUp(req[w], OrderStatusOf(s)) \in Request
        BY <2>0, <3>1, <4>1, RequestsBuilt DEF RolledUp, Request
      <4>3. RolledUp(req[w], OrderStatusOf(s)).op = "kitchen"
        BY DEF RolledUp
      <4>4. RequestsOK' /\ Control'
        BY <3>1, <3>3, <4>2, <4>3 DEF Goto, RequestsOK, Control, Stands, Label
      <4>. QED  BY <3>3, <4>4 DEF dbVars, history, RowsOK, HistoryOK
    <3>. QED  BY <2>14, <3>2, <3>3 DEF RollUp
  <2>15. CASE LoadOrder(w)
    <3>1. req[w].op = "kitchen" /\ req[w].order \in Order
      BY <2>0, <2>15 DEF LoadOrder, Goto, Stands
    <3>2. RequestsOK' /\ Control'
      BY <2>15, <3>1, LoadTyped DEF LoadOrder, Goto, RequestsOK, Control, Stands, Label
    <3>3. RowsOK' /\ HistoryOK'
      BY <2>15 DEF LoadOrder, dbVars, history, RowsOK, HistoryOK
    <3>. QED  BY <3>2, <3>3
  <2>. QED  BY <1>3, <2>1, <2>2, <2>3, <2>4, <2>5, <2>6, <2>7, <2>8, <2>9, <2>10,
               <2>11, <2>12, <2>13, <2>14, <2>15 DEF Proceed
<1>4. ASSUME NEW w \in Worker, Fail(w)
      PROVE  TypeOK' /\ Control'
  BY <1>4, EndTyped DEF Fail, dbVars, history, RowsOK, HistoryOK
<1>. QED  BY <1>1, <1>2, <1>3, <1>4 DEF Next

\* Rows, requests and loaded objects stay well-formed in every execution.
THEOREM TypeCorrect == Spec => []TypeOK
<1>. QED  BY InitTyped, NextTyped, PTL DEF Spec

(***************************************************************************)
(* Lines and totals                                                        *)
(***************************************************************************)

Preserved == OneOwner /\ OneCreation /\ Intact /\ LinesKept /\ TotalWholeOrZero

\* The requests other than w are left alone.
Others(w) ==
    \A v \in Worker \ {w} : /\ pc'[v] = pc[v] /\ req'[v] = req[v] /\ left'[v] = left[v]
                            /\ row'[v] = row[v] /\ mem'[v] = mem[v]

LEMMA LinesFinite == \A o \in Order : IsFiniteSet(Lines(o)) /\ Cardinality(Lines(o)) \in Nat
<1>. TAKE o \in Order
<1>1. Lines(o) \in SUBSET Item
  BY DEF Lines
<1>2. IsFiniteSet(Lines(o))
  BY <1>1, FS_Subset, OrderFlowAssumption
<1>. QED  BY <1>2, FS_CardinalityType

LEMMA InitPreserved == Init => Preserved
<1>. HAVE Init
<1>1. \A o \in Order : Lines(o) = {}
  BY DEF Init, Lines
<1>. QED  BY <1>1 DEF Init, Preserved, OneOwner, OneCreation, Intact, LinesKept, TotalWholeOrZero,
                      Exists, Held, OnOrder, NoReq, NoMem

\* A step of w that leaves the database as it was, whatever w then remembers
\* being owned by its order.
LEMMA QuietStep ==
    ASSUME TypeOK, Preserved, NEW w \in Worker, Others(w),
           UNCHANGED <<orders, items, used, booked, placed, dismantled>>,
           OnOrder(w)' => booked[req'[w].order] # -1 /\ Knows(w)',
           \A i \in Held(w)' :
                /\ i \in used
                /\ items[i] # NoItem => items[i].order = req'[w].order
                /\ \A v \in Worker \ {w} : i \in Held(v) => req[v].order = req'[w].order,
           req'[w].op = "create" =>
                /\ req[w].op = "create"
                /\ req'[w].order = req[w].order /\ req'[w].asked = req[w].asked
    PROVE  Preserved'
<1>1. \A o \in Order : Lines(o)' = Lines(o)
  BY DEF Lines
<1>2. \A o \in Order : Exists(o)' <=> Exists(o)
  BY DEF Exists
<1>3. \A v \in Worker \ {w} : /\ Held(v)' = Held(v) /\ (OnOrder(v)' <=> OnOrder(v))
                              /\ Inserted(v)' = Inserted(v)
  BY DEF Others, Held, OnOrder, Inserted
<1>4. OneOwner'
  BY <1>3 DEF Others, Preserved, OneOwner
<1>5. OneCreation'
  BY <1>1, <1>2, <1>3 DEF Others, Preserved, OneCreation
<1>6. \A v \in Worker \ {w} : OnOrder(v) => (Knows(v)' <=> Knows(v))
  <2>. TAKE v \in Worker \ {w}
  <2>. HAVE OnOrder(v)
  <2>1. req[v].order \in Order
    BY RequestFields DEF OnOrder, TypeOK, RequestsOK
  <2>. QED  BY <1>1, <1>2, <1>3, <2>1 DEF Others, Knows
<1>7. Intact'
  BY <1>3, <1>6 DEF Preserved, Intact
<1>8. LinesKept' /\ TotalWholeOrZero'
  BY <1>1, <1>2 DEF Preserved, LinesKept, TotalWholeOrZero, TypeOK, HistoryOK
<1>. QED  BY <1>4, <1>5, <1>7, <1>8 DEF Preserved

\* A request that ends, the database as it was.
LEMMA EndPreserves ==
    ASSUME TypeOK, Preserved, NEW w \in Worker,
           pc' = [pc EXCEPT ![w] = "idle"], Forget(w),
           UNCHANGED <<orders, items, used, booked, placed, dismantled>>
    PROVE  Preserved'
<1>1. Others(w) /\ req'[w] = NoReq /\ mem'[w] = NoMem
  BY DEF Others, Forget, TypeOK, RequestsOK
<1>2. Held(w)' = {} /\ ~OnOrder(w)' /\ req'[w].op = "none"
  BY <1>1 DEF Held, OnOrder, NoReq, NoMem
<1>. QED  BY <1>1, <1>2, QuietStep

\* A request that loads an order, the database as it was.
LEMMA LoadPreserves ==
    ASSUME TypeOK, Preserved, NEW w \in Worker, NEW o \in Order, Load(w, o), Others(w),
           UNCHANGED <<orders, items, used, booked, placed, dismantled>>,
           req'[w].order = o, req'[w].op \notin {"none", "table", "create"},
           req'[w].op \in {"item", "kitchen"} =>
                \/ req'[w].item \in Lines(o)
                \/ req'[w].item \in Held(w) /\ req[w].order = o /\ OnOrder(w)
                   /\ pc[w] # "insertOrder",
           req'[w].op \in {"status", "patch", "rewrite", "remove", "item", "kitchen"},
           \/ pc'[w] \in {"dropItems", "saveItem"}
           \/ pc'[w] \in {"readTable", "saveOrder"} /\ req'[w].op \in {"status", "patch", "kitchen"}
    PROVE  Preserved'
<1>0. /\ row'[w] = orders[o] /\ row'[w] # NoOrder /\ Exists(o) /\ mem'[w] = LoadItems(o)
  BY DEF Load, Exists, TypeOK, RequestsOK
<1>1. /\ Lines(o)' = Lines(o) /\ Exists(o)' /\ booked[o] # -1
  BY <1>0 DEF Lines, Exists, Preserved, OneCreation
<1>2. Held(w)' \subseteq Lines(o) \cup (IF req'[w].op \in {"item", "kitchen"} THEN {req'[w].item} ELSE {})
  BY <1>0 DEF Held, LoadItems
<1>3. o \notin dismantled => Held(w)' \subseteq Lines(o)
  BY <1>2 DEF Preserved, Intact, Knows
<1>4. \A i \in Held(w)' :
        /\ i \in used
        /\ items[i] # NoItem => items[i].order = o
        /\ \A v \in Worker \ {w} : i \in Held(v) => req[v].order = o
  BY <1>2 DEF Lines, Preserved, OneOwner
<1>5. o \notin dismantled => row'[w].total \in {0, booked[o]}
  BY <1>0 DEF Preserved, TotalWholeOrZero
<1>6. Knows(w)'
  BY <1>1, <1>3, <1>5 DEF Knows
<1>. QED  BY <1>1, <1>4, <1>6, QuietStep

\* While w works on an order, no other request is about to insert its row.
LEMMA RowInserted ==
    ASSUME TypeOK, Control, Preserved, NEW w \in Worker, OnOrder(w), NEW v \in Worker \ {w},
           OnOrder(v), req[v].order = req[w].order
    PROVE  pc[v] # "insertOrder"
<1>. SUFFICES ASSUME pc[v] = "insertOrder" PROVE FALSE
  OBVIOUS
<1>1. req[v].op = "create"
  BY DEF Control, Stands
<1>2. ~Exists(req[w].order) /\ req[w].order \notin dismantled
  BY DEF Preserved, Intact, Knows
<1>3. pc[w] = "insertOrder"
  BY <1>2 DEF Preserved, Intact, Knows
<1>4. req[w].op = "create"
  BY <1>3 DEF Control, Stands
<1>. QED  BY <1>1, <1>4 DEF Preserved, OneCreation

\* A step of w that writes rows of its own order o only, under line ids that are
\* new or that it holds, and loses none of them unless o counts as dismantled.
LEMMA OrderStep ==
    ASSUME TypeOK, Control, Preserved, NEW w \in Worker, OnOrder(w), Others(w),
           NEW o \in Order, o = req[w].order,
           UNCHANGED <<booked, placed>>,
           \A p \in Order \ {o} : orders'[p] = orders[p],
           used \subseteq used',
           \A i \in Item :
                \/ items'[i] = items[i]
                \/ items'[i] = NoItem /\ (items[i] # NoItem => items[i].order = o)
                \/ /\ items'[i] # NoItem /\ items'[i].order = o
                   /\ items[i] # NoItem => items[i].order = o
                   /\ i \in used' /\ (i \in used => i \in Held(w)),
           dismantled' \in {dismantled, dismantled \cup {o}},
           o \notin dismantled' =>
                /\ Exists(o)' /\ Lines(o) \subseteq Lines(o)'
                /\ Lines(o)' = Lines(o) \/ req[w].op = "create"
                /\ orders'[o].total \in {0, booked[o]},
           \/ UNCHANGED <<req, row, mem>> /\ Knows(w)'
           \/ req'[w] = NoReq /\ mem'[w] = NoMem
    PROVE  Preserved'
<1>1. \A p \in Order \ {o} : /\ Lines(p)' = Lines(p)
                             /\ Exists(p)' <=> Exists(p)
  BY DEF Lines, Exists
<1>2. \A v \in Worker \ {w} : /\ Held(v)' = Held(v) /\ (OnOrder(v)' <=> OnOrder(v))
                              /\ Inserted(v)' = Inserted(v)
  BY DEF Others, Held, OnOrder, Inserted
<1>3. \/ /\ Held(w)' = Held(w) /\ OnOrder(w)' /\ req'[w] = req[w] /\ Knows(w)'
      \/ Held(w)' = {} /\ ~OnOrder(w)' /\ req'[w].op = "none"
  BY DEF Held, OnOrder, NoReq, NoMem
<1>4. \A v \in Worker : Held(v) \subseteq Item
  BY RequestFields DEF Held, TypeOK, RequestsOK
<1>5. OneOwner'
  <2>1. \A i \in Item : items'[i] # NoItem => i \in used'
    BY DEF Preserved, OneOwner
  <2>2. ASSUME NEW v \in Worker, NEW i \in Held(v)
        PROVE  /\ i \in used'
               /\ items'[i] # NoItem => items'[i].order = req[v].order
    BY <1>4 DEF Preserved, OneOwner
  <2>. QED  BY <1>2, <1>3, <2>1, <2>2 DEF Others, Preserved, OneOwner
<1>6. OneCreation'
  <2>1. booked[o] # -1
    BY DEF Preserved, OneCreation
  <2>2. \A v \in Worker : req'[v].op # "none" => req'[v] = req[v]
    BY <1>3 DEF Others
  <2>3. \A v \in Worker : OnOrder(v)' => OnOrder(v)
    BY <2>2 DEF OnOrder
  <2>. QED  BY <1>1, <2>1, <2>2, <2>3 DEF Preserved, OneCreation, OnOrder
<1>7. ASSUME NEW v \in Worker \ {w}, OnOrder(v)
      PROVE  Knows(v)'
  <2>1. req[v].order \in Order /\ Knows(v)
    BY <1>7, RequestFields DEF OnOrder, Preserved, Intact, TypeOK, RequestsOK
  <2>2. CASE req[v].order # o
    BY <1>1, <1>2, <2>1, <2>2 DEF Others, Knows
  <2>3. CASE req[v].order = o
    <3>1. pc[v] # "insertOrder"
      BY <1>7, <2>3, RowInserted
    <3>2. req[w].op = "create" => req[v].op # "create"
      BY <2>3 DEF Preserved, OneCreation
    <3>. QED  BY <1>2, <2>1, <2>3, <3>1, <3>2 DEF Others, Knows
  <2>. QED  BY <2>2, <2>3
<1>8. Intact'
  BY <1>2, <1>3, <1>7 DEF Preserved, Intact
<1>9. LinesKept' /\ TotalWholeOrZero'
  <2>1. req[w].op = "create" => o \notin placed
    BY DEF Preserved, OneCreation
  <2>2. \A p \in dismantled : p \in dismantled'
    OBVIOUS
  <2>. QED  BY <1>1, <2>1, <2>2 DEF Preserved, LinesKept, TotalWholeOrZero, TypeOK, HistoryOK
<1>. QED  BY <1>5, <1>6, <1>8, <1>9 DEF Preserved

LEMMA NextPreserved ==
    ASSUME TypeOK, Control, Preserved, [Next]_vars
    PROVE  Preserved'
<1>1. CASE UNCHANGED vars
  <2>1. /\ UNCHANGED <<orders, items, used, booked, placed, dismantled>>
        /\ UNCHANGED <<pc, req, left, row, mem>>
    BY <1>1 DEF vars, dbVars, memVars, history
  <2>2. \A o \in Order : Lines(o)' = Lines(o) /\ (Exists(o)' <=> Exists(o))
    BY <2>1 DEF Lines, Exists
  <2>3. \A v \in Worker : /\ Held(v)' = Held(v) /\ (OnOrder(v)' <=> OnOrder(v))
                          /\ Inserted(v)' = Inserted(v)
    BY <2>1 DEF Held, OnOrder, Inserted
  <2>4. \A v \in Worker : OnOrder(v) => (Knows(v)' <=> Knows(v))
    BY <2>1, <2>2, <2>3, RequestFields DEF OnOrder, Knows, TypeOK, RequestsOK
  <2>. QED  BY <2>1, <2>2, <2>3, <2>4 DEF Preserved, OneOwner, OneCreation, Intact, LinesKept,
                                          TotalWholeOrZero, TypeOK, HistoryOK
<1>2. ASSUME NEW w \in Worker, Receive(w)
      PROVE  Preserved'
  <2>1. ASSUME NEW o \in Order, NEW t \in Table, NEW n \in 0..MaxLines, BeginCreate(w, o, t, n)
        PROVE  Preserved'
    <3>1. /\ pc[w] = "idle" /\ pc'[w] = "insertOrder" /\ n # -1
          /\ req'[w] = [op |-> "create", order |-> o, table |-> t, asked |-> n, target |-> "pending"]
          /\ UNCHANGED <<orders, items, used, row, mem, placed, dismantled>>
          /\ booked[o] = -1 /\ booked' = [booked EXCEPT ![o] = n]
          /\ left'[w] = n /\ Others(w)
      BY <2>1, StatusTypes DEF BeginCreate, Start, Others, dbVars, TypeOK, RequestsOK
    <3>2. /\ req'[w].op = "create" /\ req'[w].order = o /\ req'[w].asked = n
      BY <3>1
    <3>3. mem'[w] = NoMem
      BY <3>1 DEF Control, Stands
    <3>4. Held(w)' = {} /\ OnOrder(w)'
      BY <3>2, <3>3 DEF Held, OnOrder, NoMem
    <3>5. /\ \A p \in Order : Lines(p)' = Lines(p) /\ (Exists(p)' <=> Exists(p))
          /\ \A p \in Order \ {o} : booked'[p] = booked[p]
          /\ booked'[o] = n
          /\ \A v \in Worker \ {w} : /\ Held(v)' = Held(v) /\ (OnOrder(v)' <=> OnOrder(v))
                                     /\ Inserted(v)' = Inserted(v)
      BY <3>1 DEF Lines, Exists, Others, Held, OnOrder, Inserted, TypeOK, HistoryOK
    <3>6. /\ ~Exists(o) /\ Lines(o) = {} /\ o \notin placed /\ o \notin dismantled
          /\ \A v \in Worker : OnOrder(v) => req[v].order # o
      BY <3>1 DEF Preserved, OneCreation
    <3>7. OneOwner'
      BY <3>1, <3>4, <3>5 DEF Others, Preserved, OneOwner
    <3>8. OneCreation'
      BY <3>1, <3>2, <3>5, <3>6 DEF Others, Preserved, OneCreation, OnOrder, TypeOK, HistoryOK
    <3>9. Intact'
      <4>1. Knows(w)'
        BY <3>1, <3>2, <3>5, <3>6 DEF Knows
      <4>2. ASSUME NEW v \in Worker \ {w}, OnOrder(v)
            PROVE  Knows(v)'
        <5>1. req[v].order \in Order \ {o} /\ Knows(v)
          BY <3>6, <4>2, RequestFields DEF OnOrder, Preserved, Intact, TypeOK, RequestsOK
        <5>. QED  BY <3>1, <3>5, <5>1 DEF Others, Knows
      <4>. QED  BY <3>5, <4>1, <4>2 DEF Intact
    <3>10. LinesKept' /\ TotalWholeOrZero'
      BY <3>1, <3>5, <3>6 DEF Preserved, LinesKept, TotalWholeOrZero, TypeOK, HistoryOK
    <3>. QED  BY <3>7, <3>8, <3>9, <3>10 DEF Preserved
  <2>2. ASSUME NEW t \in Table, NEW s \in TableTargets, BeginTable(w, t, s)
        PROVE  Preserved'
    <3>1. /\ pc[w] = "idle" /\ req'[w] = [op |-> "table", table |-> t, target |-> s]
          /\ UNCHANGED <<orders, items, used, mem, booked, placed, dismantled>> /\ Others(w)
      BY <2>2 DEF BeginTable, Start, Others, dbVars, history, TypeOK, RequestsOK
    <3>2. req'[w].op = "table" /\ mem'[w] = NoMem
      BY <3>1 DEF Control, Stands
    <3>3. Held(w)' = {} /\ ~OnOrder(w)'
      BY <3>2 DEF Held, OnOrder, NoMem
    <3>. QED  BY <3>1, <3>2, <3>3, QuietStep
  <2>3. ASSUME NEW o \in Order, NEW label, NEW r, Load(w, o), Start(w, label, r),
               UNCHANGED <<dbVars, history>>, \A v \in Worker \ {w} : left'[v] = left[v],
               r.order = o, r.op \in {"status", "patch", "rewrite", "remove", "item", "kitchen"},
               r.op \in {"item", "kitchen"} => r.item \in Lines(o),
               \/ label \in {"dropItems", "saveItem"}
               \/ label \in {"readTable", "saveOrder"} /\ r.op \in {"status", "patch", "kitchen"}
        PROVE  Preserved'
    <3>1. /\ req'[w] = r /\ pc'[w] = label /\ Others(w)
          /\ UNCHANGED <<orders, items, used, booked, placed, dismantled>>
      BY <2>3 DEF Start, Load, Others, dbVars, history, TypeOK, RequestsOK
    <3>. QED  BY <2>3, <3>1, LoadPreserves
  <2>4. ASSUME NEW o \in Order, NEW s \in OrderTargets, BeginStatus(w, o, s)
        PROVE  Preserved'
    BY <2>3, <2>4 DEF BeginStatus, AfterLoad
  <2>5. ASSUME NEW o \in Order, NEW s \in OrderTargets \cup {"keep"}, BeginPatch(w, o, s)
        PROVE  Preserved'
    BY <2>3, <2>5 DEF BeginPatch
  <2>6. ASSUME NEW o \in Order, NEW s \in OrderTargets \cup {"keep"}, NEW n \in 0..MaxLines,
               BeginRewrite(w, o, s, n)
        PROVE  Preserved'
    BY <2>3, <2>6 DEF BeginRewrite, TypeOK, RequestsOK
  <2>7. ASSUME NEW o \in Order, BeginRemove(w, o)
        PROVE  Preserved'
    BY <2>3, <2>7 DEF BeginRemove
  <2>8. ASSUME NEW op \in {"item", "kitchen"}, NEW o \in Order, NEW i \in Item,
               NEW s \in ItemTargets, BeginItem(w, op, o, i, s)
        PROVE  Preserved'
    BY <2>3, <2>8 DEF BeginItem
  <2>9. Desk[w] \subseteq Order
    BY OrderFlowAssumption
  <2>. QED  BY <1>2, <2>1, <2>2, <2>4, <2>5, <2>6, <2>7, <2>8, <2>9 DEF Receive
<1>3. ASSUME NEW w \in Worker, Proceed(w)
      PROVE  Preserved'
  <2>0. /\ req[w] \in Request \cup {NoReq} /\ Stands(req[w].op, pc[w])
        /\ pc[w] \in {"line", "stock"} => left[w] > 0
        /\ left[w] \in Nat
        /\ OnOrder(w) => /\ req[w].order \in Order /\ Knows(w)
                         /\ booked[req[w].order] # -1
    BY RequestFields DEF OnOrder, Preserved, OneCreation, Intact, TypeOK, RequestsOK, Control
  <2>1. CASE InsertOrder(w)
    <3> DEFINE o == req[w].order
    <3>1. /\ pc[w] = "insertOrder" /\ req[w].op = "create" /\ OnOrder(w)
      BY <2>0, <2>1 DEF InsertOrder, Goto, Stands, OnOrder
    <3>2. /\ o \in Order /\ ~Exists(o) /\ Lines(o) = {} /\ o \notin dismantled
          /\ row[w] = NoOrder /\ mem[w] = NoMem
      BY <2>0, <3>1 DEF Knows, Control
    <3>3. /\ UNCHANGED <<items, used, req, left, row, mem, booked, placed, dismantled>> /\ Others(w)
          /\ orders' = [orders EXCEPT ![o] = NewOrder(req[w].table)]
          /\ pc'[w] = LoopOrSave("create", left[w])
      BY <2>1 DEF InsertOrder, Goto, memVars, history, Others, TypeOK, RequestsOK
    <3>4. /\ orders'[o].total = 0 /\ Exists(o)' /\ Lines(o)' = {}
      BY <3>2, <3>3 DEF Exists, Lines, NewOrder, NoOrder, TypeOK, RowsOK
    <3>5. Knows(w)'
      <4>1. Held(w)' = {}
        BY <3>1, <3>2, <3>3 DEF Held, NoMem
      <4>2. req[w].asked = left[w]
        BY <2>0, <3>1 DEF Knows
      <4>3. pc'[w] = "line" \/ (pc'[w] = "saveTotal" /\ left[w] = 0)
        BY <2>0, <3>3 DEF LoopOrSave
      <4>4. Inserted(w)' = 0
        BY <3>3, <4>2, <4>3 DEF Inserted, TypeOK, RequestsOK
      <4>. QED  BY <3>1, <3>2, <3>3, <3>4, <4>1, <4>3, <4>4, FS_EmptySet DEF Knows
    <3>. QED  BY <3>1, <3>2, <3>3, <3>4, <3>5, OrderStep
  <2>2. CASE InsertLine(w)
    <3> DEFINE o == req[w].order
    <3>1. pc[w] = "line" /\ req[w].op \in {"create", "rewrite"} /\ OnOrder(w)
      BY <2>0, <2>2 DEF InsertLine, Goto, Stands, OnOrder
    <3>2. PICK i \in Fresh : /\ items' = [items EXCEPT ![i] = [status |-> "pending", order |-> o]]
                             /\ used' = used \cup {i}
      BY <2>2 DEF InsertLine
    <3>3. /\ UNCHANGED <<orders, req, left, row, mem, booked, placed, dismantled>> /\ Others(w)
          /\ pc'[w] = "stock" /\ Exists(o) /\ Exists(o)' /\ o \in Order
      BY <2>0, <2>2, <3>1 DEF InsertLine, Goto, memVars, history, Others, Exists, TypeOK, RequestsOK
    <3>4. i \in Item /\ i \notin used /\ items[i] = NoItem
      BY <3>2 DEF Fresh, Preserved, OneOwner
    <3>5. Lines(o)' = Lines(o) \cup {i} /\ i \notin Lines(o)
      <4>1. items'[i] # NoItem /\ items'[i].order = o
        BY <3>2, <3>4 DEF NoItem, TypeOK, RowsOK
      <4>2. \A j \in Item \ {i} : items'[j] = items[j]
        BY <3>2 DEF TypeOK, RowsOK
      <4>. QED  BY <3>3, <3>4, <4>1, <4>2 DEF Lines
    <3>6. Cardinality(Lines(o)') = Cardinality(Lines(o)) + 1
      BY <3>3, <3>5, LinesFinite, FS_AddElement
    <3>7. Knows(w)'
      <4>1. Held(w)' = Held(w)
        BY <3>3 DEF Held
      <4>2. req[w].op = "create" => Inserted(w)' = Inserted(w) + 1
        BY <2>0, <3>1, <3>3, RequestFields DEF Inserted
      <4>3. req[w].op = "rewrite" => o \in dismantled
        BY <2>0, <3>1 DEF Knows
      <4>. QED  BY <2>0, <3>1, <3>3, <3>5, <3>6, <4>1, <4>2, <4>3 DEF Knows
    <3>8. o \notin dismantled => req[w].op = "create" /\ orders[o].total \in {0, booked[o]}
      BY <2>0, <3>1, <3>3 DEF Knows, Preserved, TotalWholeOrZero
    <3>9. \A j \in Item : \/ items'[j] = items[j]
                          \/ /\ items'[j] # NoItem /\ items'[j].order = o
                             /\ items[j] = NoItem /\ j \in used' /\ j \notin used
      BY <3>2, <3>4 DEF NoItem, TypeOK, RowsOK
    <3>. QED  BY <3>1, <3>2, <3>3, <3>5, <3>7, <3>8, <3>9, OrderStep
  <2>3. CASE DecreaseStock(w)
    <3> DEFINE o == req[w].order
    <3>1. pc[w] = "stock" /\ req[w].op \in {"create", "rewrite"} /\ OnOrder(w)
      BY <2>0, <2>3 DEF DecreaseStock, Goto, Stands, OnOrder
    <3>2. /\ UNCHANGED <<orders, items, used, req, row, mem, booked, placed, dismantled>> /\ Others(w)
          /\ pc'[w] = LoopOrSave(req[w].op, left[w] - 1) /\ left'[w] = left[w] - 1
      BY <2>3 DEF DecreaseStock, Goto, history, Others, TypeOK, RequestsOK
    <3>3. /\ Held(w)' = Held(w) /\ (Exists(o)' <=> Exists(o)) /\ Lines(o)' = Lines(o)
      BY <3>2 DEF Held, Exists, Lines
    <3>4. \/ pc'[w] = "line"
          \/ pc'[w] = "saveTotal" /\ left'[w] = 0 /\ req[w].op = "create"
          \/ pc'[w] = "saveOrder" /\ req[w].op = "rewrite"
      BY <2>0, <3>1, <3>2 DEF LoopOrSave
    <3>5. req[w].op = "create" => Inserted(w)' = Inserted(w)
      BY <2>0, <3>1, <3>2, <3>4, RequestFields DEF Inserted
    <3>6. Knows(w)'
      BY <2>0, <3>1, <3>2, <3>3, <3>4, <3>5 DEF Knows
    <3>. QED  BY <2>0, <3>1, <3>2, <3>3, <3>6, QuietStep DEF Preserved, OneOwner
  <2>4. CASE SaveTotal(w)
    <3> DEFINE o == req[w].order
    <3>1. pc[w] = "saveTotal" /\ req[w].op = "create" /\ OnOrder(w)
      BY <2>0, <2>4 DEF SaveTotal, Goto, Stands, OnOrder
    <3>2. /\ UNCHANGED <<items, used, req, left, row, mem, booked, placed, dismantled>> /\ Others(w)
          /\ orders' = [orders EXCEPT ![o] = Restated(NewOrder(req[w].table), "pending", req[w].asked)]
          /\ pc'[w] = "readTable"
      BY <2>4 DEF SaveTotal, Goto, memVars, history, Others, TypeOK, RequestsOK
    <3>3. booked[o] = req[w].asked /\ row[w] = NoOrder
      BY <3>1 DEF Preserved, OneCreation, Control
    <3>4. /\ orders'[o].total = booked[o] /\ Exists(o)' /\ Lines(o)' = Lines(o)
      BY <2>0, <3>1, <3>2, <3>3 DEF Exists, Lines, Restated, NoOrder, TypeOK, RowsOK
    <3>5. Held(w)' = Held(w) /\ Inserted(w)' = Inserted(w)
      BY <3>1, <3>2 DEF Held, Inserted
    <3>6. Knows(w)'
      BY <2>0, <3>1, <3>2, <3>3, <3>4, <3>5 DEF Knows
    <3>. QED  BY <2>0, <3>1, <3>2, <3>4, <3>6, OrderStep
  <2>5. CASE Reply(w)
    <3> DEFINE o == req[w].order
    <3>1. pc[w] = "reply" /\ req[w].op = "create" /\ OnOrder(w)
      BY <2>0, <2>5 DEF Reply, Answer, Goto, Stands, OnOrder
    <3>2. /\ UNCHANGED <<orders, items, used, booked, dismantled>> /\ placed' = placed \cup {o}
          /\ pc' = [pc EXCEPT ![w] = "idle"] /\ Forget(w)
          /\ Others(w) /\ req'[w] = NoReq /\ mem'[w] = NoMem
      BY <2>5 DEF Reply, Answer, Goto, Forget, dbVars, Others, TypeOK, RequestsOK
    <3>3. /\ \A p \in Order : Lines(p)' = Lines(p) /\ (Exists(p)' <=> Exists(p))
          /\ \A v \in Worker \ {w} : /\ Held(v)' = Held(v) /\ (OnOrder(v)' <=> OnOrder(v))
                                     /\ Inserted(v)' = Inserted(v)
          /\ Held(w)' = {} /\ ~OnOrder(w)' /\ req'[w].op = "none"
      BY <3>2 DEF Lines, Exists, Others, Held, OnOrder, Inserted, NoReq, NoMem
    <3>4. o \notin dismantled => Exists(o) /\ Cardinality(Lines(o)) = booked[o]
      BY <2>0, <3>1 DEF Knows, Inserted, Preserved, OneCreation
    <3>5. OneOwner'
      BY <3>2, <3>3 DEF Others, Preserved, OneOwner
    <3>6. OneCreation'
      BY <2>0, <3>1, <3>2, <3>3 DEF Others, Preserved, OneCreation
    <3>7. Intact'
      <4>1. \A v \in Worker \ {w} : OnOrder(v) => (Knows(v)' <=> Knows(v))
        BY <3>2, <3>3, RequestFields DEF OnOrder, Others, Knows, TypeOK, RequestsOK
      <4>. QED  BY <3>3, <4>1 DEF Preserved, Intact
    <3>8. LinesKept' /\ TotalWholeOrZero'
      BY <2>0, <3>1, <3>2, <3>3, <3>4 DEF Preserved, LinesKept, TotalWholeOrZero, TypeOK, HistoryOK
    <3>. QED  BY <3>5, <3>6, <3>7, <3>8 DEF Preserved
  <2>6. ASSUME OnOrder(w) => ~(pc[w] = "insertOrder"),
               OnOrder(w) /\ pc'[w] \in {"readTable", "saveTable"} /\ req[w].op = "remove"
                    => req[w].order \in dismantled,
               UNCHANGED <<orders, items, used, left, row, mem, booked, placed, dismantled>>,
               Others(w), req'[w].op = req[w].op,
               req'[w].order = req[w].order, req'[w].item = req[w].item,
               req[w].op = "create" => req'[w] = req[w] /\ pc[w] \notin {"line", "stock"},
               pc'[w] \notin {"insertOrder", "line", "stock", "dropOrder", "findPending"},
               req[w].op # "rewrite"
        PROVE  Preserved'
    <3> DEFINE o == req[w].order
    <3>1. Held(w)' = Held(w) /\ (OnOrder(w)' <=> OnOrder(w))
      BY <2>6 DEF Held, OnOrder
    <3>2. Lines(o)' = Lines(o) /\ (Exists(o)' <=> Exists(o))
      BY <2>6 DEF Lines, Exists
    <3>3. req[w].op = "create" => Inserted(w)' = Inserted(w)
      BY <2>6 DEF Inserted
    <3>4. OnOrder(w) => Knows(w)'
      BY <2>0, <2>6, <3>1, <3>2, <3>3 DEF Knows
    <3>. QED  BY <2>0, <2>6, <3>1, <3>4, QuietStep DEF Preserved, OneOwner
  <2>7. CASE ReadTable(w)
    <3>1. /\ UNCHANGED <<orders, items, used, req, left, row, mem, booked, placed, dismantled>>
          /\ Others(w) /\ pc[w] = "readTable" /\ pc'[w] = "saveTable"
      BY <2>7 DEF ReadTable, Goto, dbVars, history, Others, TypeOK, RequestsOK
    <3>. QED  BY <2>0, <2>6, <3>1 DEF Stands, Knows
  <2>8. CASE SaveTable(w)
    <3>1. UNCHANGED <<orders, items, used, booked, placed, dismantled>> /\ pc[w] = "saveTable"
      BY <2>8 DEF SaveTable, history
    <3>2. CASE Answer(w, "saveTable")
      BY <3>1, <3>2, EndPreserves DEF Answer, Goto
    <3>3. CASE /\ Goto(w, "saveTable", "reply") \/ Goto(w, "saveTable", "saveOrder")
               /\ UNCHANGED memVars /\ req[w].op \in {"create", "status"}
      <4>1. /\ UNCHANGED <<req, left, row, mem>> /\ Others(w) /\ pc'[w] \in {"reply", "saveOrder"}
        BY <3>3 DEF Goto, memVars, Others, TypeOK, RequestsOK
      <4>. QED  BY <2>6, <3>1, <3>3, <4>1
    <3>. QED  BY <2>8, <3>2, <3>3 DEF SaveTable
  <2>9. CASE FindPending(w)
    <3>1. /\ UNCHANGED <<orders, items, used, booked, placed, dismantled>> /\ pc[w] = "findPending"
          /\ req[w].op = "remove" /\ OnOrder(w)
      BY <2>0, <2>9 DEF FindPending, dbVars, history, Stands, OnOrder
    <3>2. CASE Answer(w, "findPending")
      BY <3>1, <3>2, EndPreserves DEF Answer, Goto
    <3>3. CASE Goto(w, "findPending", "readTable") /\ UNCHANGED memVars
      <4>1. UNCHANGED <<req, left, row, mem>> /\ Others(w) /\ pc'[w] = "readTable"
        BY <3>3 DEF Goto, memVars, Others, TypeOK, RequestsOK
      <4>. QED  BY <2>0, <2>6, <3>1, <4>1 DEF Knows
    <3>. QED  BY <2>9, <3>2, <3>3 DEF FindPending
  <2>10. CASE RollUp(w)
    <3>1. /\ UNCHANGED <<orders, items, used, booked, placed, dismantled>> /\ pc[w] = "rollUp"
          /\ req[w].op = "kitchen"
      BY <2>0, <2>10 DEF RollUp, dbVars, history, Stands
    <3>2. CASE Answer(w, "rollUp")
      BY <3>1, <3>2, EndPreserves DEF Answer, Goto
    <3>3. ASSUME NEW s, Goto(w, "rollUp", "loadOrder"),
                 req' = [req EXCEPT ![w] = RolledUp(@, OrderStatusOf(s))],
                 UNCHANGED <<left, row, mem, seen>>
          PROVE  Preserved'
      <4>1. /\ req'[w] = RolledUp(req[w], OrderStatusOf(s)) /\ pc'[w] = "loadOrder" /\ Others(w)
        BY <3>3 DEF Goto, Others, TypeOK, RequestsOK
      <4>2. /\ req'[w].op = req[w].op /\ req'[w].order = req[w].order /\ req'[w].item = req[w].item
        BY <3>1, <4>1 DEF RolledUp
      <4>. QED  BY <2>6, <3>1, <3>3, <4>1, <4>2
    <3>. QED  BY <2>10, <3>2, <3>3 DEF RollUp
  <2>11. CASE LoadOrder(w)
    <3> PICK o \in Order : o = req[w].order
      BY <2>0, <2>11 DEF LoadOrder, Goto, Stands, OnOrder
    <3>1. /\ pc[w] = "loadOrder" /\ pc'[w] = "saveOrder" /\ req' = req /\ Load(w, o) /\ Others(w)
          /\ UNCHANGED <<orders, items, used, booked, placed, dismantled>>
      BY <2>11 DEF LoadOrder, Load, Goto, Others, dbVars, history, TypeOK, RequestsOK
    <3>2. req[w].op = "kitchen" /\ OnOrder(w) /\ req[w].item \in Held(w)
      BY <2>0, <3>1 DEF Stands, OnOrder, Held
    <3>. QED  BY <3>1, <3>2, LoadPreserves
  <2>12. CASE SaveOrder(w)
    <3> PICK o \in Order : o = req[w].order
      BY <2>0, <2>12 DEF SaveOrder, Answer, Goto, Stands, OnOrder
    <3>1. /\ pc[w] = "saveOrder" /\ req[w].op \in {"status", "patch", "kitchen"} /\ OnOrder(w)
          /\ row[w] # NoOrder /\ row[w] \in OrderRow
      BY <2>0, <2>12 DEF SaveOrder, Answer, Goto, Stands, OnOrder, Control, TypeOK, RequestsOK
    <3>2. /\ UNCHANGED <<used, booked, placed, dismantled>>
          /\ orders' = [orders EXCEPT ![o] = Restated(row[w], req[w].target, row[w].total)]
          /\ items' = WriteBack(o, mem[w])
          /\ Others(w) /\ req'[w] = NoReq /\ mem'[w] = NoMem
      BY <2>12 DEF SaveOrder, Answer, Goto, Forget, history, Others, TypeOK, RequestsOK
    <3>3. DOMAIN mem[w] \subseteq Held(w)
      BY DEF Held
    <3>4. \A i \in Item : i \in DOMAIN mem[w] =>
             /\ items'[i] # NoItem /\ items'[i].order = o /\ i \in used
             /\ items[i] # NoItem => items[i].order = o
      BY <3>2, <3>3 DEF WriteBack, NoItem, Preserved, OneOwner, TypeOK, RequestsOK
    <3>5. \A i \in Item : i \notin DOMAIN mem[w] => items'[i] = items[i]
      BY <3>2 DEF WriteBack
    <3>6. o \notin dismantled =>
             /\ DOMAIN mem[w] \subseteq Lines(o)
             /\ row[w].total \in {0, booked[o]}
      BY <2>0, <3>1, <3>3 DEF Knows
    <3>7. o \notin dismantled => Lines(o)' = Lines(o)
      BY <3>4, <3>5, <3>6 DEF Lines
    <3>8. orders'[o].total = row[w].total /\ Exists(o)'
      <4>1. req[w].target \in OrderStatus /\ row[w].total \in Nat
        BY <3>1, RequestFields, RowsBuilt DEF OnOrder, TypeOK, RequestsOK
      <4>2. /\ Restated(row[w], req[w].target, row[w].total) # NoOrder
            /\ Restated(row[w], req[w].target, row[w].total).total = row[w].total
        BY <3>1, <4>1, RowsBuilt DEF Restated
      <4>. QED  BY <3>2, <4>2 DEF Exists, TypeOK, RowsOK
    <3>. QED  BY <3>1, <3>2, <3>3, <3>4, <3>5, <3>6, <3>7, <3>8, OrderStep
  <2>13. CASE DropItems(w)
    <3> PICK o \in Order : o = req[w].order
      BY <2>0, <2>13 DEF DropItems, Goto, Stands, OnOrder
    <3>1. /\ pc[w] = "dropItems" /\ req[w].op \in {"rewrite", "remove"} /\ OnOrder(w)
      BY <2>0, <2>13 DEF DropItems, Goto, Stands, OnOrder
    <3>2. /\ UNCHANGED <<orders, used, req, left, row, mem, booked, placed>>
          /\ items' = [i \in Item |-> IF i \in DOMAIN mem[w] THEN NoItem ELSE items[i]]
          /\ dismantled' = dismantled \cup {o} /\ Others(w)
          /\ pc'[w] = IF req[w].op = "remove" THEN "dropOrder" ELSE LoopOrSave("rewrite", left[w])
      BY <2>13 DEF DropItems, Goto, memVars, Others, TypeOK, RequestsOK
    <3>3. \A i \in Item : \/ items'[i] = items[i]
                          \/ items'[i] = NoItem /\ (items[i] # NoItem => items[i].order = o)
      BY <3>2 DEF Preserved, OneOwner, Held
    <3>4. pc'[w] # "insertOrder"
      BY <3>2 DEF LoopOrSave
    <3>5. Knows(w)'
      BY <3>2, <3>4 DEF Knows
    <3>. QED  BY <3>1, <3>2, <3>3, <3>5, OrderStep
  <2>14. CASE SaveRewrite(w)
    <3> PICK o \in Order : o = req[w].order
      BY <2>0, <2>14 DEF SaveRewrite, OnOrder
    <3>1. /\ pc[w] = "saveOrder" /\ req[w].op = "rewrite" /\ OnOrder(w)
      BY <2>14 DEF SaveRewrite, Answer, Goto, OnOrder
    <3>2. /\ UNCHANGED <<booked, placed, dismantled>>
          /\ \A p \in Order \ {o} : orders'[p] = orders[p]
          /\ Others(w) /\ req'[w] = NoReq /\ mem'[w] = NoMem
      BY <2>14 DEF SaveRewrite, Answer, Goto, Forget, history, Others, TypeOK, RowsOK, RequestsOK
    <3>3. PICK again \in Injection(DOMAIN mem[w], Fresh) :
            /\ items' = WriteBack(o, Reinserted(mem[w], again))
            /\ used' = used \cup Range(again)
      BY <2>14 DEF SaveRewrite
    <3>4. Range(again) \subseteq Fresh /\ DOMAIN Reinserted(mem[w], again) = Range(again)
      BY <3>3 DEF Injection, Range, Reinserted
    <3>5. \A i \in Item :
             \/ items'[i] = items[i]
             \/ /\ items'[i] # NoItem /\ items'[i].order = o
                /\ items[i] = NoItem /\ i \in used' /\ i \notin used
      BY <3>3, <3>4 DEF WriteBack, NoItem, Fresh, Preserved, OneOwner
    <3>6. o \in dismantled
      BY <2>0, <3>1 DEF Knows
    <3>. QED  BY <3>1, <3>2, <3>3, <3>5, <3>6, OrderStep
  <2>15. CASE DropOrder(w)
    <3> PICK o \in Order : o = req[w].order
      BY <2>0, <2>15 DEF DropOrder, Goto, Stands, OnOrder
    <3>1. /\ pc[w] = "dropOrder" /\ req[w].op = "remove" /\ OnOrder(w)
      BY <2>0, <2>15 DEF DropOrder, Goto, Stands, OnOrder
    <3>2. /\ UNCHANGED <<items, used, req, left, row, mem, booked, placed, dismantled>>
          /\ \A p \in Order \ {o} : orders'[p] = orders[p]
          /\ pc'[w] = "findPending" /\ Others(w)
      BY <2>15 DEF DropOrder, Goto, memVars, history, Others, TypeOK, RowsOK, RequestsOK
    <3>3. o \in dismantled
      BY <2>0, <3>1 DEF Knows
    <3>4. Knows(w)'
      BY <3>2, <3>3 DEF Knows
    <3>. QED  BY <3>1, <3>2, <3>3, <3>4, OrderStep
  <2>16. CASE SaveItem(w)
    <3> PICK o \in Order : o = req[w].order
      BY <2>0, <2>16 DEF SaveItem, Stands, OnOrder
    <3>1. /\ pc[w] = "saveItem" /\ req[w].op \in {"item", "kitchen"} /\ OnOrder(w)
          /\ req[w].item \in Item /\ req[w].item \in Held(w)
      BY <2>0, <2>16, RequestFields DEF SaveItem, Stands, OnOrder, Held
    <3>2. /\ UNCHANGED <<orders, used, booked, placed, dismantled>> /\ Exists(o) /\ Others(w)
          /\ items' = [items EXCEPT ![req[w].item] = [status |-> req[w].target, order |-> o]]
      BY <2>16 DEF SaveItem, Goto, Answer, Forget, memVars, history, Others, TypeOK, RequestsOK
    <3>3. /\ items'[req[w].item] # NoItem /\ items'[req[w].item].order = o
          /\ items[req[w].item] # NoItem => items[req[w].item].order = o
          /\ req[w].item \in used
          /\ \A i \in Item \ {req[w].item} : items'[i] = items[i]
      BY <3>1, <3>2 DEF NoItem, Preserved, OneOwner, TypeOK, RowsOK
    <3>4. Exists(o)'
      BY <3>2 DEF Exists
    <3>5. o \notin dismantled =>
            /\ req[w].item \in Lines(o) /\ Lines(o)' = Lines(o)
            /\ orders'[o].total \in {0, booked[o]}
      <4>1. o \notin dismantled => req[w].item \in Lines(o)
        BY <2>0, <3>1 DEF Knows
      <4>2. o \notin dismantled => Lines(o)' = Lines(o)
        BY <3>3, <4>1 DEF Lines
      <4>. QED  BY <3>2, <4>1, <4>2 DEF Preserved, TotalWholeOrZero
    <3>6. \/ UNCHANGED <<req, row, mem>> /\ Knows(w)'
          \/ req'[w] = NoReq /\ mem'[w] = NoMem
      <4>1. CASE Answer(w, "saveItem")
        BY <4>1 DEF Answer, Forget, TypeOK, RequestsOK
      <4>2. CASE Goto(w, "saveItem", "rollUp") /\ UNCHANGED memVars
        <5>1. UNCHANGED <<req, row, mem>> /\ pc'[w] = "rollUp"
          BY <4>2 DEF Goto, memVars, TypeOK, RequestsOK
        <5>2. Held(w)' = Held(w)
          BY <5>1 DEF Held
        <5>. QED  BY <2>0, <3>1, <3>2, <3>4, <3>5, <5>1, <5>2 DEF Knows
      <4>. QED  BY <2>16, <4>1, <4>2 DEF SaveItem
    <3>. QED  BY <3>1, <3>2, <3>3, <3>4, <3>5, <3>6, OrderStep
  <2>. QED  BY <1>3, <2>1, <2>2, <2>3, <2>4, <2>5, <2>7, <2>8, <2>9, <2>10, <2>11, <2>12,
               <2>13, <2>14, <2>15, <2>16 DEF Proceed
<1>4. ASSUME NEW w \in Worker, Fail(w)
      PROVE  Preserved'
  BY <1>4, EndPreserves DEF Fail, dbVars, history
<1>. QED  BY <1>1, <1>2, <1>3, <1>4 DEF Next

\* In every execution a request stands where its endpoint has an await, a line id
\* has one owner and an order one creation, and what a request remembers of an
\* order is still there until lines are deleted (order.service.ts).
THEOREM InvCorrect == Spec => []Inv
<1>1. Init => TypeOK /\ Control /\ Preserved
  BY InitTyped, InitPreserved
<1>2. TypeOK /\ Control /\ Preserved /\ [Next]_vars => (TypeOK /\ Control /\ Preserved)'
  BY NextTyped, NextPreserved
<1>3. TypeOK /\ Control /\ Preserved => Inv
  BY DEF Preserved, Inv
<1>. QED  BY <1>1, <1>2, <1>3, PTL DEF Spec

\* An order whose creation succeeded keeps its row and exactly the lines it was
\* created with until some request deletes lines of it, whatever requests run
\* beside each other and wherever they die.
THEOREM LinesKeptCorrect == Spec => []LinesKept
<1>1. Inv => LinesKept
  BY DEF Inv
<1>. QED  BY <1>1, InvCorrect, PTL

\* The total stored with an order is zero or the price of all its lines,
\* whichever stale row is saved last (create, updateStatus, update).
THEOREM TotalWholeOrZeroCorrect == Spec => []TotalWholeOrZero
<1>1. Inv => TotalWholeOrZero
  BY DEF Inv
<1>. QED  BY <1>1, InvCorrect, PTL
(***************************************************************************)
(* One request at a time on an order                                       *)
(***************************************************************************)

\* Rows of other orders, and what is recorded of them, are not the business of w.
OthersOrders(w) ==
    \A p \in Order : (OnOrder(w) => req[w].order # p) =>
        /\ orders'[p] = orders[p]
        /\ p \in placed' <=> p \in placed
        /\ p \in dismantled' <=> p \in dismantled

OthersLines(w) ==
    \A i \in Item :
        \/ items'[i] = items[i]
        \/ /\ OnOrder(w)
           /\ items[i] # NoItem => items[i].order = req[w].order
           /\ items'[i] # NoItem => items'[i].order = req[w].order

\* The number of lines booked for an order is recorded once.
BookedOnce == \A p \in Order : booked[p] # -1 => booked'[p] = booked[p]

\* A request keeps to itself: the memory of the others and the rows of orders
\* that are not its own stay as they are.
LEMMA Frame ==
    ASSUME TypeOK, Control, Preserved, NEW w \in Worker, Receive(w) \/ Proceed(w) \/ Fail(w)
    PROVE  Others(w) /\ OthersOrders(w) /\ OthersLines(w) /\ BookedOnce
<1> DEFINE Goal == Others(w) /\ OthersOrders(w) /\ OthersLines(w) /\ BookedOnce
<1>0. ASSUME Others(w), UNCHANGED <<orders, items, placed, dismantled>>, BookedOnce
      PROVE  Goal
  BY <1>0 DEF OthersOrders, OthersLines
<1>00. UNCHANGED booked => BookedOnce
  BY DEF BookedOnce
<1>1. CASE Receive(w)
  <2>1. ASSUME NEW o \in Order, NEW t \in Table, NEW n \in 0..MaxLines, BeginCreate(w, o, t, n)
        PROVE  Goal
    <3>1. BookedOnce
      BY <2>1 DEF BeginCreate, BookedOnce, TypeOK, HistoryOK
    <3>2. Others(w) /\ UNCHANGED <<orders, items, placed, dismantled>>
      BY <2>1 DEF BeginCreate, Start, Others, dbVars, TypeOK, RequestsOK
    <3>. QED  BY <1>0, <3>1, <3>2
  <2>2. ASSUME NEW t \in Table, NEW s \in TableTargets, BeginTable(w, t, s)
        PROVE  Goal
    <3>1. Others(w) /\ UNCHANGED <<orders, items, booked, placed, dismantled>>
      BY <2>2 DEF BeginTable, Start, Others, dbVars, history, TypeOK, RequestsOK
    <3>. QED  BY <1>0, <1>00, <3>1
  <2>3. ASSUME NEW o \in Order, NEW label, NEW r, Load(w, o), Start(w, label, r),
               UNCHANGED <<dbVars, history>>, \A v \in Worker \ {w} : left'[v] = left[v]
        PROVE  Goal
    <3>1. Others(w) /\ UNCHANGED <<orders, items, booked, placed, dismantled>>
      BY <2>3 DEF Start, Load, Others, dbVars, history, TypeOK, RequestsOK
    <3>. QED  BY <1>0, <1>00, <3>1
  <2>4. ASSUME NEW o \in Order, NEW s \in OrderTargets, BeginStatus(w, o, s)
        PROVE  Goal
    BY <2>3, <2>4 DEF BeginStatus
  <2>5. ASSUME NEW o \in Order, NEW s \in OrderTargets \cup {"keep"}, BeginPatch(w, o, s)
        PROVE  Goal
    BY <2>3, <2>5 DEF BeginPatch
  <2>6. ASSUME NEW o \in Order, NEW s \in OrderTargets \cup {"keep"}, NEW n \in 0..MaxLines,
               BeginRewrite(w, o, s, n)
        PROVE  Goal
    BY <2>3, <2>6 DEF BeginRewrite, TypeOK, RequestsOK
  <2>7. ASSUME NEW o \in Order, BeginRemove(w, o)
        PROVE  Goal
    BY <2>3, <2>7 DEF BeginRemove
  <2>8. ASSUME NEW op \in {"item", "kitchen"}, NEW o \in Order, NEW i \in Item,
               NEW s \in ItemTargets, BeginItem(w, op, o, i, s)
        PROVE  Goal
    BY <2>3, <2>8 DEF BeginItem
  <2>9. Desk[w] \subseteq Order
    BY OrderFlowAssumption
  <2>. QED  BY <1>1, <2>1, <2>2, <2>4, <2>5, <2>6, <2>7, <2>8, <2>9 DEF Receive
<1>2. CASE Fail(w)
  <2>1. Others(w) /\ UNCHANGED <<orders, items, booked, placed, dismantled>>
    BY <1>2 DEF Fail, Forget, Others, dbVars, history, TypeOK, RequestsOK
  <2>. QED  BY <1>0, <1>00, <2>1
<1>3. CASE Proceed(w)
  <2>0. Stands(req[w].op, pc[w])
    BY DEF Control
  <2> DEFINE o == req[w].order
  <2>1. CASE InsertOrder(w) \/ SaveTotal(w)
    <3>1. OnOrder(w)
      BY <2>0, <2>1 DEF InsertOrder, SaveTotal, Goto, Stands, OnOrder
    <3>2. Others(w) /\ UNCHANGED <<items, booked, placed, dismantled>>
      BY <2>1 DEF InsertOrder, SaveTotal, Goto, memVars, history, Others, TypeOK, RequestsOK
    <3>3. \A p \in Order \ {o} : orders'[p] = orders[p]
      BY <2>1 DEF InsertOrder, SaveTotal, TypeOK, RowsOK
    <3>. QED  BY <1>00, <3>1, <3>2, <3>3 DEF OthersOrders, OthersLines
  <2>2. CASE InsertLine(w)
    <3>1. OnOrder(w)
      BY <2>0, <2>2 DEF InsertLine, Goto, Stands, OnOrder
    <3>2. Others(w) /\ UNCHANGED <<orders, booked, placed, dismantled>>
      BY <2>2 DEF InsertLine, Goto, memVars, history, Others, TypeOK, RequestsOK
    <3>3. PICK i \in Fresh : items' = [items EXCEPT ![i] = [status |-> "pending", order |-> o]]
      BY <2>2 DEF InsertLine
    <3>4. i \in Item /\ items[i] = NoItem
      BY <3>3 DEF Fresh, Preserved, OneOwner
    <3>5. OthersLines(w)
      BY <3>1, <3>3, <3>4 DEF OthersLines, NoItem, TypeOK, RowsOK
    <3>. QED  BY <1>00, <3>2, <3>5 DEF OthersOrders
  <2>3. CASE DecreaseStock(w)
    <3>1. Others(w) /\ UNCHANGED <<orders, items, booked, placed, dismantled>>
      BY <2>3 DEF DecreaseStock, Goto, history, Others, TypeOK, RequestsOK
    <3>. QED  BY <1>0, <1>00, <3>1
  <2>4. CASE Reply(w)
    <3>1. OnOrder(w)
      BY <2>0, <2>4 DEF Reply, Answer, Goto, Stands, OnOrder
    <3>2. /\ Others(w) /\ UNCHANGED <<orders, items, booked, dismantled>>
          /\ placed' = placed \cup {o}
      BY <2>4 DEF Reply, Answer, Goto, Forget, dbVars, Others, TypeOK, RequestsOK
    <3>. QED  BY <1>00, <3>1, <3>2 DEF OthersOrders, OthersLines
  <2>5. CASE ReadTable(w)
    <3>1. Others(w) /\ UNCHANGED <<orders, items, booked, placed, dismantled>>
      BY <2>5 DEF ReadTable, Goto, dbVars, history, Others, TypeOK, RequestsOK
    <3>. QED  BY <1>0, <1>00, <3>1
  <2>6. CASE SaveTable(w)
    <3>1. Others(w) /\ UNCHANGED <<orders, items, booked, placed, dismantled>>
      BY <2>6 DEF SaveTable, Answer, Forget, Goto, memVars, history, Others, TypeOK, RequestsOK
    <3>. QED  BY <1>0, <1>00, <3>1
  <2>7. ASSUME NEW loaded, OnOrder(w), items' = WriteBack(o, loaded),
               \A i \in DOMAIN loaded : items[i] # NoItem => items[i].order = o
        PROVE  OthersLines(w)
    BY <2>7 DEF OthersLines, WriteBack
  <2>8. CASE SaveOrder(w)
    <3>1. OnOrder(w)
      BY <2>0, <2>8 DEF SaveOrder, Answer, Goto, Stands, OnOrder
    <3>2. Others(w) /\ UNCHANGED <<booked, placed, dismantled>>
      BY <2>8 DEF SaveOrder, Answer, Goto, Forget, history, Others, TypeOK, RequestsOK
    <3>3. \A p \in Order \ {o} : orders'[p] = orders[p]
      BY <2>8 DEF SaveOrder, TypeOK, RowsOK
    <3>4. \A i \in DOMAIN mem[w] : items[i] # NoItem => items[i].order = o
      BY DEF Preserved, OneOwner, Held, TypeOK, RequestsOK
    <3>5. OthersLines(w)
      BY <2>7, <2>8, <3>1, <3>4 DEF SaveOrder
    <3>. QED  BY <1>00, <3>1, <3>2, <3>3, <3>5 DEF OthersOrders
  <2>9. CASE DropItems(w)
    <3>1. OnOrder(w)
      BY <2>0, <2>9 DEF DropItems, Goto, Stands, OnOrder
    <3>2. /\ Others(w) /\ UNCHANGED <<orders, booked, placed>>
          /\ dismantled' = dismantled \cup {o}
      BY <2>9 DEF DropItems, Goto, memVars, Others, TypeOK, RequestsOK
    <3>3. \A i \in DOMAIN mem[w] : items[i] # NoItem => items[i].order = o
      BY DEF Preserved, OneOwner, Held, TypeOK, RequestsOK
    <3>4. OthersLines(w)
      BY <2>9, <3>1, <3>3 DEF DropItems, OthersLines
    <3>. QED  BY <1>00, <3>1, <3>2, <3>4 DEF OthersOrders
  <2>10. CASE SaveRewrite(w)
    <3>1. OnOrder(w)
      BY <2>10 DEF SaveRewrite, OnOrder
    <3>2. Others(w) /\ UNCHANGED <<booked, placed, dismantled>>
      BY <2>10 DEF SaveRewrite, Answer, Goto, Forget, history, Others, TypeOK, RequestsOK
    <3>3. \A p \in Order \ {o} : orders'[p] = orders[p]
      BY <2>10 DEF SaveRewrite, TypeOK, RowsOK
    <3>4. PICK again \in Injection(DOMAIN mem[w], Fresh) :
             items' = WriteBack(o, Reinserted(mem[w], again))
      BY <2>10 DEF SaveRewrite
    <3>5. \A i \in DOMAIN Reinserted(mem[w], again) : i \in Item /\ items[i] = NoItem
      BY <3>4 DEF Injection, Range, Reinserted, Fresh, Preserved, OneOwner
    <3>6. OthersLines(w)
      BY <2>7, <3>1, <3>4, <3>5
    <3>. QED  BY <1>00, <3>1, <3>2, <3>3, <3>6 DEF OthersOrders
  <2>11. CASE DropOrder(w)
    <3>1. OnOrder(w)
      BY <2>0, <2>11 DEF DropOrder, Goto, Stands, OnOrder
    <3>2. Others(w) /\ UNCHANGED <<items, booked, placed, dismantled>>
      BY <2>11 DEF DropOrder, Goto, memVars, history, Others, TypeOK, RequestsOK
    <3>3. \A p \in Order \ {o} : orders'[p] = orders[p]
      BY <2>11 DEF DropOrder, TypeOK, RowsOK
    <3>. QED  BY <1>00, <3>1, <3>2, <3>3 DEF OthersOrders, OthersLines
  <2>12. CASE FindPending(w) \/ RollUp(w) \/ LoadOrder(w)
    <3>1. UNCHANGED <<orders, items, booked, placed, dismantled>>
      BY <2>12 DEF FindPending, RollUp, LoadOrder, dbVars, history
    <3>2. Others(w)
      <4>1. CASE FindPending(w)
        BY <4>1 DEF FindPending, Answer, Forget, Goto, memVars, Others, TypeOK, RequestsOK
      <4>2. CASE RollUp(w)
        BY <4>2 DEF RollUp, Answer, Forget, Goto, Others, TypeOK, RequestsOK
      <4>3. CASE LoadOrder(w)
        BY <4>3 DEF LoadOrder, Load, Goto, Others, TypeOK, RequestsOK
      <4>. QED  BY <2>12, <4>1, <4>2, <4>3
    <3>. QED  BY <1>0, <1>00, <3>1, <3>2
  <2>13. CASE SaveItem(w)
    <3>1. OnOrder(w) /\ req[w].item \in Held(w) /\ req[w].item \in Item
      BY <2>0, <2>13, RequestFields DEF SaveItem, Stands, OnOrder, Held, TypeOK, RequestsOK
    <3>2. Others(w) /\ UNCHANGED <<orders, booked, placed, dismantled>>
      BY <2>13 DEF SaveItem, Goto, Answer, Forget, memVars, history, Others, TypeOK, RequestsOK
    <3>3. items[req[w].item] # NoItem => items[req[w].item].order = o
      BY <3>1 DEF Preserved, OneOwner
    <3>4. items' = [items EXCEPT ![req[w].item] = [status |-> req[w].target, order |-> o]]
      BY <2>13 DEF SaveItem
    <3>5. OthersLines(w)
      BY <3>1, <3>3, <3>4 DEF OthersLines, TypeOK, RowsOK
    <3>. QED  BY <1>00, <3>2, <3>5 DEF OthersOrders
  <2>. QED  BY <1>3, <2>1, <2>2, <2>3, <2>4, <2>5, <2>6, <2>8, <2>9, <2>10, <2>11, <2>12, <2>13
            DEF Proceed
<1>. QED  BY <1>1, <1>2, <1>3

\* A request works on the orders of its desk.
AtDesk == \A w \in Worker : OnOrder(w) => req[w].order \in Desk[w]

\* A request received: what it is about, and that nothing is written yet.
LEMMA Received ==
    ASSUME TypeOK, Control, NEW w \in Worker, Receive(w)
    PROVE  /\ ~OnOrder(w) /\ UNCHANGED <<orders, items, tables, placed, dismantled>>
           /\ OnOrder(w)' => req'[w].order \in Desk[w]
           /\ \/ req'[w].op = "table"
              \/ req'[w].op = "create" /\ pc'[w] = "insertOrder"
              \/ /\ req'[w].op \notin {"none", "table", "create"}
                 /\ row'[w] = orders[req'[w].order]
                 /\ pc'[w] # "loadOrder"
                 /\ pc'[w] = "saveOrder" =>
                        \/ req'[w].op = "patch"
                        \/ req'[w].op = "status" /\ req'[w].target # "completed"
<1>0. pc[w] = "idle" => ~OnOrder(w)
  BY DEF Control, Stands, OnOrder
<1> DEFINE Goal == /\ ~OnOrder(w) /\ UNCHANGED <<orders, items, tables, placed, dismantled>>
                   /\ OnOrder(w)' => req'[w].order \in Desk[w]
                   /\ \/ req'[w].op = "table"
                      \/ req'[w].op = "create" /\ pc'[w] = "insertOrder"
                      \/ /\ req'[w].op \notin {"none", "table", "create"}
                         /\ row'[w] = orders[req'[w].order]
                         /\ pc'[w] # "loadOrder"
                         /\ pc'[w] = "saveOrder" =>
                                \/ req'[w].op = "patch"
                                \/ req'[w].op = "status" /\ req'[w].target # "completed"
<1>1. ASSUME NEW o \in Desk[w], NEW t \in Table, NEW n \in 0..MaxLines, BeginCreate(w, o, t, n)
      PROVE  Goal
  <2>1. /\ req'[w] = [op |-> "create", order |-> o, table |-> t, asked |-> n, target |-> "pending"]
        /\ pc[w] = "idle" /\ pc'[w] = "insertOrder"
        /\ UNCHANGED <<orders, items, tables, placed, dismantled>>
    BY <1>1 DEF BeginCreate, Start, dbVars, TypeOK, RequestsOK
  <2>2. req'[w].op = "create" /\ req'[w].order = o
    BY <2>1
  <2>. QED  BY <1>0, <2>1, <2>2
<1>2. ASSUME NEW t \in Table, NEW s \in TableTargets, BeginTable(w, t, s)
      PROVE  Goal
  <2>1. /\ req'[w].op = "table" /\ pc[w] = "idle"
        /\ UNCHANGED <<orders, items, tables, placed, dismantled>>
    BY <1>2 DEF BeginTable, Start, dbVars, history, TypeOK, RequestsOK
  <2>2. ~OnOrder(w)'
    BY <2>1 DEF OnOrder
  <2>. QED  BY <1>0, <2>1, <2>2
<1>3. ASSUME NEW o \in Desk[w], NEW label, NEW r, Load(w, o), Start(w, label, r),
             UNCHANGED <<dbVars, history>>, label # "loadOrder",
             r.order = o, r.op \notin {"none", "table", "create"},
             label = "saveOrder" => r.op = "patch" \/ (r.op = "status" /\ r.target # "completed")
      PROVE  Goal
  <2>1. /\ req'[w] = r /\ pc'[w] = label /\ pc[w] = "idle" /\ row'[w] = orders[o]
        /\ UNCHANGED <<orders, items, tables, placed, dismantled>>
    BY <1>3 DEF Start, Load, dbVars, history, TypeOK, RequestsOK
  <2>. QED  BY <1>0, <1>3, <2>1
<1>4. ASSUME NEW o \in Desk[w], NEW s \in OrderTargets, BeginStatus(w, o, s)
      PROVE  Goal
  BY <1>3, <1>4 DEF BeginStatus, AfterLoad
<1>5. ASSUME NEW o \in Desk[w], NEW s \in OrderTargets \cup {"keep"}, BeginPatch(w, o, s)
      PROVE  Goal
  BY <1>3, <1>5 DEF BeginPatch
<1>6. ASSUME NEW o \in Desk[w], NEW s \in OrderTargets \cup {"keep"}, NEW n \in 0..MaxLines,
             BeginRewrite(w, o, s, n)
      PROVE  Goal
  BY <1>3, <1>6 DEF BeginRewrite
<1>7. ASSUME NEW o \in Desk[w], BeginRemove(w, o)
      PROVE  Goal
  BY <1>3, <1>7 DEF BeginRemove
<1>8. ASSUME NEW op \in {"item", "kitchen"}, NEW o \in Desk[w], NEW i \in Item,
             NEW s \in ItemTargets, BeginItem(w, op, o, i, s)
      PROVE  Goal
  BY <1>3, <1>8 DEF BeginItem
<1>. QED  BY <1>1, <1>2, <1>4, <1>5, <1>6, <1>7, <1>8 DEF Receive

\* Where a step of a handler leads.
LEMMA Proceeded ==
    ASSUME TypeOK, Control, NEW w \in Worker, Proceed(w) \/ Fail(w)
    PROVE  \/ req'[w] = NoReq /\ pc'[w] = "idle"
           \/ /\ req'[w] = req[w] /\ pc'[w] # "loadOrder"
              /\ row'[w] = row[w] \/ LoadOrder(w)
              /\ pc'[w] = "saveOrder" =>
                    \/ req[w].op = "rewrite"
                    \/ LoadOrder(w)
                    \/ req[w].op = "status" /\ SaveTable(w)
              /\ pc'[w] \in {"readTable", "saveTable", "reply"} /\ req[w].op = "create" =>
                    SaveTotal(w) \/ pc[w] \in {"readTable", "saveTable"}
           \/ /\ RollUp(w) /\ pc'[w] = "loadOrder" /\ row'[w] = row[w]
              /\ \E s \in CommonStatus(LoadItems(req[w].order)) :
                    req'[w] = RolledUp(req[w], OrderStatusOf(s))
<1>0. Stands(req[w].op, pc[w])
  BY DEF Control
<1> DEFINE Ends == req'[w] = NoReq /\ pc'[w] = "idle"
           Goes == /\ req'[w] = req[w] /\ pc'[w] # "loadOrder"
                   /\ row'[w] = row[w] \/ LoadOrder(w)
                   /\ pc'[w] = "saveOrder" =>
                         \/ req[w].op = "rewrite"
                         \/ LoadOrder(w)
                         \/ req[w].op = "status" /\ SaveTable(w)
                   /\ pc'[w] \in {"readTable", "saveTable", "reply"} /\ req[w].op = "create" =>
                         SaveTotal(w) \/ pc[w] \in {"readTable", "saveTable"}
<1>1. ASSUME NEW from, Answer(w, from)
      PROVE  Ends
  BY <1>1 DEF Answer, Goto, Forget, TypeOK, RequestsOK
<1>2. CASE Fail(w)
  BY <1>2 DEF Fail, Forget, TypeOK, RequestsOK
<1>3. CASE Reply(w) \/ SaveOrder(w) \/ SaveRewrite(w)
  BY <1>1, <1>3 DEF Reply, SaveOrder, SaveRewrite
<1>4. ASSUME NEW from, NEW to, Goto(w, from, to), UNCHANGED <<req, row>>
      PROVE  req'[w] = req[w] /\ row'[w] = row[w] /\ pc[w] = from /\ pc'[w] = to
  BY <1>4 DEF Goto, TypeOK, RequestsOK
<1>5. CASE InsertOrder(w)
  <2>1. /\ Goto(w, "insertOrder", LoopOrSave("create", left[w])) /\ UNCHANGED <<req, row>>
    BY <1>5 DEF InsertOrder, memVars
  <2>2. Goes
    BY <1>4, <2>1 DEF LoopOrSave
  <2>. QED  BY <2>2
<1>6. CASE InsertLine(w)
  <2>1. Goto(w, "line", "stock") /\ UNCHANGED <<req, row>>
    BY <1>6 DEF InsertLine, memVars
  <2>2. Goes
    BY <1>4, <2>1
  <2>. QED  BY <2>2
<1>7. CASE DecreaseStock(w)
  <2>1. Goto(w, "stock", LoopOrSave(req[w].op, left[w] - 1)) /\ UNCHANGED <<req, row>>
    BY <1>7 DEF DecreaseStock
  <2>2. req[w].op \in {"create", "rewrite"}
    BY <1>0, <2>1 DEF Goto, Stands
  <2>3. Goes
    BY <1>4, <2>1, <2>2 DEF LoopOrSave
  <2>. QED  BY <2>3
<1>8. CASE SaveTotal(w)
  <2>1. Goto(w, "saveTotal", "readTable") /\ UNCHANGED <<req, row>>
    BY <1>8 DEF SaveTotal, memVars
  <2>2. Goes
    BY <1>4, <1>8, <2>1
  <2>. QED  BY <2>2
<1>9. CASE ReadTable(w)
  <2>1. Goto(w, "readTable", "saveTable") /\ UNCHANGED <<req, row>>
    BY <1>9 DEF ReadTable
  <2>2. Goes
    BY <1>4, <2>1
  <2>. QED  BY <2>2
<1>10. CASE SaveTable(w)
  <2>1. CASE Answer(w, "saveTable")
    BY <1>1, <2>1
  <2>2. CASE req[w].op = "create" /\ Goto(w, "saveTable", "reply") /\ UNCHANGED memVars
    <3>1. Goes
      BY <1>4, <2>2 DEF memVars
    <3>. QED  BY <3>1
  <2>3. CASE req[w].op = "status" /\ Goto(w, "saveTable", "saveOrder") /\ UNCHANGED memVars
    <3>1. Goes
      BY <1>4, <1>10, <2>3 DEF memVars
    <3>. QED  BY <3>1
  <2>. QED  BY <1>10, <2>1, <2>2, <2>3 DEF SaveTable
<1>11. CASE DropItems(w)
  <2>1. /\ Goto(w, "dropItems", IF req[w].op = "remove" THEN "dropOrder"
                                ELSE LoopOrSave("rewrite", left[w]))
        /\ UNCHANGED <<req, row>>
    BY <1>11 DEF DropItems, memVars
  <2>2. req[w].op \in {"rewrite", "remove"}
    BY <1>0, <2>1 DEF Goto, Stands
  <2>3. Goes
    BY <1>4, <2>1, <2>2 DEF LoopOrSave
  <2>. QED  BY <2>3
<1>12. CASE DropOrder(w)
  <2>1. Goto(w, "dropOrder", "findPending") /\ UNCHANGED <<req, row>>
    BY <1>12 DEF DropOrder, memVars
  <2>2. Goes
    BY <1>4, <2>1
  <2>. QED  BY <2>2
<1>13. CASE FindPending(w)
  <2>1. req[w].op = "remove"
    BY <1>0, <1>13 DEF FindPending, Stands
  <2>2. CASE Answer(w, "findPending")
    BY <1>1, <2>2
  <2>3. CASE Goto(w, "findPending", "readTable") /\ UNCHANGED memVars
    <3>1. Goes
      BY <1>4, <2>1, <2>3 DEF memVars
    <3>. QED  BY <3>1
  <2>. QED  BY <1>13, <2>2, <2>3 DEF FindPending
<1>14. CASE SaveItem(w)
  <2>1. CASE Answer(w, "saveItem")
    BY <1>1, <2>1
  <2>2. CASE Goto(w, "saveItem", "rollUp") /\ UNCHANGED memVars
    <3>1. Goes
      BY <1>4, <2>2 DEF memVars
    <3>. QED  BY <3>1
  <2>. QED  BY <1>14, <2>1, <2>2 DEF SaveItem
<1>15. CASE RollUp(w)
  <2>1. CASE Answer(w, "rollUp")
    BY <1>1, <2>1
  <2>2. ASSUME NEW s \in CommonStatus(LoadItems(req[w].order)), Goto(w, "rollUp", "loadOrder"),
               req' = [req EXCEPT ![w] = RolledUp(@, OrderStatusOf(s))], UNCHANGED row
        PROVE  /\ pc'[w] = "loadOrder" /\ row'[w] = row[w]
               /\ req'[w] = RolledUp(req[w], OrderStatusOf(s))
    BY <2>2 DEF Goto, TypeOK, RequestsOK
  <2>. QED  BY <1>15, <2>1, <2>2 DEF RollUp
<1>16. CASE LoadOrder(w)
  <2>1. req'[w] = req[w] /\ pc'[w] = "saveOrder"
    BY <1>16 DEF LoadOrder, Goto, TypeOK, RequestsOK
  <2>. QED  BY <1>16, <2>1
<1>. QED  BY <1>2, <1>3, <1>5, <1>6, <1>7, <1>8, <1>9, <1>10, <1>11, <1>12, <1>13, <1>14, <1>15,
             <1>16 DEF Proceed

LEMMA NextAtDesk ==
    ASSUME TypeOK, Control, Preserved, AtDesk, [Next]_vars
    PROVE  AtDesk'
<1>1. CASE UNCHANGED vars
  BY <1>1 DEF vars, memVars, AtDesk, OnOrder
<1>2. ASSUME NEW w \in Worker, Receive(w) \/ Proceed(w) \/ Fail(w)
      PROVE  AtDesk'
  <2>1. \A v \in Worker \ {w} : req'[v] = req[v]
    BY <1>2, Frame DEF Others
  <2>2. OnOrder(w)' => req'[w].order \in Desk[w]
    <3>1. CASE Receive(w)
      BY <3>1, Received
    <3>2. CASE Proceed(w) \/ Fail(w)
      <4>1. CASE req'[w] = NoReq
        BY <4>1 DEF NoReq, OnOrder
      <4>2. CASE req'[w] = req[w]
        BY <4>2 DEF OnOrder, AtDesk
      <4>3. ASSUME NEW s, RollUp(w), req'[w] = RolledUp(req[w], s)
            PROVE  req'[w].order \in Desk[w]
        <5>1. OnOrder(w) /\ req'[w].order = req[w].order
          BY <4>3 DEF RollUp, Control, Stands, OnOrder, RolledUp
        <5>. QED  BY <5>1 DEF AtDesk
      <4>. QED  BY <3>2, <4>1, <4>2, <4>3, Proceeded
    <3>. QED  BY <1>2, <3>1, <3>2
  <2>. QED  BY <2>1, <2>2 DEF AtDesk, OnOrder
<1>. QED  BY <1>1, <1>2 DEF Next

\* Requests with desks of their own never work on one order.
LEMMA OrdersApart ==
    ASSUME OwnDesks, AtDesk, NEW v \in Worker, NEW w \in Worker \ {v}, OnOrder(v), OnOrder(w)
    PROVE  req[v].order # req[w].order
BY DEF OwnDesks, AtDesk

(***************************************************************************)
(* The price of a placed order                                             *)
(***************************************************************************)

\* What a request w knows of the price of its order, until lines are deleted: a
\* creation that has saved the total finds it stored, and any other request on an
\* order placed before remembers it.
Priced(w) ==
    LET o == req[w].order IN
    o \notin dismantled =>
        /\ req[w].op = "create" /\ pc[w] \in {"readTable", "saveTable", "reply"} =>
                orders[o].total = booked[o]
        /\ req[w].op # "create" /\ o \in placed => row[w].total = booked[o]

PricedInv == PlacedOrderPriced /\ \A w \in Worker : OnOrder(w) => Priced(w)

\* The step of w, seen from its own order.
LEMMA OwnPriced ==
    ASSUME TypeOK, Control, Preserved, PricedInv, NEW w \in Worker,
           Receive(w) \/ Proceed(w) \/ Fail(w)
    PROVE  /\ OnOrder(w) /\ req[w].order \in placed' \ dismantled' =>
                orders'[req[w].order].total = booked'[req[w].order]
           /\ OnOrder(w)' => Priced(w)'
<1> DEFINE o == req[w].order
           Stored == OnOrder(w) /\ o \in placed' \ dismantled' => orders'[o].total = booked'[o]
<1>0. /\ Stands(req[w].op, pc[w])
      /\ OnOrder(w) => /\ o \in Order /\ Knows(w) /\ Priced(w) /\ booked[o] # -1
                       /\ booked'[o] = booked[o]
  BY RequestFields, Frame DEF Control, OnOrder, Preserved, OneCreation, Intact, PricedInv, BookedOnce,
                              TypeOK, RequestsOK
<1>1. ASSUME UNCHANGED <<orders, placed, dismantled>>
      PROVE  Stored
  BY <1>0, <1>1 DEF PricedInv, PlacedOrderPriced
<1>2. CASE Receive(w)
  <2>1. UNCHANGED <<orders, placed, dismantled>> /\ ~OnOrder(w)
    BY <1>2, Received
  <2>2. \A p \in Order : p \in placed \ dismantled => orders[p].total = booked[p] /\ booked'[p] = booked[p]
    BY <1>2, Frame DEF PricedInv, PlacedOrderPriced, BookedOnce, Preserved, OneCreation
  <2>3. OnOrder(w)' => Priced(w)'
    <3>1. placed \subseteq Order
      BY DEF TypeOK, HistoryOK
    <3>. QED  BY <1>2, <2>1, <2>2, <3>1, Received DEF Priced, OnOrder
  <2>. QED  BY <2>1, <2>3
<1>3. CASE Proceed(w) \/ Fail(w)
  <2>1. Stored
    <3>1. CASE InsertOrder(w) \/ SaveTotal(w)
      <4>1. req[w].op = "create" /\ UNCHANGED placed
        BY <1>0, <3>1 DEF InsertOrder, SaveTotal, Goto, Stands, history
      <4>2. o \notin placed
        BY <4>1 DEF Preserved, OneCreation
      <4>. QED  BY <4>1, <4>2
    <3>2. CASE Reply(w)
      <4>1. OnOrder(w) /\ req[w].op = "create" /\ pc[w] = "reply" /\ UNCHANGED <<orders, dismantled>>
        BY <1>0, <3>2 DEF Reply, Answer, Goto, Stands, OnOrder, dbVars
      <4>. QED  BY <1>0, <4>1 DEF Priced
    <3>3. CASE SaveOrder(w)
      <4>1. /\ OnOrder(w) /\ req[w].op # "create" /\ UNCHANGED <<placed, dismantled>>
            /\ orders' = [orders EXCEPT ![o] = Restated(row[w], req[w].target, row[w].total)]
        BY <1>0, <3>3 DEF SaveOrder, Answer, Goto, Stands, OnOrder, history
      <4>2. orders'[o].total = row[w].total
        BY <1>0, <4>1 DEF Restated, TypeOK, RowsOK
      <4>. QED  BY <1>0, <4>1, <4>2 DEF Priced
    <3>4. CASE DropItems(w)
      <4>1. dismantled' = dismantled \cup {o}
        BY <3>4 DEF DropItems
      <4>. QED  BY <4>1
    <3>5. CASE SaveRewrite(w) \/ DropOrder(w)
      <4>1. OnOrder(w) /\ UNCHANGED dismantled
        BY <1>0, <3>5 DEF SaveRewrite, DropOrder, Goto, Stands, OnOrder, history
      <4>2. o \in dismantled
        BY <1>0, <3>5, <4>1 DEF SaveRewrite, Answer, DropOrder, Goto, Knows
      <4>. QED  BY <4>1, <4>2
    <3>6. CASE InsertLine(w) \/ DecreaseStock(w) \/ ReadTable(w) \/ SaveTable(w) \/ FindPending(w)
      BY <1>1, <3>6 DEF InsertLine, DecreaseStock, ReadTable, SaveTable, FindPending, dbVars, history
    <3>7. CASE SaveItem(w) \/ RollUp(w) \/ LoadOrder(w) \/ Fail(w)
      BY <1>1, <3>7 DEF SaveItem, RollUp, LoadOrder, Fail, dbVars, history
    <3>. QED  BY <1>3, <3>1, <3>2, <3>3, <3>4, <3>5, <3>6, <3>7 DEF Proceed
  <2>2. OnOrder(w)' => Priced(w)'
    <3>1. CASE req'[w] = NoReq
      BY <3>1 DEF NoReq, OnOrder
    <3>2. CASE LoadOrder(w)
      <4>1. /\ UNCHANGED <<req, orders, booked, placed, dismantled>> /\ row'[w] = orders[o]
            /\ req[w].op = "kitchen" /\ OnOrder(w)
        BY <1>0, <3>2 DEF LoadOrder, Load, Goto, Stands, OnOrder, dbVars, history, TypeOK, RequestsOK
      <4>2. o \in placed \ dismantled => orders[o].total = booked[o]
        BY DEF PricedInv, PlacedOrderPriced
      <4>. QED  BY <4>1, <4>2 DEF Priced
    <3>3. CASE SaveTotal(w)
      <4>1. /\ UNCHANGED <<req, booked, dismantled>> /\ req[w].op = "create" /\ OnOrder(w)
            /\ orders' = [orders EXCEPT ![o] =
                            Restated(NewOrder(req[w].table), "pending", req[w].asked)]
        BY <1>0, <3>3 DEF SaveTotal, Goto, Stands, OnOrder, memVars, history
      <4>2. orders'[o].total = req[w].asked
        BY <1>0, <4>1 DEF Restated, TypeOK, RowsOK
      <4>3. req[w].asked = booked[o]
        BY <4>1 DEF Preserved, OneCreation
      <4>. QED  BY <4>1, <4>2, <4>3 DEF Priced
    <3>4. ASSUME OnOrder(w), req'[w].op = req[w].op, req'[w].order = o, row'[w] = row[w],
                 pc'[w] \in {"readTable", "saveTable", "reply"} /\ req[w].op = "create" =>
                    pc[w] \in {"readTable", "saveTable"} /\ orders' = orders,
                 \/ placed' = placed
                 \/ req'[w].op = "create",
                 dismantled \subseteq dismantled'
          PROVE  Priced(w)'
      BY <1>0, <3>4 DEF Priced
    <3>5. dismantled \subseteq dismantled'
      BY <1>3 DEF Proceed, Fail, InsertOrder, InsertLine, DecreaseStock, SaveTotal, Reply, ReadTable,
                  SaveTable, SaveOrder, DropItems, SaveRewrite, DropOrder, FindPending, SaveItem,
                  RollUp, LoadOrder, history
    <3>6. placed' = placed \/ req'[w] = NoReq
      <4>1. CASE Reply(w)
        BY <4>1 DEF Reply, Answer, Forget, TypeOK, RequestsOK
      <4>2. CASE ~Reply(w)
        BY <1>3, <4>2 DEF Proceed, Fail, InsertOrder, InsertLine, DecreaseStock, SaveTotal, ReadTable,
                  SaveTable, SaveOrder, DropItems, SaveRewrite, DropOrder, FindPending, SaveItem,
                  RollUp, LoadOrder, history
      <4>. QED  BY <4>1, <4>2
    <3>7. CASE /\ req'[w] = req[w] /\ row'[w] = row[w] /\ placed' = placed /\ ~SaveTotal(w)
               /\ pc'[w] \in {"readTable", "saveTable", "reply"} /\ req[w].op = "create" =>
                    pc[w] \in {"readTable", "saveTable"}
      <4>1. pc[w] \in {"readTable", "saveTable"} => orders' = orders
        BY <1>3 DEF Proceed, Fail, InsertOrder, InsertLine, DecreaseStock, SaveTotal, Reply, ReadTable,
                  SaveTable, SaveOrder, DropItems, SaveRewrite, DropOrder, FindPending, SaveItem,
                  RollUp, LoadOrder, Answer, Goto, dbVars
      <4>2. OnOrder(w)' <=> OnOrder(w)
        BY <3>7 DEF OnOrder
      <4>. QED  BY <3>4, <3>5, <3>7, <4>1, <4>2
    <3>8. ASSUME NEW s, RollUp(w), req'[w] = RolledUp(req[w], s), row'[w] = row[w],
                 placed' = placed, pc'[w] = "loadOrder"
          PROVE  Priced(w)'
      <4>1. /\ OnOrder(w) /\ req[w].op = "kitchen"
            /\ req'[w].op = "kitchen" /\ req'[w].order = o
        BY <1>0, <3>8 DEF RollUp, Stands, OnOrder, RolledUp
      <4>. QED  BY <3>4, <3>5, <3>8, <4>1
    <3>. QED  BY <1>3, <3>1, <3>2, <3>3, <3>6, <3>7, <3>8, Proceeded
  <2>. QED  BY <2>1, <2>2
<1>. QED  BY <1>2, <1>3

LEMMA NextPriced ==
    ASSUME OwnDesks, TypeOK, Control, Preserved, AtDesk, PricedInv, [Next]_vars
    PROVE  PricedInv'
<1>1. CASE UNCHANGED vars
  BY <1>1 DEF vars, dbVars, memVars, history, PricedInv, PlacedOrderPriced, Priced, OnOrder
<1>2. ASSUME NEW w \in Worker, Receive(w) \/ Proceed(w) \/ Fail(w)
      PROVE  PricedInv'
  <2>1. /\ OnOrder(w) /\ req[w].order \in placed' \ dismantled' =>
                orders'[req[w].order].total = booked'[req[w].order]
        /\ OnOrder(w)' => Priced(w)'
    BY <1>2, OwnPriced
  <2>2. Others(w) /\ OthersOrders(w) /\ BookedOnce
    BY <1>2, Frame
  <2>3. PlacedOrderPriced'
    <3>1. TypeOK'
      BY <1>2, NextTyped DEF Next
    <3>2. ASSUME NEW p \in placed' \ dismantled', OnOrder(w) => req[w].order # p
          PROVE  orders'[p].total = booked'[p]
      <4>1. p \in Order
        BY <3>1 DEF TypeOK, HistoryOK
      <4>2. orders'[p] = orders[p] /\ p \in placed \ dismantled
        BY <2>2, <3>2, <4>1 DEF OthersOrders
      <4>. QED  BY <2>2, <4>1, <4>2 DEF BookedOnce, PricedInv, PlacedOrderPriced, Preserved, OneCreation
    <3>. QED  BY <2>1, <3>2 DEF PlacedOrderPriced
  <2>4. ASSUME NEW v \in Worker \ {w}, OnOrder(v)'
        PROVE  Priced(v)'
    <3>1. /\ pc'[v] = pc[v] /\ req'[v] = req[v] /\ row'[v] = row[v] /\ OnOrder(v) /\ Priced(v)
      BY <2>2, <2>4 DEF Others, OnOrder, PricedInv
    <3>2. req[v].order \in Order /\ booked[req[v].order] # -1
      BY <3>1, RequestFields DEF OnOrder, Preserved, OneCreation, TypeOK, RequestsOK
    <3>3. OnOrder(w) => req[w].order # req[v].order
      BY <3>1, OrdersApart
    <3>. QED  BY <2>2, <3>1, <3>2, <3>3 DEF OthersOrders, BookedOnce, Priced
  <2>. QED  BY <2>1, <2>3, <2>4 DEF PricedInv
<1>. QED  BY <1>1, <1>2 DEF Next

LEMMA InitPriced == Init => AtDesk /\ PricedInv
BY DEF Init, AtDesk, PricedInv, PlacedOrderPriced, OnOrder, NoReq

\* What requests that keep to their own orders know of them.
LEMMA DesksAlways == Spec => [](TypeOK /\ Control /\ Preserved /\ AtDesk)
<1>1. TypeOK /\ Control /\ Preserved /\ AtDesk /\ [Next]_vars
        => (TypeOK /\ Control /\ Preserved /\ AtDesk)'
  BY NextTyped, NextPreserved, NextAtDesk
<1>. QED  BY <1>1, InitTyped, InitPreserved, InitPriced, PTL DEF Spec

\* While no two requests work on one order, a placed order carries the price of
\* all its lines, for any number of orders and requests, updates without items
\* among them, and wherever they die (create, updateStatus, update).
THEOREM PlacedOrderPricedCorrect ==
    ASSUME OwnDesks
    PROVE  Spec => []PlacedOrderPriced
<1>1. TypeOK /\ Control /\ Preserved /\ AtDesk /\ PricedInv /\ [Next]_vars => PricedInv'
  BY NextPriced
<1>2. PricedInv => PlacedOrderPriced
  BY DEF PricedInv
<1>. QED  BY <1>1, <1>2, InitPriced, DesksAlways, PTL DEF Spec

(***************************************************************************)
(* The kitchen's roll-up                                                   *)
(***************************************************************************)

\* The status a kitchen request is about to store is that of every line, first in
\* the database, then in the array it will write back with the order.
InKitchen(w) ==
    req[w].op = "kitchen" =>
        /\ pc[w] = "loadOrder" => \A i \in Lines(req[w].order) : items[i].status = req[w].target
        /\ pc[w] = "saveOrder" => \A i \in DOMAIN mem[w] : mem[w][i] = req[w].target

KitchenInv == \A w \in Worker : InKitchen(w)

\* What checkAllItemsStatus finds in common is the status of every line.
LEMMA CommonIsShared ==
    ASSUME RowsOK, NEW o \in Order, NEW s \in CommonStatus(LoadItems(o))
    PROVE  OrderStatusOf(s) = s /\ \A i \in Lines(o) : items[i].status = s
<1>1. DOMAIN LoadItems(o) = Lines(o) /\ \A i \in Lines(o) : LoadItems(o)[i] = items[i].status
  BY DEF LoadItems
<1>2. PICK j \in Lines(o) : s = items[j].status
  BY <1>1 DEF CommonStatus
<1>3. \A i \in Lines(o) : items[i].status = s
  BY <1>1, <1>2 DEF CommonStatus
<1>4. s \in ItemStatus
  BY <1>2, RowsBuilt DEF Lines, RowsOK
<1>. QED  BY <1>3, <1>4 DEF OrderStatusOf

\* Nobody else touches the lines of an order that is not his.
LEMMA LinesOfOthers ==
    ASSUME NEW w \in Worker, OthersLines(w), NEW p \in Order, OnOrder(w) => req[w].order # p
    PROVE  Lines(p)' = Lines(p) /\ \A i \in Lines(p) : items'[i] = items[i]
BY DEF OthersLines, Lines

\* The step of w, seen from its own order.
LEMMA OwnKitchen ==
    ASSUME TypeOK, Control, NEW w \in Worker, InKitchen(w),
           Receive(w) \/ Proceed(w) \/ Fail(w)
    PROVE  InKitchen(w)'
<1>1. CASE Receive(w)
  BY <1>1, Received DEF InKitchen
<1>2. CASE LoadOrder(w)
  <2>1. /\ req' = req /\ pc'[w] = "saveOrder" /\ mem'[w] = LoadItems(req[w].order)
    BY <1>2 DEF LoadOrder, Load, Goto, TypeOK, RequestsOK
  <2>2. pc[w] = "loadOrder"
    BY <1>2 DEF LoadOrder, Goto
  <2>. QED  BY <2>1, <2>2 DEF InKitchen, LoadItems
<1>3. ASSUME NEW s \in CommonStatus(LoadItems(req[w].order)), RollUp(w), pc'[w] = "loadOrder",
             req'[w] = RolledUp(req[w], OrderStatusOf(s))
      PROVE  InKitchen(w)'
  <2> PICK o \in Order : o = req[w].order
    BY <1>3, RequestFields DEF RollUp, Control, Stands, TypeOK, RequestsOK
  <2>1. req'[w].order = o /\ req'[w].target = s /\ \A i \in Lines(o) : items[i].status = s
    BY <1>3, CommonIsShared DEF RolledUp, TypeOK
  <2>2. items' = items
    BY <1>3 DEF RollUp, dbVars
  <2>3. Lines(o)' = Lines(o)
    BY <2>2 DEF Lines
  <2>. QED  BY <1>3, <2>1, <2>2, <2>3 DEF InKitchen
<1>4. CASE req'[w] = NoReq
  BY <1>4 DEF NoReq, InKitchen
<1>5. CASE /\ req'[w] = req[w] /\ pc'[w] # "loadOrder"
           /\ pc'[w] = "saveOrder" => req[w].op \in {"rewrite", "status"}
  BY <1>5 DEF InKitchen
<1>. QED  BY <1>1, <1>2, <1>3, <1>4, <1>5, Proceeded

LEMMA NextKitchen ==
    ASSUME OwnDesks, TypeOK, Control, Preserved, AtDesk, KitchenInv, [Next]_vars
    PROVE  KitchenInv'
<1>1. CASE UNCHANGED vars
  <2>1. UNCHANGED <<items, pc, req, mem>>
    BY <1>1 DEF vars, dbVars, memVars
  <2>2. \A o : Lines(o)' = Lines(o)
    BY <2>1 DEF Lines
  <2>. QED  BY <2>1, <2>2 DEF KitchenInv, InKitchen
<1>2. ASSUME NEW w \in Worker, Receive(w) \/ Proceed(w) \/ Fail(w)
      PROVE  KitchenInv'
  <2>1. InKitchen(w)'
    BY <1>2, OwnKitchen DEF KitchenInv
  <2>2. Others(w) /\ OthersLines(w)
    BY <1>2, Frame
  <2>3. ASSUME NEW v \in Worker \ {w}
        PROVE  InKitchen(v)'
    <3>1. /\ pc'[v] = pc[v] /\ req'[v] = req[v] /\ mem'[v] = mem[v] /\ InKitchen(v)
      BY <2>2 DEF Others, KitchenInv
    <3>2. CASE req[v].op # "kitchen"
      BY <3>1, <3>2 DEF InKitchen
    <3>3. CASE req[v].op = "kitchen"
      <4>1. OnOrder(v) /\ req[v].order \in Order
        BY <3>3, RequestFields DEF OnOrder, TypeOK, RequestsOK
      <4>2. OnOrder(w) => req[w].order # req[v].order
        BY <4>1, OrdersApart
      <4>3. /\ Lines(req[v].order)' = Lines(req[v].order)
            /\ \A i \in Lines(req[v].order) : items'[i] = items[i]
        <5> PICK p \in Order : p = req[v].order
          BY <4>1
        <5>1. Lines(p)' = Lines(p) /\ \A i \in Lines(p) : items'[i] = items[i]
          BY <2>2, <4>2, LinesOfOthers
        <5>2. Lines(req[v].order)' = Lines(p)'
          BY <3>1 DEF Lines
        <5>. QED  BY <5>1, <5>2
      <4>. QED  BY <3>1, <4>3 DEF InKitchen
    <3>. QED  BY <3>2, <3>3
  <2>. QED  BY <2>1, <2>3 DEF KitchenInv
<1>. QED  BY <1>1, <1>2 DEF Next

\* The save that ends a kitchen request leaves the order in step; a roll-up that
\* ends it has found lines of different statuses, or none.
LEMMA KitchenStep ==
    ASSUME TypeOK, Control, KitchenInv, NEW w \in Worker, NEW o \in Order,
           req[w].op = "kitchen", req[w].order = o, RollUp(w) \/ SaveOrder(w), pc'[w] = "idle"
    PROVE  InStep(o)'
<1>1. CASE RollUp(w)
  <2>1. items' = items /\ Lines(o)' = Lines(o)
    BY <1>1 DEF RollUp, dbVars, Lines
  <2>2. CommonStatus(LoadItems(o)) = {}
    <3>1. ~Goto(w, "rollUp", "loadOrder")
      BY DEF Goto, TypeOK, RequestsOK
    <3>. QED  BY <1>1, <3>1 DEF RollUp
  <2>3. DOMAIN LoadItems(o) = Lines(o) /\ \A i \in Lines(o) : LoadItems(o)[i] = items[i].status
    BY DEF LoadItems
  <2>4. ASSUME NEW s, Lines(o) # {}, \A i \in Lines(o) : items[i].status = s
        PROVE  s \in CommonStatus(LoadItems(o))
    BY <2>3, <2>4 DEF CommonStatus
  <2>. QED  BY <2>1, <2>2, <2>4 DEF InStep
<1>2. CASE SaveOrder(w)
  <2>1. /\ pc[w] = "saveOrder" /\ Lines(o) \subseteq DOMAIN mem[w]
        /\ orders' = [orders EXCEPT ![o] = Restated(row[w], req[w].target, row[w].total)]
        /\ items' = WriteBack(o, mem[w])
    BY <1>2 DEF SaveOrder, Answer, Goto, NothingDetached
  <2>2. orders'[o].status = req[w].target
    BY <2>1 DEF Restated, TypeOK, RowsOK
  <2>3. \A i \in DOMAIN mem[w] : i \in Item /\ mem[w][i] = req[w].target
    BY <2>1 DEF KitchenInv, InKitchen, TypeOK, RequestsOK
  <2>4. \A i \in Item : i \in DOMAIN mem[w] => items'[i].status = req[w].target
    BY <2>1, <2>3 DEF WriteBack
  <2>5. \A i \in Lines(o)' : i \in DOMAIN mem[w]
    BY <2>1 DEF Lines, WriteBack
  <2>. QED  BY <2>2, <2>3, <2>4, <2>5 DEF InStep
<1>. QED  BY <1>1, <1>2

\* While no two requests work on one order, a kitchen request that has been
\* carried out leaves the order with the status its lines share, if they share
\* one, for any number of orders, lines and requests (kitchen.service.ts
\* updateOrderItemStatus).
THEOREM KitchenLeavesOrderInStepCorrect ==
    ASSUME OwnDesks
    PROVE  Spec => KitchenLeavesOrderInStep
<1>1. Init => KitchenInv
  BY DEF Init, KitchenInv, InKitchen, NoReq
<1>2. TypeOK /\ Control /\ Preserved /\ AtDesk /\ KitchenInv /\ [Next]_vars => KitchenInv'
  BY NextKitchen
<1>3. TypeOK /\ Control /\ KitchenInv =>
        \A w \in Worker : \A o \in Order :
            /\ req[w].op = "kitchen" /\ req[w].order = o
            /\ RollUp(w) \/ SaveOrder(w)
            /\ pc'[w] = "idle"
            => InStep(o)'
  BY KitchenStep
<1>. QED  BY <1>1, <1>2, <1>3, DesksAlways, PTL DEF Spec, KitchenLeavesOrderInStep

(***************************************************************************)
(* The table of a completed order                                          *)
(***************************************************************************)

\* A request about to store COMPLETED has freed the table.
Freed ==
    \A w \in Worker :
        req[w].op = "status" /\ req[w].target = "completed" /\ pc[w] = "saveOrder"
            => tables[req[w].table] = "available"

LEMMA NextFreed ==
    ASSUME OneAtATime, TypeOK, Control, Freed, [Next]_vars
    PROVE  Freed'
<1>1. CASE UNCHANGED vars
  BY <1>1 DEF vars, dbVars, memVars, Freed
<1>2. ASSUME NEW w \in Worker, Receive(w) \/ Proceed(w) \/ Fail(w)
      PROVE  Freed'
  <2>. SUFFICES ASSUME req'[w].op = "status", req'[w].target = "completed", pc'[w] = "saveOrder"
                PROVE  tables'[req'[w].table] = "available"
    BY DEF Freed, OneAtATime
  <2>1. SaveTable(w) /\ req'[w] = req[w]
    <3>1. ~Receive(w)
      BY Received
    <3>2. ~LoadOrder(w)
      BY DEF LoadOrder, Goto, Control, Stands
    <3>. QED  BY <1>2, <3>1, <3>2, Proceeded
  <2>2. tables' = [tables EXCEPT ![req[w].table] = TableTarget(req[w])]
    BY <2>1 DEF SaveTable
  <2>3. req[w].table \in Table
    BY <2>1, RequestFields DEF TypeOK, RequestsOK
  <2>. QED  BY <2>1, <2>2, <2>3 DEF TableTarget, TypeOK, RowsOK
<1>. QED  BY <1>1, <1>2 DEF Next

\* One request at a time, COMPLETED is stored with an order only when its table
\* is free, for any number of orders and tables (updateStatus).
THEOREM CompletionFreesTableCorrect ==
    ASSUME OneAtATime
    PROVE  Spec => CompletionFreesTable
<1>1. Init => Freed
  BY DEF Init, Freed, NoReq
<1>2. TypeOK /\ Control /\ Freed /\ [Next]_vars => Freed'
  BY NextFreed
<1>3. Freed => \A w \in Worker :
                 (SaveOrder(w) /\ req[w].op = "status" /\ req[w].target = "completed")
                    => tables[req[w].table] = "available"
  BY DEF Freed, SaveOrder, Answer, Goto
<1>4. Spec => [](TypeOK /\ Control)
  BY InitTyped, NextTyped, PTL DEF Spec
<1>. QED  BY <1>1, <1>2, <1>3, <1>4, PTL DEF Spec, CompletionFreesTable
=============================================================================
