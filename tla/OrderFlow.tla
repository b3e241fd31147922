------------------------------ MODULE OrderFlow ------------------------------
(***************************************************************************)
(* The order desk of the restaurant backend: orders, their lines, the      *)
(* tables they sit on and the requests that change them                    *)
(* (order.service.ts, kitchen.service.ts, table.service.ts).               *)
(*                                                                         *)
(* Every handler is a chain of awaited repository calls.  OrderService     *)
(* opens a transaction on a query runner of its own, but its reads and     *)
(* writes go through the injected repositories, which use other pooled     *)
(* connections and commit on their own; so each repository call is one     *)
(* atomic step here, the steps of different requests interleave, and a     *)
(* rollback undoes nothing.                                                *)
(*                                                                         *)
(* A line costs one unit of money, so an order's total is its number of    *)
(* lines.                                                                  *)
(***************************************************************************)
EXTENDS Integers, FiniteSets, Functions

CONSTANTS
    Order,      \* ids an order row can be given
    Item,       \* ids an order line can be given
    Table,      \* the dining tables, all created at start-up
    Worker,     \* the requests the server can have in flight at once
    Desk,       \* Desk[w]: the orders request slot w is used for
    MaxLines,   \* bound: the most lines one request asks for
    Ops,        \* the endpoints clients call in this instance
    OrderTargets, ItemTargets, TableTargets \* statuses clients ask for

OrderStatus == {"pending", "preparing", "ready", "served", "completed", "cancelled"}
ItemStatus  == OrderStatus \ {"completed"}
TableStatus == {"available", "occupied", "reserved", "out_of_order", "cleaning"}
Endpoint    == {"create", "patch", "rewrite", "remove", "status", "item", "kitchen", "table"}

ASSUME OrderFlowAssumption ==
    /\ IsFiniteSet(Item)
    /\ MaxLines \in Nat
    /\ Desk \in [Worker -> SUBSET Order]
    /\ Ops \subseteq Endpoint
    /\ OrderTargets \subseteq OrderStatus
    /\ ItemTargets \subseteq ItemStatus
    /\ TableTargets \subseteq TableStatus

VARIABLES
    (* the database *)
    orders,     \* the order rows
    items,      \* the order-line rows
    tables,     \* the status column of each table row
    hist,       \* orders a stock-history row refers to
    used,       \* line ids the database has generated so far
    (* the requests in flight *)
    pc,         \* the next await of the request
    req,        \* its parameters
    left,       \* iterations of its items loop still to be made
    row,        \* the Order object it loaded
    mem,        \* the items array of that object: line id -> status
    seen,       \* the orders array of the Table object it loaded
    (* history, read by properties only *)
    booked,     \* lines each order was created with; -1 before its creation
    placed,     \* orders whose creation was answered with success
    dismantled  \* orders whose lines some update or removal deleted

dbVars  == <<orders, items, tables, hist, used>>
memVars == <<req, left, row, mem, seen>>
history == <<booked, placed, dismantled>>
vars    == <<dbVars, pc, memVars, history>>

(***************************************************************************)
(* Rows, requests and what is read from the database                       *)
(***************************************************************************)

NoOrder == [status |-> "none"]
NoItem  == [status |-> "none"]
NoMem   == [i \in {} |-> "none"]
NoReq   == [op |-> "none"]

OrderRow == [status : OrderStatus, total : Nat, table : Table]
ItemRow  == [status : ItemStatus, order : Order]

NewOrder(t)       == [status |-> "pending", total |-> 0, table |-> t]
Restated(r, s, n) == [status |-> s, total |-> n, table |-> r.table]

\* asked: the lines the client asked for
Request ==
       [op : {"create", "rewrite"}, order : Order, table : Table,
        asked : Nat, target : OrderStatus]
  \cup [op : {"patch", "remove", "status"}, order : Order, table : Table,
        target : OrderStatus]
  \cup [op : {"item", "kitchen"}, order : Order, item : Item, target : ItemStatus]
  \cup [op : {"table"}, table : Table, target : TableStatus]

Exists(o)    == orders[o] # NoOrder
Lines(o)     == {i \in Item : items[i] # NoItem /\ items[i].order = o}
OrdersAt(t)  == {o \in Order : Exists(o) /\ orders[o].table = t}
Fresh        == Item \ used
LoadItems(o) == [i \in Lines(o) |-> items[i].status]

\* KitchenService.checkAllItemsStatus: the status all the lines share, as a
\* set of at most one element
CommonStatus(loaded) ==
    IF \A i, j \in DOMAIN loaded : loaded[i] = loaded[j]
    THEN {loaded[i] : i \in DOMAIN loaded}
    ELSE {}

\* KitchenService.mapItemStatusToOrderStatus, default branch included
OrderStatusOf(s) == IF s \in ItemStatus THEN s ELSE "pending"

(***************************************************************************)
(* What TypeORM's save(entity) does to the rows                            *)
(***************************************************************************)

\* save() writes every loaded line back, inserting again those deleted since
WriteBack(o, loaded) ==
    [i \in Item |->
        IF i \in DOMAIN loaded THEN [status |-> loaded[i], order |-> o] ELSE items[i]]

\* A row the database has and the saved object's array lacks is detached by
\* setting its foreign key to NULL; the column is NOT NULL and the save fails
NothingDetached(inDatabase, inObject) == inDatabase \subseteq inObject

(***************************************************************************)
(* Request bookkeeping                                                     *)
(***************************************************************************)

Start(w, label, r) ==
    /\ pc[w] = "idle"
    /\ pc' = [pc EXCEPT ![w] = label]
    /\ req' = [req EXCEPT ![w] = r]
    /\ UNCHANGED seen

Goto(w, from, to) ==
    /\ pc[w] = from
    /\ pc' = [pc EXCEPT ![w] = to]

\* The request is over and its memory is gone
Forget(w) ==
    /\ req'  = [req  EXCEPT ![w] = NoReq]
    /\ left' = [left EXCEPT ![w] = 0]
    /\ row'  = [row  EXCEPT ![w] = NoOrder]
    /\ mem'  = [mem  EXCEPT ![w] = NoMem]
    /\ seen' = [seen EXCEPT ![w] = {}]

Answer(w, from) == Goto(w, from, "idle") /\ Forget(w)

\* OrderService.findOne with its items; NotFoundException when absent
Load(w, o) ==
    /\ Exists(o)
    /\ row' = [row EXCEPT ![w] = orders[o]]
    /\ mem' = [mem EXCEPT ![w] = LoadItems(o)]

(***************************************************************************)
(* OrderService.create                                                     *)
(***************************************************************************)

BeginCreate(w, o, t, n) ==
    /\ "create" \in Ops
    /\ booked[o] = -1
    /\ tables[t] \in {"available", "occupied"}
    /\ Start(w, "insertOrder", [op |-> "create", order |-> o, table |-> t,
                                asked |-> n, target |-> "pending"])
    /\ left' = [left EXCEPT ![w] = n]
    /\ booked' = [booked EXCEPT ![o] = n]
    /\ UNCHANGED <<dbVars, row, mem, placed, dismantled>>

BugLoopOrSave(op, n) ==
    IF n >= 0 THEN "line" ELSE IF op = "create" THEN "saveTotal" ELSE "saveOrder"

\* Where the items loop goes next, with n iterations left
LoopOrSave(op, n) ==
    IF n > 0 THEN "line" ELSE IF op = "create" THEN "saveTotal" ELSE "saveOrder"

InsertOrder(w) ==
    /\ Goto(w, "insertOrder", LoopOrSave("create", left[w]))
    /\ orders' = [orders EXCEPT ![req[w].order] = NewOrder(req[w].table)]
    /\ UNCHANGED <<items, tables, hist, used, memVars, history>>

BugInsertLine(w) ==
    LET o == req[w].order IN
    /\ Goto(w, "line", "stock")
    /\ Exists(o)
    /\ \E i \in Fresh :
        /\ items' = [items EXCEPT ![i] = [status |-> "pending", order |-> o]]
        /\ used' = used \cup {i}
    /\ orders' = [orders EXCEPT ![o].total = @ + 1]
    /\ UNCHANGED <<tables, hist, memVars, history>>

\* One iteration of the items loop (create and update): the new line, whose
\* order must still exist (foreign key).  An unknown or unavailable menu item
\* ends the request: Fail.
InsertLine(w) ==
    /\ Goto(w, "line", "stock")
    /\ Exists(req[w].order)
    /\ \E i \in Fresh :
        /\ items' = [items EXCEPT ![i] = [status |-> "pending", order |-> req[w].order]]
        /\ used' = used \cup {i}
    /\ UNCHANGED <<orders, tables, hist, memVars, history>>

\* decreaseStock swallows its errors: it leaves a stock-history row naming the
\* order or, when the item is not stocked or anything fails, nothing
DecreaseStock(w) ==
    LET n == left[w] - 1 IN
    /\ Goto(w, "stock", LoopOrSave(req[w].op, n))
    /\ \/ Exists(req[w].order) /\ hist' = hist \cup {req[w].order}
       \/ UNCHANGED hist
    /\ left' = [left EXCEPT ![w] = n]
    /\ UNCHANGED <<orders, items, tables, used, req, row, mem, seen, history>>

BugSaveTotal(w) ==
    /\ Goto(w, "saveTotal", "readTable")
    /\ orders' = [orders EXCEPT ![req[w].order] =
                    Restated(NewOrder(req[w].table), "pending", left[w])]
    /\ UNCHANGED <<items, tables, hist, used, memVars, history>>

\* save(savedOrder): the object still says PENDING and has no items array; the
\* row is inserted again if it was deleted meanwhile
SaveTotal(w) ==
    /\ Goto(w, "saveTotal", "readTable")
    /\ orders' = [orders EXCEPT ![req[w].order] =
                    Restated(NewOrder(req[w].table), "pending", req[w].asked)]
    /\ UNCHANGED <<items, tables, hist, used, memVars, history>>

\* The closing findOne: the client hears of success only if the row is there
Reply(w) ==
    /\ Answer(w, "reply")
    /\ Exists(req[w].order)
    /\ placed' = placed \cup {req[w].order}
    /\ UNCHANGED <<dbVars, booked, dismantled>>

(***************************************************************************)
(* TableService.updateStatus: called by create, updateStatus, remove and   *)
(* PATCH /tables/:id/status                                                *)
(***************************************************************************)

BeginTable(w, t, s) ==
    /\ "table" \in Ops
    /\ Start(w, "readTable", [op |-> "table", table |-> t, target |-> s])
    /\ UNCHANGED <<dbVars, left, row, mem, history>>

ReadTable(w) ==
    /\ Goto(w, "readTable", "saveTable")
    /\ seen' = [seen EXCEPT ![w] = OrdersAt(req[w].table)]
    /\ UNCHANGED <<dbVars, req, left, row, mem, history>>

\* The status each caller passes
TableTarget(r) ==
    IF r.op = "table" THEN r.target
    ELSE IF r.op = "create" THEN "occupied" ELSE "available"

SaveTable(w) ==
    /\ pc[w] = "saveTable"
    /\ NothingDetached(OrdersAt(req[w].table), seen[w])
    /\ tables' = [tables EXCEPT ![req[w].table] = TableTarget(req[w])]
    /\ \/ req[w].op = "create" /\ Goto(w, "saveTable", "reply") /\ UNCHANGED memVars
       \/ req[w].op = "status" /\ Goto(w, "saveTable", "saveOrder") /\ UNCHANGED memVars
       \/ req[w].op \in {"remove", "table"} /\ Answer(w, "saveTable")
    /\ UNCHANGED <<orders, items, hist, used, history>>

(***************************************************************************)
(* OrderService.updateStatus: PATCH /orders/:id/status and the kitchen     *)
(***************************************************************************)

BugAfterLoad(s) == IF s = "served" THEN "readTable" ELSE "saveOrder"

AfterLoad(s) == IF s = "completed" THEN "readTable" ELSE "saveOrder"

BeginStatus(w, o, s) ==
    /\ "status" \in Ops
    /\ Load(w, o)
    /\ Start(w, AfterLoad(s), [op |-> "status", order |-> o,
                               table |-> orders[o].table, target |-> s])
    /\ UNCHANGED <<dbVars, left, history>>

BugSaveOrder(w) ==
    LET o == req[w].order IN
    /\ req[w].op # "rewrite"
    /\ Answer(w, "saveOrder")
    /\ orders' = [orders EXCEPT ![o] = Restated(row[w], req[w].target, row[w].total)]
    /\ items' = [i \in Item |-> IF i \in Lines(o) \ DOMAIN mem[w] THEN NoItem
                                ELSE WriteBack(o, mem[w])[i]]
    /\ UNCHANGED <<tables, hist, used, history>>

\* save(order): the loaded row with its new status, and its loaded lines
SaveOrder(w) ==
    LET o == req[w].order IN
    /\ req[w].op # "rewrite"
    /\ Answer(w, "saveOrder")
    /\ NothingDetached(Lines(o), DOMAIN mem[w])
    /\ orders' = [orders EXCEPT ![o] = Restated(row[w], req[w].target, row[w].total)]
    /\ items' = WriteBack(o, mem[w])
    /\ UNCHANGED <<tables, hist, used, history>>

(***************************************************************************)
(* OrderService.update without items ("patch") and with items ("rewrite")  *)
(***************************************************************************)

\* updateOrderDto.status is optional
PatchedStatus(o, s) == IF s = "keep" THEN orders[o].status ELSE s

BeginPatch(w, o, s) ==
    /\ "patch" \in Ops
    /\ Load(w, o)
    /\ Start(w, "saveOrder", [op |-> "patch", order |-> o,
                              table |-> orders[o].table, target |-> PatchedStatus(o, s)])
    /\ UNCHANGED <<dbVars, left, history>>

BeginRewrite(w, o, s, n) ==
    /\ "rewrite" \in Ops
    /\ Load(w, o)
    /\ Start(w, "dropItems", [op |-> "rewrite", order |-> o, table |-> orders[o].table,
                              asked |-> n, target |-> PatchedStatus(o, s)])
    /\ left' = [left EXCEPT ![w] = n]
    /\ UNCHANGED <<dbVars, history>>

\* orderItemRepository.remove(order.items): by update and by remove
DropItems(w) ==
    /\ Goto(w, "dropItems", IF req[w].op = "remove" THEN "dropOrder"
                            ELSE LoopOrSave("rewrite", left[w]))
    /\ items' = [i \in Item |-> IF i \in DOMAIN mem[w] THEN NoItem ELSE items[i]]
    /\ dismantled' = dismantled \cup {req[w].order}
    /\ UNCHANGED <<orders, tables, hist, used, memVars, booked, placed>>

\* Loaded lines under the ids `again' gives them
Reinserted(loaded, again) ==
    [i \in Range(again) |-> loaded[CHOOSE j \in DOMAIN loaded : again[j] = i]]

\* save(order) at the end of update: remove() has cleared the ids of the old
\* line objects, which order.items still holds, so the save inserts them under
\* new ids and would detach every line the loop has just inserted
SaveRewrite(w) ==
    LET o == req[w].order IN
    /\ req[w].op = "rewrite"
    /\ Answer(w, "saveOrder")
    /\ NothingDetached(Lines(o), {})
    /\ \E again \in Injection(DOMAIN mem[w], Fresh) :
        /\ items' = WriteBack(o, Reinserted(mem[w], again))
        /\ used' = used \cup Range(again)
    /\ orders' = [orders EXCEPT ![o] = Restated(row[w], req[w].target, req[w].asked)]
    /\ UNCHANGED <<tables, hist, history>>

(***************************************************************************)
(* OrderService.remove                                                     *)
(***************************************************************************)

BeginRemove(w, o) ==
    /\ "remove" \in Ops
    /\ Load(w, o)
    /\ orders[o].status \in {"pending", "cancelled"}
    /\ Start(w, "dropItems", [op |-> "remove", order |-> o, table |-> orders[o].table,
                              target |-> orders[o].status])
    /\ UNCHANGED <<dbVars, left, history>>

\* The DELETE is refused while a line or a stock-history row refers to the order
DropOrder(w) ==
    LET o == req[w].order IN
    /\ Goto(w, "dropOrder", "findPending")
    /\ Lines(o) = {} /\ o \notin hist
    /\ orders' = [orders EXCEPT ![o] = NoOrder]
    /\ UNCHANGED <<items, tables, hist, used, memVars, history>>

\* "Update table status if no other active orders": PENDING ones are looked for
NoPendingAt(t) == \A o \in OrdersAt(t) : orders[o].status # "pending"

FindPending(w) ==
    /\ pc[w] = "findPending"
    /\ \/ NoPendingAt(req[w].table) /\ Goto(w, "findPending", "readTable")
                                    /\ UNCHANGED memVars
       \/ ~NoPendingAt(req[w].table) /\ Answer(w, "findPending")
    /\ UNCHANGED <<dbVars, history>>

(***************************************************************************)
(* OrderService.updateOrderItemStatus ("item") and the kitchen's version,  *)
(* which then rolls the lines' common status up to the order ("kitchen")   *)
(***************************************************************************)

BeginItem(w, op, o, i, s) ==
    /\ op \in Ops \cap {"item", "kitchen"}
    /\ Load(w, o)
    /\ i \in Lines(o)
    /\ Start(w, "saveItem", [op |-> op, order |-> o, item |-> i, target |-> s])
    /\ UNCHANGED <<dbVars, left, history>>

\* save(orderItem) inserts the line again if it was deleted; its order must exist
SaveItem(w) ==
    /\ pc[w] = "saveItem"
    /\ Exists(req[w].order)
    /\ items' = [items EXCEPT ![req[w].item] =
                    [status |-> req[w].target, order |-> req[w].order]]
    /\ \/ req[w].op = "kitchen" /\ Goto(w, "saveItem", "rollUp") /\ UNCHANGED memVars
       \/ req[w].op = "item" /\ Answer(w, "saveItem")
    /\ UNCHANGED <<orders, tables, hist, used, history>>

\* The kitchen's request once it goes on to updateStatus
RolledUp(r, s) == [op |-> "kitchen", order |-> r.order, item |-> r.item, target |-> s]

BugRollUp(w) ==
    LET common == CommonStatus(mem[w]) IN
    /\ pc[w] = "rollUp"
    /\ Exists(req[w].order)
    /\ \/ /\ common = {}
          /\ Answer(w, "rollUp")
       \/ \E s \in common :
            /\ Goto(w, "rollUp", "loadOrder")
            /\ req' = [req EXCEPT ![w] = RolledUp(@, OrderStatusOf(s))]
            /\ UNCHANGED <<left, row, mem, seen>>
    /\ UNCHANGED <<dbVars, history>>

\* findOne, then either nothing more or updateStatus with the common status
RollUp(w) ==
    LET common == CommonStatus(LoadItems(req[w].order)) IN
    /\ pc[w] = "rollUp"
    /\ Exists(req[w].order)
    /\ \/ /\ common = {}
          /\ Answer(w, "rollUp")
       \/ \E s \in common :
            /\ Goto(w, "rollUp", "loadOrder")
            /\ req' = [req EXCEPT ![w] = RolledUp(@, OrderStatusOf(s))]
            /\ UNCHANGED <<left, row, mem, seen>>
    /\ UNCHANGED <<dbVars, history>>

\* findOne of the updateStatus the kitchen calls; never COMPLETED
LoadOrder(w) ==
    /\ Goto(w, "loadOrder", "saveOrder")
    /\ Load(w, req[w].order)
    /\ UNCHANGED <<dbVars, req, left, seen, history>>

(***************************************************************************)
(* Any await may reject, or the process die under it: the request ends     *)
(* where it stands.  The catch block's rollback undoes nothing.            *)
(***************************************************************************)

Fail(w) ==
    /\ pc[w] # "idle"
    /\ pc' = [pc EXCEPT ![w] = "idle"]
    /\ Forget(w)
    /\ UNCHANGED <<dbVars, history>>

(***************************************************************************)
(* Specification                                                           *)
(***************************************************************************)

Init ==
    /\ orders = [o \in Order |-> NoOrder]
    /\ items  = [i \in Item |-> NoItem]
    /\ tables = [t \in Table |-> "available"]
    /\ hist = {} /\ used = {}
    /\ pc   = [w \in Worker |-> "idle"]
    /\ req  = [w \in Worker |-> NoReq]
    /\ left = [w \in Worker |-> 0]
    /\ row  = [w \in Worker |-> NoOrder]
    /\ mem  = [w \in Worker |-> NoMem]
    /\ seen = [w \in Worker |-> {}]
    /\ booked = [o \in Order |-> -1]
    /\ placed = {} /\ dismantled = {}

Receive(w) ==
    \/ \E o \in Desk[w], t \in Table, n \in 0..MaxLines : BeginCreate(w, o, t, n)
    \/ \E t \in Table, s \in TableTargets : BeginTable(w, t, s)
    \/ \E o \in Desk[w] :
        \/ \E s \in OrderTargets : BeginStatus(w, o, s)
        \/ \E s \in OrderTargets \cup {"keep"} : BeginPatch(w, o, s)
        \/ \E s \in OrderTargets \cup {"keep"}, n \in 0..MaxLines : BeginRewrite(w, o, s, n)
        \/ BeginRemove(w, o)
        \/ \E op \in {"item", "kitchen"}, i \in Item, s \in ItemTargets :
                BeginItem(w, op, o, i, s)

Proceed(w) ==
    \/ InsertOrder(w) \/ InsertLine(w) \/ DecreaseStock(w) \/ SaveTotal(w) \/ Reply(w)
    \/ ReadTable(w) \/ SaveTable(w) \/ SaveOrder(w)
    \/ DropItems(w) \/ SaveRewrite(w) \/ DropOrder(w) \/ FindPending(w)
    \/ SaveItem(w) \/ RollUp(w) \/ LoadOrder(w)

Next == \E w \in Worker : Receive(w) \/ Proceed(w) \/ Fail(w)

Spec == Init /\ [][Next]_vars

(***************************************************************************)
(* Properties of every interleaving                                        *)
(***************************************************************************)

Label == {"idle", "insertOrder", "line", "stock", "saveTotal", "readTable",
          "saveTable", "reply", "saveOrder", "dropItems", "dropOrder",
          "findPending", "saveItem", "rollUp", "loadOrder"}

RowsOK ==
    /\ orders \in [Order -> OrderRow \cup {NoOrder}]
    /\ items \in [Item -> ItemRow \cup {NoItem}]
    /\ tables \in [Table -> TableStatus]
    /\ hist \subseteq Order /\ used \subseteq Item

RequestsOK ==
    /\ pc \in [Worker -> Label]
    /\ req \in [Worker -> Request \cup {NoReq}]
    /\ left \in [Worker -> Nat]
    /\ row \in [Worker -> OrderRow \cup {NoOrder}]
    /\ DOMAIN mem = Worker
    /\ \A w \in Worker : /\ DOMAIN mem[w] \subseteq Item
                         /\ \A i \in DOMAIN mem[w] : mem[w][i] \in ItemStatus
    /\ seen \in [Worker -> SUBSET Order]

HistoryOK ==
    /\ booked \in [Order -> Nat \cup {-1}]
    /\ placed \subseteq Order /\ dismantled \subseteq Order

\* Type invariant: rows, requests in flight and the objects they hold are
\* well-formed, through every loop counter and written-back snapshot.
TypeOK == RowsOK /\ RequestsOK /\ HistoryOK

\* An order whose creation succeeded keeps its row and every line the guest
\* ordered until an update with items or a removal is run on it: no save of a
\* stale snapshot, by the kitchen, the cashier or the creation itself, ever
\* costs it a line (order.service.ts create, updateStatus, save semantics).
LinesKept ==
    \A o \in placed \ dismantled :
        Exists(o) /\ Cardinality(Lines(o)) = booked[o]

\* The price stored with an order is nothing or the price of the whole order,
\* never that of a part of it, although its lines are stored one by one and
\* stale snapshots of the row are written back (create, updateStatus, update).
TotalWholeOrZero ==
    \A o \in Order \ dismantled :
        Exists(o) => orders[o].total \in {0, booked[o]}

(***************************************************************************)
(* Why they hold: the invariant that is inductive                          *)
(***************************************************************************)

OnOrder(w) == req[w].op \notin {"none", "table"}

\* The labels at which a request of each endpoint can stand
Stands(op, label) ==
    /\ op = "none" <=> label = "idle"
    /\ label \in {"insertOrder", "saveTotal", "reply"} => op = "create"
    /\ label \in {"line", "stock"} => op \in {"create", "rewrite"}
    /\ label \in {"readTable", "saveTable"} => op \in {"create", "status", "remove", "table"}
    /\ label = "saveOrder" => op \in {"status", "patch", "rewrite", "kitchen"}
    /\ label = "dropItems" => op \in {"rewrite", "remove"}
    /\ label \in {"dropOrder", "findPending"} => op = "remove"
    /\ label = "saveItem" => op \in {"item", "kitchen"}
    /\ label \in {"rollUp", "loadOrder"} => op = "kitchen"

\* Requests stand where their endpoint has an await, a loop in progress has
\* lines left, and only requests that loaded an order hold one.
Control ==
    \A w \in Worker :
        /\ Stands(req[w].op, pc[w])
        /\ pc[w] \in {"line", "stock"} => left[w] > 0
        /\ IF req[w].op \in {"none", "table", "create"}
           THEN mem[w] = NoMem /\ row[w] = NoOrder
           ELSE row[w] # NoOrder

\* The lines a request will write back or delete
Held(w) ==
    DOMAIN mem[w] \cup (IF req[w].op \in {"item", "kitchen"} THEN {req[w].item} ELSE {})

\* A line id belongs to one order for ever, in the database and in memory.
OneOwner ==
    /\ \A i \in Item : items[i] # NoItem => i \in used
    /\ \A w \in Worker : \A i \in Held(w) :
        /\ i \in used
        /\ items[i] # NoItem => items[i].order = req[w].order
        /\ \A v \in Worker : i \in Held(v) => req[v].order = req[w].order

\* At most one request creates an order, under the number of lines booked.
OneCreation ==
    /\ \A o \in Order : booked[o] = -1 => ~Exists(o) /\ Lines(o) = {} /\ o \notin dismantled
    /\ \A o \in placed : booked[o] # -1
    /\ \A w \in Worker : OnOrder(w) => booked[req[w].order] # -1
    /\ \A w \in Worker : req[w].op = "create" =>
        /\ booked[req[w].order] = req[w].asked
        /\ req[w].order \notin placed
        /\ \A v \in Worker :
            req[v].op = "create" /\ req[v].order = req[w].order => v = w

\* Lines the creation at hand has inserted so far
Inserted(w) ==
    IF pc[w] = "line" THEN req[w].asked - left[w]
    ELSE IF pc[w] = "stock" THEN req[w].asked - left[w] + 1
    ELSE req[w].asked

\* What a request w knows of its order: whether the row exists, that the lines
\* have been deleted, or that everything it remembers is still in the database.
Knows(w) ==
    LET o == req[w].order IN
    /\ pc[w] = "insertOrder" =>
        ~Exists(o) /\ Lines(o) = {} /\ o \notin dismantled /\ left[w] = req[w].asked
    /\ \/ pc[w] \in {"dropOrder", "findPending"}
       \/ req[w].op = "remove" /\ pc[w] \in {"readTable", "saveTable"}
       \/ req[w].op = "rewrite" /\ pc[w] \in {"line", "stock", "saveOrder"}
       => o \in dismantled
    /\ o \notin dismantled /\ pc[w] # "insertOrder" =>
        /\ Exists(o)
        /\ Held(w) \subseteq Lines(o)
        /\ req[w].op = "create" => Cardinality(Lines(o)) = Inserted(w)
        /\ row[w] # NoOrder => row[w].total \in {0, booked[o]}

\* Until its lines are deleted an order only gains the lines of its creation,
\* and no request on it works from anything the database has lost.
Intact == \A w \in Worker : OnOrder(w) => Knows(w)

Inv == /\ TypeOK /\ Control /\ OneOwner /\ OneCreation /\ Intact
       /\ LinesKept /\ TotalWholeOrZero

(***************************************************************************)
(* Properties of one request at a time: on an order, or, where tables are  *)
(* shared, at all                                                          *)
(***************************************************************************)

OwnDesks   == \A v, w \in Worker : v # w => Desk[v] \cap Desk[w] = {}
OneAtATime == \A v, w \in Worker : v = w

\* An order whose creation succeeded carries the price of all its lines, never
\* nothing, wherever the requests on it and on other orders have failed.
PlacedOrderPriced ==
    \A o \in placed \ dismantled : orders[o].total = booked[o]

InStep(o) ==
    \A s \in ItemStatus :
        (Lines(o) # {} /\ \A i \in Lines(o) : items[i].status = s) => orders[o].status = s

\* When a kitchen request has been carried out, an order all of whose lines
\* share a status has that status (kitchen.service.ts updateOrderItemStatus).
KitchenLeavesOrderInStep ==
    [][\A w \in Worker : \A o \in Order :
        /\ req[w].op = "kitchen" /\ req[w].order = o
        /\ RollUp(w) \/ SaveOrder(w)
        /\ pc'[w] = "idle"
        => InStep(o)']_vars

\* When updateStatus stores COMPLETED, the order's table is already free: a
\* completed order never keeps its table, wherever a request dies.
CompletionFreesTable ==
    [][\A w \in Worker :
        (SaveOrder(w) /\ req[w].op = "status" /\ req[w].target = "completed")
            => tables[req[w].table] = "available"]_vars

(***************************************************************************)
(* What comments of the code say and the code does not do                  *)
(***************************************************************************)

\* "Rollback transaction on error" (order.service.ts:122, 243, 292): a request
\* that fails leaves the order as it found it; the one it was to create is not
\* there, the lines it loaded are.
RollbackOnError ==
    [][\A w \in Worker :
        Fail(w) =>
            /\ req[w].op = "create" => ~Exists(req[w].order)
            /\ req[w].op \in {"remove", "rewrite"} => DOMAIN mem[w] \subseteq Lines(req[w].order)]_vars
=============================================================================
