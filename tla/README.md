# Verification of the restaurant management system

The program is a multi-tenant restaurant system: a NestJS server over PostgreSQL
(TypeORM) and Redis under `src/backend`, and a React client under `src/frontend`.
This directory holds TLA+ models of its core, TLC configurations that check them
on small instances, and TLAPS proofs of the main results for instances of any
size.

Contents: [the system](#the-system), [the plan](#the-plan),
[the modules](#the-modules), [the runs](#the-runs), [the proofs](#the-proofs),
[what is not modelled](#what-is-not-modelled).

## The system

The server is one Node process. A handler runs without interruption from one
`await` to the next; between them any other handler may run, and any awaited
call may reject. State lives in PostgreSQL rows, in Redis keys and in a few
process-local caches. Three facts about TypeORM decide most of what can go wrong:

* `dataSource.createQueryRunner()` takes a connection of its own from the pool
  and keeps it until `release()`. The injected repositories know nothing of it:
  each of their calls takes another connection and commits on its own. Most
  services open a transaction on a query runner and then write through the
  repositories, so the transaction covers nothing and its rollback undoes nothing.
* `repository.save(entity)` compares the object in memory with the row and writes
  the difference: a snapshot loaded before an `await` is written back after it,
  rows deleted meanwhile are inserted again, and cascaded arrays are written too.
* A row that an array of a saved parent no longer holds is detached by setting
  its foreign key to NULL, which a NOT NULL column refuses.

### Components

| component | state | operations | hard behaviour | what makes it correct |
|---|---|---|---|---|
| Orders (`order/`) | `order`, `order_item` rows | create, update, updateStatus, updateOrderItemStatus, remove | non-atomic creation and removal, stale snapshots, three kinds of caller | a placed order keeps its lines and its price until someone takes lines away |
| Kitchen (`kitchen/`) | none of its own | item status with roll-up to the order | roll-up reads after it wrote | the order is in step with its lines |
| Tables (`table/`) | `table` rows | create, update, status, remove, initial layout | freed and taken by order handlers | a table is free when its orders are over, and only then |
| Database connections | the pool | connect, query, release | nested query runners, no wait limit | no deadlock, every request answered, nothing leaks but what `startTransaction()` costs |
| Refresh tokens (`auth/`) | `refresh_token` rows | login, refresh, logout one, logout all | check and revoke are awaits apart | one use per token, revoked sessions stay revoked |
| Access tokens, throttling | Redis keys | validate, blacklist, count | Redis failure, get/set/incr not atomic | a logged-out token is refused; the limit is a limit |
| Accounts, password reset (`auth/`) | `user` rows | register, edit, remove, request and use a reset link, log in through the provider | every request saves an object it loaded before other awaits | the last password counts, the last mailed link works, once; one person, one row |
| Stock ledger (`stock/`) | `stock`, `stock_history` rows | create, edit, adjust, decrease for an order, remove | read-modify-write, decimals read as strings | never below zero, never below what orders left, flag in step with quantity |
| Payments (`payment/`) | `payment`, `payment_state_transition` rows, idempotency cache | create, process, verify, refund, webhooks | double payment, webhooks twice or out of order, gateway before commit | one payment per order, transitions follow the state machine |
| Invoices (`invoice/`) | `invoice` rows | create, update, updateStatus, remove | number from a count | numbers are unique, issued invoices do not change |
| Subscriptions (`subscription/`) | `subscription` rows, columns of the user | create, trial, cancel, nightly expiry | check then insert, scheduler over stale rows | at most one active; user and subscription agree |
| Tenants (`tenant/`) | `tenant` rows, schemas, the connections' search_path | create, resolve by request | search_path set on some pooled connection | a request sees its own tenant |
| Campaigns, feature flags | usage count, cached flags | validate, count, override | lost updates | the usage limit holds |
| Notifications, events (`notification/`, `events/`) | `notification` rows, WebSocket rooms | create, list, mark read, archive, emit | events and answers overtake each other | a user's events reach his own tabs |
| Browser stores and socket | the socket, `notificationStore` | connect, reconnect, hear, fetch, mark | two mechanisms reconnect; nothing is sent again | the bell shows and counts what the server has |
| Browser session (`authStore`, `api`) | persisted tokens, `isRefreshing` | request, refresh, logout | interceptors that call each other, several tabs | a valid session is not lost; logout ends |
| Reports, dashboard, menu, e-mail, QR | – | queries, single-row writes | – | – |

Components interact by calls within the process (orders call tables and stock;
kitchen calls orders; payments call orders and tables), through the shared rows,
through the connection pool, and by HTTP from the browser. Everything that is
hard to test is listed under `hazards` in `PROJECT.json`, each at its line.

## The plan

Done, in this order:

1. `OrderFlow`: the order desk (orders, lines, tables, kitchen), the heart of the
   program, with `OrderFlow_proofs`.
2. `ConnectionPool`: what those handlers hold while they wait, with
   `ConnectionPool_proofs`.
3. `RefreshTokens`: rotation and revocation, with `RefreshTokens_proofs`.
4. `StockLedger`: quantities under overlapping requests, with `StockLedger_proofs`;
   `StockLevels`, the abstract stock it implements while no two requests work on
   one stock.
5. `ClientSession`: the auth store and interceptors of one tab, against the part of
   the server that answers them, with `ClientSession_proofs`.
6. `Subscriptions`: subscription, user and tenant rows under requests and the
   nightly job, with `Subscriptions_proofs`.
7. `SocketLink`, the socket of a tab, and `NotificationFeed` on top of it, with
   `NotificationFeed_proofs`.
8. `Accounts`: the user rows, reset links and log-ins through the provider, with
   `Accounts_proofs`.

Next:

9. Small modules of one or two rows: `InvoiceDesk` (numbers from a count),
   `Throttle` (get, set and incr of a counter), the usage count of a campaign.
10. `TenantPath`: the search_path set on whichever connection of `ConnectionPool`
   serves the middleware.

Payments are not on the list: no payment can come to exist, see
[what is not modelled](#what-is-not-modelled).

## The modules

### OrderFlow

Translates `order.service.ts`, `kitchen.service.ts` and the status half of
`table.service.ts`. Every repository call is one atomic step, `pc[w]` says which
await request slot `w` comes to, and `row`, `mem`, `seen` are the objects the
handler holds in memory: the order row, its array of lines, and the table's array
of orders.

| code | actions |
|---|---|
| `OrderService.create` | `BeginCreate`, `InsertOrder`, then per line `InsertLine` and `DecreaseStock`, `SaveTotal`, `ReadTable`, `SaveTable`, `Reply` |
| `OrderService.update` without / with items | `BeginPatch`, `SaveOrder` / `BeginRewrite`, `DropItems`, the line loop, `SaveRewrite` |
| `OrderService.updateStatus` | `BeginStatus`, for COMPLETED `ReadTable` and `SaveTable`, `SaveOrder` |
| `OrderService.remove` | `BeginRemove`, `DropItems`, `DropOrder`, `FindPending`, `ReadTable`, `SaveTable` |
| `OrderService.updateOrderItemStatus` | `BeginItem`, `SaveItem` |
| `KitchenService.updateOrderItemStatus` | the same, then `RollUp`, `LoadOrder`, `SaveOrder` |
| `TableService.updateStatus` | `BeginTable`, `ReadTable`, `SaveTable` |
| any await rejects, or the process dies | `Fail`: the request ends where it stands |

`save()` is one step here: what its own comparison with the row could mix up are
the columns of one order, and the properties do not tell those mixtures apart (the
stored total is zero or the booked one whichever save wins, and an order whose
lines are being deleted is left out). `StockLedger` takes it apart.
Save semantics are explicit: `WriteBack` (the loaded lines are written, deleted
ones inserted again), `NothingDetached` (a save that would detach a line is
refused by NOT NULL, so `Fail` is all that is left), `Reinserted` (objects that
`remove` has stripped of their ids get new ones). Database calls
that can be refused by a foreign key carry it as a guard. A line costs one unit,
so an order's total is its number of lines. Consecutive reads that nothing else
can tell apart (the order and then its lines, the menu item and its check) are
one step. `booked`, `placed` and `dismantled` are history variables; no action
reads the last two, and `booked` only keeps an id from being created twice (ids
are generated UUIDs).

A comment of the code that claims more than it does is stated as a property and
violated by a run of its own, see the findings: the rollbacks cover nothing. More
is visible in the model without a run: an update with an empty list of items
restores the old lines, an update with items that has inserted a line can never
save the order (`SaveRewrite` would have to detach the line), and "no other active
orders" (`order.service.ts:277`) means no PENDING order, so a removal frees a table
at which another order is being prepared.

### ConnectionPool

Each handler that opens a query runner is a script: the sequence of connections it
asks for and gives back. A step is a query of a repository (a connection for one
call), a query runner opened or released, or a query on the request's own runner,
which needs no other connection (`EndQuery`). `Ask` appends to the waiting list,
`Grant` serves its head and `Refuse` fails to (a connection the pool opens for it is
refused); `Started`, `EndCall`, `EndQuery` and `Release` are the handler going on,
`Fail` and `FailToStart` the two ways an await of it rejects. The scripts are those of orders, `adjustStock`, the
subscription handlers, `register`, the creation of a tenant, both kinds of payment
(neither gets to its commit, see [what is not modelled](#what-is-not-modelled)),
invoices and deliveries. Orders have one line: more repeat the same section and
hold nothing across iterations. The run follows the creation of an order and the
change of a subscription; the proof covers every script. A failure within
`decreaseStock` is swallowed there (`AfterError`), after the blocks it left have
released what they opened (`Unwound`); any other ends the request. The closing
`return this.findOne(...)` of `adjustStock` and `create` takes its connection just
before `finally` releases the query runner; the model takes it just after, one
connection later. The proof does not depend on it: a request never waits with more
than two held.

One failure releases nothing. Every handler awaits `connect()` and
`startTransaction()` before its `try` (`order.service.ts:36`, `stock.service.ts:132`,
`subscription.service.ts:85`): when the transaction fails to start (`FailToStart`),
`finally` is never reached and the connection never comes back. The model counts
these failures (`unstarted`, at most `MaxUnstarted` in a run), and `OnlyStartsLeak`
says that the pool has lost exactly that many connections: no other failure, at no
depth of the nested blocks, costs it one.

The result: with `W` requests in flight, more than `2W` connections beside those
lost rule out deadlock (`NotStuckCorrect`). The default pool of ten therefore serves four such
requests safely, until it has lost two connections. With fewer connections (four for two requests) TLC finds the
deadlock: both requests hold an order runner and a stock runner and wait for a
connection for a query, for ever, since no wait limit is configured. Nothing in
the code limits the number of requests.

### RefreshTokens

`refresh_token` rows as `row` (absent, live, revoked), `owner` and `late`
(expired); `parent` is history: which token was exchanged for which. Requests are
login, refresh, logout of one token and logout of all; every look and every write
is a step, `Fail` may end a request at any of them, `Expire` passes time.
Presenting a revoked token revokes all tokens of its user, from the list read one
await before. `shared` is history too: the tokens two requests have presented at
once. Such a token can be exchanged twice, as the check and the save that revokes
it are awaits apart (`auth.service.ts:665`, `687`); `OneTimeUse` says that nothing else leads there:
no failure, expiry, logout, or overlap of requests with different tokens.

`session` names the login each token descends from, over any number of exchanges.
The comment at `auth.service.ts:671` says that reuse revokes all tokens of the user;
what the code does is to save those it read one await before, and a request that was
exchanging a token of the session meanwhile issues one that is not among them.
`ReuseEndsSession` is the claim without that request: once a reuse has been answered
while nothing of its session was being exchanged (`alone`; the session is then in
`ended`), no token of the session is live in any later state. It does not assume that
the reused token had one successor, or was presented once.

### StockLedger and StockLevels

Translates `create`, `update`, `adjustStock`, `decreaseStock`,
`createStockHistory` and `remove` of `stock.service.ts`. A handler loads the row,
computes at once (`held` is the object it will save) and saves; `save()` is two
queries, so two actions.

| code | actions |
|---|---|
| `create` | `BeginCreate`, `Insert`, `Note` |
| `decreaseStock` for a line of an order | `Order`, `Compare`, `Write`, `Note` |
| `adjustStock` by staff | `Adjust`, `Compare`, `Write`, `Note` |
| `update` | `BeginUpdate`, `Compare`, `Write` |
| `remove` | `BeginRemove`, `Delete` |
| any await rejects, or the process dies | `Fail` |

* `Compare` reads the row again into `found`; `Write` sets the columns in which
  the object and `found` differ and leaves the others as they are by then
  (`Merged`). A number the handler computed always counts as different from the
  string the driver returned (`Computed`). A row not found is inserted, which
  fails if it is there again; one deleted since is left alone.
* Quantities are in hundredths (`decimal(10,2)`), and the driver returns them as
  strings. `-` converts; `+=` appends (`Appended`: what the column rounds "12.50"
  followed by the digits to; an integer amount only, `Appendable`, as any other
  text is refused); `<=` between two strings goes by characters (`TextBelow`,
  exact up to two digits before the point).
* `adjustStock` leaves the quantity alone for the nine other action types
  ("waste" stands for them), and the amount of an adjustment may be negative.
* `Order` with too little in stock is no step at all: `decreaseStock` swallows the
  error. The id lookup by menu item and `findOne` are one step, since a row
  deleted between them is an error swallowed too.

Overlapping requests lose changes: two orders of one each may leave the stock at
one less. What still holds is stated of the histories of orders and staff:
`sold` is what orders have taken, counted until staff set the quantity
(`recounted`), and `miscounted` are the stocks staff have set below zero.
`NeverNegative` and `NeverUnderstated` (with `>=`, since reductions get lost) hold
under every interleaving; the low-stock flag does not stay in step when requests
on one stock overlap, for `save()` may write the flag of one beside the quantity
of the other.

`StockLevels` says what one would expect of the stock pages: a level is opened,
taken from when there is enough, counted, closed, each in one step, and marked low
exactly when it is. `StockLedger` implements it (`ImplementsStockLevels`, `shelf`
being the rows without their menu item) when no two requests work on the same
stock (`OwnDesks`) and the saved quantity or minimum is a number (`Computing`): an
increase appends digits, and a comparison of two strings goes by letters.

### ClientSession

Translates `authStore.ts` and the interceptors of `api.ts` for one tab, with the
server's answers from `auth.service.ts` and the token blacklist. JavaScript runs to
completion between two answers, so a step goes from one answer to the next request.
A `flow` is the chain of promises one call of a page starts: `at` is the request it
waits for, `then` what the refresh under way was started for, `outer` what is sent
when that refresh returns.

| code | actions |
|---|---|
| request interceptor (refresh sixty seconds before the end) | `Send`, within `Call`, `LogOut`, `LogIn`, `Leave` |
| response interceptor on 401 | `CallRefused`, `LoginAnswered`, `LeaveRefused` |
| `refreshAccessToken` and its catch | `Exchange`, `Refreshed`, `RefreshFailed`, `ReturnNull` |
| `logout`, `authAPI.logout` | `Leave`, `LeaveExchanging`, `Left`, `LeftAgain` |
| the server | `Accept`, `Refuse`, `AcceptLogout`, `Rotate`, `RefuseRotation`, `Admit`, `TurnAway` |
| an answer lost, a time-out, an error 5xx; time; the page left or loaded again | `Lose`; `Age`, `Outlive`; `Reload` |

`FlowEnds` has an exception the code needs: a logout answered with 401 logs out
again (`api.ts:141`), and as long as the server refuses there is another request, without the
store being cleared.

### Subscriptions

Translates `createSubscription`, `startTrial`, `updateSubscription`,
`cancelSubscription` of `subscription.service.ts` and `checkExpiredTrials` with the
scheduler that runs it every night. Unlike the order desk these services do write
through the query runner: what a request writes becomes visible at its commit, and
it reads through the repositories, before. `mem[w].save` is what a request will
have written: a column in which the object and the row found are alike is `Keep`.
A row updated in an open transaction is locked (`Locked`).

| code | actions |
|---|---|
| `createSubscription`, `startTrial` | `BeginNew`, `Insert`, `Commit` |
| `updateSubscription`, `cancelSubscription` | `BeginPatch` or, without a status, `BeginEdit`; `Patch`, `Commit` |
| any await rejects | `Fail` |
| `checkExpiredTrials` | `Midnight`, per trial `Expire`, `CompareUser`, `ExpireUser`; an error is caught per trial: `Skip` |
| end dates pass; the server stops | `Lapse`; `Crash` |

A caller of `createSubscription` chooses the status (the DTO takes any): `Opening`
may be every status. One created canceled or expired makes its user ACTIVE all the
same (`subscription.service.ts:134`); `stillborn` (history) holds these, and
`UserFollows` excepts the users who point at one. A PATCH to PENDING or FAILED
changes nothing of the user (the switch at 245 has no such case): `UserFollows` is
about subscriptions that are over, canceled or expired (`Over`).

`apart` (history) holds the users whose rows a reader may no longer expect to agree:
two requests about them overlapped, or one overlapped with the night (check and
insert are awaits apart, `subscription.service.ts:117`), staff set an old subscription running, or
the night failed between a subscription and its user. `PointersWhole` needs none of
these exceptions.

### SocketLink and NotificationFeed

`SocketLink` translates `socket.ts`, `SocketInitializer` and the effect of the bell,
with the gateway's handshake. `sock` is the socket.io object: "idle" when nobody is
connecting it, "opening" while the manager tries. Two mechanisms reconnect: the manager
(`tries`) and timers of the service (`attempts`, `timer`); both give up after
`MaxAttempts`. `connect()` is not heeded while the first connection is being made, nor
with a socket that is there for a user without a tenant (`Unheeded`; those who come
through the provider have none, `auth.service.ts:908`): a user who logs in over another
then stays in the other's room. `overtaken` (history) marks such a tab until a call of
`connect()` is heeded or the socket is gone; `RoomIsOwn` is about the others.

`NotificationFeed` adds the rows of the server, the events on the `wire`, and the
store of the tab. Every action of the link is conjoined with what it does to
events: a socket that closes loses what is on its way (`Cut`).

| code | actions |
|---|---|
| `SocketService.connect`, by the page | `Connect`: `Create`, `Renew` or `Unheeded`; in `SignIn`, `Mount`, `Visible`, `Reload` |
| `disconnect`, `reconnect` | `Disconnect` in `SignOut`; `Reconnect` in `OpenFails`, `Kick` |
| socket.io, network and gateway | `Opened`, `OpenFails`, `Drop`, `Kick`, `TimerFires` |
| `NotificationService.create` | `Notify` saves the row, `Emit` sends the event a step later, heard by `Hear`; the server stops in between: `StopServer` |
| `fetchNotifications` | `MountBell`, `ServeFetch`, `TakeFetch` |
| `markAsRead` | `AskOne`, `LoadRow`, `SaveRead`, `TakeRead` |
| `archiveNotification`, `markAllAsRead` | `AskOne`, `ServeArchive`, `TakeArchive`; `AskAll`, `ServeReadAll`, `TakeReadAll` |
| a call fails on either way; another device | `Miss`; `Elsewhere` |

The list is abstracted to how often each note is in it unread and read. `exact`
(history) is set by a mount of the bell when no call is under way and no event is to
come. It is lost when the tab misses an event (the socket is closed, the server stops
between the save and the event) or hears it twice (a listener is added at every mount
and none is removed, `notificationStore.ts:196`), when the answer of the fetch lists a
note whose event is still to come or misses one whose event was heard before the
answer (`ToldOnce`), when the user logs in as another or acts on another device, and
when calls cross that mark the same note or the whole list. `BellExact` is about tabs
that are still exact: notes saved, announced, fetched and heard in any other order,
while others are read and archived, and events of notes the fetch was answered without.
The fetch alone does not tell whether a note it lists was announced before or will
be, so a note created while a bell is mounted can be listed twice and counted until
the next fetch; that is the code, and why `ToldOnce` is needed.

Visible in the model and in no property: a tab that is not exact may count below
zero; the effect of a mounted bell renews an open connection and loses what is on
its way (`socket.ts:87`); when both mechanisms have given up, a page that becomes
visible only renames the socket, which nothing connects again; the save of
`markAsRead` takes back an archiving it had not seen.

### Accounts

Translates what `auth.service.ts` does to user rows. `Begin` is the load with all
checks before the next await, and `held` the object the request will save.

| code | actions |
|---|---|
| `register` | `Register`, `Insert` |
| `updateUser` | `SetPassword`, `Touch`, or `Rename` and `FindFree`; `Compare`, `Write` |
| `removeUser` | `BeginRemove`, `Delete` |
| `requestPasswordReset` | `Forgot`, `Compare`, `Write`, then `Mailed`, or `NotMailed` and the same save again |
| `resetPassword` | `Reset`, `Compare`, `Write` |
| `oauthLogin` | `FirstLogin`, `Insert`; later `Touch`, `Compare`, `Write` |
| a check refuses, an await rejects; an hour passes | `Fail`; `Lapse` |

`last` is history: what each user was last told of his password and link. `crossed`
holds the users on whom two requests worked at once, for the code gives them
nothing: an edit saves back a password that was reset meanwhile, with the used
link; a reset overlapped by another request for a link is undone; a save brings a
removed user back. `LastWord` says that one request after another, failures and
failed mails included, a user has what he was told. `IdentityOnce` needs no such
exception, but `renamed`: the code finds a person of the provider by his user name.

## The runs

| run | instance | question |
|---|---|---|
| `order_shared` | 2 requests, 1 order, up to 2 lines | can an interleaving or failure cost a placed order a line, or leave it a partial price? No; and the invariant of the proofs holds. |
| `order_serial` | 1 request at a time, 2 orders of up to 2 lines that may share a table, every kind of request but an update without items | is a placed order priced, does the kitchen leave it in step, is its table free when an order is completed, whatever failed before? Yes; the first two not when two requests work on one order, nor the last when two work on one table. |
| `order_rollback` | 1 request at a time | a comment the code contradicts |
| `pool` | 2 requests, 6 connections, 1 transaction that may fail to start | no deadlock, every request answered, no connection lost but that of the transaction that did not start |
| `tokens` | 2 requests, 3 tokens, 2 users | exchanged tokens are revoked, revoking all ends old sessions; a token that no two requests presented at once is used once; a reuse ends its session unless that was being exchanged meanwhile |
| `stock` | 2 requests, 1 stock, all kinds of request | can overlapping requests bring a stock below zero or below what orders left? No; and the invariant of the proofs holds. |
| `stock_private` | 2 requests, each on its own stock | is every change one whole step of `StockLevels`? Yes. |
| `stock_increase` | 1 request at a time | an increase does not add, against its test |
| `client` | 2 flows, 2 pairs of tokens | is a refresh token presented once, a session kept, a logout the end of it, does every call end? |
| `subscriptions` | 2 requests or 1 and the night, 2 subscriptions of 1 user | do user, tenant and subscription agree, does every trial end? |
| `bell` | 2 users of a tab, one without a tenant, 2 notes, 2 calls, 2 attempts | is the socket in the user's own room unless `connect()` did not heed him, does somebody keep connecting it, is the bell right when the tab was told once? |
| `accounts` | 2 requests, 2 users, 2 names, 2 passwords, 2 links | does a user have what he was last told, does a person have one row? |

Bounds. Two requests on one order are enough for every pair of handlers to
interleave at every await, and a stale snapshot needs only two. Two lines
distinguish some, all and none of the lines; two orders on one table distinguish
"this order" and "another". Cashier's status changes write back what patches do,
so the overlapping run takes one of the two. `MaxLines` bounds the lines of one
request and `Item` the line ids ever generated; a run ends when they are used up,
which is why `order_shared` and `order_rollback` switch the deadlock check off; so
does a kitchen request on an order without room to go on, which `Fail` would end.
All other runs keep the check on. Five connections are the least for two requests,
and `pool` has one more for the one it may lose.
Three tokens are a chain of two exchanges or a token exchanged twice. In the stock
runs quantities of one and two, positive and negative amounts and a minimum of one
reach enough and too little stock, both sides of the minimum, and zero; `MaxSold`
bounds what orders take in a run, `MaxQuantity` what staff bring a stock to. Two
requests on one stock are enough to overwrite each other; a stock id is given once,
so a run has one stock, or two when requests keep to their own.

In `client` two pairs are a login and one exchange, or two logins, and two flows a
refresh under way and another call; a second exchange in a row would be one more of
the same. In `subscriptions` one user is enough, rows of different users being
touched together by the night's list only; two subscriptions are an old and a new
one, created active or already canceled; `MaxBusy` counts requests and the job. In `bell` two attempts tell a first
failure from a last one; the second user has no notifications, so that
what he sees of the first one's is wrong, and no tenant, so that he logs in over the
first one unheeded and heeded. In `accounts` two users are
two first log-ins, two links an earlier and a later one.

Two runs do not follow every state (CONSTRAINT `Followed` of their MC modules):

* `bell`: a tab that missed something is followed while it makes one call or has
  events to come, not both. Only a mount when all is quiet makes it exact
  again, and `BellExact` says nothing before; the list and count it has until then
  are replaced by that mount's fetch.
* `accounts`: after two requests crossed on a user, links are not followed any
  more. `LastWord` leaves such users out; that another user's link is spoilt after
  somebody else's requests crossed is not examined, and no action reads one user's link in
  writing another's row.

Symmetry is used only where ids are interchangeable: line ids, tokens, users,
passwords, links, notes and, where every request slot may do everything, the slots
and the orders. No run with symmetry checks liveness.

Fairness is assumed in three modules, for their liveness properties:

* `ConnectionPool`: the pool serves its head, or refuses it, when it has a free
  connection (pg-pool does so at every release), and a handler that can go on does (the event loop runs
  it; the database answers or rejects every call).
* `ClientSession`: a request is answered or lost (axios has a time-out), and the
  event loop continues an answered flow: weak fairness of `Handle \/ Lose` and of
  `Continue`, per flow.
* `Subscriptions`: requests end (weak fairness of `Proceed`); the job is started
  every night and goes on (strong fairness of `Night`, as requests may keep it out
  by `MaxBusy`); and the save of a given subscription, tried every night, succeeds some
  night (strong fairness of `Expire(s)`; a lock it waits for ends with its
  transaction). `TrialEnds` excepts a server that crashes for ever.

Nothing is assumed about failures or arrivals, except that the database answering
or rejecting is one fair choice.

## The proofs

`tlapm` proves, for every value of the constants:

* `OrderFlow_proofs`: `TypeCorrect`, `LinesKeptCorrect`, `TotalWholeOrZeroCorrect`
  and `InvCorrect`, for any number of orders, lines, tables and requests, under
  every interleaving and failure. Neither property is inductive: a request may
  write back what it remembers, so the invariant says what each request knows.
  `Control` gives where each kind of request can stand; `OneOwner` that a line id
  belongs to one order in the database and in every memory; `OneCreation` that one
  request creates an order; `Intact` that until lines are deleted, what any
  request remembers is still in the database and the creation has inserted exactly
  as many lines as its counter says. Each action
  preserves each part; the counting part uses the library's cardinality facts and
  needs `IsFiniteSet(Item)`. `PlacedOrderPricedCorrect` and
  `KitchenLeavesOrderInStepCorrect` assume only that no two requests work on one order
  (`OwnDesks`), updates without items included, which is more than the run
  `order_serial` examines. Two requests on one order do break both: one that loads the
  row of a creation before its total is stored writes the zero back, and a line that
  changes after the roll-up has looked is not in it. `Frame` says that a request leaves
  the rows of other orders alone, so what a request knows of its own stays true: that
  its total is stored, or remembered (`PricedInv`), and that the status it will store
  is that of every line it will write back (`KitchenInv`). Tables are shared by all
  orders, and `CompletionFreesTableCorrect` assumes one request at a time
  (`OneAtATime`).
* `ConnectionPool_proofs`: `TypeCorrect`, `OnlyStartsLeakCorrect`, and
  `NotStuckCorrect` for
  `Cardinality(Conn) > 2 * Cardinality(Worker) + MaxUnstarted`. The invariant
  ties the connections a request holds to the query runners its script has open at
  its step, and those lost to the transactions that did not start; a waiting request
  holds at most two, so if all wait they hold at most `2W` and one is free. `BalancedScripts` states that scripts close what they
  open; TLC evaluates it, the scripts being constants.
* `RefreshTokens_proofs`: `TypeCorrect`, `ExchangedIsRevokedCorrect` and
  `OldSessionsEndCorrect`, from an invariant saying what a request between its read
  and its write may rely on: a token once issued never becomes live again, so a list
  of live tokens read earlier still covers all of those that were there when the
  request came. `OneTimeUseCorrect` needs more
  (`RotationInv`): a token that is not `shared` has at most one request working on
  it, and while that request has still to issue, no successor exists.
  `ReuseEndsSessionCorrect` (`SessionInv`) says that a session has one user, that a
  request in `alone` has every live token of its session in the list it read, and
  that a session that has ended is not being exchanged, so nothing is issued for it
  again: to exchange takes a live token.
* `StockLedger_proofs`: `TypeCorrect`, `NeverNegativeCorrect`,
  `NeverUnderstatedCorrect` and `InvCorrect` for any number of stocks, requests and
  quantities. The properties speak of rows, but a request writes what it computed
  awaits ago, so the invariant (`Sound`) says the same of what every pending save
  holds: it is not negative and no less than what orders left, its own included.
  Orders only add to `sold`, so this survives the steps of others; a lost update
  loses a reduction, never adds one. And `ImplementsStockLevelsCorrect`: assuming
  `OwnDesks` and `Computing`, the specification implements `StockLevels`. The
  invariant there (`Own`, `OwnCorrect`) is that from load to write the row stays as
  the request found it and every flag belongs to its quantity; then a save stores
  its object (`WriteOwn`), which is one step of the level, and all other steps
  stutter.
* `NotificationFeed_proofs`: `LinkInvCorrect` for `SocketLink` alone, and
  `ImplementsLinkCorrect`, that a tab with notifications does to its socket only
  what the link may do; hence `RoomIsOwnCorrect` and `KeepsTryingCorrect` for any
  number of users, attempts, notifications and calls. Neither property is inductive:
  `Wired` adds that an open socket is in the room of the user `auth` names, that
  `auth` names the user of the page unless he was overtaken, and that the service says
  "connecting" only while its first connection is being made, when `connect()`
  returning at once leaves no socket untried. `TypeCorrect` and `BellExactCorrect` are
  about the notifications themselves. `BellExact` speaks of a tab with nothing under
  way; the invariant (`Told`) says of every note of an exact tab where it stands: shown
  as the server has it, or saved and its event still to come, or the business of
  the one call under way about it, and then as it was before; and of a fetch that it
  is answered with what the server has but for notes that are newer (`Fetched`). The count is the number
  of unread notes at every step, which takes the library's cardinality facts and
  `IsFiniteSet(Note)`.
* `ClientSession_proofs`: `TypeCorrect`, `OneRefreshCorrect`, `PresentedOnceCorrect`,
  `SessionKeptCorrect` and `LogoutEndsSessionCorrect`, for any number of calls and pairs
  of tokens. The interceptors call each other, so what a step does is first sorted into
  a few kinds (`Steps`): a flow begins to refresh, goes on with the tokens of the store
  or none, stores those it was given, or is given new ones. With these kinds `OneRefresh` is
  inductive. A token is presented once because those in the store were never presented
  unless a refresh is under way, and those on their way there are new (`FreshInv`). The
  last two are about a page that does one thing at a time and loses nothing: of the
  refresh tokens that descend from one login at most one is live (`Family`), and at
  each await the token of the store is that one or about to be replaced by it
  (`CalmInv`).
* `Subscriptions_proofs`: `TypeCorrect`, `PointersWholeCorrect`, `OneRunningCorrect` and
  `UserFollowsCorrect`, for any number of users, subscriptions, requests and nights.
  Requests and the job save what they loaded before other awaits, so `PointInv` says
  that everything they hold points at subscriptions of their user, and that no two
  requests create the same one. `RunInv` is about users whose rows only one thing at a
  time changes: a creation knows that nothing of his runs until it commits, and his
  rows agree except while the job is between its two saves.
* `Accounts_proofs`: `TypeCorrect` and `IdentityOnceCorrect`, for any number of users,
  names and requests. A request saves an object it loaded awaits ago, so the invariant
  says that nobody changes where a user came from: every object a request holds
  agrees in that with the row and with the objects of other requests (`Origin`). A
  user of the provider is called by his address until someone renames him
  (`Addressed`), and names are unique in the rows (`UniqueNames`). `LastWordCorrect`
  needs two more invariants: a link is in the hands of one user only and is mailed
  once (`LinkInv`); and a user on whom no two requests crossed has at most one
  request, which holds what his row has but for what it is there to change
  (`LastInv`).

Every safety and action property of a passing run is stated by one of these theorems.
Only model-checked: `Answered`, `FlowEnds` and `TrialEnds`, being liveness under
fairness, which is beyond the prover. No theorem is assumed; the assumptions on
constants are the named ASSUMEs of the modules, which TLC evaluates in every run, and
`OwnDesks`, `OneAtATime`, `Computing` and the size of the pool where a theorem says so.

## What is not modelled

Every component is in `PROJECT.json` with its status and the reason.

Because nothing of it runs: payments, except for the connections their handlers hold. `PaymentService.create` records a transition
from PENDING to PENDING, which the state machine refuses
(`payment.service.ts:159`), so every payment that is not cash is rolled back; for cash the transition, saved on another connection,
refers to a payment that is not committed yet (`payment.service.ts:119`).
Processing, refunds, webhooks and gateways work on payments that exist. The items
of a purchase order cannot be created either (`totalAmount` is NOT NULL and not in
the DTO), so nothing is ever received. The modules of feature flags, usage tracking
and customers are not imported by the application, and
`subscription-payment.service.ts` and the subscription webhooks are not wired.

Left out within the modelled parts:

* orders: the order number (the clock's last six digits, which can collide: one of
  the rejections `Fail` stands for), menu prices (a line costs one unit), WebSocket broadcasts; the creation and removal of
  tables and their layout.
* stock: alerts and critical levels, tenants.
* accounts: edits of both name and password at once, other columns (`Touch` stands
  for them), the tenant a registration names but cannot find (`Fail`), that
  removing a user cascades to his refresh tokens.
* subscriptions: a PATCH of the end date, plans, mails and the reminder that only
  mails; that user rows are saved by `auth.service.ts` too. PATCH and cancel compare
  the caller with the user of a promise they do not await
  (`subscription.controller.ts:131`, `155`), so only staff get through: that is why
  the model lets staff do what it lets do.
* sessions: several tabs on one persisted store, the provider's log-in page, the
  request counter of the throttle guard.
* notifications: preferences, mail and push, broadcasts to a tenant, the order and
  paging of the list.

Planned, see [the plan](#the-plan): invoices, the throttle, tenants, the usage count
of campaigns. Rows written one at a time by one request (menu, suppliers,
customers), queries and reports have no state to interleave. Out of TLC's reach or
without state: gateways, e-mail, PDF generation, rendering, translations.
