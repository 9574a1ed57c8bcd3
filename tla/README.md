# Verification of the restaurant back end

The repository is the back end of a restaurant system in Go (`src/be`), with a
frontend scaffold (`src/fe`) and documentation. This directory models the back
end in TLA+: what its handlers do to the rows, cache entries and channels they share, one
statement at a time. TLC checks the models on small instances; TLAPS proves all their
safety results for every instance.

## 1. Inventory

The server (`cmd/server/main.go`) is one process. Every HTTP request runs on a
goroutine of its own; two jobs run on timers. All shared state is outside the
process: rows in MySQL, keys and pub/sub channels in Redis, files on disk. There
is no lock and, except for creating an order, no transaction: **a handler is a
sequence of separate database statements that decides in memory in between.**
That makes interleavings, failures between two statements and stale reads the hard
part of this code, and none of it is covered by a test: the repository has no test
file.

| Component | State | Operations | Talks to | Hard behaviour | What makes it correct |
| --- | --- | --- | --- | --- | --- |
| Order service (`service/order_service.go`) | `orders`, `order_items` | create, change status, cancel, count served portions, auto-ready | product snapshots; Redis events; called by payments | check in one statement, write in another; no status condition on any UPDATE; handlers cut off between statements | status follows the transition table; cancelled and delivered are final; one active order per table; the 30% rule; a finished order becomes ready |
| Payment service (`service/payment_service.go`) | `payments` | create, webhook, complete | order service, gateways | timeout against late success; repeated, contradicting and unmatched reports; completing and delivering in separate statements | paid only if the gateway said so, with the right amount; paid is final; paid orders are delivered; failed payments can be retried |
| Payment timeout job (`jobs/payment_timeout.go`) | `payments` | fail expired pending rows, every minute | – | races with webhooks | never touches a completed payment |
| Gateway adapters (`internal/payment`) | – | build URL, call API, verify signature | VNPay, MoMo, ZaloPay | may fail after the row is inserted | the reference sent is the one looked up |
| Auth service (`service/auth_service.go`) + middleware | `staff`, `refresh_tokens`, Redis `auth:staff:*`, `ratelimit:login:*` | login, refresh, logout, (de)activate, is-active check | Redis, every request | cache filled from a stale read; count-then-insert cap; counter without expiry; Redis down means open | five sessions, and how many more; the cache agrees with the row; a deactivated account is shut out |
| Group service (`service/group_service.go`) | `orders.group_id` | create, add, remove, disband | orders, group event stream | several unguarded writes per request, partial failure; messages lost | orders change groups by races only; a disbanded group is empty; its stream shows it |
| Product service (`service/product_service.go`) | menu tables, Redis cache | CRUD with cache-aside reads; price snapshots | orders | a stale value stored after the invalidation; entries not invalidated; a combo whose parts failed | what is out of date is explained and expires; orders are priced from rows; a listed combo is whole |
| WebSocket hub (`internal/websocket`) | set of clients, bounded channels | register, unregister, forward, broadcast | Redis `orders:kds` | send on a channel the hub closed; buffer full | no panic while displays stay, no leak; no event is lost for an unnamed reason |
| Event streams (`internal/sse`) | subscriptions | stream an order or a group | Redis `order:<id>`, `group:<id>` | no replay, no snapshot on subscription | every change is shown or lost for a named reason |
| Tables (`handler/table_handler.go`) | `tables` | create, update, find by QR token | guest tokens, orders | a guest's token outlives the table's closing | a shut table is empty in the end |
| Files (`handler/file_handler.go`, `jobs/file_cleanup.go`) | disk, `file_attachments` | upload, clean up orphans | – | crash between disk and row | no row without its file |
| Redis helpers, generated queries, respond/errors, frontend | single rows, or nothing | wrappers | – | – | – |

`PROJECT.json` lists every component with its files and its hazards with the
lines where they bite.

## 2. Modules

| Module | What it is |
| --- | --- |
| `OrderLifecycle` | abstract specification: the life of an order as `Spec_4_Orders_API.md` has it, every change one step; one constant says whether staff may cancel past the 30% |
| `Orders` | the order service, statement by statement |
| `Ledger` | abstract specification: what the payment service promises of bills and the gateways' word |
| `Payments` | EXTENDS `Orders`: the payment service, the timeout job and the gateways on the same rows |
| `Access` | staff accounts: login, sessions, tokens, the is-active cache and the login rate limit |
| `Menu` | the product service: menu rows, cache entries, and what an order reads of them |
| `Groups` | the group service and the event stream of a group |
| `Tables` | the tables and the guests' tokens |
| `Feeds` | EXTENDS `Tables`: the WebSocket hub and the order streams, fed by the handlers that change orders |
| `OrdersProofs` | theorems about `Orders` with no assumption on the clients |
| `OrdersTurnsProofs` | theorems about `Orders` when clients take turns, and the refinement of `OrderLifecycle` |
| `PaymentsProofs` | EXTENDS `OrdersProofs`: theorems about `Payments`, and which of the order service's survive beside payments |
| `PaymentsTurnsProofs` | EXTENDS the two above: both services when clients take turns on the orders, and the refinement of `Ledger` |
| `AccessProofs`, `MenuProofs`, `GroupsProofs`, `FeedsProofs` | theorems about those modules |
| `MCOrders`, `MCPayments`, `MCAccess`, `MCMenu`, `MCGroups`, `MCFeeds` | the instances for TLC |

Operators named `Bug_...` are not part of any specification: each states one action as a
plausible mistake would have it, and shows in a run of its own that the property beside it
notices. Variables called *history* in a comment are read by no action; properties use them.

In every module a handler in flight is a record `req[h]` whose field `at` names what it
does next. A handler's first statement is the action that starts it; a request that is
refused there (401, 404, 409, 422) changes nothing and is not a step.

### Orders

`status`, `deleted`, `table`, `quantity`, `served` are columns of the `orders` and
`order_items` rows. `req[h]` is what the handler goroutine `h` keeps in its local
variables: `at` names the statement it executes next (`"status.write"` and so on),
the other fields what it read or was sent.

| Code | Actions |
| --- | --- |
| `CreateOrder` | `CreateCheck` (table free, or the lookup failed: the code tests `err == nil`), `CreateInsert` (one transaction) |
| `UpdateOrderStatus` | `StatusRead`, `StatusWrite` |
| `CancelOrder` | `CancelRead`, `CancelSum`, `CancelWrite` |
| `UpdateItemServed` | `ItemRead`, `ItemWrite` |
| `maybeAutoReady` | `ReadySum`, `ReadyRead`, `ReadyWrite` |
| a failed statement, a closed connection (its context is cancelled), shutdown | `Fail` |

`WriteStatus` is the one statement behind every status write: `WHERE id = ? AND
deleted_at IS NULL`, and nothing about the old status. Portions per line are
numbers, names and prices are left out, and an item line with quantity 0 is a row
that does not exist.

The constants `Overlap` and `Faults` say what the surroundings do. With
`Overlap = FALSE` clients take turns (`Exclusive`, `Shared`, `TurnAt`): a status
change or a cancellation of an order does not overlap another request on that
order, and two orders are not created for one table at the same time; item updates
still overlap each other and the auto-ready checks they end with. The code does not
enforce this. It is what the staff of a restaurant with one screen per order would
do, and separating it out shows which guarantees come from the code and which from
its users. With `Faults = TRUE` any statement may fail and any handler may stop
between two statements.

`OrderLifecycle` is read from the document, not from the code: it cancels an order, in
whatever way, only while less than 30% of it is served (`Spec_4_Orders_API.md:63`, `:71`).
The code asks for this in DELETE alone, so there are two instances in `Orders`:
`KeepsDocumentedLifecycle` (`ByHand = FALSE`), which the run `orders_cancel_late` refutes, and
`ImplementsLifecycle` (`ByHand = TRUE`), which grants staff this one departure and is checked and
proved. `late` maps to the orders at or past the threshold (`LateOrders`). The document also lets an
order be delivered only once it is paid (`:70`); orders know nothing of payments, and
`UnpaidOnlyByHand` in `Payments` states what of this the code keeps. Left out of the lifecycle are
who may take a step, and the document's "any" in the row of cancellations, where its own diagram
and the code exclude ready orders.

### Payments

`payStatus` and `expires` are the order's `payments` row (at most one, by
`UNIQUE (order_id)`), `charged` and `notices` are the gateways' side, `preq[h]` is a
payment handler's memory.

| Code | Actions |
| --- | --- |
| `CreatePayment` | `PayRead` (`GetOrderForPayment`), `PayCheck`, `PayInsert`, then `PayGateway` or `CompleteWrite` |
| `completePayment`, `MarkOrderDelivered` | `CompleteWrite`, `DeliverRead`, `DeliverWrite` |
| `processWebhookResult` | `WebhookRead`, then `CompleteWrite` or `FailWrite` |
| `expirePayments` | `ExpirePayments(late)` for any set of pending payments with an expiry |
| the gateway reports an outcome | `GatewayReport` (external); a notice stays and may be delivered any number of times, late or never, in any order |

`RefSent` is the reference the gateways get. **The code sends the payment's id**
(`payment_service.go:100`, `:112`, `:123`) **and looks the returned reference up as an
order id** (`:209`), so that no webhook finds its payment (run `payment_reference`).
The run `payments` uses `"order id"`, which is what `processWebhookResult` is written
for, so that the rest of the webhook code is exercised too.

`Ledger` is the payment service without handlers and queries: an order falls due, is billed
once, in cash or online, and its bill is settled, declined or lapses; online only on the
gateway's word. `Accounts` maps it: `due` is the orders that are ready or delivered, `bill`,
`online` and `word` are `payStatus`, `expires` and `notices`.

Signatures are taken to be verified, amounts are "none", "the right one" and
"another one", and the three gateways are treated alike. `attempt_count`,
`gateway_ref`, `gateway_data` and `paid_at` are written and never read; they are left
out together with the statement that increments the first.

### Access

| Code | State and actions |
| --- | --- |
| `staff.is_active`; the rows of `refresh_tokens` that have not expired | `active`; `sessions`, a number: which session is oldest matters to no decision |
| `auth:staff:<id>`, `ratelimit:login:<address>` in Redis | `cache`; `attempts`, with whether an expiry is set |
| `checkLoginRateLimit` | `LoginCount` (INCR), `LoginUncounted` (Redis fails: the attempt passes), `LoginExpire` (EXPIRE), `WindowEnds` |
| `Login` | `LoginRead`, `CountSessions`, `EvictOldest`, `CreateSession`, `LoginMark` |
| `Refresh` | `RefreshToken`, `RefreshRead`, `RefreshTouch` |
| `AuthRequired`, `IsStaffActive` | `CheckCache`, `CheckRead`, `CheckFill`; `Serve` stands for the request itself |
| `Logout` | `LogoutDelete`, `LogoutForget` |
| `DeactivateStaff`, `ReactivateStaff` | `SetStaffActive`, `ForgetActive` (the two functions have no route yet) |
| a token's, session's or cache entry's time is up | `AccessExpires`, `SessionExpires`, `CacheExpires` |

`access[s]` says that an unexpired access token of `s` exists; it is a JWT, so nothing the
server does takes it back. Passwords and hashes are right or wrong.

### Menu

A row is its version: how often it was written. A cache entry is what its reader
collected, the versions found by each of its statements, so that "out of date" is a
comparison of numbers and a list read in several statements may be a mixture. No request
reads one entry to write another, hence one key, any, is followed at a time.

| Code | Actions |
| --- | --- |
| `ListProducts`, `GetProduct`, `ListCategories`, `ListToppings`, `ListCombos` | `CacheMiss`, a `ReadNext` per statement, `StoreEntry`; `Contents(key)` lists the statements |
| `GetProductSnapshot`, `GetComboSnapshot` for an order line | `OrderProduct`, `OrderCombo`, `ReadNext`, `InsertOrder` |
| `Create...`, `Update...`, `Delete...` of products, categories, toppings, combos | `BeginChange`, a `WriteNext` per further statement, `Invalidate`; the operators of those names give the statements and the keys deleted |
| five minutes are over; a request stops | `CacheExpires`; `Fail` |

### Groups

`group[o]` and `gone[o]` are `orders.group_id` and `deleted_at`. `CreateGroup` reads its
orders one by one (`CreateGroup`, `CreateCheck`) and then writes them one by one
(`SetNext`); `AddToGroup` is one read and one `SetNext`; `RemoveFromGroup` reads and then
clears (`RemoveClear`); `DisbandGroup` lists the members and clears each (`DisbandClear`,
`DisbandDone`). All end with `Publish`. `CancelOrder` is the order service's, which does
not know groups. The stream of one group, `Watched`, subscribes (`OpenStream`), is
subscribed some time later (`SubscriptionOn`: go-redis does not wait), sends the group
(`SendInit`) and sends it again after every message (`SendUpdate`).

`StreamGroup`'s comment says that it "multiplexes events from all member orders"
(`sse/group_handler.go:17`); the code listens to the group's own channel, so that a
change of a member order is not shown. The model follows the code.

### Tables and Feeds

`Tables`: `CreateTable`, `UpdateTable`, `GuestLogin`, `TokenExpires`. An UPDATE without
`is_active` opens a shut table (`table_handler.go:83`). `GuestLogin` finds the table and makes the token in
one step; a table shut in between gives a token like one made just before.

`Feeds` follows one order. A change (`ChangeOrder`; `SettleOrder` when it is a payment that
delivers the order, which the order's own channel never hears of) is published on the two
channels one after the other (`PublishOrder`, `PublishKDS`). A message is the number of the
change.

| Code | Actions |
| --- | --- |
| `ServeWS`, `Hub.Run` | `Upgrade`, `Register` and `Unregister` (a send on an unbuffered channel and the loop's case are one step, although the hub closes `send` only after the sender has gone on; nothing looks at both) |
| `readPump` | `ReadFails`, then `Unregister` |
| the forwarder of a connection | `Forward`, or `ForwarderPanics` when the hub has closed `client.send`; `SubscriptionOver` |
| `writePump` | `Write`, `WriterEnds` |
| `StreamOrder` | `OpenStream` (by a guest or by staff), `StreamNext`, `StreamEnds` |
| the network, and the ten seconds `writePump` gives a write (`client.go:74-82`); Redis; the container | `Disconnect`; `SubscriptionOn`, `Deliver`, `Lose`; `Restart` |

`client.go:38` recovers in `readPump` "to prevent panic from killing server"; the
forwarder (`websocket/handler.go:71`) has no recover, and it is the one that sends on a
channel the hub may have closed. So a display that leaves while a message is being
forwarded may end the process (`ForwarderPanics`); `StandsWhileConnected` says that
nothing else does. `Hub.Broadcast` and its loop case are called by nothing and left out.

## 3. Runs

| Run | Instance | Shows |
| --- | --- | --- |
| `orders_concurrent` | 1 order of 7+3 portions, counts of 0, 3 or 7, 3 overlapping requests, faults | the row types and counts (`OrdersTypeOK`); a deleted order stays cancelled (`CancelIsFinal`); delivered and cancelled are final (`SettledStaysSettled`); a finished order is not left in `preparing` unless the handler that owed it the check failed (`NoOrderStranded`); DELETE removes an order at exactly 30% or above only if a count changed between its sum and its write (`CancelRule`) |
| `orders_turns` | 2 orders, 1 table (or none), 10 portions each of which 3 or 10 are served, 2 handlers taking turns, fair | `ImplementsLifecycle` (refinement of `OrderLifecycle`, in which a table has one active order and DELETE keeps the 30% rule without exception); `AutoReadyHappens` (liveness) |
| `payments` | 1 order, 2 order and 2 payment handlers, clients taking turns on the order, faults | `PaymentsTypeOK`; an order with a payment is ready or delivered (`PaymentOnlyFromReady`); no online payment is completed without the gateway's word (`CompletedOnlyIfPaid`), and completed is final (`PaidStaysPaid`); the two services implement `Ledger` (`ImplementsLedger`); a status leaves the transition table in one case only (`OnlyAutoReadyReopens`); a paid order loses its delivery for two named reasons only (`DeliveryLostByFailure`); an unpaid one is delivered by a PATCH, or when a late "declined" overwrites the completion, and not otherwise (`UnpaidOnlyByHand`); a cash payment stays pending for good only if its handler fails (`StuckByFailure`) |
| `access` | 1 account, 1 address, 2 handlers, cap 1, limit 2, faults, fair | the cache contradicts the row only for two named reasons (`CacheAgreesOrExcused`) and catches up (`CacheCatchesUp`); how far overlapping logins pass the cap (`SessionsBounded`); an address is locked out for good only after a loss at one point (`CounterWillExpire`); a disabled account is shut out in the end (`DisabledStaffShutOut`), and no late login, cached value or failure lets it in again (`ShutOutStays`) |
| `menu` | 1 product, 1 combo, 2 handlers, 2 changes, each key followed in turn, faults, fair | why a served menu may be out of date (`EntryExplained`) and that it does not stay so (`MenuCatchesUp`); order lines use rows, never entries (`PricedFromRows`); combos are whole (`ListedMeansWhole`) |
| `groups` | 2 orders grouped anyhow at first, 2 groups, 2 handlers, 3 requests, faults, fair | orders are moved, removed or left behind by races only (`MovedOnlyIfRaced`, `RemovedOnlyIfRaced`, `DisbandLeavesLateJoiners`); the stream shows the group (`StreamShowsGroup`, `StreamCatchesUp`) |
| `feeds` | 1 display, 1 order stream, 1 guest, 1 table, 2 handlers, 3 changes, buffers of 1, faults, fair | no change is lost for a reason not named (`EveryChangeAccounted`); the hub's map and its closed channels are exact (`HubKnowsTheLiving`); only a lost connection can end the process (`StandsWhileConnected`); the hub is rid of lost displays (`LostDisplayLeavesHub`); a shut table empties (`ShutTableEmpties`) |
| `orders_table_race` | 2 orders, 1 table (or none), 7+3 portions, 2 overlapping handlers | **violation**: two overlapping creations put two active orders on one table |
| `orders_stale_write` | 1 order, 2 overlapping handlers | **violation** of the state machine: a status checked against an old one is written over a new one |
| `orders_cancel_late` | 1 order of 10 portions, 2 handlers taking turns, no faults | **violation** of the documented lifecycle: PATCH cancels an order of which 3 of 10 portions are served |
| `payment_retry` | | **violation**: the retry of a failed payment inserts, and the UNIQUE key refuses it |
| `payment_reference` | fair, no faults | **violation**: a report of success never reaches its payment |

*Why these bounds.* A stale write needs one handler between its read and its write
and another that moves the row meanwhile: two handlers. The third in
`orders_concurrent` allows two overlapping item updates beside a status change, the
case `NoOrderStranded` is about. Everything the order service does concerns one order,
except the one-order-per-table rule, which needs two. Two lines make "the last item"
differ from "an item" (`orders_concurrent`; in `orders_turns`, with two orders, one line is
enough for two overlapping item updates). Serving 3 of 10 portions places an order at exactly
the threshold; with lines of 7 and 3 the sums pass through 0, 3, 6, 7 and 10. Payments need
two handlers for a webhook against a webhook or a cashier, and the order handlers
beside them for an order that changes under its payment. These three runs bound nothing
else: their state spaces are finite because counts are bounded by the carts.

`access`: nothing is shared between two accounts or two addresses. A cap of 1 is passed by
2 overlapping logins as 5 is by 6; the limit 2 separates the first attempt, the last
allowed one and a refused one. `MaxLost` bounds the evictions that fail, each of which
would let one more session stand. `menu`: `MaxChanges` bounds the versions; one change
makes an entry old, the second overlaps the reader or the deletion of the first.
`MaxLinks` bounds the toppings of one body. One product and one combo give every entry
more than one statement; the theorems do not need these numbers. `groups`:
`MaxRequests` is one request to disturb another and one, or a cancellation, to follow; the
initial grouping is arbitrary, so that no requests are spent on it. `feeds`: with buffers
of one message a second message finds them full; three changes fill both and
have one dropped. Displays share only the hub's map. A second display multiplies the states beyond
the time allowed, and `HubIsExact` and `ServerStands` are proved for any number.

Handlers are interchangeable, which the symmetry sets of the runs without liveness use.
Deadlock is checked in every run: a client may always send another request. Where
requests are bounded, time goes on: entries expire, connections come and go.

*Fairness.* `OrdersFairness`, `Fairness`, `AccessFairness`, `MenuFairness` and
`GroupsFairness` say that a handler that has started goes on (weak fairness of `Proceed`
and `PayProceed`): `net/http` gives every request a goroutine, and the Go scheduler runs
it. Nothing is assumed of clients: no fairness on `Start` or `PayStart`. In `Access` and
`Menu`, Redis drops a key whose time is up and a JWT expires by the clock; in `Groups`, the
stream's loop runs. `FeedsFairness` asks for the steps that take a display through
`readPump` and the hub, which waits on nothing but its two channels, and for guest tokens
to expire; publishing, forwarding and writing need no fairness, since
`EveryChangeAccounted` is about safety. `payment_reference` also assumes that a gateway repeats a report
until the webhook has read it (strong fairness of `WebhookRead`), which is what the
gateways promise and the most favourable case for the code.

*Findings.* The five violation runs are disagreements between the code and its own
documentation; `PROJECT.json` quotes both sides. Others were seen while modelling and made no run:

- A guest's orders carry `created_by = "guest"` (`order_handler.go:79`), which the foreign
  key to `staff` refuses.
- A combo's header row and its parts all enter the total amount (`order_service.go:300`).
- PATCH to `delivered` does not ask for a payment, although `Spec_4_Orders_API.md:70` delivers "after the
  payment is done". The run `payments` reaches it; `UnpaidOnlyByHand` says that besides a webhook's late
  "declined" this is the only way.
- `completePayment` writes "completed" and only logs a failure of `MarkOrderDelivered`
  (`payment_service.go:260`); a repeated webhook returns at the idempotency check (`:218`), so the order stays
  ready, where `Spec_5_Payment_Webhooks.md:71-72` goes on to "delivered". `DeliveryLostByFailure` names the causes.
- An order whose items are all done while it is still confirmed is not made ready when it enters
  preparation: auto-ready looks only when an item changes. `Spec_4_Orders_API.md:69` has "ready" follow as
  soon as all items are done. `NoOrderStranded` excepts this case, so nothing covers it.
- `Spec_4_Orders_API.md:256` and `API_CONTRACT_v1.2` repeat the 30% rule for DELETE, where the code
  keeps it except for counts between its sum and its write (`CancelRule`).
- Nothing calls `LinkFileToEntity`, so that the cleanup job removes every upload after a day.
- With payments beside it, the order service leaves its transition table even when clients take
  turns: two auto-ready checks may run on one order, and if the first makes it ready and it is then
  paid and delivered, the second writes "ready" over "delivered" (`order_service.go:422`). The
  order is paid, its table counts as occupied again, and it can be delivered a second time.
  `OnlyAutoReadyReopens` says that this is the only such case, and that the order has a payment.
- An order stream and a guest's token outlive the closing of the table.
- A single product's cache entry is not deleted when its category or a topping changes.

*What the passing runs do not promise.* `SettledStaysSettled` and `PaidStaysPaid` say when
a final status is final: as soon as no handler that read the row earlier is still about to
write. Inside that window the code does overwrite it, which is what
`orders_stale_write` exhibits for orders; for payments, a webhook that read "pending" may
write "failed" over a completion. In the same way `CancelRule`, `OnlyAutoReadyReopens`, `UnpaidOnlyByHand`, `DeliveryLostByFailure`, `StuckByFailure`, `CacheAgreesOrExcused`, `EntryExplained`,
`StreamShowsGroup` and `EveryChangeAccounted` list, each, every way the code has of
going wrong in its respect, and claim that there is no other; `SessionsBounded` is the bound that holds, not the
five of the specification.

## 4. Proofs

All theorems hold for every set of orders, tables, lines, carts, accounts, products, groups,
screens and handlers, and whatever the bounds. They rest on the named assumptions of the modules only: carts hold
natural numbers and at least one portion, served counts sent by clients are natural numbers,
`NoTable` is not a table, `RefSent` is one of the two ids, caps and bounds are natural
numbers, `Handlers` is finite in `Access`, `Products` and `Combos` are sequences, displays
are not order streams.

`OrdersProofs`, with overlapping requests and faults. The type invariant is not inductive:
that a count written in `ItemWrite` is at most the quantity depends on what the handler
checked one statement earlier. `Inv` adds what every handler in flight relies on:

- `InsertsAreFresh`: an order about to be inserted has no row and one handler;
- `OthersHaveRows`: every other handler works on a row that exists;
- `CountsAreChecked`: the count about to be written is at most the quantity;
- `ItemsHaveOrders`: an order without a row has no items;
- `DeletedAreCancelled`: a deleted order is cancelled.

`Inv` was model-checked before it was proved. Two lemmas carry the proof: a step that
changes no row (`ReadStep`) and one that writes a status (`StatusStep`) preserve `Inv`
whatever statement they are. From it follow `TypeCorrect`, `CancelFinal`, `SettledIsFinal`
and `ReadyCheckKept`. Two more theorems need an invariant of their own beside `Inv`:

- `CancelRuleKept` is `CancelRule`: a handler about to delete carries the counts it summed, which
  allowed the cancellation (`SumsAllowCancel`), and quantities do not change while it is at work
  (`QuantitiesStay`); so a deletion past the threshold means that the counts are not those any more. No
  taking of turns is assumed: the window between the sum and the write is what the property is about.
- `TablesBounded` is how far the one-order rule holds when creations overlap: without failures, a table has no
  more active orders than there are handlers. `ContendersBounded` counts the active orders of a table together
  with the ones that a handler at work is about to add or to revive (`MayEnliven`).

`OrdersTurnsProofs` assumes `~Overlap`. `TurnInv` adds to `Inv` that what a handler read is
still so when it writes: a status about to be written follows the current one
(`StatusFresh`), an order about to be deleted is cancellable, below the threshold and
alone (`CancelFresh`), and one about to become ready is in preparation or already ready
because a second auto-ready check came first (`ReadyFresh`). `StateMachineFollowed`
needs no more; it holds with faults. `ImplementsOrderLifecycle`
also assumes `~Faults`, since a failed lookup counts as "table free", and uses `TableInv`:
an order about to be inserted finds its table free. `StepMaps` takes each statement to one step of
`OrderLifecycle` or to a stutter: an insertion is `Open`, which needs `TableInv`; a status write is `Advance` or
`Strike`; a deletion is `Withdraw`, which needs `CancelFresh`; a count is `Count`.

`PaymentsProofs`. `PayInv` strengthens `CompletedOnlyIfPaid` with what a handler about to
complete a payment knows (`CompletionsArePaid`: the gateway's report was seen, or the
payment has no expiry because it is cash) and that its row exists (`RowsExist`). From it follow
`PaymentsTypeCorrect`, `PaidBeforeCompleted` and `PaidIsFinal`, whichever reference is sent
and however requests overlap and fail. Inductive beside it is `FailuresAreDeclined`: a handler
about to fail a payment has seen the gateway decline it. `OnlineIsLost` is about the reference that the code
does send: with `RefSent = "payment id"` no online payment is ever completed, since only a cash payment
(`OnlyCashSettles`) has a handler on its way to a completion. It is the safety half of what the
run `payment_reference` exhibits.

The order service does not survive the composition unseen: `MarkOrderDelivered` writes a status
in the middle of its handlers. `JointInv` is `Inv`, `PayInv` and that an order about to be
delivered has a row (`DeliveriesHaveRows`). `OnlyDeliveriesWrite` leaves one statement to look at, and
`DeliveryKeepsInv` shows that `Inv` survives it; the steps of the order service are those of `OrdersProofs`,
whose step lemmas are cited as they are. `PaymentsKeepOrderRows`, `PaymentsKeepCancellations`,
`PaymentsStrandNoOrder` and `PaymentsKeepCancelRule` are four of its results for the two services together.

Two theorems say when the two tables part. `UnpaidDeliveredByHand` rests on `DeliveriesArePaid`: the
payment of an order about to be delivered is completed, or a "declined" notice for it exists and was written over
the completion. `PendingStuckByFailure` follows a cash payment, which has no expiry: from the INSERT on its
handler is at the completion, and leaves that statement by executing it or by failing.

`PaymentsTurnsProofs` assumes that clients take turns on the orders, and allows faults. `TurnInv`
does not survive here, because a payment may deliver the order while a status write is pending.
`PaidInv` replaces its parts by weaker ones that allow exactly this (`StatusLate`, `ReadyLate`;
`CancelFresh` survives, as what may be paid for is ready or delivered and so past cancelling), and adds
`PaidIsReady`: an order that has a payment, or is about to get one, is ready or delivered. From it:

- `PaidOrdersAreReady` is `PaymentOnlyFromReady`.
- `AutoReadyAloneReopens`: a delivery is written over "ready" or "delivered" only, and the one status
  write that leaves the transition table is `ReadyWrite` over "delivered". The order has a payment then
  (`BilledInv`: payments deliver what they billed, and a status write that delivers is alone with its order). So `FollowsStateMachine` and
  `ImplementsLifecycle`, which `OrdersTurnsProofs` proves of the order service alone, and
  `OneActiveOrderPerTable` with them, are *not* true of the two services together.
- `OneUnbilledPerTable` is what remains of the last: a table has at most one active order *without a payment*,
  provided that no lookup fails (`~Faults`). Its invariant, `TablesBilledInv`, says of an order about to be
  inserted that its table has no unbilled one. No run checks it, since an instance with two orders and payments
  is beyond the time of a run; TLC found no violation in the first ten million states of one.
- `PaymentsKeepSettled` carries `SettledStaysSettled` over.
- `PaidAreDelivered`: an action property about two tables. A step that completes a payment puts its handler
  on its way to the delivery (`DeliveryAhead`); only that handler's failure or a late `ReadyWrite` ends
  this with the order undelivered.
- `ImplementsPaymentLedger`: the refinement of `Ledger`, step by step. A step of the order service
  is `FallDue` or a stutter (`OrderStepFallsDue`: nothing that is due stops being due); a step of the
  payment service is one step of the ledger (`PaymentStepKeepsBooks`): `PayInsert` is `Bill`, which needs
  `PaidIsReady`; `CompleteWrite` is `Settle`, which needs `CompletionsArePaid`; `FailWrite` is `Decline`,
  which needs `FailuresAreDeclined`; `GatewayReport` is `Hear`, `ExpirePayments` is `Lapse`.

`AccessProofs`. For the cap a total does not suffice: `SessionsCounted` counts the sessions
of an account together with the handlers that will insert one (`Inserting`), and gives
`MaxSessions + Cardinality(Handlers) - 1 + lost`. The rest of `AccessInv` is the type
invariant and the two properties about the cache and the counter, which are inductive with it.
`DoorStaysShut` needs the type invariant only: every step that hands out a token, creates a
session or admits a request is its handler's own (`Inside` lists where such a handler is), and the ways in lead
past a statement that reads the row. One lemma for requests that start and one for those that go on
show that each step leaves the account out (`ShutOutFrame`).

`GroupsProofs`. `GroupsInv` says of each handler in flight that its place is inside its list and
that what it read of `group` is still so or was changed by another handler at work, which `during`
records (`HandlerOK`). `Undisturbed` shows that a step of another handler keeps this;
`ReadStep` and `WriteStep` reduce every action to what its own handler goes on to.

`FeedsProofs`. `FeedsInv` adds to the properties that a display that is unregistering or has left has a
lost connection (`LeftIsLost`), from which `ServerStands` follows. `AccountMoves` is the step that most
actions are: a change moves from one of `told`, `missed`, the inbox, the channel and the
handlers to another.

`MenuProofs`. `Sound` is what a handler carries, judged by the followed key and the versions
of the rows: what was read belongs to its statements (`Fits`), a reader of prices can leave
nothing out and found nothing older than its request (`PricesAreNew`), and a writer will
delete the entry if a statement that is left concerns it (`DeletionDue`). The last rests on
`ChangesForget`, which compares the rows each operation writes with those each entry shows
(`ShownRows`): the exception it has to make is the product entry's category and toppings.
`PartsCounted` adds up the parts a combo has and those its creator has left.

Only model-checked: the liveness properties (`AutoReadyHappens`, `DisabledStaffShutOut`,
`CacheCatchesUp`, `MenuCatchesUp`, `StreamCatchesUp`, `LostDisplayLeavesHub`,
`ShutTableEmpties`), which are out of the prover's reach. Every safety property of a passing run is a theorem, and so are both refinements. Each violation run has a theorem beside it that says how far the violated claim does hold:
`TablesBounded` and `OneUnbilledPerTable` (`orders_table_race`), `SettledIsFinal` and `AutoReadyAloneReopens`
(`orders_stale_write`), `ImplementsOrderLifecycle` (`orders_cancel_late`), `OnlineIsLost` (`payment_reference`), and
`ImplementsPaymentLedger`, where an order is billed once (`payment_retry`).
The sums over an order's lines (`SumFunction` of the community modules) are folds; the
proofs never need their value, only that statements compare the same sums. What the sums
compute is left to TLC.

## 5. Plan

Done: the order and payment services, accounts, menu, groups, tables, hub and streams, with
their theorems. What could follow:

1. `OrderTotals` and `OrderNumber`: combo expansion and totals as pure operators against a
   reference; the order number's Redis counter and clock fallback.
2. `FileCleanup`: disk and rows with a crash between them.
3. `Feeds` over `Orders`: the handlers of `Orders` themselves publishing, instead of an abstract
   order whose changes are numbered.

## 6. Not modelled

Cryptography (JWT signing, bcrypt, webhook HMACs), HTTP parsing and formatting, role
comparison (`RequireRole`), reads that change nothing and use no cache (`GetOrder`,
`ListActiveOrders`, `ListAllProducts`, `Me`), configuration and migrations, `pkg/redis` (imported by
nothing), generated query code apart from the statements themselves, and the frontend,
which is a scaffold. Files: an upload writes a file and a row, and the job removes both a
day later, since nothing links a file to anything; no other part depends on it. Order numbers
and amounts, see the plan.

Time is not modelled: the timeout job may run whenever a payment has an expiry, and a key or
a token may expire whenever it has a time to live. MySQL statements and Redis commands are atomic
and MySQL is durable; a statement whose outcome the handler does not learn is a step
followed by `Fail`.
