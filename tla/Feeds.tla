------------------------------- MODULE Feeds --------------------------------
(***************************************************************************)
(* What reaches the screens: the WebSocket displays of the kitchen and the *)
(* cashiers (internal/websocket) and the order streams of the guests       *)
(* (internal/sse/handler.go), fed through Redis publish/subscribe by the   *)
(* handlers that change orders.                                            *)
(*                                                                         *)
(* A display has four goroutines: the HTTP handler that ends as readPump,  *)
(* writePump, the forwarder that reads the Redis subscription, and the hub *)
(* they all share.  They meet in the channel client.send, which the hub    *)
(* closes and the forwarder sends on; a send on a closed channel panics,   *)
(* the forwarder does not recover, and a panic ends the whole server.      *)
(***************************************************************************)
EXTENDS Integers, Sequences, SequencesExt, Tables

CONSTANTS
    Displays,   \* WebSocket connections, one Client each
    Trackers,   \* connections of StreamOrder to the order that is followed
    Handlers,   \* request goroutines that change that order
    SendSize,   \* bound: capacity of client.send, 256 in the code
    InboxSize,  \* bound: messages the Redis client keeps for a subscription, 100 there
    MaxChanges, \* bound: changes made to the order
    Faults      \* may Redis lose a message, or a request stop half-way?

ASSUME FeedsAssumption ==
    /\ SendSize \in Nat /\ InboxSize \in Nat /\ MaxChanges \in Nat
    /\ Faults \in BOOLEAN
    /\ Displays \cap Trackers = {}

VARIABLES
    up,       \* the server runs
    changes,  \* changes made to the order so far; a message is the number of one
    req,      \* req[h]: what handler h publishes next
    conn,     \* conn[s]: the connection of screen s, "none", "open" or "lost"
    stage,    \* stage[s]: how far its HTTP handler has come
    feed,     \* feed[s]: its subscription, "none", "asked" for, "on" or "over"
    inbox,    \* inbox[s]: messages received for the subscription
    clients,  \* Hub.clients
    send,     \* send[d]: Client.send
    shut,     \* shut[d]: that channel is closed
    writer,   \* writer[d]: writePump runs
    told,     \* told[s]: the changes the screen was told of
    missed    \* history: missed[s], those that no message will tell it

screenVars == <<conn, stage, feed, inbox>>
hubVars == <<clients, send, shut, writer>>
tallyVars == <<told, missed>>
feedVars == <<up, changes, req, screenVars, hubVars, tallyVars>>

Screens == Displays \cup Trackers

-----------------------------------------------------------------------------
(* Changes and their messages.                                             *)

Idle == [at |-> "idle"]
Publishing == {Idle} \cup [at : {"order", "kds"}, change : 1 .. MaxChanges]

At(h, channel) == req[h].at = channel

\* The screens that listen to a channel: order:<id>, or orders:kds.
Audience(channel) == IF channel = "order" THEN Trackers ELSE Displays

\* Redis hands the message to the subscriptions that are on; a full buffer of the
\* client library drops it.
Receives(s) == feed[s] = "on" /\ Len(inbox[s]) < InboxSize

Deliver(channel, n) ==
    LET reached == {s \in Audience(channel) : Receives(s)} IN
    /\ inbox' = [s \in Screens |-> IF s \in reached THEN Append(inbox[s], n) ELSE inbox[s]]
    /\ missed' = [s \in Screens |->
                    IF s \in Audience(channel) \ reached THEN missed[s] \cup {n} ELSE missed[s]]

Lose(channels, n) ==
    /\ missed' = [s \in Screens |->
                    IF \E c \in channels : s \in Audience(c) THEN missed[s] \cup {n} ELSE missed[s]]
    /\ UNCHANGED inbox

\* PublishKDS follows, whether or not Redis took the message (publishOrderEvent,
\* publishItemEvent).  UPDATE comes first, the two messages after it.
ChangeOrder(h) ==
    /\ up /\ req[h] = Idle
    /\ changes < MaxChanges
    /\ changes' = changes + 1
    /\ req' = [req EXCEPT ![h] = [at |-> "order", change |-> changes + 1]]
    /\ UNCHANGED <<up, screenVars, hubVars, tallyVars>>

\* completePayment delivers the order and tells the kitchen; the order's own channel
\* hears nothing.
SettleOrder(h) ==
    /\ up /\ req[h] = Idle
    /\ changes < MaxChanges
    /\ changes' = changes + 1
    /\ req' = [req EXCEPT ![h] = [at |-> "kds", change |-> changes + 1]]
    /\ Lose({"order"}, changes + 1)
    /\ UNCHANGED <<up, conn, stage, feed, hubVars, told>>

\* A bug: when the first message fails the second one is not tried.
Bug_ReturnOnError(h) ==
    /\ At(h, "order")
    /\ \/ Deliver("order", req[h].change) /\ req' = [req EXCEPT ![h].at = "kds"]
       \/ Faults /\ Lose({"order"}, req[h].change) /\ req' = [req EXCEPT ![h] = Idle]
    /\ UNCHANGED <<up, changes, conn, stage, feed, hubVars, told>>

PublishOrder(h) ==
    /\ At(h, "order")
    /\ \/ Deliver("order", req[h].change)
       \/ Faults /\ Lose({"order"}, req[h].change)
    /\ req' = [req EXCEPT ![h].at = "kds"]
    /\ UNCHANGED <<up, changes, conn, stage, feed, hubVars, told>>

PublishKDS(h) ==
    /\ At(h, "kds")
    /\ \/ Deliver("kds", req[h].change)
       \/ Faults /\ Lose({"kds"}, req[h].change)
    /\ req' = [req EXCEPT ![h] = Idle]
    /\ UNCHANGED <<up, changes, conn, stage, feed, hubVars, told>>

\* The request's context ends: what it has not published yet is not published.
Abandon(h) ==
    /\ Faults
    /\ req[h] # Idle
    /\ Lose(IF At(h, "order") THEN {"order", "kds"} ELSE {"kds"}, req[h].change)
    /\ req' = [req EXCEPT ![h] = Idle]
    /\ UNCHANGED <<up, changes, conn, stage, feed, hubVars, told>>

-----------------------------------------------------------------------------
(* Connections and subscriptions.                                          *)

\* The browser goes away, the network fails, no pong comes for a minute, or a write
\* to a stalled connection is not through in ten seconds, which makes the server drop
\* it: a display that slow is lost.
Disconnect(s) ==
    /\ conn[s] = "open"
    /\ conn' = [conn EXCEPT ![s] = "lost"]
    /\ UNCHANGED <<up, changes, req, stage, feed, inbox, hubVars, tallyVars>>

\* rdb.Subscribe does not wait for the answer of Redis.
SubscriptionOn(s) ==
    /\ feed[s] = "asked"
    /\ feed' = [feed EXCEPT ![s] = "on"]
    /\ UNCHANGED <<up, changes, req, conn, stage, inbox, hubVars, tallyVars>>

\* A subscription whose context is cancelled may end, or go on for ever: the message
\* channel of the library is closed by pubsub.Close, which waits for the forwarder.
SubscriptionOver(d) ==
    /\ d \in Displays
    /\ stage[d] = "ended"
    /\ feed[d] \in {"asked", "on"}
    /\ feed' = [feed EXCEPT ![d] = "over"]
    /\ inbox' = [inbox EXCEPT ![d] = <<>>]
    /\ missed' = [missed EXCEPT ![d] = missed[d] \cup ToSet(inbox[d])]
    /\ UNCHANGED <<up, changes, req, conn, stage, hubVars, told>>

-----------------------------------------------------------------------------
(* Displays.                                                               *)

\* The token is parsed and the connection upgraded.
Upgrade(d) ==
    /\ up /\ stage[d] = "off"
    /\ stage' = [stage EXCEPT ![d] = "registering"]
    /\ conn' = [conn EXCEPT ![d] = "open"]
    /\ UNCHANGED <<up, changes, req, feed, inbox, hubVars, tallyVars>>

\* hub.register <- client meets the hub's loop; the handler then starts the forwarder
\* and writePump and becomes readPump.
Register(d) ==
    /\ stage[d] = "registering"
    /\ clients' = clients \cup {d}
    /\ stage' = [stage EXCEPT ![d] = "reading"]
    /\ feed' = [feed EXCEPT ![d] = "asked"]
    /\ writer' = [writer EXCEPT ![d] = TRUE]
    /\ UNCHANGED <<up, changes, req, conn, inbox, send, shut, tallyVars>>

\* A bug: the deferred function closes the connection and forgets the hub.
Bug_SkipUnregister(d) ==
    /\ stage[d] = "reading" /\ conn[d] = "lost"
    /\ stage' = [stage EXCEPT ![d] = "ended"]
    /\ UNCHANGED <<up, changes, req, conn, feed, inbox, hubVars, tallyVars>>

\* readPump: ReadMessage fails.
ReadFails(d) ==
    /\ stage[d] = "reading" /\ conn[d] = "lost"
    /\ stage' = [stage EXCEPT ![d] = "unregistering"]
    /\ UNCHANGED <<up, changes, req, conn, feed, inbox, hubVars, tallyVars>>

\* A bug: the client stays in the map.
Bug_CloseOnly(d) ==
    /\ stage[d] = "unregistering"
    /\ shut' = [shut EXCEPT ![d] = shut[d] \/ d \in clients]
    /\ stage' = [stage EXCEPT ![d] = "ended"]
    /\ UNCHANGED <<up, changes, req, conn, feed, inbox, clients, send, writer, tallyVars>>

\* hub.unregister <- client meets the hub's loop, which closes client.send; the handler
\* then closes the connection and cancels the forwarder's context.  (The channel hands
\* the client over first, so the handler may be done before the hub has closed send;
\* no code looks at the two together.)
Unregister(d) ==
    /\ stage[d] = "unregistering"
    /\ clients' = clients \ {d}
    /\ shut' = [shut EXCEPT ![d] = shut[d] \/ d \in clients]
    /\ stage' = [stage EXCEPT ![d] = "ended"]
    /\ UNCHANGED <<up, changes, req, conn, feed, inbox, send, writer, tallyVars>>

\* A bug: the buffer is taken to be unbounded.
Bug_NoDefault(d) ==
    /\ inbox[d] # <<>> /\ ~shut[d]
    /\ inbox' = [inbox EXCEPT ![d] = Tail(inbox[d])]
    /\ send' = [send EXCEPT ![d] = Append(send[d], Head(inbox[d]))]
    /\ UNCHANGED <<up, changes, req, conn, stage, feed, clients, shut, writer, tallyVars>>

\* A bug: a slow client's channel is closed, as Broadcast's loop does.
Bug_CloseSlow(d) ==
    /\ inbox[d] # <<>> /\ ~shut[d]
    /\ inbox' = [inbox EXCEPT ![d] = Tail(inbox[d])]
    /\ IF Len(send[d]) < SendSize
         THEN send' = [send EXCEPT ![d] = Append(send[d], Head(inbox[d]))] /\ UNCHANGED <<shut, missed>>
         ELSE /\ shut' = [shut EXCEPT ![d] = TRUE]
              /\ missed' = [missed EXCEPT ![d] = missed[d] \cup {Head(inbox[d])}]
              /\ UNCHANGED send
    /\ UNCHANGED <<up, changes, req, conn, stage, feed, clients, writer, told>>

\* The forwarder sends without waiting: a message for a full channel is dropped.
Forward(d) ==
    /\ inbox[d] # <<>> /\ ~shut[d]
    /\ inbox' = [inbox EXCEPT ![d] = Tail(inbox[d])]
    /\ \/ /\ Len(send[d]) < SendSize
          /\ send' = [send EXCEPT ![d] = Append(send[d], Head(inbox[d]))]
          /\ UNCHANGED missed
       \/ /\ Len(send[d]) >= SendSize
          /\ missed' = [missed EXCEPT ![d] = missed[d] \cup {Head(inbox[d])}]
          /\ UNCHANGED send
    /\ UNCHANGED <<up, changes, req, conn, stage, feed, clients, shut, writer, told>>

\* The forwarder sends on a closed channel: the server is gone, and everything it knew.
ForwarderPanics(d) ==
    /\ inbox[d] # <<>> /\ shut[d]
    /\ up' = FALSE
    /\ req' = [h \in Handlers |-> Idle]
    /\ conn' = [s \in Screens |-> "none"]
    /\ stage' = [s \in Screens |-> "off"]
    /\ feed' = [s \in Screens |-> "none"]
    /\ inbox' = [s \in Screens |-> <<>>]
    /\ clients' = {}
    /\ send' = [e \in Displays |-> <<>>]
    /\ shut' = [e \in Displays |-> FALSE]
    /\ writer' = [e \in Displays |-> FALSE]
    /\ missed' = [s \in Screens |-> (1 .. changes) \ told[s]]
    /\ UNCHANGED <<changes, told>>

\* docker-compose restarts the container.
Restart ==
    /\ ~up
    /\ up' = TRUE
    /\ UNCHANGED <<changes, req, screenVars, hubVars, tallyVars>>

\* writePump: a message goes out, or the connection is lost (Disconnect) and the write
\* may fail, which ends writePump.
Write(d) ==
    /\ writer[d] /\ send[d] # <<>>
    /\ send' = [send EXCEPT ![d] = Tail(send[d])]
    /\ \/ /\ conn[d] = "open"
          /\ told' = [told EXCEPT ![d] = told[d] \cup {Head(send[d])}]
          /\ UNCHANGED <<writer, missed>>
       \/ /\ conn[d] = "lost"
          /\ missed' = [missed EXCEPT ![d] = missed[d] \cup {Head(send[d])}]
          /\ writer' \in {writer, [writer EXCEPT ![d] = FALSE]}
          /\ UNCHANGED told
    /\ UNCHANGED <<up, changes, req, screenVars, clients, shut>>

\* The closed channel is empty, or a ping fails: writePump closes the connection.
WriterEnds(d) ==
    /\ writer[d]
    /\ (shut[d] /\ send[d] = <<>>) \/ conn[d] = "lost"
    /\ writer' = [writer EXCEPT ![d] = FALSE]
    /\ conn' = [conn EXCEPT ![d] = "lost"]
    /\ UNCHANGED <<up, changes, req, stage, feed, inbox, clients, send, shut, tallyVars>>

-----------------------------------------------------------------------------
(* Order streams.                                                          *)

\* A guest with a token or a member of staff opens StreamOrder; the token is not looked
\* at again.  Staff log in elsewhere (Access), so there is always somebody who may.
OpenStream(s) ==
    /\ s \in Trackers
    /\ up /\ stage[s] = "off"
    /\ stage' = [stage EXCEPT ![s] = "streaming"]
    /\ conn' = [conn EXCEPT ![s] = "open"]
    /\ feed' = [feed EXCEPT ![s] = "asked"]
    /\ UNCHANGED <<up, changes, req, inbox, hubVars, tallyVars>>

\* A message is written to the response; an error of the write is not looked at.
StreamNext(s) ==
    /\ stage[s] = "streaming" /\ inbox[s] # <<>>
    /\ inbox' = [inbox EXCEPT ![s] = Tail(inbox[s])]
    /\ IF conn[s] = "open"
         THEN told' = [told EXCEPT ![s] = told[s] \cup {Head(inbox[s])}] /\ UNCHANGED missed
         ELSE missed' = [missed EXCEPT ![s] = missed[s] \cup {Head(inbox[s])}] /\ UNCHANGED told
    /\ UNCHANGED <<up, changes, req, conn, stage, feed, hubVars>>

\* ctx.Done: the handler returns and closes its subscription.
StreamEnds(s) ==
    /\ stage[s] = "streaming" /\ conn[s] = "lost"
    /\ stage' = [stage EXCEPT ![s] = "ended"]
    /\ feed' = [feed EXCEPT ![s] = "over"]
    /\ inbox' = [inbox EXCEPT ![s] = <<>>]
    /\ missed' = [missed EXCEPT ![s] = missed[s] \cup ToSet(inbox[s])]
    /\ UNCHANGED <<up, changes, req, conn, hubVars, told>>

-----------------------------------------------------------------------------
FeedsInit ==
    /\ TablesInit
    /\ up = TRUE
    /\ changes = 0
    /\ req = [h \in Handlers |-> Idle]
    /\ conn = [s \in Screens |-> "none"]
    /\ stage = [s \in Screens |-> "off"]
    /\ feed = [s \in Screens |-> "none"]
    /\ inbox = [s \in Screens |-> <<>>]
    /\ clients = {}
    /\ send = [d \in Displays |-> <<>>]
    /\ shut = [d \in Displays |-> FALSE]
    /\ writer = [d \in Displays |-> FALSE]
    /\ told = [s \in Screens |-> {}]
    /\ missed = [s \in Screens |-> {}]

Request(h) == ChangeOrder(h) \/ SettleOrder(h) \/ PublishOrder(h) \/ PublishKDS(h) \/ Abandon(h)

Goroutine(d) ==
    \/ Register(d) \/ ReadFails(d) \/ Unregister(d)
    \/ Forward(d) \/ ForwarderPanics(d)
    \/ Write(d) \/ WriterEnds(d)

Screen(s) == Disconnect(s) \/ SubscriptionOn(s) \/ SubscriptionOver(s)

FeedsNext ==
    \/ /\ \/ \E h \in Handlers : Request(h)
          \/ \E d \in Displays : Upgrade(d) \/ Goroutine(d)
          \/ \E s \in Trackers : OpenStream(s) \/ StreamNext(s) \/ StreamEnds(s)
          \/ \E s \in Screens : Screen(s)
          \/ Restart
       /\ UNCHANGED tableVars
    \/ TablesNext /\ UNCHANGED feedVars

allVars == <<feedVars, tableVars>>
FeedsSpec == FeedsInit /\ [][FeedsNext]_allVars

\* Go runs the goroutines that can run, and time passes.
FeedsFairness ==
    /\ \A d \in Displays :
           /\ WF_allVars(Register(d) /\ UNCHANGED tableVars)
           /\ WF_allVars(ReadFails(d) /\ UNCHANGED tableVars)
           /\ WF_allVars(Unregister(d) /\ UNCHANGED tableVars)
    /\ \A g \in Guests : WF_allVars(TokenExpires(g) /\ UNCHANGED feedVars)
FeedsFairSpec == FeedsSpec /\ FeedsFairness

-----------------------------------------------------------------------------
(* Properties.                                                             *)

FeedsTypeOK ==
    /\ TablesTypeOK
    /\ up \in BOOLEAN
    /\ changes \in 0 .. MaxChanges
    /\ req \in [Handlers -> Publishing]
    /\ conn \in [Screens -> {"none", "open", "lost"}]
    /\ stage \in [Screens -> {"off", "registering", "reading", "unregistering", "streaming", "ended"}]
    /\ feed \in [Screens -> {"none", "asked", "on", "over"}]
    /\ inbox \in [Screens -> Seq(1 .. MaxChanges)]
    /\ \A s \in Screens : Len(inbox[s]) <= InboxSize
    /\ clients \subseteq Displays
    /\ send \in [Displays -> Seq(1 .. MaxChanges)]
    /\ \A d \in Displays : Len(send[d]) <= SendSize
    /\ shut \in [Displays -> BOOLEAN]
    /\ writer \in [Displays -> BOOLEAN]
    /\ told \in [Screens -> SUBSET (1 .. MaxChanges)]
    /\ missed \in [Screens -> SUBSET (1 .. MaxChanges)]

Sending(s) == IF s \in Displays THEN ToSet(send[s]) ELSE {}

\* The changes a handler is still going to publish on the channel of a screen.
Coming(s) == {req[h].change : h \in {k \in Handlers :
                  At(k, "order") \/ (s \in Displays /\ At(k, "kds"))}}

\* No change gets lost in silence: a screen was told of it, is being told, will be, or
\* missed it because it was not subscribed, a buffer was full, the connection or Redis
\* failed, or the change was a payment and the screen a guest's.
EveryChangeAccounted ==
    \A s \in Screens :
        1 .. changes = told[s] \cup missed[s] \cup ToSet(inbox[s]) \cup Sending(s) \cup Coming(s)

\* The hub knows exactly the displays whose handler is between registering and
\* unregistering, and has closed the channel of those that are past it only.
HubKnowsTheLiving ==
    \A d \in Displays :
        /\ d \in clients <=> stage[d] \in {"reading", "unregistering"}
        /\ shut[d] <=> stage[d] = "ended"

\* Only a display that is lost can bring the server down: as long as every connection is
\* alive, and however full its buffers, the server keeps running.
StandsWhileConnected ==
    [][(up /\ \A d \in Displays : conn[d] # "lost") => up']_allVars

\* The hub is rid of a display whose connection is lost.
LostDisplayLeavesHub ==
    \A d \in Displays : conn[d] = "lost" ~> (d \notin clients \/ conn[d] # "lost")
=============================================================================
