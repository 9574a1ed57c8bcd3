------------------------------- MODULE Groups -------------------------------
(***************************************************************************)
(* Orders that share a bill (internal/service/group_service.go), and the   *)
(* event stream that shows a group to a browser                            *)
(* (internal/sse/group_handler.go).                                        *)
(*                                                                         *)
(* orders.group_id is read and written by statements of their own, one     *)
(* order after the other; whoever changed it then publishes on the channel *)
(* of the group.  A stream subscribes to that channel, sends the group as  *)
(* it is, and sends it again after every message.                          *)
(***************************************************************************)
EXTENDS Integers, Sequences, Functions

CONSTANTS
    Orders,    \* orders that exist
    Groups,    \* group ids
    NoGroup,   \* orders.group_id is NULL
    Watched,   \* the group whose stream is followed; streams do not affect each other
    Handlers,  \* request goroutines that may run at the same time
    MaxOrders, \* bound: orders named in one CreateGroup request, 2 at least
    MaxRequests, \* bound: requests made, DELETE /orders/:id included
    Faults     \* may Redis or a statement fail, or a request stop half-way?

ASSUME GroupsAssumption ==
    /\ NoGroup \notin Groups
    /\ Watched \in Groups
    /\ MaxOrders \in Nat /\ MaxRequests \in Nat
    /\ Faults \in BOOLEAN

VARIABLES
    group,   \* group[o]: orders.group_id
    gone,    \* gone[o]: orders.deleted_at is not NULL
    req,     \* req[h]: what handler h does next and what it has read
    made,    \* requests made so far
    during,  \* history: during[o], the handlers at work since another gave o its present group
    sub,     \* the subscription of the stream: "off", "sent" to Redis, or "on"
    begun,   \* group_init was sent, or lost
    shown,   \* the orders last sent to the browser
    waiting, \* a message waits in the subscription; more than one only fetch more often
    missed   \* history: the group changed and no message will tell the stream

orderVars == <<group, gone, during>>
streamVars == <<sub, begun, shown, waiting, missed>>
groupVars == <<orderVars, made, req, streamVars>>

-----------------------------------------------------------------------------
(* Handlers in flight.                                                     *)

Idle == [at |-> "idle"]

\* The bodies CreateGroup accepts: a list of two orders or more, repetitions included.
OrderLists == UNION {[1 .. n -> Orders] : n \in 2 .. MaxOrders}

\* checked, left: the orders read so far, those still to be read or written.
Continuation ==
    {Idle}
    \cup [at : {"create.check"}, list : OrderLists, checked : Nat]
    \cup [at : {"set"}, list : OrderLists \cup [{1} -> Orders], written : Nat, group : Groups]
    \cup [at : {"remove"}, order : Orders, group : Groups]
    \cup [at : {"disband"}, left : SUBSET Orders, kept : SUBSET Orders, group : Groups]
    \cup [at : {"publish"}, group : Groups]
    \cup [at : {"publish.disbanded"}, kept : SUBSET Orders, group : Groups]

At(h, step) == req[h].at = step
Continue(h, k) == req' = [req EXCEPT ![h] = k] /\ UNCHANGED made

\* A request begins with its first statement.
Begin(h, k) ==
    /\ req[h] = Idle
    /\ made < MaxRequests
    /\ req' = [req EXCEPT ![h] = k]
    /\ made' = made + 1

Done(h) ==
    /\ Continue(h, Idle)
    /\ during' = [o \in Orders |-> during[o] \ {h}]

\* The other handlers at work.
Others(h) == {k \in Handlers \ {h} : req[k] # Idle}

\* The orders h has found ungrouped and is going to write.
Claims(h) ==
    CASE At(h, "create.check") -> {req[h].list[i] : i \in 1 .. req[h].checked}
      [] At(h, "set") -> {req[h].list[i] : i \in req[h].written + 1 .. Len(req[h].list)}
      [] OTHER -> {}

\* newUUID gives an id that nobody has.
Fresh(g) ==
    /\ \A o \in Orders : group[o] # g
    /\ \A h \in Handlers : ~(At(h, "set") /\ req[h].group = g)
    /\ ~(g = Watched /\ sub # "off")

-----------------------------------------------------------------------------
(* Rows.                                                                   *)

Found(o) == ~gone[o]

\* ListOrdersByGroupID
Members(g) == {o \in Orders : group[o] = g /\ ~gone[o]}

Ungrouped(o) == group[o] = NoGroup

\* UPDATE orders SET group_id = g WHERE id = o AND deleted_at IS NULL, whatever group_id
\* is by now, by handler h, which will publish on the channel of its own group only.
SetGroupID(h, o, g) ==
    /\ group' = IF gone[o] THEN group ELSE [group EXCEPT ![o] = g]
    /\ during' = IF gone[o] \/ g = group[o] THEN during ELSE [during EXCEPT ![o] = Others(h)]
    /\ UNCHANGED <<gone, sub, begun, shown, waiting>>
    /\ missed' = \/ missed
                 \/ begun /\ req[h].group # Watched /\ Members(Watched)' # Members(Watched)

ClearGroupID(h, o) == SetGroupID(h, o, NoGroup)

-----------------------------------------------------------------------------
(* CreateGroup and AddToGroup.                                             *)

\* CreateGroup reads the first order of its list ...
CreateGroup(h, list) ==
    /\ Found(list[1]) /\ Ungrouped(list[1])
    /\ Begin(h, [at |-> "create.check", list |-> list, checked |-> 1])
    /\ UNCHANGED <<orderVars, streamVars>>

\* A bug: only the first order of the list is looked at.
Bug_CheckFirstOnly(h) ==
    /\ At(h, "create.check")
    /\ \E g \in Groups :
           Fresh(g) /\ Continue(h, [at |-> "set", list |-> req[h].list, written |-> 0, group |-> g])
    /\ UNCHANGED <<orderVars, streamVars>>

\* ... and every other one, and only then makes up the id of the group.
CreateCheck(h) ==
    /\ At(h, "create.check")
    /\ LET list == req[h].list  n == req[h].checked + 1 IN
       \/ /\ n <= Len(list)
          /\ Found(list[n]) /\ Ungrouped(list[n])
          /\ Continue(h, [at |-> "create.check", list |-> list, checked |-> n])
          /\ UNCHANGED during
       \/ /\ n <= Len(list)
          /\ ~(Found(list[n]) /\ Ungrouped(list[n]))
          /\ Done(h)
       \/ /\ n > Len(list)
          /\ \E g \in Groups :
                 /\ Fresh(g)
                 /\ Continue(h, [at |-> "set", list |-> list, written |-> 0, group |-> g])
          /\ UNCHANGED during
    /\ UNCHANGED <<group, gone, streamVars>>

\* The id of the group comes with the URL and is not looked up.
AddToGroup(h, g, o) ==
    /\ Found(o) /\ Ungrouped(o)
    /\ Begin(h, [at |-> "set", list |-> <<o>>, written |-> 0, group |-> g])
    /\ UNCHANGED <<orderVars, streamVars>>

\* One UPDATE.  After the last one the group's channel is told.
SetNext(h) ==
    /\ At(h, "set")
    /\ LET n == req[h].written + 1  g == req[h].group IN
       /\ SetGroupID(h, req[h].list[n], g)
       /\ IF n < Len(req[h].list)
            THEN Continue(h, [req[h] EXCEPT !.written = n])
            ELSE Continue(h, [at |-> "publish", group |-> g])

-----------------------------------------------------------------------------
(* RemoveFromGroup and DisbandGroup.                                       *)

\* A bug: an order without a group is not told apart.
Bug_RemoveUngrouped(h, o) ==
    /\ Found(o)
    /\ Begin(h, [at |-> "remove", order |-> o, group |-> group[o]])
    /\ UNCHANGED <<orderVars, streamVars>>

\* A bug: the group that is told is the one the URL names.
Bug_TrustURL(h, o) ==
    /\ Found(o) /\ ~Ungrouped(o)
    /\ \E g \in Groups : Begin(h, [at |-> "remove", order |-> o, group |-> g])
    /\ UNCHANGED <<orderVars, streamVars>>

\* The group in the URL is not compared with the order's.
RemoveFromGroup(h, o) ==
    /\ Found(o) /\ ~Ungrouped(o)
    /\ Begin(h, [at |-> "remove", order |-> o, group |-> group[o]])
    /\ UNCHANGED <<orderVars, streamVars>>

\* A bug: nobody is told.
Bug_SilentRemove(h) ==
    /\ At(h, "remove")
    /\ ClearGroupID(h, req[h].order)
    /\ Continue(h, Idle)

RemoveClear(h) ==
    /\ At(h, "remove")
    /\ ClearGroupID(h, req[h].order)
    /\ Continue(h, [at |-> "publish", group |-> req[h].group])

\* left: the orders still to be cleared, kept: those whose clearing failed.
Disbanding(left, kept, g) == [at |-> "disband", left |-> left, kept |-> kept, group |-> g]

\* A bug: the list leaves one order out.
Bug_ListShort(h, g) ==
    /\ \E left \in SUBSET Members(g) :
           Begin(h, Disbanding(left, {}, g))
    /\ UNCHANGED <<orderVars, streamVars>>

\* The members are listed once ...
DisbandGroup(h, g) ==
    /\ Begin(h, Disbanding(Members(g), {}, g))
    /\ UNCHANGED <<orderVars, streamVars>>

\* ... and cleared one by one, in whichever group they are by then; an error is ignored.
DisbandClear(h, o) ==
    /\ At(h, "disband")
    /\ o \in req[h].left
    /\ \/ /\ ClearGroupID(h, o)
          /\ Continue(h, Disbanding(req[h].left \ {o}, req[h].kept, req[h].group))
       \/ /\ Faults
          /\ Continue(h, Disbanding(req[h].left \ {o}, req[h].kept \cup {o}, req[h].group))
          /\ UNCHANGED <<orderVars, streamVars>>

DisbandDone(h) ==
    /\ At(h, "disband")
    /\ req[h].left = {}
    /\ Continue(h, [at |-> "publish.disbanded", kept |-> req[h].kept, group |-> req[h].group])
    /\ UNCHANGED <<orderVars, streamVars>>

-----------------------------------------------------------------------------
(* The channel and the stream.                                             *)

\* The stream shows something else than the group.
Behind == begun /\ shown # Members(Watched)

Miss == missed' = (missed \/ Behind) /\ UNCHANGED <<sub, begun, shown, waiting>>

\* publishGroupEvent: Redis hands the message to the subscriptions that are on.
Publish(h) ==
    /\ At(h, "publish") \/ At(h, "publish.disbanded")
    /\ \/ req[h].group # Watched /\ UNCHANGED streamVars
       \/ req[h].group = Watched /\ sub = "on" /\ waiting' = TRUE /\ UNCHANGED <<sub, begun, shown, missed>>
       \/ req[h].group = Watched /\ (sub # "on" \/ Faults) /\ Miss
    /\ Done(h)
    /\ UNCHANGED <<group, gone>>

\* The handler of a browser's request asks Redis for the subscription, and does not
\* wait for the answer ...
OpenStream ==
    /\ sub = "off"
    /\ sub' = "sent"
    /\ UNCHANGED <<orderVars, made, req, begun, shown, waiting, missed>>

\* ... which takes effect some time later.
SubscriptionOn ==
    /\ sub = "sent"
    /\ sub' = "on"
    /\ UNCHANGED <<orderVars, made, req, begun, shown, waiting, missed>>

\* What is sent of a group; its items, read order by order, are not followed.
GetGroupOrders(g) == Members(g)

\* A bug: the orders that were read are not put into the message.
Bug_EmptySnapshot ==
    \/ shown' = {} /\ missed' = FALSE
    \/ Faults /\ shown' = shown /\ missed' = (missed \/ shown # Members(Watched))

\* sendGroupSnapshot: the members are read and sent; when that fails, nothing is.
SendSnapshot ==
    \/ shown' = GetGroupOrders(Watched) /\ missed' = FALSE
    \/ Faults /\ shown' = shown /\ missed' = (missed \/ shown # Members(Watched))

SendInit ==
    /\ sub # "off" /\ ~begun
    /\ begun' = TRUE
    /\ SendSnapshot
    /\ UNCHANGED <<orderVars, made, req, sub, waiting>>

\* Every message makes the stream read the group again.
SendUpdate ==
    /\ begun /\ waiting
    /\ waiting' = FALSE
    /\ SendSnapshot
    /\ UNCHANGED <<orderVars, made, req, sub, begun>>

CloseStream ==
    /\ sub # "off"
    /\ sub' = "off" /\ begun' = FALSE /\ shown' = {} /\ waiting' = FALSE /\ missed' = FALSE
    /\ UNCHANGED <<orderVars, made, req>>

-----------------------------------------------------------------------------
\* DELETE /orders/:id of the order service: the group's channel is not told.
CancelOrder(o) ==
    /\ ~gone[o]
    /\ made < MaxRequests /\ made' = made + 1
    /\ gone' = [gone EXCEPT ![o] = TRUE]
    /\ missed' = (missed \/ (begun /\ group[o] = Watched))
    /\ UNCHANGED <<group, during, req, sub, begun, shown, waiting>>

\* A statement fails that ends the request, the client hangs up or the process stops.
Fail(h) ==
    /\ Faults
    /\ req[h] # Idle
    /\ Done(h)
    /\ Miss
    /\ UNCHANGED <<group, gone>>

-----------------------------------------------------------------------------
\* The orders that exist may have been grouped before.
GroupsInit ==
    /\ group \in [Orders -> Groups \cup {NoGroup}]
    /\ made = 0
    /\ gone = [o \in Orders |-> FALSE]
    /\ during = [o \in Orders |-> {}]
    /\ req = [h \in Handlers |-> Idle]
    /\ sub = "off"
    /\ begun = FALSE
    /\ shown = {}
    /\ waiting = FALSE
    /\ missed = FALSE

Start(h) ==
    \/ \E list \in OrderLists : CreateGroup(h, list)
    \/ \E g \in Groups, o \in Orders : AddToGroup(h, g, o)
    \/ \E o \in Orders : RemoveFromGroup(h, o)
    \/ \E g \in Groups : DisbandGroup(h, g)

Proceed(h) ==
    \/ CreateCheck(h)
    \/ SetNext(h)
    \/ RemoveClear(h)
    \/ \E o \in Orders : DisbandClear(h, o)
    \/ DisbandDone(h)
    \/ Publish(h)

Stream == OpenStream \/ SubscriptionOn \/ SendInit \/ SendUpdate \/ CloseStream

GroupsNext ==
    \/ \E h \in Handlers : Start(h) \/ Proceed(h) \/ Fail(h)
    \/ \E o \in Orders : CancelOrder(o)
    \/ Stream

GroupsSpec == GroupsInit /\ [][GroupsNext]_groupVars

\* Go keeps running a request that started, the stream's loop included.
GroupsFairness ==
    /\ \A h \in Handlers : WF_groupVars(Proceed(h))
    /\ WF_groupVars(SendInit) /\ WF_groupVars(SendUpdate)
GroupsFairSpec == GroupsSpec /\ GroupsFairness

-----------------------------------------------------------------------------
(* Properties.                                                             *)

GroupsTypeOK ==
    /\ group \in [Orders -> Groups \cup {NoGroup}]
    /\ gone \in [Orders -> BOOLEAN]
    /\ during \in [Orders -> SUBSET Handlers]
    /\ made \in 0 .. MaxRequests
    /\ req \in [Handlers -> Continuation]
    /\ sub \in {"off", "sent", "on"}
    /\ begun \in BOOLEAN /\ waiting \in BOOLEAN /\ missed \in BOOLEAN
    /\ shown \subseteq Orders

\* "An order belongs to one group" (GRP-001): a request is about to move an order out of
\* a group into its own only when the order got that group after the request had read it.
MovedOnlyIfRaced ==
    \A h \in Handlers : \A o \in Claims(h) :
        \/ Ungrouped(o)
        \/ At(h, "set") /\ group[o] = req[h].group
        \/ h \in during[o]

\* RemoveFromGroup is about to take an order out of another group than the one it will
\* notify only when the order changed groups after it was read.
RemovedOnlyIfRaced ==
    \A h \in Handlers : At(h, "remove") =>
        \/ group[req[h].order] \in {NoGroup, req[h].group}
        \/ h \in during[req[h].order]

\* When a group is announced as disbanded, the orders still in it joined while it was
\* being disbanded, or clearing them failed.
DisbandLeavesLateJoiners ==
    \A h \in Handlers : At(h, "publish.disbanded") =>
        \A o \in Members(req[h].group) : o \in req[h].kept \/ h \in during[o]

\* The request is going to publish on the channel of the stream.
WillTell(h) == req[h].at \notin {"idle", "create.check"} /\ req[h].group = Watched

\* A browser sees the group as it is unless a message for it waits or is about to be
\* published.  The exceptions are recorded in missed: a member was cancelled, moved
\* away by a request of another group, or the message or its sender was lost.
StreamShowsGroup ==
    Behind => \/ missed
              \/ waiting
              \/ \E h \in Handlers : WillTell(h)

\* A stream that is behind and has missed nothing catches up.
StreamCatchesUp == (Behind /\ ~missed) ~> (~Behind \/ missed)
=============================================================================
