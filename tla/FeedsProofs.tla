---------------------------- MODULE FeedsProofs -----------------------------
(***************************************************************************)
(* Theorems about Feeds, for every number of displays, order streams and   *)
(* handlers and every size of the buffers, whatever is lost and whenever   *)
(* the server is brought down and restarted.                               *)
(***************************************************************************)
EXTENDS Feeds, TLAPS

(***************************************************************************)
(* The hub closes a channel after its readPump failed only, and readPump   *)
(* fails on a lost connection only.                                        *)
(***************************************************************************)
LeftIsLost ==
    \A d \in Displays : stage[d] \in {"unregistering", "ended"} => conn[d] = "lost"

FeedsInv ==
    /\ FeedsTypeOK
    /\ EveryChangeAccounted
    /\ HubKnowsTheLiving
    /\ LeftIsLost

-----------------------------------------------------------------------------
(* Sequences and the sets of their elements.                               *)

LEMMA ToSetEmpty == ToSet(<<>>) = {}
  BY DEF ToSet

LEMMA ToSetElements ==
    ASSUME NEW S, NEW q \in Seq(S)
    PROVE  ToSet(q) \subseteq S
<1>1. \A i \in DOMAIN q : q[i] \in S
  OBVIOUS
<1> QED
  BY <1>1 DEF ToSet

LEMMA ToSetAppend ==
    ASSUME NEW S, NEW q \in Seq(S), NEW e \in S
    PROVE  /\ Append(q, e) \in Seq(S)
           /\ Len(Append(q, e)) = Len(q) + 1
           /\ ToSet(Append(q, e)) = ToSet(q) \cup {e}
<1>1. /\ Append(q, e) \in Seq(S)
      /\ Len(Append(q, e)) = Len(q) + 1
      /\ DOMAIN Append(q, e) = 1 .. Len(q) + 1
  OBVIOUS
<1>2. /\ \A i \in 1 .. Len(q) : Append(q, e)[i] = q[i]
      /\ Append(q, e)[Len(q) + 1] = e
  OBVIOUS
<1>3. DOMAIN q = 1 .. Len(q) /\ Len(q) \in Nat
  OBVIOUS
<1>4. \A x : x \in ToSet(Append(q, e)) <=> x \in ToSet(q) \cup {e}
  BY <1>1, <1>2, <1>3 DEF ToSet
<1> QED
  BY <1>1, <1>4

LEMMA ToSetHeadTail ==
    ASSUME NEW S, NEW q \in Seq(S), q # <<>>
    PROVE  /\ Head(q) \in S
           /\ Tail(q) \in Seq(S)
           /\ Len(Tail(q)) = Len(q) - 1
           /\ ToSet(q) = {Head(q)} \cup ToSet(Tail(q))
<1>1. /\ Len(q) \in Nat \ {0} /\ DOMAIN q = 1 .. Len(q)
      /\ Head(q) = q[1] /\ Head(q) \in S
      /\ Tail(q) \in Seq(S) /\ Len(Tail(q)) = Len(q) - 1
      /\ DOMAIN Tail(q) = 1 .. Len(q) - 1
      /\ \A i \in 1 .. Len(q) - 1 : Tail(q)[i] = q[i + 1]
  OBVIOUS
<1>2. ASSUME NEW x
      PROVE  x \in ToSet(q) <=> x \in {Head(q)} \cup ToSet(Tail(q))
  <2>1. ASSUME x \in ToSet(q)
        PROVE  x \in {Head(q)} \cup ToSet(Tail(q))
    <3>1. PICK i \in 1 .. Len(q) : q[i] = x
      BY <1>1, <2>1 DEF ToSet
    <3>2. CASE i = 1
      BY <1>1, <3>1, <3>2
    <3>3. CASE i # 1
      <4>1. i - 1 \in 1 .. Len(q) - 1 /\ Tail(q)[i - 1] = x
        BY <1>1, <3>1, <3>3
      <4> QED
        BY <1>1, <4>1 DEF ToSet
    <3> QED
      BY <3>2, <3>3
  <2>2. ASSUME x \in {Head(q)} \cup ToSet(Tail(q))
        PROVE  x \in ToSet(q)
    BY <1>1, <2>2 DEF ToSet
  <2> QED
    BY <2>1, <2>2
<1> QED
  BY <1>1, <1>2

-----------------------------------------------------------------------------
(* Types.                                                                  *)

LEMMA ScreenKinds ==
    /\ \A d \in Displays : d \in Screens /\ d \notin Trackers
    /\ \A s \in Trackers : s \in Screens /\ s \notin Displays
    /\ \A s \in Screens : s \in Displays \/ s \in Trackers
  BY FeedsAssumption DEF Screens

LEMMA TablesStutter ==
    ASSUME TablesTypeOK, UNCHANGED tableVars
    PROVE  TablesTypeOK'
  BY DEF TablesTypeOK, tableVars

LEMMA TablesStep ==
    ASSUME TablesTypeOK, TablesNext
    PROVE  TablesTypeOK'
  BY DEF TablesTypeOK, TablesNext, CreateTable, UpdateTable, GuestLogin, TokenExpires

\* What a handler does next, and what it publishes.
LEMMA PublishingSteps ==
    /\ Idle \in Publishing /\ Idle.at = "idle"
    /\ \A n \in 1 .. MaxChanges, at \in {"order", "kds"} :
           /\ [at |-> at, change |-> n] \in Publishing
           /\ [at |-> at, change |-> n].at = at
           /\ [at |-> at, change |-> n].change = n
    /\ \A k \in Publishing : k.at \in {"order", "kds"} =>
           /\ k # Idle
           /\ k.change \in 1 .. MaxChanges
           /\ [k EXCEPT !.at = "kds"] = [at |-> "kds", change |-> k.change]
    /\ \A k \in Publishing : k # Idle => k.at \in {"order", "kds"}
  BY DEF Publishing, Idle

LEMMA DeliverType ==
    ASSUME FeedsTypeOK, NEW channel \in {"order", "kds"}, NEW n \in 1 .. MaxChanges,
           Deliver(channel, n)
    PROVE  /\ inbox' \in [Screens -> Seq(1 .. MaxChanges)]
           /\ \A s \in Screens : Len(inbox'[s]) <= InboxSize
           /\ missed' \in [Screens -> SUBSET (1 .. MaxChanges)]
<1> DEFINE reached == {s \in Audience(channel) : Receives(s)}
<1>1. ASSUME NEW s \in Screens
      PROVE  /\ inbox'[s] \in Seq(1 .. MaxChanges)
             /\ Len(inbox'[s]) <= InboxSize
             /\ missed'[s] \in SUBSET (1 .. MaxChanges)
  <2>1. inbox'[s] = IF s \in reached THEN Append(inbox[s], n) ELSE inbox[s]
    BY DEF Deliver
  <2>2. inbox[s] \in Seq(1 .. MaxChanges) /\ Len(inbox[s]) <= InboxSize
    BY DEF FeedsTypeOK
  <2>3. s \in reached => Len(inbox[s]) < InboxSize
    BY DEF Receives
  <2>4. missed'[s] \in SUBSET (1 .. MaxChanges)
    BY DEF Deliver, FeedsTypeOK
  <2> HIDE DEF reached
  <2>5. CASE s \in reached
    BY <2>1, <2>2, <2>3, <2>4, <2>5, ToSetAppend, FeedsAssumption
  <2>6. CASE s \notin reached
    BY <2>1, <2>2, <2>4, <2>6
  <2> QED
    BY <2>5, <2>6
<1>2. inbox' = [s \in Screens |-> inbox'[s]] /\ missed' = [s \in Screens |-> missed'[s]]
  BY DEF Deliver
<1> QED
  BY <1>1, <1>2

LEMMA LoseType ==
    ASSUME FeedsTypeOK, NEW channels, NEW n \in 1 .. MaxChanges, Lose(channels, n)
    PROVE  /\ inbox' = inbox
           /\ missed' \in [Screens -> SUBSET (1 .. MaxChanges)]
<1>1. inbox' = inbox
  BY DEF Lose
<1>2. ASSUME NEW s \in Screens
      PROVE  missed'[s] \in SUBSET (1 .. MaxChanges)
  BY DEF Lose, FeedsTypeOK
<1>3. missed' = [s \in Screens |-> missed'[s]]
  BY DEF Lose
<1> QED
  BY <1>1, <1>2, <1>3

LEMMA RequestType ==
    ASSUME FeedsTypeOK, NEW h \in Handlers, Request(h), UNCHANGED tableVars
    PROVE  FeedsTypeOK'
<1>1. TablesTypeOK'
  BY TablesStutter DEF FeedsTypeOK
<1>2. ASSUME UNCHANGED <<screenVars, hubVars, tallyVars, up>>,
             changes' \in 0 .. MaxChanges, req' \in [Handlers -> Publishing]
      PROVE  FeedsTypeOK'
  BY <1>1, <1>2 DEF FeedsTypeOK, screenVars, hubVars, tallyVars
<1>3. ASSUME UNCHANGED <<up, conn, stage, feed, hubVars, told>>,
             changes' \in 0 .. MaxChanges, req' \in [Handlers -> Publishing],
             inbox' \in [Screens -> Seq(1 .. MaxChanges)],
             \A s \in Screens : Len(inbox'[s]) <= InboxSize,
             missed' \in [Screens -> SUBSET (1 .. MaxChanges)]
      PROVE  FeedsTypeOK'
  BY <1>1, <1>3 DEF FeedsTypeOK, hubVars
<1>4. changes < MaxChanges => changes + 1 \in 1 .. MaxChanges /\ changes + 1 \in 0 .. MaxChanges
  BY FeedsAssumption DEF FeedsTypeOK
<1>5. req[h] \in Publishing /\ req \in [Handlers -> Publishing] /\ changes \in 0 .. MaxChanges
  BY DEF FeedsTypeOK
<1>6. CASE ChangeOrder(h)
  BY <1>2, <1>4, <1>5, <1>6, PublishingSteps DEF ChangeOrder
<1>7. CASE SettleOrder(h)
  <2>1. changes + 1 \in 1 .. MaxChanges /\ Lose({"order"}, changes + 1)
    BY <1>4, <1>7 DEF SettleOrder
  <2>2. inbox' = inbox /\ missed' \in [Screens -> SUBSET (1 .. MaxChanges)]
    BY <2>1, LoseType
  <2>3. req' \in [Handlers -> Publishing] /\ changes' \in 0 .. MaxChanges
    BY <1>4, <1>5, <1>7, <2>1, PublishingSteps DEF SettleOrder
  <2> QED
    BY <1>3, <1>7, <2>2, <2>3 DEF SettleOrder, FeedsTypeOK
<1>8. ASSUME NEW channel \in {"order", "kds"}, NEW n \in 1 .. MaxChanges, NEW lost,
             Deliver(channel, n) \/ Lose(lost, n),
             req' \in [Handlers -> Publishing],
             UNCHANGED <<up, changes, conn, stage, feed, hubVars, told>>
      PROVE  FeedsTypeOK'
  <2>1. /\ inbox' \in [Screens -> Seq(1 .. MaxChanges)]
        /\ \A s \in Screens : Len(inbox'[s]) <= InboxSize
        /\ missed' \in [Screens -> SUBSET (1 .. MaxChanges)]
    BY <1>8, DeliverType, LoseType DEF FeedsTypeOK
  <2> QED
    BY <1>3, <1>5, <1>8, <2>1
<1>9. CASE PublishOrder(h)
  <2>1. /\ req[h].change \in 1 .. MaxChanges
        /\ [req[h] EXCEPT !.at = "kds"] = [at |-> "kds", change |-> req[h].change]
    BY <1>5, <1>9, PublishingSteps DEF PublishOrder, At
  <2>2. [req[h] EXCEPT !.at = "kds"] \in Publishing
    BY <2>1, PublishingSteps
  <2>3. req' \in [Handlers -> Publishing]
    BY <1>5, <1>9, <2>2 DEF PublishOrder
  <2> QED
    BY <1>8, <1>9, <2>1, <2>3 DEF PublishOrder
<1>10. CASE PublishKDS(h)
  <2>1. req[h].change \in 1 .. MaxChanges
    BY <1>5, <1>10, PublishingSteps DEF PublishKDS, At
  <2> QED
    BY <1>5, <1>8, <1>10, <2>1, PublishingSteps DEF PublishKDS
<1>11. CASE Abandon(h)
  <2>1. req[h].change \in 1 .. MaxChanges
    BY <1>5, <1>11, PublishingSteps DEF Abandon
  <2> QED
    BY <1>5, <1>8, <1>11, <2>1, PublishingSteps DEF Abandon
<1> QED
  BY <1>6, <1>7, <1>9, <1>10, <1>11 DEF Request

\* One message is taken from an inbox, or all of them.
LEMMA InboxTaken ==
    ASSUME FeedsTypeOK, NEW s \in Screens, inbox[s] # <<>>
    PROVE  /\ Head(inbox[s]) \in 1 .. MaxChanges
           /\ Tail(inbox[s]) \in Seq(1 .. MaxChanges)
           /\ Len(Tail(inbox[s])) <= InboxSize
           /\ ToSet(inbox[s]) = {Head(inbox[s])} \cup ToSet(Tail(inbox[s]))
<1> DEFINE numbers == 1 .. MaxChanges
<1>1. inbox[s] \in Seq(numbers) /\ Len(inbox[s]) <= InboxSize /\ Len(inbox[s]) \in Nat
  BY DEF FeedsTypeOK
<1> HIDE DEF numbers
<1>2. /\ Head(inbox[s]) \in numbers /\ Tail(inbox[s]) \in Seq(numbers)
      /\ Len(Tail(inbox[s])) = Len(inbox[s]) - 1
      /\ ToSet(inbox[s]) = {Head(inbox[s])} \cup ToSet(Tail(inbox[s]))
  BY <1>1, ToSetHeadTail
<1>3. Len(Tail(inbox[s])) <= InboxSize
  BY <1>1, <1>2, FeedsAssumption
<1> QED
  BY <1>2, <1>3 DEF numbers

LEMMA SendTaken ==
    ASSUME FeedsTypeOK, NEW d \in Displays, send[d] # <<>>
    PROVE  /\ Head(send[d]) \in 1 .. MaxChanges
           /\ Tail(send[d]) \in Seq(1 .. MaxChanges)
           /\ Len(Tail(send[d])) <= SendSize
           /\ ToSet(send[d]) = {Head(send[d])} \cup ToSet(Tail(send[d]))
<1> DEFINE numbers == 1 .. MaxChanges
<1>1. send[d] \in Seq(numbers) /\ Len(send[d]) <= SendSize /\ Len(send[d]) \in Nat
  BY DEF FeedsTypeOK
<1> HIDE DEF numbers
<1>2. /\ Head(send[d]) \in numbers /\ Tail(send[d]) \in Seq(numbers)
      /\ Len(Tail(send[d])) = Len(send[d]) - 1
      /\ ToSet(send[d]) = {Head(send[d])} \cup ToSet(Tail(send[d]))
  BY <1>1, ToSetHeadTail
<1>3. Len(Tail(send[d])) <= SendSize
  BY <1>1, <1>2, FeedsAssumption
<1> QED
  BY <1>2, <1>3 DEF numbers

LEMMA Cleared ==
    ASSUME FeedsTypeOK, NEW s \in Screens
    PROVE  /\ <<>> \in Seq(1 .. MaxChanges)
           /\ Len(<<>>) <= InboxSize /\ Len(<<>>) <= SendSize
           /\ ToSet(inbox[s]) \in SUBSET (1 .. MaxChanges)
<1>1. ToSet(inbox[s]) \in SUBSET (1 .. MaxChanges)
  <2> DEFINE numbers == 1 .. MaxChanges
  <2>1. inbox[s] \in Seq(numbers)
    BY DEF FeedsTypeOK
  <2> HIDE DEF numbers
  <2>2. ToSet(inbox[s]) \subseteq numbers
    BY <2>1, ToSetElements
  <2> QED
    BY <2>2 DEF numbers
<1> QED
  BY <1>1, FeedsAssumption

LEMMA TallyType ==
    ASSUME NEW tally \in [Screens -> SUBSET (1 .. MaxChanges)], NEW next,
           NEW s \in Screens, NEW n \in 1 .. MaxChanges,
           next \in {tally, [tally EXCEPT ![s] = tally[s] \cup {n}]}
    PROVE  next \in [Screens -> SUBSET (1 .. MaxChanges)]
  OBVIOUS

LEMMA ScreenType ==
    ASSUME FeedsTypeOK, NEW s \in Screens, Screen(s), UNCHANGED tableVars
    PROVE  FeedsTypeOK'
<1>1. TablesTypeOK'
  BY TablesStutter DEF FeedsTypeOK
<1>2. CASE Disconnect(s)
  BY <1>1, <1>2 DEF Disconnect, FeedsTypeOK, hubVars, tallyVars
<1>3. CASE SubscriptionOn(s)
  BY <1>1, <1>3 DEF SubscriptionOn, FeedsTypeOK, hubVars, tallyVars
<1>4. CASE SubscriptionOver(s)
  <2>1. /\ inbox' \in [Screens -> Seq(1 .. MaxChanges)]
        /\ \A r \in Screens : Len(inbox'[r]) <= InboxSize
    BY <1>4, Cleared DEF SubscriptionOver, FeedsTypeOK
  <2>2. missed' \in [Screens -> SUBSET (1 .. MaxChanges)]
    BY <1>4, Cleared DEF SubscriptionOver, FeedsTypeOK
  <2> QED
    BY <1>1, <1>4, <2>1, <2>2 DEF SubscriptionOver, FeedsTypeOK, hubVars
<1> QED
  BY <1>2, <1>3, <1>4 DEF Screen

LEMMA DisplayType ==
    ASSUME FeedsTypeOK, NEW d \in Displays, Upgrade(d) \/ Goroutine(d), UNCHANGED tableVars
    PROVE  FeedsTypeOK'
<1>1. TablesTypeOK' /\ d \in Screens
  BY TablesStutter DEF FeedsTypeOK, Screens
<1>2. CASE Upgrade(d)
  BY <1>1, <1>2 DEF Upgrade, FeedsTypeOK, hubVars, tallyVars
<1>3. CASE Register(d)
  BY <1>1, <1>3 DEF Register, FeedsTypeOK, tallyVars
<1>4. CASE ReadFails(d)
  BY <1>1, <1>4 DEF ReadFails, FeedsTypeOK, hubVars, tallyVars
<1>5. CASE Unregister(d)
  <2>1. shut' \in [Displays -> BOOLEAN]
    <3>1. CASE d \in clients
      <4>1. shut' = [shut EXCEPT ![d] = TRUE]
        BY <1>5, <3>1, Zenon DEF Unregister, FeedsTypeOK
      <4> QED
        BY <4>1 DEF FeedsTypeOK
    <3>2. CASE d \notin clients
      <4>1. shut' = [shut EXCEPT ![d] = shut[d]]
        BY <1>5, <3>2, Zenon DEF Unregister, FeedsTypeOK
      <4> QED
        BY <4>1 DEF FeedsTypeOK
    <3> QED
      BY <3>1, <3>2
  <2> QED
    BY <1>1, <1>5, <2>1 DEF Unregister, FeedsTypeOK, tallyVars
<1>6. CASE Forward(d)
  <2>1. /\ Head(inbox[d]) \in 1 .. MaxChanges /\ Tail(inbox[d]) \in Seq(1 .. MaxChanges)
        /\ Len(Tail(inbox[d])) <= InboxSize
    BY <1>1, <1>6, InboxTaken DEF Forward
  <2>2. /\ inbox' \in [Screens -> Seq(1 .. MaxChanges)]
        /\ \A s \in Screens : Len(inbox'[s]) <= InboxSize
    BY <1>1, <1>6, <2>1 DEF Forward, FeedsTypeOK
  <2>3. CASE /\ Len(send[d]) < SendSize
             /\ send' = [send EXCEPT ![d] = Append(send[d], Head(inbox[d]))]
             /\ UNCHANGED missed
    <3>1. send[d] \in Seq(1 .. MaxChanges)
      BY DEF FeedsTypeOK
    <3>2. /\ Append(send[d], Head(inbox[d])) \in Seq(1 .. MaxChanges)
          /\ Len(Append(send[d], Head(inbox[d]))) <= SendSize
      BY <2>1, <2>3, <3>1, FeedsAssumption
    <3>3. /\ send' \in [Displays -> Seq(1 .. MaxChanges)]
          /\ \A e \in Displays : Len(send'[e]) <= SendSize
      BY <2>3, <3>2 DEF FeedsTypeOK
    <3> QED
      BY <1>1, <1>6, <2>2, <2>3, <3>3 DEF Forward, FeedsTypeOK
  <2>4. CASE /\ missed' = [missed EXCEPT ![d] = missed[d] \cup {Head(inbox[d])}]
             /\ UNCHANGED send
    <3>1. missed' \in [Screens -> SUBSET (1 .. MaxChanges)]
      BY <1>1, <2>1, <2>4 DEF FeedsTypeOK
    <3> QED
      BY <1>1, <1>6, <2>2, <2>4, <3>1 DEF Forward, FeedsTypeOK
  <2> QED
    BY <1>6, <2>3, <2>4 DEF Forward
<1>7. CASE ForwarderPanics(d)
  <2>1. /\ inbox' \in [Screens -> Seq(1 .. MaxChanges)]
        /\ \A s \in Screens : Len(inbox'[s]) <= InboxSize
        /\ send' \in [Displays -> Seq(1 .. MaxChanges)]
        /\ \A e \in Displays : Len(send'[e]) <= SendSize
    BY <1>1, <1>7, Cleared DEF ForwarderPanics
  <2>2. missed' \in [Screens -> SUBSET (1 .. MaxChanges)]
    <3>1. 1 .. changes \subseteq 1 .. MaxChanges
      BY FeedsAssumption DEF FeedsTypeOK
    <3> QED
      BY <1>7, <3>1 DEF ForwarderPanics
  <2>3. req' \in [Handlers -> Publishing]
    BY <1>7, PublishingSteps DEF ForwarderPanics
  <2> QED
    BY <1>1, <1>7, <2>1, <2>2, <2>3 DEF ForwarderPanics, FeedsTypeOK
<1>8. CASE Write(d)
  <2>1. /\ Head(send[d]) \in 1 .. MaxChanges /\ Tail(send[d]) \in Seq(1 .. MaxChanges)
        /\ Len(Tail(send[d])) <= SendSize
    BY <1>8, SendTaken DEF Write
  <2>2. /\ send' \in [Displays -> Seq(1 .. MaxChanges)]
        /\ \A e \in Displays : Len(send'[e]) <= SendSize
    BY <1>8, <2>1 DEF Write, FeedsTypeOK
  <2>3. told' \in [Screens -> SUBSET (1 .. MaxChanges)]
    <3>1. told' \in {told, [told EXCEPT ![d] = told[d] \cup {Head(send[d])}]}
      BY <1>8 DEF Write
    <3>2. told \in [Screens -> SUBSET (1 .. MaxChanges)]
      BY DEF FeedsTypeOK
    <3> QED
      BY <1>1, <2>1, <3>1, <3>2, TallyType
  <2>4. missed' \in [Screens -> SUBSET (1 .. MaxChanges)]
    <3>1. missed' \in {missed, [missed EXCEPT ![d] = missed[d] \cup {Head(send[d])}]}
      BY <1>8 DEF Write
    <3>2. missed \in [Screens -> SUBSET (1 .. MaxChanges)]
      BY DEF FeedsTypeOK
    <3> QED
      BY <1>1, <2>1, <3>1, <3>2, TallyType
  <2>5. writer' \in [Displays -> BOOLEAN]
    BY <1>8 DEF Write, FeedsTypeOK
  <2> QED
    BY <1>1, <1>8, <2>2, <2>3, <2>4, <2>5 DEF Write, FeedsTypeOK, screenVars
<1>9. CASE WriterEnds(d)
  BY <1>1, <1>9 DEF WriterEnds, FeedsTypeOK, tallyVars
<1> QED
  BY <1>2, <1>3, <1>4, <1>5, <1>6, <1>7, <1>8, <1>9 DEF Goroutine

LEMMA TrackerType ==
    ASSUME FeedsTypeOK, NEW s \in Trackers, OpenStream(s) \/ StreamNext(s) \/ StreamEnds(s),
           UNCHANGED tableVars
    PROVE  FeedsTypeOK'
<1>1. TablesTypeOK' /\ s \in Screens
  BY TablesStutter DEF FeedsTypeOK, Screens
<1>2. CASE OpenStream(s)
  BY <1>1, <1>2 DEF OpenStream, FeedsTypeOK, hubVars, tallyVars
<1>3. CASE StreamNext(s)
  <2>1. /\ Head(inbox[s]) \in 1 .. MaxChanges /\ Tail(inbox[s]) \in Seq(1 .. MaxChanges)
        /\ Len(Tail(inbox[s])) <= InboxSize
    BY <1>1, <1>3, InboxTaken DEF StreamNext
  <2>2. /\ inbox' \in [Screens -> Seq(1 .. MaxChanges)]
        /\ \A r \in Screens : Len(inbox'[r]) <= InboxSize
    BY <1>1, <1>3, <2>1 DEF StreamNext, FeedsTypeOK
  <2>3. /\ told' \in [Screens -> SUBSET (1 .. MaxChanges)]
        /\ missed' \in [Screens -> SUBSET (1 .. MaxChanges)]
    <3>1. /\ told' \in {told, [told EXCEPT ![s] = told[s] \cup {Head(inbox[s])}]}
          /\ missed' \in {missed, [missed EXCEPT ![s] = missed[s] \cup {Head(inbox[s])}]}
      BY <1>3 DEF StreamNext
    <3>2. /\ told \in [Screens -> SUBSET (1 .. MaxChanges)]
          /\ missed \in [Screens -> SUBSET (1 .. MaxChanges)]
      BY DEF FeedsTypeOK
    <3> QED
      BY <1>1, <2>1, <3>1, <3>2, TallyType
  <2> QED
    BY <1>1, <1>3, <2>2, <2>3 DEF StreamNext, FeedsTypeOK, hubVars
<1>4. CASE StreamEnds(s)
  <2>1. /\ inbox' \in [Screens -> Seq(1 .. MaxChanges)]
        /\ \A r \in Screens : Len(inbox'[r]) <= InboxSize
    BY <1>1, <1>4, Cleared DEF StreamEnds, FeedsTypeOK
  <2>2. missed' \in [Screens -> SUBSET (1 .. MaxChanges)]
    BY <1>1, <1>4, Cleared DEF StreamEnds, FeedsTypeOK
  <2> QED
    BY <1>1, <1>4, <2>1, <2>2 DEF StreamEnds, FeedsTypeOK, hubVars
<1> QED
  BY <1>2, <1>3, <1>4

-----------------------------------------------------------------------------
(* The hub.                                                                *)

HubOK == HubKnowsTheLiving /\ LeftIsLost

LEMMA HubStutter ==
    ASSUME HubOK, UNCHANGED <<clients, shut, stage, conn>>
    PROVE  HubOK'
  BY DEF HubOK, HubKnowsTheLiving, LeftIsLost

LEMMA RequestHub ==
    ASSUME HubOK, NEW h \in Handlers, Request(h)
    PROVE  HubOK'
<1>1. UNCHANGED <<clients, shut, stage, conn>>
  BY DEF Request, ChangeOrder, SettleOrder, PublishOrder, PublishKDS, Abandon, hubVars, screenVars
<1> QED
  BY <1>1, HubStutter

LEMMA ScreenHub ==
    ASSUME FeedsTypeOK, HubOK, NEW s \in Screens, Screen(s)
    PROVE  HubOK'
<1>1. CASE Disconnect(s)
  BY <1>1 DEF Disconnect, HubOK, HubKnowsTheLiving, LeftIsLost, FeedsTypeOK, hubVars
<1>2. CASE SubscriptionOn(s) \/ SubscriptionOver(s)
  BY <1>2, HubStutter DEF SubscriptionOn, SubscriptionOver, hubVars
<1> QED
  BY <1>1, <1>2 DEF Screen

LEMMA DisplayHub ==
    ASSUME FeedsTypeOK, HubOK, NEW d \in Displays, Upgrade(d) \/ Goroutine(d)
    PROVE  HubOK'
<1>1. d \in Screens /\ Displays \subseteq Screens
  BY DEF Screens
<1>2. ASSUME NEW e \in Displays, e # d, ~ForwarderPanics(d)
      PROVE  /\ conn'[e] = conn[e] /\ stage'[e] = stage[e]
             /\ e \in clients' <=> e \in clients
             /\ shut'[e] <=> shut[e]
  <2>1. conn'[e] = conn[e] /\ stage'[e] = stage[e]
    BY <1>1, <1>2 DEF Goroutine, Upgrade, Register, ReadFails, Unregister, Forward, Write,
       WriterEnds, FeedsTypeOK, screenVars
  <2>2. e \in clients' <=> e \in clients
    BY <1>1, <1>2 DEF Goroutine, Upgrade, Register, ReadFails, Unregister, Forward, Write,
       WriterEnds, FeedsTypeOK, hubVars
  <2>3. shut'[e] = shut[e]
    BY <1>1, <1>2 DEF Goroutine, Upgrade, Register, ReadFails, Unregister, Forward, Write,
       WriterEnds, FeedsTypeOK, hubVars
  <2> QED
    BY <2>1, <2>2, <2>3
<1>3. ASSUME ~ForwarderPanics(d),
             /\ d \in clients' <=> stage'[d] \in {"reading", "unregistering"}
             /\ shut'[d] <=> stage'[d] = "ended"
             /\ stage'[d] \in {"unregistering", "ended"} => conn'[d] = "lost"
      PROVE  HubOK'
  BY <1>2, <1>3 DEF HubOK, HubKnowsTheLiving, LeftIsLost
<1>4. /\ d \in clients <=> stage[d] \in {"reading", "unregistering"}
      /\ shut[d] <=> stage[d] = "ended"
      /\ stage[d] \in {"unregistering", "ended"} => conn[d] = "lost"
  BY DEF HubOK, HubKnowsTheLiving, LeftIsLost
<1>5. CASE ForwarderPanics(d)
  BY <1>1, <1>5 DEF ForwarderPanics, HubOK, HubKnowsTheLiving, LeftIsLost
<1>6. CASE Upgrade(d) /\ ~ForwarderPanics(d)
  BY <1>1, <1>3, <1>4, <1>6 DEF Upgrade, FeedsTypeOK, hubVars
<1>7. CASE Register(d) /\ ~ForwarderPanics(d)
  BY <1>1, <1>3, <1>4, <1>7 DEF Register, FeedsTypeOK
<1>8. CASE ReadFails(d) /\ ~ForwarderPanics(d)
  BY <1>1, <1>3, <1>4, <1>8 DEF ReadFails, FeedsTypeOK, hubVars
<1>9. CASE Unregister(d) /\ ~ForwarderPanics(d)
  <2>1. d \in clients /\ conn'[d] = "lost" /\ stage'[d] = "ended" /\ d \notin clients'
    BY <1>1, <1>4, <1>9 DEF Unregister, FeedsTypeOK
  <2>2. shut' = [shut EXCEPT ![d] = TRUE]
    BY <1>9, <2>1, Zenon DEF Unregister
  <2>3. shut'[d]
    BY <2>2 DEF FeedsTypeOK
  <2> QED
    BY <1>3, <1>9, <2>1, <2>3
<1>10. CASE (Forward(d) \/ Write(d)) /\ ~ForwarderPanics(d)
  BY <1>10, HubStutter DEF Forward, Write, screenVars
<1>11. CASE WriterEnds(d) /\ ~ForwarderPanics(d)
  BY <1>1, <1>3, <1>4, <1>11 DEF WriterEnds, FeedsTypeOK
<1> QED
  BY <1>5, <1>6, <1>7, <1>8, <1>9, <1>10, <1>11 DEF Goroutine

LEMMA TrackerHub ==
    ASSUME FeedsTypeOK, HubOK, NEW s \in Trackers, OpenStream(s) \/ StreamNext(s) \/ StreamEnds(s)
    PROVE  HubOK'
<1>1. UNCHANGED <<clients, shut>> /\ (\A d \in Displays : stage'[d] = stage[d] /\ conn'[d] = conn[d])
  BY ScreenKinds DEF OpenStream, StreamNext, StreamEnds, FeedsTypeOK, hubVars
<1> QED
  BY <1>1 DEF HubOK, HubKnowsTheLiving, LeftIsLost

-----------------------------------------------------------------------------
(* The account of the changes.                                             *)

\* What a message on its way to a screen, or lost to it, counts for.
Received(s) == missed[s] \cup ToSet(inbox[s])

Account(s) == told[s] \cup Received(s) \cup Sending(s) \cup Coming(s)

\* What a handler that continues with k will still publish for screen s.
Announced(k, s) ==
    IF k.at = "order" \/ (s \in Displays /\ k.at = "kds") THEN {k.change} ELSE {}

\* A message on a channel is for the screens of its audience.
For(channel, s, n) == IF s \in Audience(channel) THEN {n} ELSE {}

LEMMA AccountStated ==
    /\ EveryChangeAccounted <=> \A s \in Screens : 1 .. changes = Account(s)
    /\ EveryChangeAccounted' <=> \A s \in Screens : 1 .. changes' = Account(s)'
  BY DEF EveryChangeAccounted, Account, Received

LEMMA ComingElements ==
    ASSUME NEW s
    PROVE  /\ \A c : c \in Coming(s) <=> \E k \in Handlers : c \in Announced(req[k], s)
           /\ \A c : c \in Coming(s)' <=> \E k \in Handlers : c \in Announced(req'[k], s)
  BY DEF Coming, At, Announced

LEMMA ComingChange ==
    ASSUME FeedsTypeOK, NEW h \in Handlers, NEW s, NEW k, req' = [req EXCEPT ![h] = k]
    PROVE  /\ Coming(s) \cup Announced(k, s) = Coming(s)' \cup Announced(req[h], s)
           /\ Announced(req[h], s) \subseteq Coming(s)
           /\ Announced(k, s) \subseteq Coming(s)'
<1>1. req'[h] = k /\ \A j \in Handlers \ {h} : req'[j] = req[j]
  BY DEF FeedsTypeOK
<1>2. Announced(req[h], s) \subseteq Coming(s) /\ Announced(k, s) \subseteq Coming(s)'
  BY <1>1, ComingElements
<1>3. ASSUME NEW c
      PROVE  c \in Coming(s) \cup Announced(k, s) <=> c \in Coming(s)' \cup Announced(req[h], s)
  BY <1>1, ComingElements
<1> QED
  BY <1>2, <1>3

LEMMA ComingStays ==
    ASSUME NEW s, req' = req
    PROVE  Coming(s)' = Coming(s)
<1>1. ASSUME NEW c
      PROVE  c \in Coming(s)' <=> c \in Coming(s)
  BY ComingElements
<1> QED
  BY <1>1

LEMMA DeliverCounts ==
    ASSUME FeedsTypeOK, NEW channel \in {"order", "kds"}, NEW n \in 1 .. MaxChanges,
           Deliver(channel, n), NEW s \in Screens
    PROVE  Received(s)' = Received(s) \cup For(channel, s, n)
<1> DEFINE reached == {r \in Audience(channel) : Receives(r)}
           numbers == 1 .. MaxChanges
<1>1. /\ inbox'[s] = IF s \in reached THEN Append(inbox[s], n) ELSE inbox[s]
      /\ missed'[s] = IF s \in Audience(channel) \ reached THEN missed[s] \cup {n} ELSE missed[s]
  BY DEF Deliver
<1>2. s \in reached => s \in Audience(channel)
  OBVIOUS
<1>3. inbox[s] \in Seq(numbers) /\ n \in numbers
  BY DEF FeedsTypeOK
<1> HIDE DEF reached, numbers
<1>4. ToSet(Append(inbox[s], n)) = ToSet(inbox[s]) \cup {n}
  BY <1>3, ToSetAppend
<1>5. CASE s \in reached
  BY <1>1, <1>2, <1>4, <1>5 DEF Received, For
<1>6. CASE s \notin reached
  BY <1>1, <1>6 DEF Received, For
<1> QED
  BY <1>5, <1>6

LEMMA LoseCounts ==
    ASSUME NEW channels, NEW n, Lose(channels, n), NEW s \in Screens
    PROVE  Received(s)' = Received(s) \cup UNION {For(c, s, n) : c \in channels}
<1>1. /\ inbox' = inbox
      /\ missed'[s] = IF \E c \in channels : s \in Audience(c) THEN missed[s] \cup {n} ELSE missed[s]
  BY DEF Lose
<1>2. CASE \E c \in channels : s \in Audience(c)
  <2>1. UNION {For(c, s, n) : c \in channels} = {n}
    BY <1>2 DEF For
  <2> QED
    BY <1>1, <1>2, <2>1 DEF Received
<1>3. CASE ~\E c \in channels : s \in Audience(c)
  <2>1. UNION {For(c, s, n) : c \in channels} = {}
    BY <1>3 DEF For
  <2> QED
    BY <1>1, <1>3, <2>1 DEF Received
<1> QED
  BY <1>2, <1>3

LEMMA RequestAccount ==
    ASSUME FeedsTypeOK, EveryChangeAccounted, NEW h \in Handlers, Request(h)
    PROVE  EveryChangeAccounted'
<1> SUFFICES ASSUME NEW s \in Screens
             PROVE  1 .. changes' = Account(s)'
  BY AccountStated
<1>1. 1 .. changes = Account(s) /\ req[h] \in Publishing
  BY AccountStated DEF FeedsTypeOK
<1>2. told'[s] = told[s] /\ Sending(s)' = Sending(s)
  BY DEF Request, ChangeOrder, SettleOrder, PublishOrder, PublishKDS, Abandon, hubVars, tallyVars,
     Sending
<1>3. s \in Displays <=> s \notin Trackers
  BY ScreenKinds
<1>5. \A n : /\ For("order", s, n) = IF s \in Trackers THEN {n} ELSE {}
             /\ For("kds", s, n) = IF s \in Trackers THEN {} ELSE {n}
  BY <1>3 DEF For, Audience
<1>6. \A n : /\ Announced([at |-> "order", change |-> n], s) = {n}
             /\ Announced([at |-> "kds", change |-> n], s) = IF s \in Trackers THEN {} ELSE {n}
  BY <1>3 DEF Announced
<1>7. Announced(Idle, s) = {}
  BY DEF Announced, Idle
<1>8. changes < MaxChanges => /\ changes + 1 \in 1 .. MaxChanges
                              /\ 1 .. changes + 1 = (1 .. changes) \cup {changes + 1}
  BY FeedsAssumption DEF FeedsTypeOK
<1>9. CASE ChangeOrder(h)
  <2> DEFINE n == changes + 1
  <2>1. req' = [req EXCEPT ![h] = [at |-> "order", change |-> n]] /\ req[h] = Idle
    BY <1>9 DEF ChangeOrder
  <2>2. Coming(s)' = Coming(s) \cup {n}
    <3>1. Announced([at |-> "order", change |-> n], s) = {n} /\ Announced(req[h], s) = {}
      BY <1>6, <1>7, <2>1
    <3>2. Coming(s) \cup Announced([at |-> "order", change |-> n], s) = Coming(s)' \cup Announced(req[h], s)
      BY <2>1, ComingChange
    <3> QED
      BY <3>1, <3>2
  <2>3. Received(s)' = Received(s)
    BY <1>9 DEF ChangeOrder, Received, screenVars, tallyVars
  <2>4. Account(s)' = Account(s) \cup {n}
    BY <1>2, <2>2, <2>3 DEF Account
  <2> QED
    BY <1>1, <1>8, <1>9, <2>4 DEF ChangeOrder
<1>10. CASE SettleOrder(h)
  <2> DEFINE n == changes + 1
  <2>1. req' = [req EXCEPT ![h] = [at |-> "kds", change |-> n]] /\ req[h] = Idle /\ Lose({"order"}, n)
    BY <1>10 DEF SettleOrder
  <2>2. Coming(s)' = Coming(s) \cup (IF s \in Trackers THEN {} ELSE {n})
    <3>1. /\ Announced([at |-> "kds", change |-> n], s) = IF s \in Trackers THEN {} ELSE {n}
          /\ Announced(req[h], s) = {}
      BY <1>6, <1>7, <2>1
    <3>2. Coming(s) \cup Announced([at |-> "kds", change |-> n], s) = Coming(s)' \cup Announced(req[h], s)
      BY <2>1, ComingChange
    <3> QED
      BY <3>1, <3>2
  <2>3. Received(s)' = Received(s) \cup (IF s \in Trackers THEN {n} ELSE {})
    BY <1>5, <2>1, LoseCounts
  <2>4. Account(s)' = Account(s) \cup {n}
    BY <1>2, <2>2, <2>3 DEF Account
  <2> QED
    BY <1>1, <1>8, <1>10, <2>4 DEF SettleOrder
<1>11. ASSUME At(h, "order")
       PROVE  /\ req[h] = [at |-> "order", change |-> req[h].change]
              /\ req[h].change \in 1 .. MaxChanges
              /\ [req[h] EXCEPT !.at = "kds"] = [at |-> "kds", change |-> req[h].change]
  BY <1>1, <1>11 DEF Publishing, Idle, At
<1>12. ASSUME At(h, "kds")
       PROVE  /\ req[h] = [at |-> "kds", change |-> req[h].change]
              /\ req[h].change \in 1 .. MaxChanges
  BY <1>1, <1>12 DEF Publishing, Idle, At
<1>13. CASE PublishOrder(h)
  <2> DEFINE n == req[h].change
  <2>1. /\ req[h] = [at |-> "order", change |-> n] /\ n \in 1 .. MaxChanges
        /\ req' = [req EXCEPT ![h] = [at |-> "kds", change |-> n]]
    BY <1>11, <1>13 DEF PublishOrder
  <2>2. Announced(req[h], s) = {n}
    BY <1>6, <2>1
  <2>3. /\ Coming(s) \cup (IF s \in Trackers THEN {} ELSE {n}) = Coming(s)' \cup {n}
        /\ n \in Coming(s)
        /\ s \notin Trackers => n \in Coming(s)'
    <3> DEFINE k == [at |-> "kds", change |-> n]
    <3>1. /\ Coming(s) \cup Announced(k, s) = Coming(s)' \cup Announced(req[h], s)
          /\ Announced(req[h], s) \subseteq Coming(s)
          /\ Announced(k, s) \subseteq Coming(s)'
      BY <2>1, ComingChange
    <3>2. Announced(k, s) = IF s \in Trackers THEN {} ELSE {n}
      BY <1>6
    <3> QED
      BY <2>2, <3>1, <3>2
  <2>4. Deliver("order", n) \/ Lose({"order"}, n)
    BY <1>13 DEF PublishOrder
  <2>5. Received(s)' = Received(s) \cup (IF s \in Trackers THEN {n} ELSE {})
    BY <1>5, <2>1, <2>4, DeliverCounts, LoseCounts
  <2>6. Account(s)' = Account(s)
    BY <1>2, <2>3, <2>5 DEF Account
  <2> QED
    BY <1>1, <1>13, <2>6 DEF PublishOrder
<1>14. CASE PublishKDS(h)
  <2> DEFINE n == req[h].change
  <2>1. /\ req[h] = [at |-> "kds", change |-> n] /\ n \in 1 .. MaxChanges
        /\ req' = [req EXCEPT ![h] = Idle]
    BY <1>12, <1>14 DEF PublishKDS
  <2>2. Announced(req[h], s) = IF s \in Trackers THEN {} ELSE {n}
    BY <1>6, <2>1
  <2>3. /\ Coming(s) = Coming(s)' \cup (IF s \in Trackers THEN {} ELSE {n})
    BY <1>7, <2>1, <2>2, ComingChange
  <2>4. Deliver("kds", n) \/ Lose({"kds"}, n)
    BY <1>14 DEF PublishKDS
  <2>5. Received(s)' = Received(s) \cup (IF s \in Trackers THEN {} ELSE {n})
    BY <1>5, <2>1, <2>4, DeliverCounts, LoseCounts
  <2>6. Account(s)' = Account(s)
    BY <1>2, <2>3, <2>5 DEF Account
  <2> QED
    BY <1>1, <1>14, <2>6 DEF PublishKDS
<1>15. CASE Abandon(h)
  <2> DEFINE n == req[h].change
  <2>1. req' = [req EXCEPT ![h] = Idle]
    BY <1>15 DEF Abandon
  <2>2. CASE At(h, "order")
    <3>1. Announced(req[h], s) = {n}
      BY <1>6, <1>11, <2>2
    <3>2. Coming(s) = Coming(s)' \cup {n}
      BY <1>7, <2>1, <3>1, ComingChange
    <3>3. Lose({"order", "kds"}, n)
      BY <1>15, <2>2 DEF Abandon
    <3>4. Received(s)' = Received(s) \cup UNION {For(c, s, n) : c \in {"order", "kds"}}
      BY <3>3, LoseCounts
    <3>5. UNION {For(c, s, n) : c \in {"order", "kds"}} = {n}
      BY <1>5
    <3>6. Account(s)' = Account(s)
      BY <1>2, <3>2, <3>4, <3>5 DEF Account
    <3> QED
      BY <1>1, <1>15, <3>6 DEF Abandon
  <2>3. CASE ~At(h, "order")
    <3>1. At(h, "kds")
      BY <1>1, <1>15, <2>3, PublishingSteps DEF Abandon, At
    <3>2. Announced(req[h], s) = IF s \in Trackers THEN {} ELSE {n}
      BY <1>6, <1>12, <3>1
    <3>3. Coming(s) = Coming(s)' \cup (IF s \in Trackers THEN {} ELSE {n})
      BY <1>7, <2>1, <3>2, ComingChange
    <3>4. Lose({"kds"}, n)
      BY <1>15, <2>3 DEF Abandon
    <3>5. Received(s)' = Received(s) \cup (IF s \in Trackers THEN {} ELSE {n})
      BY <1>5, <3>4, LoseCounts
    <3>6. Account(s)' = Account(s)
      BY <1>2, <3>3, <3>5 DEF Account
    <3> QED
      BY <1>1, <1>15, <3>6 DEF Abandon
  <2> QED
    BY <2>2, <2>3
<1> QED
  BY <1>9, <1>10, <1>13, <1>14, <1>15 DEF Request

LEMMA AccountStays ==
    ASSUME EveryChangeAccounted, UNCHANGED <<changes, req, told, missed, inbox, send>>
    PROVE  EveryChangeAccounted'
<1> SUFFICES ASSUME NEW s \in Screens
             PROVE  1 .. changes' = Account(s)'
  BY AccountStated
<1>1. 1 .. changes = Account(s)
  BY AccountStated
<1>2. Coming(s)' = Coming(s)
  BY ComingStays
<1>3. Received(s)' = Received(s) /\ Sending(s)' = Sending(s)
  BY DEF Received, Sending
<1> QED
  BY <1>1, <1>2, <1>3 DEF Account

\* Whatever is taken from one place of a screen's account turns up in another.
LEMMA AccountMoves ==
    ASSUME EveryChangeAccounted, UNCHANGED <<changes, req>>, NEW s \in Screens,
           \A r \in Screens \ {s} : /\ told'[r] = told[r] /\ missed'[r] = missed[r]
                                    /\ inbox'[r] = inbox[r] /\ Sending(r)' = Sending(r),
           told'[s] \cup missed'[s] \cup ToSet(inbox'[s]) \cup Sending(s)'
             = told[s] \cup missed[s] \cup ToSet(inbox[s]) \cup Sending(s)
    PROVE  EveryChangeAccounted'
<1> SUFFICES ASSUME NEW r \in Screens
             PROVE  1 .. changes' = Account(r)'
  BY AccountStated
<1>1. 1 .. changes = Account(r)
  BY AccountStated
<1>2. Coming(r)' = Coming(r)
  BY ComingStays
<1>3. CASE r = s
  BY <1>1, <1>2, <1>3 DEF Account, Received
<1>4. CASE r # s
  BY <1>1, <1>2, <1>4 DEF Account, Received
<1> QED
  BY <1>3, <1>4

LEMMA ScreenAccount ==
    ASSUME FeedsTypeOK, EveryChangeAccounted, NEW s \in Screens, Screen(s)
    PROVE  EveryChangeAccounted'
<1>1. CASE Disconnect(s) \/ SubscriptionOn(s)
  BY <1>1, AccountStays DEF Disconnect, SubscriptionOn, hubVars, tallyVars
<1>2. CASE SubscriptionOver(s)
  <2>1. UNCHANGED <<changes, req, told, send>>
    BY <1>2 DEF SubscriptionOver, hubVars
  <2>2. inbox'[s] = <<>> /\ missed'[s] = missed[s] \cup ToSet(inbox[s])
    BY <1>2 DEF SubscriptionOver, FeedsTypeOK
  <2>3. \A r \in Screens \ {s} : inbox'[r] = inbox[r] /\ missed'[r] = missed[r]
    BY <1>2 DEF SubscriptionOver, FeedsTypeOK
  <2>4. \A r \in Screens : Sending(r)' = Sending(r)
    BY <2>1 DEF Sending
  <2>5. ToSet(inbox'[s]) = {}
    BY <2>2, ToSetEmpty
  <2>6. told'[s] \cup missed'[s] \cup ToSet(inbox'[s]) \cup Sending(s)'
          = told[s] \cup missed[s] \cup ToSet(inbox[s]) \cup Sending(s)
    BY <2>1, <2>2, <2>4, <2>5
  <2> QED
    BY <2>1, <2>3, <2>4, <2>6, AccountMoves
<1> QED
  BY <1>1, <1>2 DEF Screen

LEMMA DisplayAccount ==
    ASSUME FeedsTypeOK, EveryChangeAccounted, NEW d \in Displays, Upgrade(d) \/ Goroutine(d)
    PROVE  EveryChangeAccounted'
<1>1. d \in Screens
  BY DEF Screens
<1>2. CASE Upgrade(d) \/ Register(d) \/ ReadFails(d) \/ Unregister(d) \/ WriterEnds(d)
  BY <1>2, AccountStays DEF Upgrade, Register, ReadFails, Unregister, WriterEnds, hubVars, tallyVars
<1>3. CASE Forward(d)
  <2>1. ToSet(inbox[d]) = {Head(inbox[d])} \cup ToSet(Tail(inbox[d])) /\ Head(inbox[d]) \in 1 .. MaxChanges
    BY <1>1, <1>3, InboxTaken DEF Forward
  <2>2. inbox'[d] = Tail(inbox[d]) /\ told' = told /\ UNCHANGED <<changes, req>>
    BY <1>1, <1>3 DEF Forward, FeedsTypeOK
  <2>3. \A r \in Screens \ {d} : inbox'[r] = inbox[r]
    BY <1>3 DEF Forward, FeedsTypeOK
  <2>4. CASE send' = [send EXCEPT ![d] = Append(send[d], Head(inbox[d]))] /\ missed' = missed
    <3> DEFINE numbers == 1 .. MaxChanges
    <3>1. send'[d] = Append(send[d], Head(inbox[d])) /\ send[d] \in Seq(numbers) /\ Head(inbox[d]) \in numbers
      BY <2>1, <2>4 DEF FeedsTypeOK
    <3> HIDE DEF numbers
    <3>2. ToSet(send'[d]) = ToSet(send[d]) \cup {Head(inbox[d])}
      BY <3>1, ToSetAppend
    <3>3. Sending(d)' = Sending(d) \cup {Head(inbox[d])}
      BY <3>2 DEF Sending
    <3>4. \A r \in Screens \ {d} : Sending(r)' = Sending(r)
      BY <2>4 DEF Sending, FeedsTypeOK
    <3>5. told'[d] \cup missed'[d] \cup ToSet(inbox'[d]) \cup Sending(d)'
            = told[d] \cup missed[d] \cup ToSet(inbox[d]) \cup Sending(d)
      BY <2>1, <2>2, <2>4, <3>3
    <3> QED
      BY <1>1, <2>2, <2>3, <2>4, <3>4, <3>5, AccountMoves
  <2>5. CASE missed' = [missed EXCEPT ![d] = missed[d] \cup {Head(inbox[d])}] /\ send' = send
    <3>1. missed'[d] = missed[d] \cup {Head(inbox[d])} /\ (\A r \in Screens \ {d} : missed'[r] = missed[r])
      BY <1>1, <2>5 DEF FeedsTypeOK
    <3>2. \A r \in Screens : Sending(r)' = Sending(r)
      BY <2>5 DEF Sending
    <3>3. told'[d] \cup missed'[d] \cup ToSet(inbox'[d]) \cup Sending(d)'
            = told[d] \cup missed[d] \cup ToSet(inbox[d]) \cup Sending(d)
      BY <1>1, <2>1, <2>2, <3>1, <3>2
    <3> QED
      BY <1>1, <2>2, <2>3, <3>1, <3>2, <3>3, AccountMoves
  <2> QED
    BY <1>3, <2>4, <2>5 DEF Forward
<1>4. CASE ForwarderPanics(d)
  <2> SUFFICES ASSUME NEW s \in Screens
               PROVE  1 .. changes' = Account(s)'
    BY AccountStated
  <2>1. told[s] \subseteq 1 .. changes
    BY DEF EveryChangeAccounted
  <2>2. changes' = changes /\ told' = told /\ missed'[s] = (1 .. changes) \ told[s] /\ inbox'[s] = <<>>
    BY <1>4 DEF ForwarderPanics
  <2>3. ToSet(inbox'[s]) = {} /\ Sending(s)' = {}
    BY <1>4, <2>2, ToSetEmpty DEF ForwarderPanics, Sending
  <2>4. Coming(s)' = {}
    <3>1. \A k \in Handlers : Announced(req'[k], s) = {}
      BY <1>4 DEF ForwarderPanics, Announced, Idle
    <3> QED
      BY <3>1, ComingElements
  <2>5. Account(s)' = told[s] \cup ((1 .. changes) \ told[s])
    BY <2>2, <2>3, <2>4 DEF Account, Received
  <2> QED
    BY <2>1, <2>2, <2>5
<1>5. CASE Write(d)
  <2>1. ToSet(send[d]) = {Head(send[d])} \cup ToSet(Tail(send[d]))
    BY <1>5, SendTaken DEF Write
  <2>2. /\ send'[d] = Tail(send[d]) /\ (\A r \in Displays \ {d} : send'[r] = send[r])
        /\ UNCHANGED <<changes, req, inbox>>
    BY <1>5 DEF Write, FeedsTypeOK, screenVars
  <2>3. Sending(d) = {Head(send[d])} \cup Sending(d)'
    BY <2>1, <2>2 DEF Sending
  <2>4. \A r \in Screens \ {d} : Sending(r)' = Sending(r)
    BY <2>2 DEF Sending
  <2>5. CASE told' = [told EXCEPT ![d] = told[d] \cup {Head(send[d])}] /\ missed' = missed
    <3>1. told'[d] = told[d] \cup {Head(send[d])} /\ (\A r \in Screens \ {d} : told'[r] = told[r])
      BY <1>1, <2>5 DEF FeedsTypeOK
    <3>2. told'[d] \cup missed'[d] \cup ToSet(inbox'[d]) \cup Sending(d)'
            = told[d] \cup missed[d] \cup ToSet(inbox[d]) \cup Sending(d)
      BY <2>2, <2>3, <2>5, <3>1
    <3> QED
      BY <1>1, <2>2, <2>4, <2>5, <3>1, <3>2, AccountMoves
  <2>6. CASE missed' = [missed EXCEPT ![d] = missed[d] \cup {Head(send[d])}] /\ told' = told
    <3>1. missed'[d] = missed[d] \cup {Head(send[d])} /\ (\A r \in Screens \ {d} : missed'[r] = missed[r])
      BY <1>1, <2>6 DEF FeedsTypeOK
    <3>2. told'[d] \cup missed'[d] \cup ToSet(inbox'[d]) \cup Sending(d)'
            = told[d] \cup missed[d] \cup ToSet(inbox[d]) \cup Sending(d)
      BY <2>2, <2>3, <2>6, <3>1
    <3> QED
      BY <1>1, <2>2, <2>4, <2>6, <3>1, <3>2, AccountMoves
  <2> QED
    BY <1>5, <2>5, <2>6 DEF Write
<1> QED
  BY <1>2, <1>3, <1>4, <1>5 DEF Goroutine

LEMMA TrackerAccount ==
    ASSUME FeedsTypeOK, EveryChangeAccounted, NEW s \in Trackers,
           OpenStream(s) \/ StreamNext(s) \/ StreamEnds(s)
    PROVE  EveryChangeAccounted'
<1>1. s \in Screens
  BY DEF Screens
<1>2. CASE OpenStream(s)
  BY <1>2, AccountStays DEF OpenStream, hubVars, tallyVars
<1>3. CASE StreamNext(s)
  <2>1. ToSet(inbox[s]) = {Head(inbox[s])} \cup ToSet(Tail(inbox[s]))
    BY <1>1, <1>3, InboxTaken DEF StreamNext
  <2>2. /\ inbox'[s] = Tail(inbox[s]) /\ (\A r \in Screens \ {s} : inbox'[r] = inbox[r])
        /\ UNCHANGED <<changes, req, send>>
    BY <1>1, <1>3 DEF StreamNext, FeedsTypeOK, hubVars
  <2>3. \A r \in Screens : Sending(r)' = Sending(r)
    BY <2>2 DEF Sending
  <2>4. CASE told' = [told EXCEPT ![s] = told[s] \cup {Head(inbox[s])}] /\ missed' = missed
    <3>1. told'[s] = told[s] \cup {Head(inbox[s])} /\ (\A r \in Screens \ {s} : told'[r] = told[r])
      BY <1>1, <2>4 DEF FeedsTypeOK
    <3>2. told'[s] \cup missed'[s] \cup ToSet(inbox'[s]) \cup Sending(s)'
            = told[s] \cup missed[s] \cup ToSet(inbox[s]) \cup Sending(s)
      BY <1>1, <2>1, <2>2, <2>3, <2>4, <3>1
    <3> QED
      BY <1>1, <2>2, <2>3, <2>4, <3>1, <3>2, AccountMoves
  <2>5. CASE missed' = [missed EXCEPT ![s] = missed[s] \cup {Head(inbox[s])}] /\ told' = told
    <3>1. missed'[s] = missed[s] \cup {Head(inbox[s])} /\ (\A r \in Screens \ {s} : missed'[r] = missed[r])
      BY <1>1, <2>5 DEF FeedsTypeOK
    <3>2. told'[s] \cup missed'[s] \cup ToSet(inbox'[s]) \cup Sending(s)'
            = told[s] \cup missed[s] \cup ToSet(inbox[s]) \cup Sending(s)
      BY <1>1, <2>1, <2>2, <2>3, <2>5, <3>1
    <3> QED
      BY <1>1, <2>2, <2>3, <2>5, <3>1, <3>2, AccountMoves
  <2> QED
    BY <1>3, <2>4, <2>5 DEF StreamNext
<1>4. CASE StreamEnds(s)
  <2>1. /\ inbox'[s] = <<>> /\ (\A r \in Screens \ {s} : inbox'[r] = inbox[r])
        /\ missed'[s] = missed[s] \cup ToSet(inbox[s]) /\ (\A r \in Screens \ {s} : missed'[r] = missed[r])
        /\ UNCHANGED <<changes, req, send, told>>
    BY <1>1, <1>4 DEF StreamEnds, FeedsTypeOK, hubVars
  <2>2. ToSet(inbox'[s]) = {} /\ (\A r \in Screens : Sending(r)' = Sending(r))
    BY <2>1, ToSetEmpty DEF Sending
  <2>3. told'[s] \cup missed'[s] \cup ToSet(inbox'[s]) \cup Sending(s)'
          = told[s] \cup missed[s] \cup ToSet(inbox[s]) \cup Sending(s)
    BY <1>1, <2>1, <2>2
  <2> QED
    BY <1>1, <2>1, <2>2, <2>3, AccountMoves
<1> QED
  BY <1>2, <1>3, <1>4

-----------------------------------------------------------------------------
(* The invariant, and what a step may never do.                            *)

LEMMA FeedsInitInv ==
    ASSUME FeedsInit
    PROVE  FeedsInv
<1>1. TablesTypeOK
  BY DEF FeedsInit, TablesInit, TablesTypeOK
<1>2. /\ inbox \in [Screens -> Seq(1 .. MaxChanges)] /\ send \in [Displays -> Seq(1 .. MaxChanges)]
      /\ \A s \in Screens : Len(inbox[s]) <= InboxSize
      /\ \A d \in Displays : Len(send[d]) <= SendSize
  BY FeedsAssumption DEF FeedsInit
<1>3. req \in [Handlers -> Publishing] /\ changes \in 0 .. MaxChanges
  BY PublishingSteps, FeedsAssumption DEF FeedsInit
<1>4. FeedsTypeOK
  BY <1>1, <1>2, <1>3 DEF FeedsInit, FeedsTypeOK
<1>5. HubKnowsTheLiving /\ LeftIsLost
  BY DEF FeedsInit, HubKnowsTheLiving, LeftIsLost, Screens
<1>6. EveryChangeAccounted
  <2> SUFFICES ASSUME NEW s \in Screens
               PROVE  1 .. changes = Account(s)
    BY AccountStated
  <2>1. told[s] = {} /\ missed[s] = {} /\ ToSet(inbox[s]) = {} /\ Sending(s) = {}
    BY ToSetEmpty DEF FeedsInit, Sending
  <2>2. Coming(s) = {}
    <3>1. \A k \in Handlers : Announced(req[k], s) = {}
      BY DEF FeedsInit, Announced, Idle
    <3> QED
      BY <3>1, ComingElements
  <2>3. 1 .. changes = {}
    BY DEF FeedsInit
  <2> QED
    BY <2>1, <2>2, <2>3 DEF Account, Received
<1> QED
  BY <1>4, <1>5, <1>6 DEF FeedsInv

LEMMA FeedsStep ==
    ASSUME FeedsInv, [FeedsNext]_allVars
    PROVE  FeedsInv'
<1>1. FeedsTypeOK /\ EveryChangeAccounted /\ HubOK
  BY DEF FeedsInv, HubOK
<1> SUFFICES FeedsTypeOK' /\ EveryChangeAccounted' /\ HubOK'
  BY DEF FeedsInv, HubOK
<1>2. CASE UNCHANGED feedVars
  <2>1. TablesTypeOK'
    <3>1. TablesNext \/ UNCHANGED tableVars
      BY DEF FeedsNext, allVars
    <3> QED
      BY <1>1, <3>1, TablesStep, TablesStutter DEF FeedsTypeOK
  <2>2. FeedsTypeOK'
    BY <1>1, <1>2, <2>1 DEF FeedsTypeOK, feedVars, screenVars, hubVars, tallyVars
  <2> QED
    BY <1>1, <1>2, <2>2, AccountStays, HubStutter DEF feedVars, screenVars, hubVars, tallyVars
<1>3. ASSUME UNCHANGED tableVars, NEW h \in Handlers, Request(h)
      PROVE  FeedsTypeOK' /\ EveryChangeAccounted' /\ HubOK'
  BY <1>1, <1>3, RequestType, RequestAccount, RequestHub
<1>4. ASSUME UNCHANGED tableVars, NEW d \in Displays, Upgrade(d) \/ Goroutine(d)
      PROVE  FeedsTypeOK' /\ EveryChangeAccounted' /\ HubOK'
  BY <1>1, <1>4, DisplayType, DisplayAccount, DisplayHub
<1>5. ASSUME UNCHANGED tableVars, NEW s \in Trackers, OpenStream(s) \/ StreamNext(s) \/ StreamEnds(s)
      PROVE  FeedsTypeOK' /\ EveryChangeAccounted' /\ HubOK'
  BY <1>1, <1>5, TrackerType, TrackerAccount, TrackerHub
<1>6. ASSUME UNCHANGED tableVars, NEW s \in Screens, Screen(s)
      PROVE  FeedsTypeOK' /\ EveryChangeAccounted' /\ HubOK'
  BY <1>1, <1>6, ScreenType, ScreenAccount, ScreenHub
<1>7. CASE Restart /\ UNCHANGED tableVars
  <2>1. FeedsTypeOK'
    BY <1>1, <1>7, TablesStutter DEF Restart, FeedsTypeOK, screenVars, hubVars, tallyVars
  <2> QED
    BY <1>1, <1>7, <2>1, AccountStays, HubStutter DEF Restart, screenVars, hubVars, tallyVars
<1> QED
  BY <1>2, <1>3, <1>4, <1>5, <1>6, <1>7 DEF FeedsNext, allVars

THEOREM FeedsInvariant == FeedsSpec => []FeedsInv
  BY FeedsInitInv, FeedsStep, PTL DEF FeedsSpec

\* The state of the displays, the streams and the handlers keeps its form: no buffer
\* exceeds its capacity (make(chan []byte, 256) in NewClient).
THEOREM FeedsTypeCorrect == FeedsSpec => []FeedsTypeOK
<1>1. FeedsInv => FeedsTypeOK
  BY DEF FeedsInv
<1> QED
  BY <1>1, FeedsInvariant, PTL

\* Every change of the order is on its way to every screen, was shown on it, or is
\* known to have missed it (publishOrderEvent, the forwarder, writePump, StreamOrder).
THEOREM ChangesAccounted == FeedsSpec => []EveryChangeAccounted
<1>1. FeedsInv => EveryChangeAccounted
  BY DEF FeedsInv
<1> QED
  BY <1>1, FeedsInvariant, PTL

\* Hub.clients holds the displays between their register and their unregister, and
\* client.send is closed after that only (Hub.Run).
THEOREM HubIsExact == FeedsSpec => []HubKnowsTheLiving
<1>1. FeedsInv => HubKnowsTheLiving
  BY DEF FeedsInv
<1> QED
  BY <1>1, FeedsInvariant, PTL

\* A forwarder that sends on a closed channel, which ends the server, belongs to a
\* display whose connection is lost: nothing else can bring the server down.
LEMMA StandsStep ==
    ASSUME FeedsInv, [FeedsNext]_allVars, up, \A d \in Displays : conn[d] # "lost"
    PROVE  up'
<1>1. ASSUME NEW d \in Displays
      PROVE  ~shut[d]
  BY DEF FeedsInv, HubKnowsTheLiving, LeftIsLost
<1>2. CASE UNCHANGED feedVars
  BY <1>2 DEF feedVars
<1>3. ASSUME NEW h \in Handlers, Request(h)
      PROVE  up'
  BY <1>3 DEF Request, ChangeOrder, SettleOrder, PublishOrder, PublishKDS, Abandon
<1>4. ASSUME NEW d \in Displays, Upgrade(d) \/ Goroutine(d)
      PROVE  up'
  BY <1>1, <1>4 DEF Goroutine, Upgrade, Register, ReadFails, Unregister, Forward, ForwarderPanics,
     Write, WriterEnds
<1>5. ASSUME NEW s \in Trackers, OpenStream(s) \/ StreamNext(s) \/ StreamEnds(s)
      PROVE  up'
  BY <1>5 DEF OpenStream, StreamNext, StreamEnds
<1>6. ASSUME NEW s \in Screens, Screen(s)
      PROVE  up'
  BY <1>6 DEF Screen, Disconnect, SubscriptionOn, SubscriptionOver
<1>7. CASE Restart
  BY <1>7 DEF Restart
<1> QED
  BY <1>2, <1>3, <1>4, <1>5, <1>6, <1>7 DEF FeedsNext, allVars

THEOREM ServerStands == FeedsSpec => StandsWhileConnected
<1>1. FeedsInv /\ [FeedsNext]_allVars
        => [(up /\ \A d \in Displays : conn[d] # "lost") => up']_allVars
  BY StandsStep
<1> QED
  BY <1>1, FeedsInvariant, PTL DEF FeedsSpec, StandsWhileConnected
=============================================================================
