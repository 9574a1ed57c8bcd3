---------------------------- MODULE GroupsProofs ----------------------------
(***************************************************************************)
(* Theorems about Groups, for every set of orders, groups and handlers,    *)
(* every initial grouping, whatever overlaps and whatever fails.           *)
(***************************************************************************)
EXTENDS Groups, TLAPS

(***************************************************************************)
(* What a handler in flight relies on, for each of its orders: that the    *)
(* order is as the handler read it or left it, or that another request     *)
(* regrouped it meanwhile.  DisbandLeavesLateJoiners speaks of the end of  *)
(* a disbanding; before it, an order that is still a member is one of      *)
(* those left to clear, too.                                               *)
(***************************************************************************)
ClaimsHold(h) ==
    \A o \in Claims(h) :
        \/ Ungrouped(o)
        \/ At(h, "set") /\ group[o] = req[h].group
        \/ h \in during[o]

RemovalHolds(h) ==
    At(h, "remove") =>
        \/ group[req[h].order] \in {NoGroup, req[h].group}
        \/ h \in during[req[h].order]

DisbandingHolds(h) ==
    /\ At(h, "disband") =>
           \A o \in Members(req[h].group) : o \in req[h].left \cup req[h].kept \/ h \in during[o]
    /\ At(h, "publish.disbanded") =>
           \A o \in Members(req[h].group) : o \in req[h].kept \/ h \in during[o]

\* A handler works inside its list.
InsideList(h) ==
    /\ At(h, "create.check") => req[h].checked \in 1 .. Len(req[h].list)
    /\ At(h, "set") => req[h].written \in 0 .. Len(req[h].list) - 1

HandlerOK(h) == InsideList(h) /\ ClaimsHold(h) /\ RemovalHolds(h) /\ DisbandingHolds(h)

GroupsInv ==
    /\ GroupsTypeOK
    /\ \A h \in Handlers : HandlerOK(h)
    /\ StreamShowsGroup

-----------------------------------------------------------------------------
(* Lists and continuations.                                                *)

Lists == OrderLists \cup [{1} -> Orders]

LEMMA ListFacts ==
    ASSUME NEW list \in Lists
    PROVE  /\ list \in Seq(Orders)
           /\ Len(list) \in Nat \ {0}
           /\ DOMAIN list = 1 .. Len(list)
           /\ \A i \in 1 .. Len(list) : list[i] \in Orders
<1>1. CASE list \in OrderLists
  <2>1. PICK n \in 2 .. MaxOrders : list \in [1 .. n -> Orders]
    BY <1>1 DEF OrderLists
  <2>2. n \in Nat \ {0}
    BY <2>1, GroupsAssumption
  <2> QED
    BY <2>1, <2>2
<1>2. CASE list \in [{1} -> Orders]
  <2>1. {1} = 1 .. 1
    OBVIOUS
  <2>2. list \in [1 .. 1 -> Orders]
    BY <1>2, <2>1
  <2> QED
    BY <2>2
<1> QED
  BY <1>1, <1>2 DEF Lists

LEMMA SingleList ==
    ASSUME NEW o \in Orders
    PROVE  <<o>> \in Lists /\ Len(<<o>>) = 1 /\ <<o>>[1] = o
<1>1. {1} = 1 .. 1
  OBVIOUS
<1>2. <<o>> \in [1 .. 1 -> Orders]
  OBVIOUS
<1> QED
  BY <1>1, <1>2 DEF Lists

LEMMA IdleStep == Idle \in Continuation /\ Idle.at = "idle"
BY DEF Continuation, Idle

LEMMA ContinuationSteps ==
    ASSUME NEW g \in Groups
    PROVE  /\ \A list \in OrderLists, n \in Nat :
                  [at |-> "create.check", list |-> list, checked |-> n] \in Continuation
           /\ \A list \in Lists, n \in Nat :
                  [at |-> "set", list |-> list, written |-> n, group |-> g] \in Continuation
           /\ \A o \in Orders : [at |-> "remove", order |-> o, group |-> g] \in Continuation
           /\ \A left \in SUBSET Orders, kept \in SUBSET Orders :
                  [at |-> "disband", left |-> left, kept |-> kept, group |-> g] \in Continuation
           /\ [at |-> "publish", group |-> g] \in Continuation
           /\ \A kept \in SUBSET Orders :
                  [at |-> "publish.disbanded", kept |-> kept, group |-> g] \in Continuation
BY DEF Continuation, Lists

LEMMA ContinuationFields ==
    ASSUME NEW k \in Continuation
    PROVE  /\ k.at = "idle" => k = Idle
           /\ k.at \in {"idle", "create.check", "set", "remove", "disband", "publish", "publish.disbanded"}
           /\ k.at = "create.check" => k.list \in OrderLists /\ k.checked \in Nat
           /\ k.at = "set" => k.list \in Lists /\ k.written \in Nat
           /\ k.at = "remove" => k.order \in Orders
           /\ k.at = "disband" => k.left \in SUBSET Orders
           /\ k.at \in {"disband", "publish.disbanded"} => k.kept \in SUBSET Orders
           /\ k.at \notin {"idle", "create.check"} => k.group \in Groups
BY DEF Continuation, Idle, Lists

\* The claims of a handler that works inside its list are orders.
LEMMA ClaimsAreOrders ==
    ASSUME GroupsTypeOK, NEW h \in Handlers, InsideList(h)
    PROVE  Claims(h) \in SUBSET Orders
<1>1. req[h] \in Continuation
  BY DEF GroupsTypeOK
<1>2. CASE At(h, "create.check")
  <2>1. req[h].list \in Lists /\ req[h].checked \in 1 .. Len(req[h].list)
    BY <1>1, <1>2, ContinuationFields DEF At, Lists, InsideList
  <2>2. \A i \in 1 .. req[h].checked : req[h].list[i] \in Orders
    BY <2>1, ListFacts
  <2> QED
    BY <1>2, <2>2 DEF Claims, At
<1>3. CASE At(h, "set")
  <2>1. req[h].list \in Lists /\ req[h].written \in 0 .. Len(req[h].list) - 1
    BY <1>1, <1>3, ContinuationFields DEF At, InsideList
  <2>2. \A i \in req[h].written + 1 .. Len(req[h].list) : req[h].list[i] \in Orders
    BY <2>1, ListFacts
  <2> QED
    BY <1>3, <2>2 DEF Claims, At
<1>4. CASE ~At(h, "create.check") /\ ~At(h, "set")
  BY <1>4 DEF Claims, At
<1> QED
  BY <1>2, <1>3, <1>4

\* A handler does not notice what others do, unless they regroup an order, which
\* during then records.
LEMMA Undisturbed ==
    ASSUME GroupsTypeOK, NEW h \in Handlers, HandlerOK(h), req'[h] = req[h],
           \A o \in Orders : gone[o] => gone'[o],
           \A o \in Orders : \/ h \in during'[o]
                             \/ h \notin during[o] /\ group'[o] = group[o]
    PROVE  HandlerOK(h)'
<1>1. req[h] \in Continuation
  BY DEF GroupsTypeOK
<1>2. InsideList(h)'
  BY DEF HandlerOK, InsideList, At
<1>3. ClaimsHold(h)'
  <2>1. Claims(h)' = Claims(h) /\ Claims(h) \in SUBSET Orders
    BY ClaimsAreOrders DEF Claims, At, HandlerOK
  <2> QED
    BY <2>1 DEF HandlerOK, ClaimsHold, Ungrouped, At
<1>4. RemovalHolds(h)'
  BY <1>1, ContinuationFields DEF HandlerOK, RemovalHolds, At
<1>5. DisbandingHolds(h)'
  <2>1. \A g \in Groups : \A o \in Members(g)' : o \in Members(g) /\ h \in during[o] => h \in during'[o]
    BY DEF Members
  <2>2. \A g \in Groups : \A o \in Members(g)' : o \in Members(g) \/ h \in during'[o]
    BY DEF Members
  <2> QED
    BY <1>1, <2>1, <2>2, ContinuationFields DEF HandlerOK, DisbandingHolds, At
<1> QED
  BY <1>2, <1>3, <1>4, <1>5 DEF HandlerOK

LEMMA IdleHandlerOK ==
    ASSUME NEW h \in Handlers
    PROVE  /\ req[h] = Idle => HandlerOK(h)
           /\ req'[h] = Idle => HandlerOK(h)'
BY DEF HandlerOK, InsideList, ClaimsHold, RemovalHolds, DisbandingHolds, Claims, At, Idle

-----------------------------------------------------------------------------
(* A step that changes no row: what is left to show is that its handler    *)
(* may go on as it does.                                                   *)

LEMMA ReadStep ==
    ASSUME GroupsInv, NEW h \in Handlers, NEW k \in Continuation,
           req' = [req EXCEPT ![h] = k], made' \in 0 .. MaxRequests,
           UNCHANGED <<group, gone, streamVars>>,
           during' = during \/ during' = [o \in Orders |-> during[o] \ {h}],
           WillTell(h) => k.at \notin {"idle", "create.check"} /\ k.group = Watched,
           HandlerOK(h)'
    PROVE  GroupsInv'
<1>1. during' \in [Orders -> SUBSET Handlers]
  BY DEF GroupsInv, GroupsTypeOK
<1>2. GroupsTypeOK'
  BY <1>1 DEF GroupsInv, GroupsTypeOK, streamVars
<1>3. ASSUME NEW j \in Handlers
      PROVE  HandlerOK(j)'
  <2>1. CASE j = h
    BY <2>1
  <2>2. CASE j # h
    <3>1. req'[j] = req[j] /\ (\A o \in Orders : j \in during'[o] <=> j \in during[o])
      BY <2>2 DEF GroupsInv, GroupsTypeOK
    <3> QED
      BY <3>1, Undisturbed DEF GroupsInv
  <2> QED
    BY <2>1, <2>2
<1>4. StreamShowsGroup'
  <2>1. Behind' <=> Behind
    BY DEF Behind, Members, streamVars
  <2>2. \A j \in Handlers : WillTell(j) => WillTell(j)'
    BY DEF WillTell, GroupsInv, GroupsTypeOK
  <2> QED
    BY <2>1, <2>2 DEF GroupsInv, StreamShowsGroup, streamVars
<1> QED
  BY <1>2, <1>3, <1>4 DEF GroupsInv

-----------------------------------------------------------------------------
(* A step that writes one row.                                             *)

LEMMA SetGroupIDRows ==
    ASSUME GroupsInv, NEW h \in Handlers, NEW o \in Orders, NEW g \in Groups \cup {NoGroup},
           SetGroupID(h, o, g)
    PROVE  /\ group' \in [Orders -> Groups \cup {NoGroup}]
           /\ during' \in [Orders -> SUBSET Handlers]
           /\ UNCHANGED <<gone, sub, begun, shown, waiting>>
           /\ missed' \in BOOLEAN
           /\ gone[o] \/ group'[o] = g
           /\ \A p \in Orders : p # o => group'[p] = group[p] /\ during'[p] = during[p]
           /\ \A j \in Handlers \ {h} : req[j] # Idle =>
                  \A p \in Orders : \/ j \in during'[p]
                                    \/ j \notin during[p] /\ group'[p] = group[p]
<1>1. group' \in [Orders -> Groups \cup {NoGroup}] /\ during' \in [Orders -> SUBSET Handlers]
  BY DEF GroupsInv, GroupsTypeOK, SetGroupID, Others
<1>2. missed' \in BOOLEAN
  BY DEF SetGroupID
<1>3. UNCHANGED <<gone, sub, begun, shown, waiting>>
  BY DEF SetGroupID
<1>4. /\ gone[o] \/ group'[o] = g
      /\ \A p \in Orders : p # o => group'[p] = group[p] /\ during'[p] = during[p]
  BY DEF GroupsInv, GroupsTypeOK, SetGroupID
<1>5. ASSUME NEW j \in Handlers \ {h}, req[j] # Idle, NEW p \in Orders
      PROVE  \/ j \in during'[p]
             \/ j \notin during[p] /\ group'[p] = group[p]
  <2>1. CASE gone[o] \/ g = group[o]
    BY <2>1 DEF GroupsInv, GroupsTypeOK, SetGroupID
  <2>2. CASE ~(gone[o] \/ g = group[o])
    <3>1. during' = [during EXCEPT ![o] = Others(h)] /\ j \in Others(h)
      BY <1>5, <2>2 DEF SetGroupID, Others
    <3> QED
      BY <1>4, <3>1 DEF GroupsInv, GroupsTypeOK
  <2> QED
    BY <2>1, <2>2
<1> QED
  BY <1>1, <1>2, <1>3, <1>4, <1>5

LEMMA WriteStep ==
    ASSUME GroupsInv, NEW h \in Handlers, NEW o \in Orders, NEW g \in Groups \cup {NoGroup},
           SetGroupID(h, o, g), NEW k \in Continuation, Continue(h, k),
           req[h].at \notin {"idle", "create.check"}, k.at \notin {"idle", "create.check"},
           k.group = req[h].group, HandlerOK(h)'
    PROVE  GroupsInv'
<1> USE SetGroupIDRows
<1>1. GroupsTypeOK'
  BY DEF GroupsInv, GroupsTypeOK, Continue
<1>2. ASSUME NEW j \in Handlers
      PROVE  HandlerOK(j)'
  <2>1. CASE j = h
    BY <2>1
  <2>2. CASE j # h /\ req[j] = Idle
    <3>1. req'[j] = Idle
      BY <2>2 DEF Continue, GroupsInv, GroupsTypeOK
    <3> QED
      BY <3>1, IdleHandlerOK
  <2>3. CASE j # h /\ req[j] # Idle
    <3>1. req'[j] = req[j] /\ \A p \in Orders : gone[p] => gone'[p]
      BY <2>3 DEF Continue, GroupsInv, GroupsTypeOK
    <3> QED
      BY <2>3, <3>1, Undisturbed DEF GroupsInv
  <2> QED
    BY <2>1, <2>2, <2>3
<1>3. StreamShowsGroup'
  <2>1. CASE req[h].group = Watched
    <3>1. WillTell(h)'
      BY <2>1 DEF WillTell, Continue, GroupsInv, GroupsTypeOK
    <3> QED
      BY <3>1 DEF StreamShowsGroup
  <2>2. CASE req[h].group # Watched
    <3> SUFFICES ASSUME Behind', ~missed'
                 PROVE  waiting' \/ \E j \in Handlers : WillTell(j)'
      BY DEF StreamShowsGroup
    <3>1. ~missed /\ Members(Watched)' = Members(Watched)
      BY <2>2 DEF SetGroupID, Behind
    <3>2. Behind
      BY <3>1 DEF Behind
    <3>3. waiting \/ \E j \in Handlers : WillTell(j)
      BY <3>1, <3>2 DEF GroupsInv, StreamShowsGroup
    <3>4. \A j \in Handlers : WillTell(j) => WillTell(j)'
      BY <2>2 DEF WillTell, Continue, GroupsInv, GroupsTypeOK
    <3> QED
      BY <3>3, <3>4
  <2> QED
    BY <2>1, <2>2
<1> QED
  BY <1>1, <1>2, <1>3 DEF GroupsInv

-----------------------------------------------------------------------------
(* CreateGroup and AddToGroup.                                             *)

LEMMA CreateGroupInv ==
    ASSUME GroupsInv, NEW h \in Handlers, NEW list \in OrderLists, CreateGroup(h, list)
    PROVE  GroupsInv'
<1> DEFINE k == [at |-> "create.check", list |-> list, checked |-> 1]
<1>1. list \in Lists
  BY DEF Lists
<1>2. k \in Continuation
  BY GroupsAssumption, ContinuationSteps
<1>3. /\ req[h] = Idle
      /\ req' = [req EXCEPT ![h] = k] /\ req'[h] = k
      /\ made' \in 0 .. MaxRequests
      /\ UNCHANGED <<group, gone, during, streamVars>>
      /\ Ungrouped(list[1])
  BY GroupsAssumption DEF CreateGroup, Begin, GroupsInv, GroupsTypeOK, orderVars
<1>4. HandlerOK(h)'
  <2>1. InsideList(h)'
    BY <1>1, <1>3, ListFacts DEF InsideList, At
  <2>2. ClaimsHold(h)'
    <3>1. Claims(h)' = {list[1]}
      BY <1>3 DEF Claims, At
    <3> QED
      BY <1>3, <3>1 DEF ClaimsHold, Ungrouped
  <2>3. RemovalHolds(h)' /\ DisbandingHolds(h)'
    BY <1>3 DEF RemovalHolds, DisbandingHolds, At
  <2> QED
    BY <2>1, <2>2, <2>3 DEF HandlerOK
<1>5. ~WillTell(h)
  BY <1>3 DEF WillTell, Idle
<1> QED
  BY <1>2, <1>3, <1>4, <1>5, ReadStep

\* Each order is found ungrouped, or the request ends; after the last one all are
\* claimed that were claimed before.
LEMMA CreateCheckInv ==
    ASSUME GroupsInv, NEW h \in Handlers, CreateCheck(h)
    PROVE  GroupsInv'
<1> DEFINE list == req[h].list
           n == req[h].checked + 1
<1>1. /\ list \in OrderLists /\ list \in Lists
      /\ req[h].checked \in 1 .. Len(list)
      /\ Len(list) \in Nat
      /\ HandlerOK(h)
      /\ ~WillTell(h)
  BY ContinuationFields, ListFacts
     DEF GroupsInv, GroupsTypeOK, HandlerOK, InsideList, CreateCheck, At, Lists, WillTell
<1>2. /\ UNCHANGED <<group, gone, streamVars>>
      /\ made' = made /\ made' \in 0 .. MaxRequests
  BY DEF CreateCheck, Continue, Done, GroupsInv, GroupsTypeOK
<1>3. CASE /\ n <= Len(list)
           /\ Found(list[n]) /\ Ungrouped(list[n])
           /\ Continue(h, [at |-> "create.check", list |-> list, checked |-> n])
           /\ UNCHANGED during
  <2> DEFINE k == [at |-> "create.check", list |-> list, checked |-> n]
  <2>1. k \in Continuation
    <3>1. n \in Nat
      BY <1>1
    <3> HIDE DEF n
    <3> QED
      BY <1>1, <3>1, GroupsAssumption, ContinuationSteps
  <2>2. req' = [req EXCEPT ![h] = k] /\ req'[h] = k
    BY <1>3 DEF Continue, GroupsInv, GroupsTypeOK
  <2>3. HandlerOK(h)'
    <3>1. InsideList(h)'
      BY <1>1, <1>3, <2>2 DEF InsideList, At
    <3>2. ClaimsHold(h)'
      <4>1. Claims(h)' \in SUBSET (Claims(h) \cup {list[n]})
        BY <1>1, <2>2 DEF Claims, At, CreateCheck
      <4> QED
        BY <1>1, <1>2, <1>3, <4>1 DEF HandlerOK, ClaimsHold, Ungrouped, At, CreateCheck
    <3>3. RemovalHolds(h)' /\ DisbandingHolds(h)'
      BY <2>2 DEF RemovalHolds, DisbandingHolds, At
    <3> QED
      BY <3>1, <3>2, <3>3 DEF HandlerOK
  <2> QED
    BY <1>1, <1>2, <1>3, <2>1, <2>2, <2>3, ReadStep
<1>4. CASE Done(h)
  <2>1. /\ req' = [req EXCEPT ![h] = Idle] /\ req'[h] = Idle
        /\ during' = [o \in Orders |-> during[o] \ {h}]
    BY <1>4 DEF Done, Continue, GroupsInv, GroupsTypeOK
  <2> QED
    BY <1>1, <1>2, <2>1, IdleStep, IdleHandlerOK, ReadStep
<1>5. CASE /\ n > Len(list)
           /\ \E g \in Groups :
                  /\ Fresh(g)
                  /\ Continue(h, [at |-> "set", list |-> list, written |-> 0, group |-> g])
           /\ UNCHANGED during
  <2>1. PICK g \in Groups :
                 Continue(h, [at |-> "set", list |-> list, written |-> 0, group |-> g])
    BY <1>5
  <2> DEFINE k == [at |-> "set", list |-> list, written |-> 0, group |-> g]
  <2>2. k \in Continuation
    BY <1>1, ContinuationSteps
  <2>3. req' = [req EXCEPT ![h] = k] /\ req'[h] = k
    BY <2>1 DEF Continue, GroupsInv, GroupsTypeOK
  <2>4. HandlerOK(h)'
    <3>1. InsideList(h)'
      BY <1>1, <2>3 DEF InsideList, At
    <3>2. ClaimsHold(h)'
      <4>1. Claims(h)' = {list[i] : i \in 0 + 1 .. Len(list)}
        BY <2>3 DEF Claims, At
      <4>2. Claims(h) = {list[i] : i \in 1 .. req[h].checked}
        BY DEF Claims, At, CreateCheck
      <4>3. req[h].checked = Len(list)
        BY <1>1, <1>5
      <4>4. Claims(h)' = Claims(h)
        BY <1>1, <4>1, <4>2, <4>3
      <4> QED
        BY <1>1, <1>2, <1>5, <4>4 DEF HandlerOK, ClaimsHold, Ungrouped, At, CreateCheck
    <3>3. RemovalHolds(h)' /\ DisbandingHolds(h)'
      BY <2>3 DEF RemovalHolds, DisbandingHolds, At
    <3> QED
      BY <3>1, <3>2, <3>3 DEF HandlerOK
  <2> QED
    BY <1>1, <1>2, <1>5, <2>2, <2>3, <2>4, ReadStep
<1> QED
  BY <1>3, <1>4, <1>5 DEF CreateCheck

LEMMA AddToGroupInv ==
    ASSUME GroupsInv, NEW h \in Handlers, NEW g \in Groups, NEW o \in Orders, AddToGroup(h, g, o)
    PROVE  GroupsInv'
<1> DEFINE k == [at |-> "set", list |-> <<o>>, written |-> 0, group |-> g]
<1>1. k \in Continuation
  BY SingleList, ContinuationSteps
<1>2. /\ req[h] = Idle
      /\ req' = [req EXCEPT ![h] = k] /\ req'[h] = k
      /\ made' \in 0 .. MaxRequests
      /\ UNCHANGED <<group, gone, during, streamVars>>
      /\ Ungrouped(o)
  BY GroupsAssumption DEF AddToGroup, Begin, GroupsInv, GroupsTypeOK, orderVars
<1>3. HandlerOK(h)'
  <2>1. InsideList(h)'
    <3>1. req'[h].at = "set" /\ req'[h].written = 0 /\ req'[h].list = <<o>>
      BY <1>2
    <3>2. Len(req'[h].list) = 1
      BY <3>1, SingleList
    <3> QED
      BY <3>1, <3>2 DEF InsideList, At
  <2>2. ClaimsHold(h)'
    <3>1. Claims(h)' = {<<o>>[i] : i \in 0 + 1 .. Len(<<o>>)}
      BY <1>2 DEF Claims, At
    <3>2. Claims(h)' = {o}
      BY <3>1, SingleList
    <3> QED
      BY <1>2, <3>2 DEF ClaimsHold, Ungrouped
  <2>3. RemovalHolds(h)' /\ DisbandingHolds(h)'
    BY <1>2 DEF RemovalHolds, DisbandingHolds, At
  <2> QED
    BY <2>1, <2>2, <2>3 DEF HandlerOK
<1>4. ~WillTell(h)
  BY <1>2 DEF WillTell, Idle
<1> QED
  BY <1>1, <1>2, <1>3, <1>4, ReadStep

LEMMA WrittenUpdate ==
    ASSUME NEW k \in Continuation, k.at = "set", NEW n
    PROVE  [k EXCEPT !.written = n]
             = [at |-> "set", list |-> k.list, written |-> n, group |-> k.group]
<1>1. k \in [at : {"set"}, list : Lists, written : Nat, group : Groups]
  BY DEF Continuation, Lists, Idle
<1> QED
  BY <1>1

LEMMA SetNextInv ==
    ASSUME GroupsInv, NEW h \in Handlers, SetNext(h)
    PROVE  GroupsInv'
<1> DEFINE list == req[h].list
           n == req[h].written + 1
           o == list[n]
           g == req[h].group
<1>1. /\ req[h] \in Continuation /\ req[h].at = "set"
      /\ list \in Lists /\ g \in Groups
      /\ Len(list) \in Nat
      /\ req[h].written \in 0 .. Len(list) - 1
      /\ HandlerOK(h)
  BY ContinuationFields, ListFacts
     DEF GroupsInv, GroupsTypeOK, HandlerOK, InsideList, SetNext, At
<1>2. n \in 1 .. Len(list) /\ n \in Nat
  BY <1>1
<1>3. o \in Orders
  BY <1>1, <1>2, ListFacts
<1>4. SetGroupID(h, o, g)
  BY DEF SetNext
<1>5. CASE n < Len(list)
  <2> DEFINE k == [at |-> "set", list |-> list, written |-> n, group |-> g]
  <2>1. k \in Continuation
    <3> HIDE DEF n, list, g
    <3> QED
      BY <1>1, <1>2, ContinuationSteps
  <2>2. Continue(h, k)
    <3>1. Continue(h, [req[h] EXCEPT !.written = n])
      BY <1>5 DEF SetNext
    <3> QED
      BY <1>1, <3>1, WrittenUpdate
  <2>3. req'[h] = k
    BY <2>2 DEF Continue, GroupsInv, GroupsTypeOK
  <2>4. HandlerOK(h)'
    <3>1. InsideList(h)'
      BY <1>1, <1>5, <2>3 DEF InsideList, At
    <3>2. ClaimsHold(h)'
      <4> SUFFICES ASSUME NEW p \in Claims(h)'
                   PROVE  \/ group'[p] = NoGroup
                          \/ group'[p] = g
                          \/ h \in during'[p]
        BY <2>3 DEF ClaimsHold, Ungrouped, At
      <4>1. p \in {list[i] : i \in n + 1 .. Len(list)}
        BY <2>3 DEF Claims, At
      <4>2. p \in Claims(h)
        BY <1>1, <4>1 DEF Claims, At
      <4>3. p \in Orders
        BY <1>1, <1>2, <4>1, ListFacts
      <4>4. group[p] = NoGroup \/ group[p] = g \/ h \in during[p]
        BY <1>1, <4>2 DEF HandlerOK, ClaimsHold, Ungrouped
      <4>5. CASE gone[o]
        BY <1>4, <4>4, <4>5 DEF SetGroupID
      <4>6. CASE ~gone[o] /\ p = o
        BY <1>1, <1>3, <1>4, <4>6, SetGroupIDRows
      <4>7. CASE p # o
        BY <1>1, <1>3, <1>4, <4>3, <4>4, <4>7, SetGroupIDRows
      <4> QED
        BY <4>5, <4>6, <4>7
    <3>3. RemovalHolds(h)' /\ DisbandingHolds(h)'
      BY <2>3 DEF RemovalHolds, DisbandingHolds, At
    <3> QED
      BY <3>1, <3>2, <3>3 DEF HandlerOK
  <2> QED
    BY <1>1, <1>3, <1>4, <2>1, <2>2, <2>4, WriteStep
<1>6. CASE ~(n < Len(list))
  <2> DEFINE k == [at |-> "publish", group |-> g]
  <2>1. k \in Continuation
    BY <1>1, ContinuationSteps
  <2>2. Continue(h, k)
    BY <1>6 DEF SetNext
  <2>3. req'[h] = k
    BY <2>2 DEF Continue, GroupsInv, GroupsTypeOK
  <2>4. HandlerOK(h)'
    BY <2>3 DEF HandlerOK, InsideList, ClaimsHold, Claims, RemovalHolds, DisbandingHolds, At
  <2> QED
    BY <1>1, <1>3, <1>4, <2>1, <2>2, <2>4, WriteStep
<1> QED
  BY <1>5, <1>6

-----------------------------------------------------------------------------
(* RemoveFromGroup and DisbandGroup.                                       *)

LEMMA RemoveFromGroupInv ==
    ASSUME GroupsInv, NEW h \in Handlers, NEW o \in Orders, RemoveFromGroup(h, o)
    PROVE  GroupsInv'
<1> DEFINE k == [at |-> "remove", order |-> o, group |-> group[o]]
<1>1. /\ req[h] = Idle
      /\ req' = [req EXCEPT ![h] = k] /\ req'[h] = k
      /\ made' \in 0 .. MaxRequests
      /\ UNCHANGED <<group, gone, during, streamVars>>
      /\ group[o] \in Groups
  BY GroupsAssumption DEF RemoveFromGroup, Begin, Ungrouped, GroupsInv, GroupsTypeOK, orderVars
<1>2. k \in Continuation
  BY <1>1, ContinuationSteps
<1>3. HandlerOK(h)'
  BY <1>1 DEF HandlerOK, InsideList, ClaimsHold, Claims, RemovalHolds, DisbandingHolds, At
<1>4. ~WillTell(h)
  BY <1>1 DEF WillTell, Idle
<1> QED
  BY <1>1, <1>2, <1>3, <1>4, ReadStep

LEMMA RemoveClearInv ==
    ASSUME GroupsInv, NEW h \in Handlers, RemoveClear(h)
    PROVE  GroupsInv'
<1> DEFINE k == [at |-> "publish", group |-> req[h].group]
<1>1. /\ req[h].at = "remove"
      /\ req[h].order \in Orders /\ req[h].group \in Groups
      /\ SetGroupID(h, req[h].order, NoGroup)
      /\ Continue(h, k)
  BY ContinuationFields DEF RemoveClear, ClearGroupID, At, GroupsInv, GroupsTypeOK
<1>2. k \in Continuation
  BY <1>1, ContinuationSteps
<1>3. req'[h] = k
  BY <1>1 DEF Continue, GroupsInv, GroupsTypeOK
<1>4. HandlerOK(h)'
  BY <1>3 DEF HandlerOK, InsideList, ClaimsHold, Claims, RemovalHolds, DisbandingHolds, At
<1> QED
  BY <1>1, <1>2, <1>4, WriteStep

LEMMA DisbandGroupInv ==
    ASSUME GroupsInv, NEW h \in Handlers, NEW g \in Groups, DisbandGroup(h, g)
    PROVE  GroupsInv'
<1> DEFINE k == [at |-> "disband", left |-> Members(g), kept |-> {}, group |-> g]
<1>1. /\ req[h] = Idle
      /\ req' = [req EXCEPT ![h] = k] /\ req'[h] = k
      /\ made' \in 0 .. MaxRequests
      /\ UNCHANGED <<group, gone, during, streamVars>>
  BY GroupsAssumption DEF DisbandGroup, Begin, Disbanding, GroupsInv, GroupsTypeOK, orderVars
<1>2. k \in Continuation
  <2>1. Members(g) \in SUBSET Orders /\ {} \in SUBSET Orders
    BY DEF Members
  <2> QED
    BY <2>1, ContinuationSteps
<1>3. HandlerOK(h)'
  <2>1. Members(g)' = Members(g)
    BY <1>1 DEF Members
  <2> QED
    BY <1>1, <2>1 DEF HandlerOK, InsideList, ClaimsHold, Claims, RemovalHolds, DisbandingHolds, At
<1>4. ~WillTell(h)
  BY <1>1 DEF WillTell, Idle
<1> QED
  BY <1>1, <1>2, <1>3, <1>4, ReadStep

\* A member is cleared, which makes it none, or kept.
LEMMA DisbandClearInv ==
    ASSUME GroupsInv, NEW h \in Handlers, NEW o \in Orders, DisbandClear(h, o)
    PROVE  GroupsInv'
<1> DEFINE g == req[h].group
           left == req[h].left \ {o}
<1>1. /\ req[h] \in Continuation /\ req[h].at = "disband"
      /\ g \in Groups /\ left \in SUBSET Orders
      /\ req[h].kept \in SUBSET Orders
      /\ HandlerOK(h)
  BY ContinuationFields DEF GroupsInv, GroupsTypeOK, DisbandClear, At
<1>2. CASE ClearGroupID(h, o) /\ Continue(h, Disbanding(left, req[h].kept, g))
  <2> DEFINE k == [at |-> "disband", left |-> left, kept |-> req[h].kept, group |-> g]
  <2>1. k \in Continuation
    <3> HIDE DEF left, g
    <3> QED
      BY <1>1, ContinuationSteps
  <2>2. Continue(h, k)
    BY <1>2 DEF Disbanding
  <2>3. req'[h] = k
    BY <2>2 DEF Continue, GroupsInv, GroupsTypeOK
  <2>4. SetGroupID(h, o, NoGroup)
    BY <1>2 DEF ClearGroupID
  <2>5. HandlerOK(h)'
    <3> SUFFICES ASSUME NEW p \in Members(g)'
                 PROVE  p \in left \cup req[h].kept \/ h \in during'[p]
      BY <2>3 DEF HandlerOK, InsideList, ClaimsHold, Claims, RemovalHolds, DisbandingHolds, At
    <3>1. p \in Orders /\ group'[p] = g /\ ~gone'[p]
      BY <2>3 DEF Members
    <3>2. p # o
      BY <1>1, <2>4, <3>1, SetGroupIDRows, GroupsAssumption
    <3>3. p \in Members(g) /\ during'[p] = during[p]
      BY <2>4, <3>1, <3>2, SetGroupIDRows DEF Members
    <3> QED
      BY <1>1, <3>2, <3>3 DEF HandlerOK, DisbandingHolds, At
  <2> QED
    BY <1>1, <2>1, <2>2, <2>4, <2>5, WriteStep
<1>3. CASE /\ Continue(h, Disbanding(left, req[h].kept \cup {o}, g))
           /\ UNCHANGED <<orderVars, streamVars>>
  <2> DEFINE kept == req[h].kept \cup {o}
             k == [at |-> "disband", left |-> left, kept |-> kept, group |-> g]
  <2>1. k \in Continuation
    <3>1. kept \in SUBSET Orders
      BY <1>1
    <3> HIDE DEF left, g, kept
    <3> QED
      BY <1>1, <3>1, ContinuationSteps
  <2>2. Continue(h, k)
    BY <1>3 DEF Disbanding
  <2>3. /\ req' = [req EXCEPT ![h] = k] /\ req'[h] = k
        /\ made' \in 0 .. MaxRequests
        /\ UNCHANGED <<group, gone, during, streamVars>>
    BY <1>3, <2>2 DEF Continue, GroupsInv, GroupsTypeOK, orderVars
  <2>4. HandlerOK(h)'
    <3>1. Members(g)' = Members(g)
      BY <2>3 DEF Members
    <3> QED
      BY <1>1, <2>3, <3>1 DEF HandlerOK, InsideList, ClaimsHold, Claims, RemovalHolds, DisbandingHolds, At
  <2>5. WillTell(h) => g = Watched
    BY DEF WillTell
  <2> QED
    BY <2>1, <2>3, <2>4, <2>5, ReadStep
<1> QED
  BY <1>2, <1>3 DEF DisbandClear

LEMMA DisbandDoneInv ==
    ASSUME GroupsInv, NEW h \in Handlers, DisbandDone(h)
    PROVE  GroupsInv'
<1> DEFINE g == req[h].group
           k == [at |-> "publish.disbanded", kept |-> req[h].kept, group |-> g]
<1>1. /\ req[h] \in Continuation /\ req[h].at = "disband" /\ req[h].left = {}
      /\ g \in Groups
      /\ req[h].kept \in SUBSET Orders
      /\ HandlerOK(h)
  BY ContinuationFields DEF GroupsInv, GroupsTypeOK, DisbandDone, At
<1>2. k \in Continuation
  BY <1>1, ContinuationSteps
<1>3. /\ req' = [req EXCEPT ![h] = k] /\ req'[h] = k
      /\ made' \in 0 .. MaxRequests
      /\ UNCHANGED <<group, gone, during, streamVars>>
  BY DEF DisbandDone, Continue, GroupsInv, GroupsTypeOK, orderVars
<1>4. HandlerOK(h)'
  <2>1. Members(g)' = Members(g)
    BY <1>3 DEF Members
  <2> QED
    BY <1>1, <1>3, <2>1 DEF HandlerOK, InsideList, ClaimsHold, Claims, RemovalHolds, DisbandingHolds, At
<1>5. WillTell(h) => g = Watched
  BY DEF WillTell
<1> QED
  BY <1>2, <1>3, <1>4, <1>5, ReadStep

-----------------------------------------------------------------------------
(* The end of a request.                                                   *)

\* What is left to show is that the stream does not depend on the message any more.
LEMMA EndStep ==
    ASSUME GroupsInv, NEW h \in Handlers, Done(h), UNCHANGED <<group, gone, sub, begun, shown>>,
           waiting' \in BOOLEAN, missed' \in BOOLEAN, StreamShowsGroup'
    PROVE  GroupsInv'
<1>1. /\ req' = [req EXCEPT ![h] = Idle] /\ req'[h] = Idle /\ made' = made
      /\ during' = [o \in Orders |-> during[o] \ {h}]
  BY DEF Done, Continue, GroupsInv, GroupsTypeOK
<1>2. during' \in [Orders -> SUBSET Handlers]
  BY <1>1 DEF GroupsInv, GroupsTypeOK
<1>3. GroupsTypeOK'
  BY <1>1, <1>2, IdleStep DEF GroupsInv, GroupsTypeOK
<1>4. ASSUME NEW j \in Handlers
      PROVE  HandlerOK(j)'
  <2>1. CASE j = h
    BY <1>1, <2>1, IdleHandlerOK
  <2>2. CASE j # h
    <3>1. req'[j] = req[j] /\ (\A o \in Orders : j \in during'[o] <=> j \in during[o])
      BY <1>1, <2>2 DEF GroupsInv, GroupsTypeOK
    <3> QED
      BY <3>1, Undisturbed DEF GroupsInv
  <2> QED
    BY <2>1, <2>2
<1> QED
  BY <1>3, <1>4 DEF GroupsInv

\* The stream keeps showing the group, or has missed something, when all that happens is
\* that h ends without a message for it.
LEMMA MissedInstead ==
    ASSUME GroupsInv, NEW h \in Handlers, Done(h), UNCHANGED <<group, gone, begun, shown, waiting>>,
           (~WillTell(h) /\ missed' = missed) \/ missed' = (missed \/ Behind)
    PROVE  StreamShowsGroup'
<1>1. Behind' <=> Behind
  BY DEF Behind, Members
<1>2. ASSUME ~WillTell(h), NEW j \in Handlers, WillTell(j)
      PROVE  WillTell(j)'
  BY <1>2 DEF WillTell, Done, Continue, GroupsInv, GroupsTypeOK
<1> QED
  BY <1>1, <1>2 DEF GroupsInv, StreamShowsGroup

LEMMA PublishInv ==
    ASSUME GroupsInv, NEW h \in Handlers, Publish(h)
    PROVE  GroupsInv'
<1>1. Done(h) /\ UNCHANGED <<group, gone>>
  BY DEF Publish
<1>2. CASE req[h].group # Watched /\ UNCHANGED streamVars
  <2>1. ~WillTell(h)
    BY <1>2 DEF WillTell
  <2>2. /\ UNCHANGED <<sub, begun, shown, waiting, missed>>
        /\ waiting' \in BOOLEAN /\ missed' \in BOOLEAN
    BY <1>2 DEF streamVars, GroupsInv, GroupsTypeOK
  <2> QED
    BY <1>1, <2>1, <2>2, MissedInstead, EndStep
<1>3. CASE waiting' = TRUE /\ UNCHANGED <<sub, begun, shown, missed>>
  <2>1. StreamShowsGroup' /\ waiting' \in BOOLEAN /\ missed' \in BOOLEAN
    BY <1>3 DEF StreamShowsGroup, GroupsInv, GroupsTypeOK
  <2> QED
    BY <1>1, <1>3, <2>1, EndStep
<1>4. CASE Miss
  <2>1. /\ UNCHANGED <<sub, begun, shown, waiting>>
        /\ missed' = (missed \/ Behind)
    BY <1>4 DEF Miss
  <2>2. waiting' \in BOOLEAN /\ missed' \in BOOLEAN
    BY <2>1 DEF GroupsInv, GroupsTypeOK
  <2> QED
    BY <1>1, <2>1, <2>2, MissedInstead, EndStep
<1> QED
  BY <1>2, <1>3, <1>4 DEF Publish

LEMMA FailInv ==
    ASSUME GroupsInv, NEW h \in Handlers, Fail(h)
    PROVE  GroupsInv'
<1>1. /\ Done(h) /\ UNCHANGED <<group, gone, sub, begun, shown, waiting>>
      /\ missed' = (missed \/ Behind)
  BY DEF Fail, Miss
<1>2. waiting' \in BOOLEAN /\ missed' \in BOOLEAN
  BY <1>1 DEF GroupsInv, GroupsTypeOK
<1> QED
  BY <1>1, <1>2, MissedInstead, EndStep

\* A member that is cancelled is none; the stream misses it.
LEMMA CancelOrderInv ==
    ASSUME GroupsInv, NEW o \in Orders, CancelOrder(o)
    PROVE  GroupsInv'
<1>1. /\ gone' = [gone EXCEPT ![o] = TRUE]
      /\ made' = made + 1 /\ made < MaxRequests
      /\ missed' = (missed \/ (begun /\ group[o] = Watched))
      /\ UNCHANGED <<group, during, req, sub, begun, shown, waiting>>
  BY DEF CancelOrder
<1>2. gone' \in [Orders -> BOOLEAN] /\ missed' \in BOOLEAN /\ made' \in 0 .. MaxRequests
  BY <1>1, GroupsAssumption DEF GroupsInv, GroupsTypeOK
<1>3. GroupsTypeOK'
  BY <1>1, <1>2 DEF GroupsInv, GroupsTypeOK
<1>4. ASSUME NEW h \in Handlers
      PROVE  HandlerOK(h)'
  <2>1. \A p \in Orders : gone[p] => gone'[p]
    BY <1>1 DEF GroupsInv, GroupsTypeOK
  <2> QED
    BY <1>1, <2>1, Undisturbed DEF GroupsInv
<1>5. StreamShowsGroup'
  <2>1. CASE begun /\ group[o] = Watched
    BY <1>1, <2>1 DEF StreamShowsGroup
  <2>2. CASE begun /\ group[o] # Watched
    <3>1. Members(Watched)' = Members(Watched)
      BY <1>1, <2>2 DEF Members, GroupsInv, GroupsTypeOK
    <3>2. Behind' <=> Behind
      BY <1>1, <3>1 DEF Behind
    <3> QED
      BY <1>1, <3>2 DEF GroupsInv, StreamShowsGroup, WillTell
  <2>3. CASE ~begun
    BY <1>1, <2>3 DEF StreamShowsGroup, Behind
  <2> QED
    BY <2>1, <2>2, <2>3
<1> QED
  BY <1>3, <1>4, <1>5 DEF GroupsInv

-----------------------------------------------------------------------------
(* The stream.                                                             *)

LEMMA StreamInv ==
    ASSUME GroupsInv, Stream
    PROVE  GroupsInv'
<1>1. UNCHANGED <<group, gone, during, made, req>>
  BY DEF Stream, OpenStream, SubscriptionOn, SendInit, SendUpdate, CloseStream, orderVars
<1>2. \A h \in Handlers : HandlerOK(h)'
  <2>1. \A h \in Handlers : \A o \in Orders : h \in during'[o] \/ h \notin during[o]
    BY <1>1
  <2> QED
    BY <1>1, <2>1, Undisturbed DEF GroupsInv
<1>3. Members(Watched)' = Members(Watched) /\ Members(Watched) \in SUBSET Orders
  BY <1>1 DEF Members
<1>4. CASE OpenStream \/ SubscriptionOn
  <2>1. UNCHANGED <<begun, shown, waiting, missed>> /\ sub' \in {"off", "sent", "on"}
    BY <1>4 DEF OpenStream, SubscriptionOn
  <2>2. GroupsTypeOK' /\ StreamShowsGroup'
    BY <1>1, <1>3, <2>1 DEF GroupsInv, GroupsTypeOK, StreamShowsGroup, Behind, WillTell
  <2> QED
    BY <1>2, <2>2 DEF GroupsInv
<1>5. CASE SendInit \/ SendUpdate
  <2>1. /\ begun' = TRUE /\ waiting' \in BOOLEAN /\ UNCHANGED sub
        /\ SendSnapshot
    BY <1>5 DEF SendInit, SendUpdate, GroupsInv, GroupsTypeOK
  <2>2. CASE shown' = Members(Watched) /\ missed' = FALSE
    BY <1>1, <1>2, <1>3, <2>1, <2>2 DEF GroupsInv, GroupsTypeOK, StreamShowsGroup, Behind
  <2>3. CASE shown' = shown /\ missed' = (missed \/ shown # Members(Watched))
    <3>1. missed' \in BOOLEAN
      BY <2>3
    <3>2. StreamShowsGroup'
      BY <1>3, <2>3 DEF StreamShowsGroup, Behind
    <3> QED
      BY <1>1, <1>2, <2>1, <2>3, <3>1, <3>2 DEF GroupsInv, GroupsTypeOK
  <2> QED
    BY <2>1, <2>2, <2>3 DEF SendSnapshot, GetGroupOrders
<1>6. CASE CloseStream
  <2>1. sub' = "off" /\ begun' = FALSE /\ shown' = {} /\ waiting' = FALSE /\ missed' = FALSE
    BY <1>6 DEF CloseStream
  <2>2. GroupsTypeOK' /\ StreamShowsGroup'
    BY <1>1, <2>1 DEF GroupsInv, GroupsTypeOK, StreamShowsGroup, Behind
  <2> QED
    BY <1>2, <2>2 DEF GroupsInv
<1> QED
  BY <1>4, <1>5, <1>6 DEF Stream

-----------------------------------------------------------------------------
(* The invariant.                                                          *)

LEMMA GroupsInitInv ==
    ASSUME GroupsInit
    PROVE  GroupsInv
<1>1. GroupsTypeOK
  <2>1. made \in 0 .. MaxRequests
    BY GroupsAssumption DEF GroupsInit
  <2>2. req \in [Handlers -> Continuation]
    BY IdleStep DEF GroupsInit
  <2>3. gone \in [Orders -> BOOLEAN] /\ during \in [Orders -> SUBSET Handlers]
    BY DEF GroupsInit
  <2>4. group \in [Orders -> Groups \cup {NoGroup}] /\ sub \in {"off", "sent", "on"} /\ shown \subseteq Orders
    BY DEF GroupsInit
  <2>5. begun \in BOOLEAN /\ waiting \in BOOLEAN /\ missed \in BOOLEAN
    BY DEF GroupsInit
  <2> QED
    BY <2>1, <2>2, <2>3, <2>4, <2>5 DEF GroupsTypeOK
<1>2. \A h \in Handlers : HandlerOK(h)
  BY IdleHandlerOK DEF GroupsInit
<1>3. StreamShowsGroup
  BY DEF GroupsInit, StreamShowsGroup, Behind
<1> QED
  BY <1>1, <1>2, <1>3 DEF GroupsInv

LEMMA GroupsStutter ==
    ASSUME GroupsInv, UNCHANGED groupVars
    PROVE  GroupsInv'
<1>1. GroupsTypeOK' /\ StreamShowsGroup'
  BY DEF groupVars, orderVars, streamVars, GroupsInv, GroupsTypeOK, StreamShowsGroup, Behind, Members,
         WillTell
<1>2. \A h \in Handlers : HandlerOK(h)'
  BY Undisturbed DEF groupVars, orderVars, GroupsInv
<1> QED
  BY <1>1, <1>2 DEF GroupsInv

THEOREM GroupsInvariant == GroupsSpec => []GroupsInv
<1>1. ASSUME GroupsInv, NEW h \in Handlers, Start(h)
      PROVE  GroupsInv'
  BY <1>1, CreateGroupInv, AddToGroupInv, RemoveFromGroupInv, DisbandGroupInv DEF Start
<1>2. ASSUME GroupsInv, NEW h \in Handlers, Proceed(h)
      PROVE  GroupsInv'
  BY <1>2, CreateCheckInv, SetNextInv, RemoveClearInv, DisbandClearInv, DisbandDoneInv, PublishInv
     DEF Proceed
<1>3. GroupsInv /\ [GroupsNext]_groupVars => GroupsInv'
  BY <1>1, <1>2, FailInv, CancelOrderInv, StreamInv, GroupsStutter DEF GroupsNext
<1> QED
  BY <1>3, GroupsInitInv, PTL DEF GroupsSpec

\* The rows, the handlers' memory and the stream's keep their shape, however requests
\* overlap: in particular a handler that clears a group_id knows the group it was.
THEOREM GroupsTypeCorrect == GroupsSpec => []GroupsTypeOK
<1>1. GroupsInv => GroupsTypeOK
  BY DEF GroupsInv
<1> QED
  BY <1>1, GroupsInvariant, PTL

\* CreateGroup and AddToGroup are about to move an order out of another group only when
\* it got there after they had found it ungrouped.
THEOREM MovesAreRaces == GroupsSpec => []MovedOnlyIfRaced
<1>1. GroupsInv => MovedOnlyIfRaced
  BY DEF GroupsInv, HandlerOK, ClaimsHold, MovedOnlyIfRaced
<1> QED
  BY <1>1, GroupsInvariant, PTL

\* RemoveFromGroup is about to take an order out of another group than the one it will
\* notify only when the order changed groups after it was read.
THEOREM RemovalsAreRaces == GroupsSpec => []RemovedOnlyIfRaced
<1>1. GroupsInv => RemovedOnlyIfRaced
  BY DEF GroupsInv, HandlerOK, RemovalHolds, RemovedOnlyIfRaced
<1> QED
  BY <1>1, GroupsInvariant, PTL

\* An order still in a group that DisbandGroup announces as disbanded joined meanwhile,
\* or could not be cleared.
THEOREM DisbandingIsThorough == GroupsSpec => []DisbandLeavesLateJoiners
<1>1. GroupsInv => DisbandLeavesLateJoiners
  BY DEF GroupsInv, HandlerOK, DisbandingHolds, DisbandLeavesLateJoiners
<1> QED
  BY <1>1, GroupsInvariant, PTL

\* The browser that follows a group sees it as it is, or a message is on its way, or the
\* change was one that nobody tells the group's channel.
THEOREM StreamIsTold == GroupsSpec => []StreamShowsGroup
<1>1. GroupsInv => StreamShowsGroup
  BY DEF GroupsInv
<1> QED
  BY <1>1, GroupsInvariant, PTL
=============================================================================
