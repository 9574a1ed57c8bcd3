---------------------------- MODULE AccessProofs ----------------------------
(***************************************************************************)
(* Theorems about Access, for every set of accounts, addresses and         *)
(* handlers and every cap, whatever overlaps and whatever fails.           *)
(***************************************************************************)
EXTENDS Access, FiniteSetTheorems, TLAPS

\* The logins of s that have counted its sessions and are going to add one.
Inserting(s) == {h \in Handlers : At(h, "login.insert") /\ req[h].staff = s}

(***************************************************************************)
(* SessionsBounded speaks of the rows that are there.  What a step keeps   *)
(* is the bound on those rows together with the ones about to be inserted: *)
(* a login joins Inserting when it has seen room for its row, or after one *)
(* row was taken away or could not be.                                     *)
(***************************************************************************)
SessionsCounted ==
    \A s \in Staff :
        sessions[s] + Cardinality(Inserting(s)) <= MaxSessions + Cardinality(Handlers) - 1 + lost[s]

AccessInv ==
    /\ AccessTypeOK
    /\ CacheAgreesOrExcused
    /\ CounterWillExpire
    /\ SessionsCounted

-----------------------------------------------------------------------------
(* Continuations.                                                          *)

StaffSteps == {"login.read", "login.count", "login.evict", "login.insert", "login.mark",
               "refresh.read", "refresh.touch", "check.read", "admitted",
               "logout.forget", "active.forget"}

LEMMA ContinuationFields ==
    ASSUME NEW k \in Continuation
    PROVE  /\ k.at # "idle" => k.staff \in Staff
           /\ k.at = "login.expire" => k.address \in Addresses
           /\ k.at = "check.fill" => k.saw \in BOOLEAN
           /\ k.at = "idle" => k = Idle
BY DEF Continuation, Idle

LEMMA ContinuationSteps ==
    ASSUME NEW s \in Staff
    PROVE  /\ \A step \in StaffSteps : [at |-> step, staff |-> s] \in Continuation
           /\ \A a \in Addresses : [at |-> "login.expire", staff |-> s, address |-> a] \in Continuation
           /\ \A b \in BOOLEAN : [at |-> "check.fill", staff |-> s, saw |-> b] \in Continuation
BY DEF Continuation, StaffSteps

LEMMA IdleStep == Idle \in Continuation /\ Idle.at = "idle"
BY DEF Continuation, Idle

\* Sets of handlers are finite, and count as expected.
LEMMA HandlersCount ==
    ASSUME NEW S \in SUBSET Handlers
    PROVE  /\ IsFiniteSet(S)
           /\ Cardinality(S) \in Nat
           /\ Cardinality(S) <= Cardinality(Handlers)
           /\ Cardinality(Handlers) \in Nat
           /\ \A T \in SUBSET S : Cardinality(T) <= Cardinality(S)
           /\ \A h : Cardinality(S \cup {h}) <= Cardinality(S) + 1
           /\ \A h \in S : Cardinality(S \ {h}) = Cardinality(S) - 1
<1>1. IsFiniteSet(Handlers)
  BY AccessAssumption
<1>2. IsFiniteSet(S) /\ Cardinality(S) <= Cardinality(Handlers)
  BY <1>1, FS_Subset
<1>3. Cardinality(S) \in Nat /\ Cardinality(Handlers) \in Nat
  BY <1>1, <1>2, FS_CardinalityType
<1>4. \A T \in SUBSET S : Cardinality(T) <= Cardinality(S)
  BY <1>2, FS_Subset
<1>5. \A h : Cardinality(S \cup {h}) <= Cardinality(S) + 1
  BY <1>2, <1>3, FS_AddElement
<1>6. \A h \in S : Cardinality(S \ {h}) = Cardinality(S) - 1
  BY <1>2, FS_RemoveElement
<1> QED
  BY <1>2, <1>3, <1>4, <1>5, <1>6

\* A step of h changes Inserting by h at most.
LEMMA InsertingSteps ==
    ASSUME AccessTypeOK, NEW h \in Handlers, NEW k \in Continuation, Continue(h, k), NEW s \in Staff
    PROVE  /\ Inserting(s)' \in SUBSET Handlers
           /\ ~(k.at = "login.insert" /\ k.staff = s) => Inserting(s)' = Inserting(s) \ {h}
           /\ k.at = "login.insert" /\ k.staff = s => Inserting(s)' = Inserting(s) \cup {h}
BY DEF Inserting, At, Continue, AccessTypeOK

\* A step of h that adds no row and does not decide to add one.
LEMMA CountedLess ==
    ASSUME AccessTypeOK, SessionsCounted, NEW h \in Handlers, NEW k \in Continuation, Continue(h, k),
           k.at # "login.insert", lost' = lost,
           \A s \in Staff : sessions'[s] \in Nat /\ sessions'[s] <= sessions[s]
    PROVE  SessionsCounted'
<1> SUFFICES ASSUME NEW s \in Staff
             PROVE  sessions'[s] + Cardinality(Inserting(s)')
                      <= MaxSessions + Cardinality(Handlers) - 1 + lost[s]
  BY DEF SessionsCounted
<1>1. Inserting(s) \in SUBSET Handlers
  BY DEF Inserting
<1>2. Inserting(s)' \in SUBSET Inserting(s)
  BY InsertingSteps
<1>3. Cardinality(Inserting(s)') <= Cardinality(Inserting(s))
  BY <1>1, <1>2, HandlersCount
<1>4. /\ Cardinality(Inserting(s)) \in Nat /\ Cardinality(Inserting(s)') \in Nat
      /\ Cardinality(Handlers) \in Nat
  BY <1>1, <1>2, HandlersCount
<1>5. /\ sessions[s] \in Nat /\ lost[s] \in Nat /\ MaxSessions \in Nat
      /\ sessions'[s] \in Nat /\ sessions'[s] <= sessions[s]
  BY AccessAssumption DEF AccessTypeOK
<1>6. sessions[s] + Cardinality(Inserting(s)) <= MaxSessions + Cardinality(Handlers) - 1 + lost[s]
  BY DEF SessionsCounted
<1> QED
  BY <1>3, <1>4, <1>5, <1>6

LEMMA CountedFrame ==
    ASSUME AccessTypeOK, SessionsCounted, NEW h \in Handlers, NEW k \in Continuation, Continue(h, k),
           k.at # "login.insert", UNCHANGED <<sessions, lost>>
    PROVE  SessionsCounted'
<1>1. \A s \in Staff : sessions'[s] \in Nat /\ sessions'[s] <= sessions[s]
  BY DEF AccessTypeOK
<1> QED
  BY <1>1, CountedLess

\* A step of h that leaves the cache, the accounts and the deletion it may owe alone.
LEMMA CacheFrame ==
    ASSUME AccessTypeOK, CacheAgreesOrExcused, NEW h \in Handlers, NEW k \in Continuation,
           Continue(h, k), ~At(h, "active.forget"), UNCHANGED <<active, cache, excused>>
    PROVE  CacheAgreesOrExcused'
BY DEF AccessTypeOK, CacheAgreesOrExcused, Disagrees, Cached, Continue, At

LEMMA SetCacheStep ==
    ASSUME AccessTypeOK, CacheAgreesOrExcused, NEW h \in Handlers, NEW k \in Continuation,
           Continue(h, k), ~At(h, "active.forget"), UNCHANGED active,
           NEW s \in Staff, NEW saw \in BOOLEAN, SetIsActiveCache(s, saw)
    PROVE  /\ CacheAgreesOrExcused'
           /\ cache' \in [Staff -> {"none", "active", "disabled"}]
           /\ excused' \in SUBSET Staff
<1>1. CASE Faults /\ UNCHANGED cacheVars
  BY <1>1, CacheFrame DEF cacheVars, AccessTypeOK
<1>2. CASE /\ cache' = [cache EXCEPT ![s] = Cached(saw)]
           /\ excused' = IF saw = active[s] THEN excused \ {s} ELSE excused \cup {s}
  <2>1. cache' \in [Staff -> {"none", "active", "disabled"}] /\ excused' \in SUBSET Staff
    BY <1>2 DEF AccessTypeOK, Cached
  <2>2. ASSUME NEW t \in Staff, Disagrees(t)'
        PROVE  \/ t \in excused'
               \/ \E g \in Handlers : At(g, "active.forget")' /\ req'[g].staff = t
    <3>1. CASE t = s
      <4>1. saw # active[s]
        BY <1>2, <2>2, <3>1 DEF Disagrees, Cached, AccessTypeOK
      <4> QED
        BY <1>2, <3>1, <4>1
    <3>2. CASE t # s
      <4>1. Disagrees(t)
        BY <1>2, <2>2, <3>2 DEF Disagrees, Cached, AccessTypeOK
      <4>2. CASE t \in excused
        BY <1>2, <3>2, <4>2
      <4>3. CASE \E g \in Handlers : At(g, "active.forget") /\ req[g].staff = t
        BY <4>3 DEF Continue, At, AccessTypeOK
      <4> QED
        BY <4>1, <4>2, <4>3 DEF CacheAgreesOrExcused
    <3> QED
      BY <3>1, <3>2
  <2> QED
    BY <2>1, <2>2 DEF CacheAgreesOrExcused
<1> QED
  BY <1>1, <1>2 DEF SetIsActiveCache

\* The deletion that the account's change owes, or Logout's: it works, or it is excused.
LEMMA DelCacheStep ==
    ASSUME AccessTypeOK, CacheAgreesOrExcused, NEW h \in Handlers, NEW k \in Continuation,
           Continue(h, k), req[h].staff \in Staff, UNCHANGED active, DelIsActiveCache(req[h].staff)
    PROVE  /\ CacheAgreesOrExcused'
           /\ cache' \in [Staff -> {"none", "active", "disabled"}]
           /\ excused' \in SUBSET Staff
<1> DEFINE s == req[h].staff
<1>1. cache' \in [Staff -> {"none", "active", "disabled"}] /\ excused' \in SUBSET Staff
  BY DEF DelIsActiveCache, AccessTypeOK
<1>2. ASSUME NEW t \in Staff, Disagrees(t)'
      PROVE  \/ t \in excused'
             \/ \E g \in Handlers : At(g, "active.forget")' /\ req'[g].staff = t
  <2>1. Disagrees(t)
    BY <1>2 DEF DelIsActiveCache, Disagrees, Cached, AccessTypeOK
  <2>2. CASE t = s
    BY <1>2, <2>1, <2>2 DEF DelIsActiveCache, Disagrees, Cached, AccessTypeOK
  <2>3. CASE t # s
    <3>1. CASE t \in excused
      BY <2>3, <3>1 DEF DelIsActiveCache
    <3>2. CASE \E g \in Handlers : At(g, "active.forget") /\ req[g].staff = t
      BY <2>3, <3>2 DEF Continue, At, AccessTypeOK
    <3> QED
      BY <2>1, <3>1, <3>2 DEF CacheAgreesOrExcused
  <2> QED
    BY <2>2, <2>3
<1> QED
  BY <1>1, <1>2 DEF CacheAgreesOrExcused

\* A step of h that leaves the counters and the expiry it may owe alone.
LEMMA CounterFrame ==
    ASSUME AccessTypeOK, CounterWillExpire, NEW h \in Handlers, NEW k \in Continuation,
           Continue(h, k), ~At(h, "login.expire"), UNCHANGED <<attempts, stuck>>
    PROVE  CounterWillExpire'
BY DEF AccessTypeOK, CounterWillExpire, Continue, At

\* A statement that only reads, or that the models leave out.
LEMMA ReadStep ==
    ASSUME AccessInv, NEW h \in Handlers, NEW k \in Continuation, Continue(h, k),
           k.at # "login.insert", ~At(h, "login.expire"), ~At(h, "active.forget"),
           UNCHANGED <<accountVars, cacheVars, limitVars>>
    PROVE  AccessInv'
<1> USE DEF AccessInv, accountVars, cacheVars, limitVars
<1>1. AccessTypeOK'
  BY DEF AccessTypeOK, Continue
<1>2. CacheAgreesOrExcused'
  BY CacheFrame
<1>3. CounterWillExpire'
  BY CounterFrame
<1>4. SessionsCounted'
  BY CountedFrame
<1> QED
  BY <1>1, <1>2, <1>3, <1>4

-----------------------------------------------------------------------------
(* Login.                                                                  *)

LEMMA LoginCountInv ==
    ASSUME AccessInv, NEW h \in Handlers, NEW s \in Staff, NEW a \in Addresses, LoginCount(h, s, a)
    PROVE  AccessInv'
<1> DEFINE n == attempts[a].count
           k == IF n = 0 THEN [at |-> "login.expire", staff |-> s, address |-> a]
                ELSE IF n \in 1 .. RateLimitMax - 1 THEN [at |-> "login.read", staff |-> s]
                ELSE Idle
<1>1. /\ n \in 0 .. RateLimitMax + 1 /\ RateLimitMax \in Nat \ {0}
      /\ attempts' = [attempts EXCEPT ![a].count = IF n > RateLimitMax THEN n ELSE n + 1]
      /\ UNCHANGED <<active, sessions, access, lost, cache, excused, stuck>>
  BY AccessAssumption DEF LoginCount, AccessInv, AccessTypeOK, accountVars, cacheVars
<1>2. k \in Continuation /\ k.at # "login.insert"
  BY IdleStep, ContinuationSteps DEF StaffSteps
<1>3. Continue(h, k) /\ ~At(h, "login.expire") /\ ~At(h, "active.forget")
  <2>1. req[h] = Idle /\ DOMAIN req = Handlers
    BY DEF LoginCount, AccessInv, AccessTypeOK
  <2>2. CASE n >= RateLimitMax
    <3>1. req' = req /\ k = Idle
      BY <1>1, <2>2 DEF LoginCount, Continue
    <3>2. req' = [req EXCEPT ![h] = k]
      BY <2>1, <3>1 DEF AccessInv, AccessTypeOK
    <3> QED
      BY <2>1, <3>2 DEF Continue, At, Idle
  <2>3. CASE n < RateLimitMax
    BY <1>1, <2>1, <2>3 DEF LoginCount, Continue, At, Idle
  <2> QED
    BY <1>1, <2>2, <2>3
<1>4. AccessTypeOK'
  <2>1. attempts' \in [Addresses -> [count : 0 .. RateLimitMax + 1, expires : BOOLEAN]]
    BY <1>1 DEF AccessInv, AccessTypeOK
  <2> QED
    BY <1>1, <1>2, <1>3, <2>1 DEF AccessInv, AccessTypeOK, Continue
<1>5. CacheAgreesOrExcused'
  BY <1>1, <1>2, <1>3, CacheFrame DEF AccessInv
<1>6. CounterWillExpire'
  <2> SUFFICES ASSUME NEW b \in Addresses, attempts'[b].count > 0, ~attempts'[b].expires
               PROVE  \/ b \in stuck'
                      \/ \E g \in Handlers : At(g, "login.expire")' /\ req'[g].address = b
    BY DEF CounterWillExpire
  <2>1. CASE b = a /\ n = 0
    BY <1>3, <2>1 DEF Continue, At, AccessInv, AccessTypeOK
  <2>2. CASE b # a \/ n # 0
    <3>1. attempts[b].count > 0 /\ ~attempts[b].expires
      BY <1>1, <2>2 DEF AccessInv, AccessTypeOK
    <3>2. \/ b \in stuck
          \/ \E g \in Handlers : At(g, "login.expire") /\ req[g].address = b
      BY <3>1 DEF AccessInv, CounterWillExpire
    <3> QED
      BY <1>1, <1>3, <3>2 DEF Continue, At, AccessInv, AccessTypeOK
  <2> QED
    BY <2>1, <2>2
<1>7. SessionsCounted'
  BY <1>1, <1>2, <1>3, CountedFrame DEF AccessInv
<1> QED
  BY <1>4, <1>5, <1>6, <1>7 DEF AccessInv

LEMMA LoginExpireInv ==
    ASSUME AccessInv, NEW h \in Handlers, LoginExpire(h)
    PROVE  AccessInv'
<1> DEFINE s == req[h].staff
           a == req[h].address
           k == [at |-> "login.read", staff |-> s]
<1>1. s \in Staff /\ a \in Addresses
  BY ContinuationFields DEF AccessInv, AccessTypeOK, LoginExpire, At
<1>2. k \in Continuation /\ Continue(h, k) /\ ~At(h, "active.forget")
  BY <1>1, ContinuationSteps DEF StaffSteps, LoginExpire, Go, At
<1>3. UNCHANGED <<active, sessions, access, lost, cache, excused>>
  BY DEF LoginExpire, accountVars, cacheVars
<1>4. \/ /\ attempts' = IF attempts[a].count = 0 THEN attempts
                                               ELSE [attempts EXCEPT ![a].expires = TRUE]
         /\ UNCHANGED stuck
      \/ stuck' = stuck \cup {a} /\ UNCHANGED attempts
  BY DEF LoginExpire
<1>5. AccessTypeOK'
  <2>1. attempts' \in [Addresses -> [count : 0 .. RateLimitMax + 1, expires : BOOLEAN]]
    <3>1. ASSUME attempts' = [attempts EXCEPT ![a].expires = TRUE]
          PROVE  attempts' \in [Addresses -> [count : 0 .. RateLimitMax + 1, expires : BOOLEAN]]
      BY <1>1, <3>1 DEF AccessInv, AccessTypeOK
    <3> QED
      BY <1>4, <3>1 DEF AccessInv, AccessTypeOK
  <2> QED
    BY <1>1, <1>2, <1>3, <1>4, <2>1 DEF AccessInv, AccessTypeOK, Continue
<1>6. CacheAgreesOrExcused'
  BY <1>2, <1>3, CacheFrame DEF AccessInv
<1>7. CounterWillExpire'
  <2> SUFFICES ASSUME NEW b \in Addresses, attempts'[b].count > 0, ~attempts'[b].expires
               PROVE  \/ b \in stuck'
                      \/ \E g \in Handlers : At(g, "login.expire")' /\ req'[g].address = b
    BY DEF CounterWillExpire
  <2>1. CASE b = a
    BY <1>4, <2>1 DEF AccessInv, AccessTypeOK
  <2>2. CASE b # a
    <3>1. attempts[b].count > 0 /\ ~attempts[b].expires
      BY <1>4, <2>2 DEF AccessInv, AccessTypeOK
    <3>2. \/ b \in stuck
          \/ \E g \in Handlers : At(g, "login.expire") /\ req[g].address = b
      BY <3>1 DEF AccessInv, CounterWillExpire
    <3> QED
      BY <1>2, <1>4, <2>2, <3>2 DEF Continue, At, AccessInv, AccessTypeOK
  <2> QED
    BY <2>1, <2>2
<1>8. SessionsCounted'
  BY <1>2, <1>3, CountedFrame DEF AccessInv
<1> QED
  BY <1>5, <1>6, <1>7, <1>8 DEF AccessInv

\* The login that finds room for its row joins those that are going to insert.
LEMMA CountSessionsInv ==
    ASSUME AccessInv, NEW h \in Handlers, CountSessions(h)
    PROVE  AccessInv'
<1> DEFINE s == req[h].staff
<1>1. s \in Staff /\ ~At(h, "login.expire") /\ ~At(h, "active.forget")
  BY ContinuationFields DEF AccessInv, AccessTypeOK, CountSessions, At
<1>2. /\ [at |-> "login.evict", staff |-> s] \in Continuation
      /\ [at |-> "login.insert", staff |-> s] \in Continuation
  BY <1>1, ContinuationSteps DEF StaffSteps
<1>3. CASE sessions[s] >= MaxSessions
  <2>1. Continue(h, [at |-> "login.evict", staff |-> s])
    BY <1>3 DEF CountSessions, Go
  <2> QED
    BY <1>1, <1>2, <2>1, ReadStep DEF CountSessions
<1>4. CASE ~(sessions[s] >= MaxSessions)
  <2> DEFINE k == [at |-> "login.insert", staff |-> s]
  <2>1. Continue(h, k)
    BY <1>4 DEF CountSessions, Go
  <2>2. UNCHANGED <<active, sessions, access, lost, cache, excused, attempts, stuck>>
    BY DEF CountSessions, accountVars, cacheVars, limitVars
  <2>3. AccessTypeOK'
    BY <1>2, <2>1, <2>2 DEF AccessInv, AccessTypeOK, Continue
  <2>4. CacheAgreesOrExcused' /\ CounterWillExpire'
    BY <1>1, <1>2, <2>1, <2>2, CacheFrame, CounterFrame DEF AccessInv
  <2>5. SessionsCounted'
    <3> SUFFICES ASSUME NEW t \in Staff
                 PROVE  sessions[t] + Cardinality(Inserting(t)')
                          <= MaxSessions + Cardinality(Handlers) - 1 + lost[t]
      BY <2>2 DEF SessionsCounted
    <3>1. /\ sessions[t] \in Nat /\ lost[t] \in Nat /\ MaxSessions \in Nat
          /\ sessions[t] + Cardinality(Inserting(t)) <= MaxSessions + Cardinality(Handlers) - 1 + lost[t]
      BY AccessAssumption DEF AccessInv, AccessTypeOK, SessionsCounted
    <3>2. Inserting(t) \in SUBSET Handlers /\ Inserting(t)' \in SUBSET Handlers
      BY DEF Inserting
    <3>3. /\ Cardinality(Inserting(t)) \in Nat /\ Cardinality(Inserting(t)') \in Nat
          /\ Cardinality(Handlers) \in Nat
          /\ Cardinality(Inserting(t)') <= Cardinality(Handlers)
      BY <3>2, HandlersCount
    <3>4. CASE t = s
      BY <1>4, <3>1, <3>3, <3>4
    <3>5. CASE t # s
      <4>1. Inserting(t)' \in SUBSET Inserting(t)
        BY <1>2, <2>1, <3>5, InsertingSteps DEF AccessInv
      <4>2. Cardinality(Inserting(t)') <= Cardinality(Inserting(t))
        BY <3>2, <4>1, HandlersCount
      <4> QED
        BY <3>1, <3>3, <4>2
    <3> QED
      BY <3>4, <3>5
  <2> QED
    BY <2>3, <2>4, <2>5 DEF AccessInv
<1> QED
  BY <1>3, <1>4

\* The login at the cap joins them too: one row less, none at all, or one more lost.
LEMMA EvictOldestInv ==
    ASSUME AccessInv, NEW h \in Handlers, EvictOldest(h)
    PROVE  AccessInv'
<1> DEFINE s == req[h].staff
           k == [at |-> "login.insert", staff |-> s]
<1>1. s \in Staff /\ ~At(h, "login.expire") /\ ~At(h, "active.forget")
  BY ContinuationFields DEF AccessInv, AccessTypeOK, EvictOldest, At
<1>2. k \in Continuation /\ Continue(h, k)
  BY <1>1, ContinuationSteps DEF StaffSteps, EvictOldest, Go
<1>3. UNCHANGED <<active, access, cache, excused, attempts, stuck>>
  BY DEF EvictOldest, cacheVars, limitVars
<1>4. sessions[s] \in Nat /\ lost[s] \in Nat
  BY <1>1 DEF AccessInv, AccessTypeOK
<1>5. /\ sessions' \in [Staff -> Nat] /\ lost' \in [Staff -> Nat]
      /\ \A t \in Staff : t # s => sessions'[t] = sessions[t] /\ lost'[t] = lost[t]
      /\ \/ sessions'[s] = sessions[s] - 1 /\ lost'[s] = lost[s]
         \/ sessions'[s] = 0 /\ lost'[s] = lost[s]
         \/ sessions'[s] = sessions[s] /\ lost'[s] = lost[s] + 1
  <2>1. CASE RemoveSession(s) /\ UNCHANGED lost
    BY <1>1, <1>4, <2>1 DEF RemoveSession, HasSession, AccessInv, AccessTypeOK
  <2>2. CASE ~HasSession(s) /\ UNCHANGED <<sessions, lost>>
    BY <1>4, <2>2 DEF HasSession, AccessInv, AccessTypeOK
  <2>3. CASE lost' = [lost EXCEPT ![s] = lost[s] + 1] /\ UNCHANGED sessions
    BY <1>1, <1>4, <2>3 DEF AccessInv, AccessTypeOK
  <2> QED
    BY <2>1, <2>2, <2>3 DEF EvictOldest
<1>6. AccessTypeOK'
  BY <1>2, <1>3, <1>5 DEF AccessInv, AccessTypeOK, Continue
<1>7. CacheAgreesOrExcused' /\ CounterWillExpire'
  BY <1>1, <1>2, <1>3, CacheFrame, CounterFrame DEF AccessInv
<1>8. SessionsCounted'
  <2> SUFFICES ASSUME NEW t \in Staff
               PROVE  sessions'[t] + Cardinality(Inserting(t)')
                        <= MaxSessions + Cardinality(Handlers) - 1 + lost'[t]
    BY DEF SessionsCounted
  <2>1. /\ sessions[t] \in Nat /\ lost[t] \in Nat /\ MaxSessions \in Nat \ {0}
        /\ sessions[t] + Cardinality(Inserting(t)) <= MaxSessions + Cardinality(Handlers) - 1 + lost[t]
    BY AccessAssumption DEF AccessInv, AccessTypeOK, SessionsCounted
  <2>2. Inserting(t) \in SUBSET Handlers /\ Inserting(t)' \in SUBSET Handlers
    BY DEF Inserting
  <2>3. /\ Cardinality(Inserting(t)) \in Nat /\ Cardinality(Inserting(t)') \in Nat
        /\ Cardinality(Handlers) \in Nat
        /\ Cardinality(Inserting(t)') <= Cardinality(Handlers)
    BY <2>2, HandlersCount
  <2>4. CASE t = s
    <3>1. Inserting(t)' = Inserting(t) \cup {h}
      BY <1>2, <2>4, InsertingSteps DEF AccessInv
    <3>2. Cardinality(Inserting(t)') <= Cardinality(Inserting(t)) + 1
      BY <2>2, <3>1, HandlersCount
    <3> QED
      BY <1>5, <2>1, <2>3, <2>4, <3>2
  <2>5. CASE t # s
    <3>1. Inserting(t)' \in SUBSET Inserting(t)
      BY <1>2, <2>5, InsertingSteps DEF AccessInv
    <3>2. Cardinality(Inserting(t)') <= Cardinality(Inserting(t))
      BY <2>2, <3>1, HandlersCount
    <3> QED
      BY <1>5, <2>1, <2>3, <2>5, <3>2
  <2> QED
    BY <2>4, <2>5
<1> QED
  BY <1>6, <1>7, <1>8 DEF AccessInv

\* The row is there now, and the login no longer among those that are going to insert.
LEMMA CreateSessionInv ==
    ASSUME AccessInv, NEW h \in Handlers, CreateSession(h)
    PROVE  AccessInv'
<1> DEFINE s == req[h].staff
           k == [at |-> "login.mark", staff |-> s]
<1>1. s \in Staff /\ ~At(h, "login.expire") /\ ~At(h, "active.forget")
  BY ContinuationFields DEF AccessInv, AccessTypeOK, CreateSession, At
<1>2. k \in Continuation /\ Continue(h, k)
  BY <1>1, ContinuationSteps DEF StaffSteps, CreateSession, Go
<1>3. /\ UNCHANGED <<active, access, lost, cache, excused, attempts, stuck>>
      /\ sessions' = [sessions EXCEPT ![s] = sessions[s] + 1]
  BY DEF CreateSession, AddSession, cacheVars, limitVars
<1>4. AccessTypeOK'
  BY <1>1, <1>2, <1>3 DEF AccessInv, AccessTypeOK, Continue
<1>5. CacheAgreesOrExcused' /\ CounterWillExpire'
  BY <1>1, <1>2, <1>3, CacheFrame, CounterFrame DEF AccessInv
<1>6. SessionsCounted'
  <2> SUFFICES ASSUME NEW t \in Staff
               PROVE  sessions'[t] + Cardinality(Inserting(t)')
                        <= MaxSessions + Cardinality(Handlers) - 1 + lost[t]
    BY <1>3 DEF SessionsCounted
  <2>1. /\ sessions[t] \in Nat /\ lost[t] \in Nat /\ MaxSessions \in Nat
        /\ sessions[t] + Cardinality(Inserting(t)) <= MaxSessions + Cardinality(Handlers) - 1 + lost[t]
    BY AccessAssumption DEF AccessInv, AccessTypeOK, SessionsCounted
  <2>2. Inserting(t) \in SUBSET Handlers /\ Inserting(t)' = Inserting(t) \ {h}
    BY <1>2, InsertingSteps DEF AccessInv, Inserting
  <2>3. /\ Cardinality(Inserting(t)) \in Nat /\ Cardinality(Inserting(t)') \in Nat
        /\ Cardinality(Handlers) \in Nat
        /\ Cardinality(Inserting(t)') <= Cardinality(Inserting(t))
        /\ h \in Inserting(t) => Cardinality(Inserting(t)') = Cardinality(Inserting(t)) - 1
    BY <2>2, HandlersCount
  <2>4. CASE t = s
    <3>1. h \in Inserting(t)
      BY <2>4 DEF Inserting, CreateSession
    <3>2. sessions'[t] = sessions[t] + 1
      BY <1>3, <2>4 DEF AccessInv, AccessTypeOK
    <3> QED
      BY <2>1, <2>3, <3>1, <3>2
  <2>5. CASE t # s
    BY <1>3, <2>1, <2>3, <2>5
  <2> QED
    BY <2>4, <2>5
<1> QED
  BY <1>4, <1>5, <1>6 DEF AccessInv

LEMMA LoginMarkInv ==
    ASSUME AccessInv, NEW h \in Handlers, LoginMark(h)
    PROVE  AccessInv'
<1>1. /\ req[h].staff \in Staff
      /\ ~At(h, "login.expire") /\ ~At(h, "active.forget")
  BY ContinuationFields DEF AccessInv, AccessTypeOK, LoginMark, At
<1>2. /\ SetIsActiveCache(req[h].staff, TRUE)
      /\ access' = [access EXCEPT ![req[h].staff] = TRUE]
      /\ Continue(h, Idle)
      /\ UNCHANGED <<active, sessions, lost, attempts, stuck>>
  BY DEF LoginMark, GiveAccess, Done, limitVars
<1>3. /\ CacheAgreesOrExcused'
      /\ cache' \in [Staff -> {"none", "active", "disabled"}]
      /\ excused' \in SUBSET Staff
  BY <1>1, <1>2, IdleStep, SetCacheStep DEF AccessInv
<1>4. access' \in [Staff -> BOOLEAN]
  BY <1>2 DEF AccessInv, AccessTypeOK
<1>5. AccessTypeOK'
  BY <1>2, <1>3, <1>4, IdleStep DEF AccessInv, AccessTypeOK, Continue
<1>6. CounterWillExpire' /\ SessionsCounted'
  BY <1>1, <1>2, IdleStep, CounterFrame, CountedFrame DEF AccessInv
<1> QED
  BY <1>3, <1>5, <1>6 DEF AccessInv

-----------------------------------------------------------------------------
(* Refresh, the check of every request, logout, and the account's change.  *)

LEMMA RefreshTouchInv ==
    ASSUME AccessInv, NEW h \in Handlers, RefreshTouch(h)
    PROVE  AccessInv'
<1>1. /\ req[h].staff \in Staff
      /\ ~At(h, "login.expire") /\ ~At(h, "active.forget")
  BY ContinuationFields DEF AccessInv, AccessTypeOK, RefreshTouch, At
<1>2. /\ access' = [access EXCEPT ![req[h].staff] = TRUE]
      /\ Continue(h, Idle)
      /\ UNCHANGED <<active, sessions, lost, cache, excused, attempts, stuck>>
  BY DEF RefreshTouch, GiveAccess, Done, cacheVars, limitVars
<1>3. access' \in [Staff -> BOOLEAN]
  BY <1>2 DEF AccessInv, AccessTypeOK
<1>4. AccessTypeOK'
  BY <1>2, <1>3, IdleStep DEF AccessInv, AccessTypeOK, Continue
<1>5. CacheAgreesOrExcused' /\ CounterWillExpire' /\ SessionsCounted'
  BY <1>1, <1>2, IdleStep, CacheFrame, CounterFrame, CountedFrame DEF AccessInv
<1> QED
  BY <1>4, <1>5 DEF AccessInv

LEMMA CheckFillInv ==
    ASSUME AccessInv, NEW h \in Handlers, CheckFill(h)
    PROVE  AccessInv'
<1> DEFINE s == req[h].staff
           k == IF req[h].saw THEN [at |-> "admitted", staff |-> s] ELSE Idle
<1>1. /\ s \in Staff /\ req[h].saw \in BOOLEAN
      /\ ~At(h, "login.expire") /\ ~At(h, "active.forget")
  BY ContinuationFields DEF AccessInv, AccessTypeOK, CheckFill, At
<1>2. k \in Continuation /\ k.at # "login.insert"
  BY <1>1, IdleStep, ContinuationSteps DEF StaffSteps
<1>3. /\ SetIsActiveCache(s, req[h].saw)
      /\ Continue(h, k)
      /\ UNCHANGED <<active, sessions, access, lost, attempts, stuck>>
  BY DEF CheckFill, Go, Done, accountVars, limitVars
<1>4. /\ CacheAgreesOrExcused'
      /\ cache' \in [Staff -> {"none", "active", "disabled"}]
      /\ excused' \in SUBSET Staff
  BY <1>1, <1>2, <1>3, SetCacheStep DEF AccessInv
<1>5. AccessTypeOK'
  BY <1>2, <1>3, <1>4 DEF AccessInv, AccessTypeOK, Continue
<1>6. CounterWillExpire' /\ SessionsCounted'
  BY <1>1, <1>2, <1>3, CounterFrame, CountedFrame DEF AccessInv
<1> QED
  BY <1>4, <1>5, <1>6 DEF AccessInv

LEMMA LogoutDeleteInv ==
    ASSUME AccessInv, NEW h \in Handlers, LogoutDelete(h)
    PROVE  AccessInv'
<1> DEFINE k == [at |-> "logout.forget", staff |-> req[h].staff]
<1>1. /\ req[h].staff \in Staff
      /\ ~At(h, "login.expire") /\ ~At(h, "active.forget")
  BY ContinuationFields DEF AccessInv, AccessTypeOK, LogoutDelete, At
<1>2. k \in Continuation /\ k.at # "login.insert"
  BY <1>1, ContinuationSteps DEF StaffSteps
<1>3. Continue(h, k) /\ UNCHANGED <<active, access, lost, cache, excused, attempts, stuck>>
  BY DEF LogoutDelete, Go, cacheVars, limitVars
<1>4. sessions' \in [Staff -> Nat] /\ \A t \in Staff : sessions'[t] <= sessions[t]
  BY DEF LogoutDelete, RemoveSession, HasSession, AccessInv, AccessTypeOK
<1>5. AccessTypeOK'
  BY <1>2, <1>3, <1>4 DEF AccessInv, AccessTypeOK, Continue
<1>6. CacheAgreesOrExcused' /\ CounterWillExpire'
  BY <1>1, <1>2, <1>3, CacheFrame, CounterFrame DEF AccessInv
<1>7. SessionsCounted'
  BY <1>2, <1>3, <1>4, CountedLess DEF AccessInv
<1> QED
  BY <1>5, <1>6, <1>7 DEF AccessInv

\* LogoutForget and ForgetActive
LEMMA ForgetInv ==
    ASSUME AccessInv, NEW h \in Handlers, LogoutForget(h) \/ ForgetActive(h)
    PROVE  AccessInv'
<1>1. req[h].staff \in Staff /\ ~At(h, "login.expire")
  BY ContinuationFields DEF AccessInv, AccessTypeOK, LogoutForget, ForgetActive, At
<1>2. /\ DelIsActiveCache(req[h].staff)
      /\ Continue(h, Idle)
      /\ UNCHANGED <<active, sessions, access, lost, attempts, stuck>>
  BY DEF LogoutForget, ForgetActive, Done, accountVars, limitVars
<1>3. /\ CacheAgreesOrExcused'
      /\ cache' \in [Staff -> {"none", "active", "disabled"}]
      /\ excused' \in SUBSET Staff
  BY <1>1, <1>2, IdleStep, DelCacheStep DEF AccessInv
<1>4. AccessTypeOK'
  BY <1>2, <1>3, IdleStep DEF AccessInv, AccessTypeOK, Continue
<1>5. CounterWillExpire' /\ SessionsCounted'
  BY <1>1, <1>2, IdleStep, CounterFrame, CountedFrame DEF AccessInv
<1> QED
  BY <1>3, <1>4, <1>5 DEF AccessInv

\* From now on the request owes the deletion of the account's entry.
LEMMA SetStaffActiveInv ==
    ASSUME AccessInv, NEW h \in Handlers, NEW s \in Staff, NEW on \in BOOLEAN, SetStaffActive(h, s, on)
    PROVE  AccessInv'
<1> DEFINE k == [at |-> "active.forget", staff |-> s]
<1>1. k \in Continuation /\ k.at # "login.insert"
  BY ContinuationSteps DEF StaffSteps
<1>2. /\ Continue(h, k) /\ ~At(h, "login.expire") /\ ~At(h, "active.forget")
      /\ active' = [active EXCEPT ![s] = on]
      /\ UNCHANGED <<sessions, access, lost, cache, excused, attempts, stuck>>
  BY DEF SetStaffActive, At, Idle, cacheVars, limitVars
<1>3. active' \in [Staff -> BOOLEAN]
  BY <1>2 DEF AccessInv, AccessTypeOK
<1>4. AccessTypeOK'
  BY <1>1, <1>2, <1>3 DEF AccessInv, AccessTypeOK, Continue
<1>5. CacheAgreesOrExcused'
  <2> SUFFICES ASSUME NEW t \in Staff, Disagrees(t)'
               PROVE  \/ t \in excused
                      \/ \E g \in Handlers : At(g, "active.forget")' /\ req'[g].staff = t
    BY <1>2 DEF CacheAgreesOrExcused
  <2>1. CASE t = s
    BY <1>2, <2>1 DEF Continue, At, AccessInv, AccessTypeOK
  <2>2. CASE t # s
    <3>1. Disagrees(t)
      BY <1>2, <2>2 DEF Disagrees, AccessInv, AccessTypeOK
    <3> QED
      BY <1>2, <3>1 DEF CacheAgreesOrExcused, Continue, At, AccessInv, AccessTypeOK
  <2> QED
    BY <2>1, <2>2
<1>6. CounterWillExpire' /\ SessionsCounted'
  BY <1>1, <1>2, CounterFrame, CountedFrame DEF AccessInv
<1> QED
  BY <1>4, <1>5, <1>6 DEF AccessInv

-----------------------------------------------------------------------------
(* A request stops, and keys and tokens run out.                           *)

LEMMA FailInv ==
    ASSUME AccessInv, NEW h \in Handlers, Fail(h)
    PROVE  AccessInv'
<1> DEFINE s == req[h].staff
<1>1. /\ s \in Staff
      /\ At(h, "login.expire") => req[h].address \in Addresses
  BY ContinuationFields, IdleStep DEF AccessInv, AccessTypeOK, Fail, At
<1>2. /\ Continue(h, Idle)
      /\ UNCHANGED <<active, sessions, access, lost, cache, attempts>>
      /\ stuck' = IF At(h, "login.expire") THEN stuck \cup {req[h].address} ELSE stuck
      /\ excused' = IF At(h, "active.forget") /\ Disagrees(s) THEN excused \cup {s} ELSE excused
  BY DEF Fail, Done, accountVars
<1>3. AccessTypeOK'
  BY <1>1, <1>2, IdleStep DEF AccessInv, AccessTypeOK, Continue
<1>4. CacheAgreesOrExcused'
  <2> SUFFICES ASSUME NEW t \in Staff, Disagrees(t)'
               PROVE  \/ t \in excused'
                      \/ \E g \in Handlers : At(g, "active.forget")' /\ req'[g].staff = t
    BY DEF CacheAgreesOrExcused
  <2>1. Disagrees(t)
    BY <1>2 DEF Disagrees
  <2>2. CASE At(h, "active.forget") /\ s = t
    BY <1>2, <2>1, <2>2
  <2>3. CASE ~(At(h, "active.forget") /\ s = t)
    BY <1>2, <2>1, <2>3 DEF CacheAgreesOrExcused, Continue, At, AccessInv, AccessTypeOK
  <2> QED
    BY <2>2, <2>3
<1>5. CounterWillExpire'
  <2> SUFFICES ASSUME NEW a \in Addresses, attempts[a].count > 0, ~attempts[a].expires
               PROVE  \/ a \in stuck'
                      \/ \E g \in Handlers : At(g, "login.expire")' /\ req'[g].address = a
    BY <1>2 DEF CounterWillExpire
  <2>1. CASE At(h, "login.expire") /\ req[h].address = a
    BY <1>2, <2>1
  <2>2. CASE ~(At(h, "login.expire") /\ req[h].address = a)
    BY <1>2, <2>2 DEF CounterWillExpire, Continue, At, AccessInv, AccessTypeOK
  <2> QED
    BY <2>1, <2>2
<1>6. SessionsCounted'
  BY <1>2, IdleStep, CountedFrame DEF AccessInv
<1> QED
  BY <1>3, <1>4, <1>5, <1>6 DEF AccessInv

LEMMA ExpiryInv ==
    ASSUME AccessInv, Expiry
    PROVE  AccessInv'
<1>1. ASSUME NEW s \in Staff, CacheExpires(s)
      PROVE  AccessInv'
  <2>1. AccessTypeOK'
    BY <1>1 DEF CacheExpires, AccessInv, AccessTypeOK, accountVars, limitVars
  <2>2. CacheAgreesOrExcused'
    BY <1>1 DEF CacheExpires, AccessInv, AccessTypeOK, CacheAgreesOrExcused, Disagrees, Cached, At,
                accountVars, limitVars
  <2>3. CounterWillExpire' /\ SessionsCounted'
    BY <1>1 DEF CacheExpires, AccessInv, CounterWillExpire, SessionsCounted, Inserting, At,
                accountVars, limitVars
  <2> QED
    BY <2>1, <2>2, <2>3 DEF AccessInv
<1>2. ASSUME NEW s \in Staff, SessionExpires(s)
      PROVE  AccessInv'
  <2>1. /\ UNCHANGED <<active, access, lost, cache, excused, attempts, stuck, req>>
        /\ sessions' \in [Staff -> Nat] /\ \A t \in Staff : sessions'[t] <= sessions[t]
    BY <1>2 DEF SessionExpires, RemoveSession, HasSession, AccessInv, AccessTypeOK, cacheVars, limitVars
  <2>2. AccessTypeOK' /\ CacheAgreesOrExcused' /\ CounterWillExpire'
    BY <2>1 DEF AccessInv, AccessTypeOK, CacheAgreesOrExcused, Disagrees, CounterWillExpire, At
  <2>3. SessionsCounted'
    <3> SUFFICES ASSUME NEW t \in Staff
                 PROVE  sessions'[t] + Cardinality(Inserting(t))
                          <= MaxSessions + Cardinality(Handlers) - 1 + lost[t]
      BY <2>1 DEF SessionsCounted, Inserting, At
    <3>1. Cardinality(Inserting(t)) \in Nat /\ Cardinality(Handlers) \in Nat
      BY HandlersCount DEF Inserting
    <3>2. /\ sessions[t] \in Nat /\ sessions'[t] \in Nat /\ sessions'[t] <= sessions[t]
          /\ lost[t] \in Nat /\ MaxSessions \in Nat
          /\ sessions[t] + Cardinality(Inserting(t)) <= MaxSessions + Cardinality(Handlers) - 1 + lost[t]
      BY <2>1, AccessAssumption DEF AccessInv, AccessTypeOK, SessionsCounted
    <3> QED
      BY <3>1, <3>2
  <2> QED
    BY <2>2, <2>3 DEF AccessInv
<1>3. ASSUME NEW s \in Staff, AccessExpires(s)
      PROVE  AccessInv'
  <2>1. /\ UNCHANGED <<active, sessions, lost, cache, excused, attempts, stuck, req>>
        /\ access' \in [Staff -> BOOLEAN]
    BY <1>3 DEF AccessExpires, AccessInv, AccessTypeOK, cacheVars, limitVars
  <2> QED
    BY <2>1 DEF AccessInv, AccessTypeOK, CacheAgreesOrExcused, Disagrees, CounterWillExpire,
                SessionsCounted, Inserting, At
<1>4. ASSUME NEW a \in Addresses, WindowEnds(a)
      PROVE  AccessInv'
  <2>1. /\ UNCHANGED <<active, sessions, access, lost, cache, excused, req>>
        /\ attempts' = [attempts EXCEPT ![a] = [count |-> 0, expires |-> FALSE]]
        /\ stuck' = stuck \ {a}
    BY <1>4 DEF WindowEnds, accountVars, cacheVars
  <2>2. attempts' \in [Addresses -> [count : 0 .. RateLimitMax + 1, expires : BOOLEAN]]
    BY <2>1, AccessAssumption DEF AccessInv, AccessTypeOK
  <2>3. CounterWillExpire'
    BY <2>1 DEF AccessInv, AccessTypeOK, CounterWillExpire, At
  <2> QED
    BY <2>1, <2>2, <2>3 DEF AccessInv, AccessTypeOK, CacheAgreesOrExcused, Disagrees,
                            SessionsCounted, Inserting, At
<1> QED
  BY <1>1, <1>2, <1>3, <1>4 DEF Expiry

-----------------------------------------------------------------------------
(* The invariant.                                                          *)

\* A request that begins has nothing ahead of it.
LEMMA IdleOwesNothing ==
    ASSUME NEW h \in Handlers, req[h] = Idle
    PROVE  ~At(h, "login.expire") /\ ~At(h, "active.forget")
BY DEF At, Idle

LEMMA StartInv ==
    ASSUME AccessInv, NEW h \in Handlers, Start(h)
    PROVE  AccessInv'
<1>1. ASSUME NEW s \in Staff, LoginUncounted(h, s)
      PROVE  AccessInv'
  <2>1. [at |-> "login.read", staff |-> s] \in Continuation
    BY ContinuationSteps DEF StaffSteps
  <2> QED
    BY <1>1, <2>1, IdleOwesNothing, ReadStep DEF LoginUncounted
<1>2. ASSUME NEW s \in Staff, RefreshToken(h, s)
      PROVE  AccessInv'
  <2>1. [at |-> "refresh.read", staff |-> s] \in Continuation
    BY ContinuationSteps DEF StaffSteps
  <2> QED
    BY <1>2, <2>1, IdleOwesNothing, ReadStep DEF RefreshToken
<1>3. ASSUME NEW s \in Staff, CheckCache(h, s)
      PROVE  AccessInv'
  <2>1. /\ [at |-> "admitted", staff |-> s] \in Continuation
        /\ [at |-> "check.read", staff |-> s] \in Continuation
    BY ContinuationSteps DEF StaffSteps
  <2> QED
    BY <1>3, <2>1, IdleOwesNothing, ReadStep DEF CheckCache
<1> QED
  BY <1>1, <1>2, <1>3, LoginCountInv, SetStaffActiveInv DEF Start

LEMMA ProceedInv ==
    ASSUME AccessInv, NEW h \in Handlers, Proceed(h)
    PROVE  AccessInv'
<1>1. req[h] \in Continuation
  BY DEF AccessInv, AccessTypeOK
<1>2. ASSUME LoginRead(h)
      PROVE  AccessInv'
  <2>1. req[h].staff \in Staff
    BY <1>1, <1>2, ContinuationFields DEF LoginRead, At
  <2>2. [at |-> "login.count", staff |-> req[h].staff] \in Continuation
    BY <2>1, ContinuationSteps DEF StaffSteps
  <2> QED
    BY <1>2, <2>2, IdleStep, ReadStep DEF LoginRead, Go, Done, At
<1>3. ASSUME RefreshRead(h)
      PROVE  AccessInv'
  <2>1. req[h].staff \in Staff
    BY <1>1, <1>3, ContinuationFields DEF RefreshRead, At
  <2>2. [at |-> "refresh.touch", staff |-> req[h].staff] \in Continuation
    BY <2>1, ContinuationSteps DEF StaffSteps
  <2> QED
    BY <1>3, <2>2, IdleStep, ReadStep DEF RefreshRead, Go, Done, At
<1>4. ASSUME CheckRead(h)
      PROVE  AccessInv'
  <2>1. req[h].staff \in Staff
    BY <1>1, <1>4, ContinuationFields DEF CheckRead, At
  <2>2. active[req[h].staff] \in BOOLEAN
    BY <2>1 DEF AccessInv, AccessTypeOK
  <2> DEFINE k == [at |-> "check.fill", staff |-> req[h].staff, saw |-> active[req[h].staff]]
  <2>3. k \in Continuation
    BY <2>1, <2>2, ContinuationSteps
  <2> QED
    BY <1>4, <2>3, ReadStep DEF CheckRead, At
<1>5. ASSUME Serve(h)
      PROVE  AccessInv'
  BY <1>5, IdleStep, ReadStep DEF Serve, Done, At
<1> QED
  BY <1>2, <1>3, <1>4, <1>5, LoginExpireInv, CountSessionsInv, EvictOldestInv, CreateSessionInv,
     LoginMarkInv, RefreshTouchInv, CheckFillInv, LogoutDeleteInv, ForgetInv DEF Proceed

LEMMA AccessInitInv ==
    ASSUME AccessInit
    PROVE  AccessInv
<1>1. AccessTypeOK
  BY AccessAssumption, IdleStep DEF AccessInit, AccessTypeOK
<1>2. CacheAgreesOrExcused /\ CounterWillExpire
  BY DEF AccessInit, CacheAgreesOrExcused, Disagrees, Cached, CounterWillExpire
<1>3. ASSUME NEW s \in Staff
      PROVE  sessions[s] + Cardinality(Inserting(s)) <= MaxSessions + Cardinality(Handlers) - 1 + lost[s]
  <2>1. sessions[s] = 0 /\ lost[s] = 0
    BY DEF AccessInit
  <2>2. /\ Cardinality(Inserting(s)) \in Nat /\ Cardinality(Handlers) \in Nat
        /\ Cardinality(Inserting(s)) <= Cardinality(Handlers)
    BY HandlersCount DEF Inserting
  <2>3. MaxSessions \in Nat \ {0}
    BY AccessAssumption
  <2> QED
    BY <2>1, <2>2, <2>3
<1> QED
  BY <1>1, <1>2, <1>3 DEF AccessInv, SessionsCounted

LEMMA AccessStutter ==
    ASSUME AccessInv, UNCHANGED accessVars
    PROVE  AccessInv'
BY DEF AccessInv, AccessTypeOK, CacheAgreesOrExcused, Disagrees, CounterWillExpire, SessionsCounted,
       Inserting, At, accessVars, accountVars, cacheVars, limitVars

THEOREM AccessInvariant == AccessSpec => []AccessInv
<1>1. AccessInv /\ [AccessNext]_accessVars => AccessInv'
  BY StartInv, ProceedInv, FailInv, ExpiryInv, AccessStutter DEF AccessNext
<1> QED
  BY <1>1, AccessInitInv, PTL DEF AccessSpec

\* The rows, the keys and the handlers' memory keep their shape, however requests
\* overlap and whatever fails; no session is taken off that is not there.
THEOREM AccessTypeCorrect == AccessSpec => []AccessTypeOK
<1>1. AccessInv => AccessTypeOK
  BY DEF AccessInv
<1> QED
  BY <1>1, AccessInvariant, PTL

\* A cached is_active contradicts the account only with its deletion ahead, or after a
\* stale fill or a failed deletion (DeactivateStaff, IsStaffActive).
THEOREM CacheExplained == AccessSpec => []CacheAgreesOrExcused
<1>1. AccessInv => CacheAgreesOrExcused
  BY DEF AccessInv
<1> QED
  BY <1>1, AccessInvariant, PTL

\* A login counter without an expiry is about to get one, or its login was cut off.
THEOREM CountersExpire == AccessSpec => []CounterWillExpire
<1>1. AccessInv => CounterWillExpire
  BY DEF AccessInv
<1> QED
  BY <1>1, AccessInvariant, PTL

\* The cap of Login is passed by at most the other logins that can run at the same
\* time and the evictions that failed.
THEOREM SessionCapKept == AccessSpec => []SessionsBounded
<1>1. AccessInv => SessionsBounded
  <2> SUFFICES ASSUME AccessInv, NEW s \in Staff
               PROVE  sessions[s] <= MaxSessions + Cardinality(Handlers) - 1 + lost[s]
    BY DEF SessionsBounded
  <2>1. Cardinality(Inserting(s)) \in Nat /\ Cardinality(Handlers) \in Nat
    BY HandlersCount DEF Inserting
  <2>2. /\ sessions[s] \in Nat /\ lost[s] \in Nat /\ MaxSessions \in Nat
        /\ sessions[s] + Cardinality(Inserting(s)) <= MaxSessions + Cardinality(Handlers) - 1 + lost[s]
    BY AccessAssumption DEF AccessInv, AccessTypeOK, SessionsCounted
  <2> QED
    BY <2>1, <2>2
<1> QED
  BY <1>1, AccessInvariant, PTL

-----------------------------------------------------------------------------
(* The door of a disabled account stays shut.                              *)

\* The statements behind the check of the account (LettingIn).
Inside == {"login.count", "login.evict", "login.insert", "login.mark",
           "refresh.touch", "check.read", "check.fill", "admitted"}

\* An account that is shut out stays so when its handler goes on to k outside, or for
\* another account.
LEMMA ShutOutFrame ==
    ASSUME AccessTypeOK, NEW h \in Handlers, NEW k, NEW s \in Staff, ShutOut(s), ~active'[s],
           Continue(h, k), k.at \in Inside => k.staff # s, ~access'[s], sessions'[s] <= sessions[s]
    PROVE  ShutOut(s)' /\ sessions'[s] <= sessions[s]
<1>1. \A g \in Handlers : req'[g] = IF g = h THEN k ELSE req[g]
  BY DEF Continue, AccessTypeOK
<1>2. ~LettingIn(s)'
  BY <1>1 DEF ShutOut, LettingIn, Inside
<1> QED
  BY <1>2 DEF ShutOut

LEMMA ShutOutFromStart ==
    ASSUME AccessTypeOK, NEW h \in Handlers, Start(h), NEW s \in Staff, ShutOut(s), ~active'[s]
    PROVE  ShutOut(s)' /\ sessions'[s] <= sessions[s]
<1> USE DEF accountVars
<1>1. sessions[s] \in Nat /\ ~access[s]
  BY DEF AccessTypeOK, ShutOut
<1>2. PICK r \in Staff :
          \/ \E a \in Addresses : LoginCount(h, r, a)
          \/ LoginUncounted(h, r)
          \/ RefreshToken(h, r)
          \/ CheckCache(h, r)
          \/ \E on \in BOOLEAN : SetStaffActive(h, r, on)
  BY DEF Start
<1>3. CASE \E a \in Addresses : LoginCount(h, r, a)
  <2>1. CASE UNCHANGED req
    BY <1>1, <1>3, <2>1 DEF LoginCount, ShutOut, LettingIn
  <2>2. PICK a \in Addresses : LoginCount(h, r, a)
    BY <1>3
  <2>3. CASE Continue(h, [at |-> "login.expire", staff |-> r, address |-> a])
    BY <1>1, <2>2, <2>3, ShutOutFrame DEF LoginCount, Inside
  <2>4. CASE Continue(h, [at |-> "login.read", staff |-> r])
    BY <1>1, <2>2, <2>4, ShutOutFrame DEF LoginCount, Inside
  <2> QED
    BY <2>1, <2>2, <2>3, <2>4 DEF LoginCount
<1>4. CASE LoginUncounted(h, r)
  BY <1>1, <1>4, ShutOutFrame DEF LoginUncounted, Inside
<1>5. CASE RefreshToken(h, r)
  BY <1>1, <1>5, ShutOutFrame DEF RefreshToken, Inside
<1>6. CASE CheckCache(h, r)
  <2>1. r # s
    BY <1>1, <1>6 DEF CheckCache
  <2> QED
    BY <1>1, <1>6, <2>1, ShutOutFrame DEF CheckCache
<1>7. CASE \E on \in BOOLEAN : SetStaffActive(h, r, on)
  BY <1>1, <1>7, ShutOutFrame DEF SetStaffActive, Inside
<1> QED
  BY <1>2, <1>3, <1>4, <1>5, <1>6, <1>7

LEMMA ShutOutFromProceed ==
    ASSUME AccessTypeOK, NEW h \in Handlers, Proceed(h) \/ Fail(h), NEW s \in Staff, ShutOut(s),
           ~active'[s]
    PROVE  ShutOut(s)' /\ sessions'[s] <= sessions[s]
<1> USE DEF accountVars
<1>1. sessions[s] \in Nat /\ ~access[s] /\ ~active[s]
  BY DEF AccessTypeOK, ShutOut
<1>2. req[h].at \in Inside => req[h].staff # s
  BY DEF ShutOut, LettingIn, Inside
<1>3. CASE LoginExpire(h)
  BY <1>1, <1>3, ShutOutFrame DEF LoginExpire, Go, Inside
<1>4. CASE LoginRead(h) \/ RefreshRead(h)
  <2>1. CASE Done(h)
    BY <1>1, <1>4, <2>1, IdleStep, ShutOutFrame DEF LoginRead, RefreshRead, Done, Inside
  <2>2. CASE active[req[h].staff]
    BY <1>1, <1>4, <2>2, ShutOutFrame DEF LoginRead, RefreshRead, Go, Done, Idle, Inside
  <2> QED
    BY <1>4, <2>1, <2>2 DEF LoginRead, RefreshRead
<1>5. CASE CountSessions(h)
  BY <1>1, <1>2, <1>5, ShutOutFrame DEF CountSessions, Go, At, Inside
<1>6. CASE EvictOldest(h)
  <2>1. req[h].staff # s
    BY <1>2, <1>6 DEF EvictOldest, At, Inside
  <2>2. sessions'[s] <= sessions[s]
    BY <1>1, <1>6, <2>1 DEF EvictOldest, RemoveSession, AccessTypeOK
  <2> QED
    BY <1>1, <1>6, <2>1, <2>2, ShutOutFrame DEF EvictOldest, Go
<1>7. CASE CreateSession(h)
  <2>1. req[h].staff # s
    BY <1>2, <1>7 DEF CreateSession, At, Inside
  <2>2. sessions'[s] <= sessions[s]
    BY <1>1, <1>7, <2>1 DEF CreateSession, AddSession, AccessTypeOK
  <2> QED
    BY <1>1, <1>7, <2>1, <2>2, ShutOutFrame DEF CreateSession, Go
<1>8. CASE LoginMark(h) \/ RefreshTouch(h)
  <2>1. req[h].staff # s
    BY <1>2, <1>8 DEF LoginMark, RefreshTouch, At, Inside
  <2>2. ~access'[s]
    BY <1>1, <1>8, <2>1 DEF LoginMark, RefreshTouch, GiveAccess, AccessTypeOK
  <2>3. Continue(h, Idle) /\ sessions' = sessions
    BY <1>8 DEF LoginMark, RefreshTouch, Done
  <2>4. sessions'[s] <= sessions[s]
    BY <1>1, <2>3
  <2>5. Idle.at \notin Inside
    BY IdleStep DEF Inside
  <2> QED
    BY <2>2, <2>3, <2>4, <2>5, ShutOutFrame
<1>9. CASE CheckRead(h)
  BY <1>1, <1>2, <1>9, ShutOutFrame DEF CheckRead, At, Inside
<1>10. CASE CheckFill(h)
  <2>1. req[h].staff # s
    BY <1>2, <1>10 DEF CheckFill, At, Inside
  <2>2. PICK k \in {Idle, [at |-> "admitted", staff |-> req[h].staff]} : Continue(h, k)
    BY <1>10 DEF CheckFill, Go, Done
  <2>3. k.at \in Inside => k.staff # s
    BY <2>1, <2>2, IdleStep DEF Inside
  <2> QED
    BY <1>1, <1>10, <2>2, <2>3, ShutOutFrame DEF CheckFill
<1>11. CASE Serve(h)
  BY <1>1, <1>11, IdleStep, ShutOutFrame DEF Serve, Done, Inside
<1>12. CASE LogoutDelete(h)
  <2>1. sessions'[s] <= sessions[s]
    BY <1>1, <1>12 DEF LogoutDelete, RemoveSession, AccessTypeOK
  <2> QED
    BY <1>1, <1>12, <2>1, ShutOutFrame DEF LogoutDelete, Go, Inside
<1>13. CASE LogoutForget(h) \/ ForgetActive(h) \/ Fail(h)
  BY <1>1, <1>13, IdleStep, ShutOutFrame DEF LogoutForget, ForgetActive, Fail, Done, Inside
<1> QED
  BY <1>3, <1>4, <1>5, <1>6, <1>7, <1>8, <1>9, <1>10, <1>11, <1>12, <1>13 DEF Proceed

\* A disabled account that is out stays out until it is reactivated: late logins, caches
\* and failures of Redis give it no token, no session and no admitted request.
THEOREM DoorStaysShut == AccessSpec => ShutOutStays
<1>1. AccessInv /\ [AccessNext]_accessVars =>
          [\A s \in Staff : ShutOut(s) /\ ~active'[s] =>
              ShutOut(s)' /\ sessions'[s] <= sessions[s]]_accessVars
  <2> SUFFICES ASSUME AccessInv, AccessNext, NEW s \in Staff, ShutOut(s), ~active'[s]
               PROVE  ShutOut(s)' /\ sessions'[s] <= sessions[s]
    OBVIOUS
  <2> USE DEF AccessInv
  <2>1. CASE \E h \in Handlers : Start(h) \/ Proceed(h) \/ Fail(h)
    BY <2>1, ShutOutFromStart, ShutOutFromProceed
  <2>2. CASE Expiry
    BY <2>2 DEF Expiry, CacheExpires, SessionExpires, AccessExpires, WindowEnds, RemoveSession,
                accountVars, AccessTypeOK, ShutOut, LettingIn
  <2> QED
    BY <2>1, <2>2 DEF AccessNext
<1> QED
  BY <1>1, AccessInvariant, PTL DEF AccessSpec, ShutOutStays
=============================================================================
