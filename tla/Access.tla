------------------------------- MODULE Access -------------------------------
(***************************************************************************)
(* Who may come in: staff accounts, their refresh tokens and the is_active *)
(* check of every authenticated request (internal/service/auth_service.go, *)
(* internal/middleware/auth.go).                                           *)
(*                                                                         *)
(* MySQL holds staff.is_active and refresh_tokens, Redis caches is_active  *)
(* for five minutes and counts login attempts per address.  Each statement *)
(* and each Redis command is a step of its own; other requests run between *)
(* two steps of one request, and Redis may fail at any of them.            *)
(***************************************************************************)
EXTENDS Integers, FiniteSets

CONSTANTS
    Staff,         \* rows of staff
    Addresses,     \* client addresses that log in
    Handlers,      \* request goroutines that may run at the same time
    MaxSessions,   \* maxSessions: 5 in the code
    RateLimitMax,  \* rateLimitMax: 5 in the code
    MaxLost,       \* bound: failed evictions of an old session considered per account
    Faults         \* may Redis or a statement fail, or a request stop half-way?

ASSUME AccessAssumption ==
    /\ IsFiniteSet(Handlers)
    /\ MaxSessions \in Nat \ {0}
    /\ RateLimitMax \in Nat \ {0}
    /\ MaxLost \in Nat
    /\ Faults \in BOOLEAN

VARIABLES
    active,    \* active[s]: staff.is_active
    sessions,  \* sessions[s]: how many unexpired refresh_tokens rows s has
    cache,     \* cache[s]: Redis auth:staff:<s>, "none" when the key is absent
    attempts,  \* attempts[a]: Redis ratelimit:login:<a>, and whether it will expire
    access,    \* access[s]: somebody holds an unexpired access token of s
    req,       \* req[h]: what handler h does next and what it has read
    excused,   \* history: accounts whose cache entry was stored from an outdated read, or
               \* whose deletion from the cache failed
    stuck,     \* history: addresses whose handler stopped before it set the expiry
    lost       \* history: lost[s] evictions failed

accountVars == <<active, sessions, access, lost>>
cacheVars == <<cache, excused>>
limitVars == <<attempts, stuck>>
accessVars == <<accountVars, cacheVars, limitVars, req>>

-----------------------------------------------------------------------------
(* Handlers in flight.                                                     *)

Idle == [at |-> "idle"]

Continuation ==
    {Idle}
    \cup [at : {"login.expire"}, staff : Staff, address : Addresses]
    \cup [at : {"login.read", "login.count", "login.evict", "login.insert", "login.mark",
                "refresh.read", "refresh.touch", "check.read", "admitted",
                "logout.forget", "active.forget"}, staff : Staff]
    \cup [at : {"check.fill"}, staff : Staff, saw : BOOLEAN]

Continue(h, k) == req' = [req EXCEPT ![h] = k]
Go(h, step) == Continue(h, [at |-> step, staff |-> req[h].staff])
Done(h) == Continue(h, Idle)

At(h, step) == req[h].at = step

-----------------------------------------------------------------------------
(* Refresh tokens and access tokens.                                       *)

\* GetRefreshToken finds a row with the hash that has not expired.
HasSession(s) == sessions[s] > 0

AddSession(s) == sessions' = [sessions EXCEPT ![s] = sessions[s] + 1]

RemoveSession(s) == HasSession(s) /\ sessions' = [sessions EXCEPT ![s] = sessions[s] - 1]

\* GenerateAccessToken: for 24 hours.
GiveAccess(s) == access' = [access EXCEPT ![s] = TRUE]

-----------------------------------------------------------------------------
(* The is_active cache.                                                    *)

Cached(saw) == IF saw THEN "active" ELSE "disabled"

\* The cache says the opposite of the row.
Disagrees(s) == cache[s] = Cached(~active[s])

\* setIsActiveCache: store what was read, for five minutes; an error is only logged.
SetIsActiveCache(s, saw) ==
    \/ /\ cache' = [cache EXCEPT ![s] = Cached(saw)]
       /\ excused' = IF saw = active[s] THEN excused \ {s} ELSE excused \cup {s}
    \/ Faults /\ UNCHANGED cacheVars

\* delIsActiveCache: an error is only logged.
DelIsActiveCache(s) ==
    \/ /\ cache' = [cache EXCEPT ![s] = "none"]
       /\ excused' = excused \ {s}
    \/ /\ Faults
       /\ excused' = IF Disagrees(s) THEN excused \cup {s} ELSE excused
       /\ UNCHANGED cache

\* Redis drops the entry when its five minutes are over.
CacheExpires(s) ==
    /\ cache[s] # "none"
    /\ cache' = [cache EXCEPT ![s] = "none"]
    /\ excused' = excused \ {s}
    /\ UNCHANGED <<accountVars, limitVars, req>>

-----------------------------------------------------------------------------
(* Login.                                                                  *)

\* A bug: the expiry is set by the attempt that reaches the limit.
Bug_ExpiryAtLimit(h, s, a) ==
    LET n == attempts[a].count IN
    /\ req[h] = Idle
    /\ attempts' = [attempts EXCEPT ![a].count = IF n > RateLimitMax THEN n ELSE n + 1]
    /\ \/ n + 1 = RateLimitMax
          /\ Continue(h, [at |-> "login.expire", staff |-> s, address |-> a])
       \/ n + 1 < RateLimitMax /\ Continue(h, [at |-> "login.read", staff |-> s])
       \/ n >= RateLimitMax /\ UNCHANGED req
    /\ UNCHANGED <<accountVars, cacheVars, stuck>>

\* checkLoginRateLimit: INCR, and the decision on the number it returns.  Counts
\* above the limit are all alike, so the count stops at RateLimitMax + 1.
LoginCount(h, s, a) ==
    LET n == attempts[a].count IN
    /\ req[h] = Idle
    /\ attempts' = [attempts EXCEPT ![a].count = IF n > RateLimitMax THEN n ELSE n + 1]
    /\ \/ n = 0 /\ Continue(h, [at |-> "login.expire", staff |-> s, address |-> a])
       \/ n \in 1 .. RateLimitMax - 1 /\ Continue(h, [at |-> "login.read", staff |-> s])
       \/ n >= RateLimitMax /\ UNCHANGED req
    /\ UNCHANGED <<accountVars, cacheVars, stuck>>

\* Redis is down, or the address is unknown: the attempt is not counted.
LoginUncounted(h, s) ==
    /\ Faults
    /\ req[h] = Idle
    /\ Continue(h, [at |-> "login.read", staff |-> s])
    /\ UNCHANGED <<accountVars, cacheVars, limitVars>>

\* EXPIRE, which does nothing for a key that is gone; its error is not looked at.
LoginExpire(h) ==
    /\ At(h, "login.expire")
    /\ Go(h, "login.read")
    /\ LET a == req[h].address IN
       \/ /\ attempts' = IF attempts[a].count = 0 THEN attempts
                                                  ELSE [attempts EXCEPT ![a].expires = TRUE]
          /\ UNCHANGED stuck
       \/ Faults /\ stuck' = stuck \cup {a} /\ UNCHANGED attempts
    /\ UNCHANGED <<accountVars, cacheVars>>

\* Redis drops the counter at the end of its window.
WindowEnds(a) ==
    /\ attempts[a].expires
    /\ attempts' = [attempts EXCEPT ![a] = [count |-> 0, expires |-> FALSE]]
    /\ stuck' = stuck \ {a}
    /\ UNCHANGED <<accountVars, cacheVars, req>>

\* A bug: is_active is not looked at when somebody logs in.
Bug_LoginIgnoresActive(h) ==
    /\ At(h, "login.read")
    /\ Go(h, "login.count")
    /\ UNCHANGED <<accountVars, cacheVars, limitVars>>

\* The account is read once; an unknown name, a wrong password or a disabled
\* account ends the request.
LoginRead(h) ==
    /\ At(h, "login.read")
    /\ \/ active[req[h].staff] /\ Go(h, "login.count")
       \/ Done(h)
    /\ UNCHANGED <<accountVars, cacheVars, limitVars>>

\* A bug: the cap lets one session too many stand.
Bug_CapOffByOne(h) ==
    /\ At(h, "login.count")
    /\ Go(h, IF sessions[req[h].staff] > MaxSessions THEN "login.evict" ELSE "login.insert")
    /\ UNCHANGED <<accountVars, cacheVars, limitVars>>

CountSessions(h) ==
    /\ At(h, "login.count")
    /\ Go(h, IF sessions[req[h].staff] >= MaxSessions THEN "login.evict" ELSE "login.insert")
    /\ UNCHANGED <<accountVars, cacheVars, limitVars>>

\* DeleteOldestSessionByStaff; its error is logged and the login goes on.
EvictOldest(h) ==
    /\ At(h, "login.evict")
    /\ Go(h, "login.insert")
    /\ LET s == req[h].staff IN
       \/ RemoveSession(s) /\ UNCHANGED lost
       \/ ~HasSession(s) /\ UNCHANGED <<sessions, lost>>
       \/ /\ Faults /\ lost[s] < MaxLost
          /\ lost' = [lost EXCEPT ![s] = lost[s] + 1]
          /\ UNCHANGED sessions
    /\ UNCHANGED <<active, access, cacheVars, limitVars>>

CreateSession(h) ==
    /\ At(h, "login.insert")
    /\ AddSession(req[h].staff)
    /\ Go(h, "login.mark")
    /\ UNCHANGED <<active, access, lost, cacheVars, limitVars>>

\* The last step caches "active" and hands out the access token.
LoginMark(h) ==
    /\ At(h, "login.mark")
    /\ SetIsActiveCache(req[h].staff, TRUE)
    /\ GiveAccess(req[h].staff)
    /\ Done(h)
    /\ UNCHANGED <<active, sessions, lost, limitVars>>

-----------------------------------------------------------------------------
(* Refresh.                                                                *)

\* GetRefreshToken finds an unexpired row of s.
RefreshToken(h, s) ==
    /\ req[h] = Idle
    /\ HasSession(s)
    /\ Continue(h, [at |-> "refresh.read", staff |-> s])
    /\ UNCHANGED <<accountVars, cacheVars, limitVars>>

\* A bug: a refresh token is enough, whatever became of the account.
Bug_RefreshIgnoresActive(h) ==
    /\ At(h, "refresh.read")
    /\ Go(h, "refresh.touch")
    /\ UNCHANGED <<accountVars, cacheVars, limitVars>>

\* The row, not the cache, decides whether the account is active.
RefreshRead(h) ==
    /\ At(h, "refresh.read")
    /\ IF active[req[h].staff] THEN Go(h, "refresh.touch") ELSE Done(h)
    /\ UNCHANGED <<accountVars, cacheVars, limitVars>>

\* last_used_at is set, or not, and the access token is handed out.
RefreshTouch(h) ==
    /\ At(h, "refresh.touch")
    /\ GiveAccess(req[h].staff)
    /\ Done(h)
    /\ UNCHANGED <<active, sessions, lost, cacheVars, limitVars>>

-----------------------------------------------------------------------------
(* AuthRequired and IsStaffActive, on every request with an access token.  *)

\* GET of the cached value: a hit decides, a miss asks the database, and when Redis
\* fails everybody is let in.
CheckCache(h, s) ==
    /\ req[h] = Idle
    /\ access[s]
    /\ \/ cache[s] = "active" /\ Continue(h, [at |-> "admitted", staff |-> s])
       \/ cache[s] = "none" /\ Continue(h, [at |-> "check.read", staff |-> s])
       \/ Faults /\ Continue(h, [at |-> "admitted", staff |-> s])
    /\ UNCHANGED <<accountVars, cacheVars, limitVars>>

CheckRead(h) ==
    /\ At(h, "check.read")
    /\ Continue(h, [at |-> "check.fill", staff |-> req[h].staff, saw |-> active[req[h].staff]])
    /\ UNCHANGED <<accountVars, cacheVars, limitVars>>

CheckFill(h) ==
    /\ At(h, "check.fill")
    /\ SetIsActiveCache(req[h].staff, req[h].saw)
    /\ IF req[h].saw THEN Go(h, "admitted") ELSE Done(h)
    /\ UNCHANGED <<accountVars, limitVars>>

\* The request is served by a handler of another module.
Serve(h) ==
    /\ At(h, "admitted")
    /\ Done(h)
    /\ UNCHANGED <<accountVars, cacheVars, limitVars>>

-----------------------------------------------------------------------------
(* Logout, a request that was admitted.                                    *)

\* A bug: a session is taken off although the cookie's row was gone.
Bug_DeleteTwice(h) ==
    /\ At(h, "admitted")
    /\ \E s \in Staff : sessions' = [sessions EXCEPT ![s] = sessions[s] - 1]
    /\ Go(h, "logout.forget")
    /\ UNCHANGED <<active, access, lost, cacheVars, limitVars>>

\* DeleteRefreshToken: the cookie's session may be gone already, or be another's.
LogoutDelete(h) ==
    /\ At(h, "admitted")
    /\ (\E s \in Staff : RemoveSession(s)) \/ UNCHANGED sessions
    /\ Go(h, "logout.forget")
    /\ UNCHANGED <<active, access, lost, cacheVars, limitVars>>

LogoutForget(h) ==
    /\ At(h, "logout.forget")
    /\ DelIsActiveCache(req[h].staff)
    /\ Done(h)
    /\ UNCHANGED <<accountVars, limitVars>>

-----------------------------------------------------------------------------
(* DeactivateStaff and ReactivateStaff.                                    *)

\* A bug: the account is written and the cache left alone.
Bug_KeepCache(h, s, on) ==
    /\ req[h] = Idle
    /\ active' = [active EXCEPT ![s] = on]
    /\ UNCHANGED <<sessions, access, lost, cacheVars, limitVars, req>>

SetStaffActive(h, s, on) ==
    /\ req[h] = Idle
    /\ active' = [active EXCEPT ![s] = on]
    /\ Continue(h, [at |-> "active.forget", staff |-> s])
    /\ UNCHANGED <<sessions, access, lost, cacheVars, limitVars>>

ForgetActive(h) ==
    /\ At(h, "active.forget")
    /\ DelIsActiveCache(req[h].staff)
    /\ Done(h)
    /\ UNCHANGED <<accountVars, limitVars>>

-----------------------------------------------------------------------------
(* Tokens expire; requests stop half-way.                                  *)

\* 30 days after the login: every query filters on expires_at.
SessionExpires(s) ==
    /\ RemoveSession(s)
    /\ UNCHANGED <<active, access, lost, cacheVars, limitVars, req>>

\* The last access token of s runs out, after 24 hours.
AccessExpires(s) ==
    /\ access[s]
    /\ access' = [access EXCEPT ![s] = FALSE]
    /\ UNCHANGED <<active, sessions, lost, cacheVars, limitVars, req>>

\* A statement fails, the client hangs up or the process stops.
Fail(h) ==
    /\ Faults
    /\ req[h] # Idle
    /\ Done(h)
    /\ stuck' = IF At(h, "login.expire") THEN stuck \cup {req[h].address} ELSE stuck
    /\ excused' = IF At(h, "active.forget") /\ Disagrees(req[h].staff)
                    THEN excused \cup {req[h].staff} ELSE excused
    /\ UNCHANGED <<accountVars, cache, attempts>>

-----------------------------------------------------------------------------
AccessInit ==
    /\ active = [s \in Staff |-> TRUE]
    /\ sessions = [s \in Staff |-> 0]
    /\ cache = [s \in Staff |-> "none"]
    /\ attempts = [a \in Addresses |-> [count |-> 0, expires |-> FALSE]]
    /\ access = [s \in Staff |-> FALSE]
    /\ req = [h \in Handlers |-> Idle]
    /\ excused = {}
    /\ stuck = {}
    /\ lost = [s \in Staff |-> 0]

Start(h) ==
    \E s \in Staff :
        \/ \E a \in Addresses : LoginCount(h, s, a)
        \/ LoginUncounted(h, s)
        \/ RefreshToken(h, s)
        \/ CheckCache(h, s)
        \/ \E on \in BOOLEAN : SetStaffActive(h, s, on)

Proceed(h) ==
    \/ LoginExpire(h)
    \/ LoginRead(h)
    \/ CountSessions(h)
    \/ EvictOldest(h)
    \/ CreateSession(h)
    \/ LoginMark(h)
    \/ RefreshRead(h)
    \/ RefreshTouch(h)
    \/ CheckRead(h)
    \/ CheckFill(h)
    \/ Serve(h)
    \/ LogoutDelete(h)
    \/ LogoutForget(h)
    \/ ForgetActive(h)

Expiry ==
    \/ \E s \in Staff : CacheExpires(s) \/ SessionExpires(s) \/ AccessExpires(s)
    \/ \E a \in Addresses : WindowEnds(a)

AccessNext ==
    \/ \E h \in Handlers : Start(h) \/ Proceed(h) \/ Fail(h)
    \/ Expiry

AccessSpec == AccessInit /\ [][AccessNext]_accessVars

\* Go keeps running a request that has started; Redis drops a key and a JWT its
\* holder's rights when their time is up.  Nobody has to log in or to come back.
AccessFairness ==
    /\ \A h \in Handlers : WF_accessVars(Proceed(h))
    /\ \A s \in Staff : WF_accessVars(CacheExpires(s)) /\ WF_accessVars(AccessExpires(s))

AccessFairSpec == AccessSpec /\ AccessFairness

-----------------------------------------------------------------------------
(* Properties.                                                             *)

AccessTypeOK ==
    /\ active \in [Staff -> BOOLEAN]
    /\ sessions \in [Staff -> Nat]
    /\ cache \in [Staff -> {"none", "active", "disabled"}]
    /\ attempts \in [Addresses -> [count : 0 .. RateLimitMax + 1, expires : BOOLEAN]]
    /\ access \in [Staff -> BOOLEAN]
    /\ req \in [Handlers -> Continuation]
    /\ excused \in SUBSET Staff
    /\ stuck \in SUBSET Addresses
    /\ lost \in [Staff -> Nat]

\* "The staff is blocked within the same request cycle": the cache contradicts the
\* row only while the request that wrote the row has the deletion still before it.
\* The two ways out are the ones the code leaves open: a request that read the row
\* before the write stored its answer after the deletion, or the deletion failed.
CacheAgreesOrExcused ==
    \A s \in Staff : Disagrees(s) =>
        \/ s \in excused
        \/ \E h \in Handlers : At(h, "active.forget") /\ req[h].staff = s

\* Login counts sessions, then inserts: logins that run together all see room for
\* one more.  The cap is exceeded by at most the logins that can run together, less
\* one, and by the evictions that failed.
SessionsBounded ==
    \A s \in Staff :
        sessions[s] <= MaxSessions + Cardinality(Handlers) - 1 + lost[s]

\* A login counter without an expiry locks its address out for good.  It exists only
\* while the login that created it is about to set the expiry, or after that login
\* was stopped at just that point or Redis failed there.
CounterWillExpire ==
    \A a \in Addresses : attempts[a].count > 0 /\ ~attempts[a].expires =>
        \/ a \in stuck
        \/ \E h \in Handlers : At(h, "login.expire") /\ req[h].address = a

\* A disabled account without an access token, with no request past its check of the
\* account, stays out until it is reactivated: no login or refresh that read the account
\* late, no cached "active" and no failure of Redis brings it a token, a session or an
\* admitted request.
LettingIn(s) ==
    \E h \in Handlers :
        /\ req[h].at \in {"login.count", "login.evict", "login.insert", "login.mark",
                         "refresh.touch", "check.read", "check.fill", "admitted"}
        /\ req[h].staff = s
ShutOut(s) == ~active[s] /\ ~access[s] /\ ~LettingIn(s)
ShutOutStays ==
    [][\A s \in Staff : ShutOut(s) /\ ~active'[s] =>
          ShutOut(s)' /\ sessions'[s] <= sessions[s]]_accessVars

\* An account that stays disabled is shut out in the end, however often Redis fails
\* (which lets everybody in): its access tokens run out and the row, which Login and
\* Refresh read, gives no new one.
DisabledStaffShutOut ==
    \A s \in Staff : <>[]~active[s] =>
        <>[](\A h \in Handlers : ~(At(h, "admitted") /\ req[h].staff = s))

\* However requests raced when the account changed, its cache entry catches up.
CacheCatchesUp ==
    \A s \in Staff : /\ <>[]active[s] => <>[](cache[s] # "disabled")
                     /\ <>[]~active[s] => <>[](cache[s] # "active")
=============================================================================
