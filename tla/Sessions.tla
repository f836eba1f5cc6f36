------------------------------ MODULE Sessions ------------------------------
(***************************************************************************)
(* Who may use the console of a gateway: whoever shows the static token,   *)
(* or the token of a panel session that the control API vouches for.  Its  *)
(* word is remembered for sessionCacheTTL (gateway/internal/server,        *)
(* gateway/internal/rooms).  A request that is refused is idle again.      *)
(***************************************************************************)
EXTENDS Clock, FiniteSets

CONSTANTS
    Caller,           \* requests that may be under way at once
    Token,            \* tokens of panel sessions
    AdminToken,
    SessionCacheTTL,
    CacheLimit        \* entries that bring on a sweep: 1024

ASSUME SessionsAssumption ==
    /\ AdminToken \notin Token
    /\ SessionCacheTTL \in Nat \ {0}
    /\ CacheLimit \in Nat

Endpoint == {"command", "runs", "telemetry"}

VARIABLES
    locked,      \* an admin token is configured
    validator,   \* and the address of the control API
    ended,       \* when a session ended, 0 while it lasts
    sessCache,   \* until when a token counts as validated, 0 if it is not there
    call         \* the request each caller has made

sessionVars == <<nowMs, locked, validator, ended, sessCache, call>>

NoCall == [at |-> "idle", endpoint |-> "runs", token |-> AdminToken, since |-> 0]

SessionsTypeOK ==
    /\ nowMs \in Nat \ {0}
    /\ locked \in BOOLEAN /\ validator \in BOOLEAN
    /\ ended \in [Token -> Nat]
    /\ sessCache \in [Token -> Nat]
    /\ call \in [Caller -> [at : {"idle", "began", "asking", "vouched", "granted"},
                            endpoint : Endpoint,
                            token : Token \cup {AdminToken},
                            since : Nat]]

SessionsInit ==
    /\ ClockInit
    /\ locked \in BOOLEAN /\ validator \in BOOLEAN
    /\ ended = [t \in Token |-> 0]
    /\ sessCache = [t \in Token |-> 0]
    /\ call = [c \in Caller |-> NoCall]
-----------------------------------------------------------------------------
Goes(c, at) == call' = [call EXCEPT ![c].at = at]
Refused(c) == call' = [call EXCEPT ![c] = NoCall]

\* Whether a token needs no session: checkOperator accepts nothing else.
Passes(t) == ~locked \/ t = AdminToken

CheckOperator(c, t) ==
    /\ call[c].at = "idle" /\ Passes(t)
    /\ call' = [call EXCEPT ![c] = [at |-> "granted", endpoint |-> "telemetry",
                                    token |-> t, since |-> nowMs]]
    /\ UNCHANGED <<nowMs, locked, validator, ended, sessCache>>

\* requireAdmin for a command, handleRuns for the list of runs; validPanelSession
\* reads the clock before the cache.
CheckAdmin(c, e, t) ==
    /\ call[c].at = "idle" /\ e # "telemetry"
    /\ Passes(t) \/ validator
    /\ call' = [call EXCEPT ![c] = [at |-> IF Passes(t) THEN "granted" ELSE "began",
                                    endpoint |-> e, token |-> t, since |-> nowMs]]
    /\ UNCHANGED <<nowMs, locked, validator, ended, sessCache>>

LookUp(c) ==
    /\ call[c].at = "began"
    /\ Goes(c, IF call[c].since < sessCache[call[c].token] THEN "granted" ELSE "asking")
    /\ UNCHANGED <<nowMs, locked, validator, ended, sessCache>>

\* whoami answers from the sessions as they are then.
ValidateSession(c) ==
    /\ call[c].at = "asking"
    /\ IF ended[call[c].token] = 0 THEN Goes(c, "vouched") ELSE Refused(c)
    /\ UNCHANGED <<nowMs, locked, validator, ended, sessCache>>

\* No answer in time, an answer that is neither 200 nor 401: refused as well.
ValidationFails(c) ==
    /\ call[c].at = "asking"
    /\ Refused(c)
    /\ UNCHANGED <<nowMs, locked, validator, ended, sessCache>>

\* Mutant of Until: counted from the moment the answer is remembered.
UntilFromNow(c) == IF call[c].since = 0 THEN 0 ELSE nowMs + SessionCacheTTL

\* The entry's end is counted from the moment the request came in.
Until(c) == call[c].since + SessionCacheTTL

\* A cache that has grown is swept of what is over first.
Swept(at) ==
    IF Cardinality({t \in Token : sessCache[t] # 0}) > CacheLimit
    THEN [t \in Token |-> IF at > sessCache[t] THEN 0 ELSE sessCache[t]]
    ELSE sessCache

Remember(c) ==
    /\ call[c].at = "vouched"
    /\ sessCache' = [Swept(call[c].since) EXCEPT ![call[c].token] = Until(c)]
    /\ Goes(c, "granted")
    /\ UNCHANGED <<nowMs, locked, validator, ended>>

\* The handler behind the check has run.
Served(c) ==
    /\ call[c].at = "granted"
    /\ call' = [call EXCEPT ![c] = NoCall]
    /\ UNCHANGED <<nowMs, locked, validator, ended, sessCache>>

\* The row of the session leaves the store of the control API.
SessionEnds(t) ==
    /\ ended[t] = 0
    /\ ended' = [ended EXCEPT ![t] = nowMs]
    /\ UNCHANGED <<nowMs, locked, validator, sessCache, call>>

SessionsTick == ClockTick /\ UNCHANGED <<locked, validator, ended, sessCache, call>>

SessionsNext ==
    \/ \E c \in Caller :
        \/ \E t \in Token \cup {AdminToken} :
             CheckOperator(c, t) \/ \E e \in Endpoint : CheckAdmin(c, e, t)
        \/ LookUp(c) \/ ValidateSession(c) \/ ValidationFails(c)
        \/ Remember(c) \/ Served(c)
    \/ \E t \in Token : SessionEnds(t)
    \/ SessionsTick

SessionsSpec == SessionsInit /\ [][SessionsNext]_sessionVars
-----------------------------------------------------------------------------
\* Whoever is let in without the static token has shown the token of a session
\* that lasts, or that ended less than sessionCacheTTL before the request came;
\* and telemetry is for the static token alone, whatever the cache holds.
AdmitsOnlyCurrent ==
    \A c \in Caller :
        call[c].at = "granted" /\ ~Passes(call[c].token) =>
            /\ call[c].endpoint # "telemetry"
            /\ \/ ended[call[c].token] = 0
               \/ call[c].since < ended[call[c].token] + SessionCacheTTL
=============================================================================
