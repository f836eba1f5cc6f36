-------------------------- MODULE Services_proofs --------------------------
(***************************************************************************)
(* Proofs about the small parts of the services: the sessions a gateway    *)
(* honours, the migrations of the control API and its transcription jobs,  *)
(* the presence that gateways tell each other and the statistics of a      *)
(* room's round trips, for any number of callers, processes, jobs,         *)
(* gateways and clients.                                                   *)
(***************************************************************************)
EXTENDS Sessions, Migrations, Transcription, Presence, ClockStats, FiniteSetTheorems,
        WellFoundedInduction, TLAPS

-----------------------------------------------------------------------------
(* Sessions.                                                                *)

\* What holds of a request between its steps: it has come in before now, and one
\* that depends on a session carries a token of a session and is none for
\* telemetry.
RequestOK(c) ==
    /\ call[c].since <= nowMs
    /\ call[c].at \in {"began", "asking", "vouched"} =>
         call[c].token \in Token /\ call[c].endpoint # "telemetry"
    /\ call[c].at = "vouched" =>
         \/ ended[call[c].token] = 0
         \/ call[c].since <= ended[call[c].token]

\* What is remembered of a token ends soon after now, and soon after its session.
EntryOK(t) ==
    /\ sessCache[t] <= nowMs + SessionCacheTTL
    /\ ended[t] # 0 => sessCache[t] <= ended[t] + SessionCacheTTL

SessionsInv ==
    /\ SessionsTypeOK
    /\ \A c \in Caller : RequestOK(c)
    /\ \A t \in Token : EntryOK(t)
    /\ AdmitsOnlyCurrent

\* What of the invariant speaks about one request.
Admitted(c) ==
    call[c].at = "granted" /\ ~Passes(call[c].token) =>
        /\ call[c].endpoint # "telemetry"
        /\ \/ ended[call[c].token] = 0
           \/ call[c].since < ended[call[c].token] + SessionCacheTTL

CallSet == [at : {"idle", "began", "asking", "vouched", "granted"},
            endpoint : Endpoint, token : Token \cup {AdminToken}, since : Nat]

LEMMA NoCallOK == NoCall \in CallSet /\ NoCall.at = "idle" /\ NoCall.since = 0
  BY DEF NoCall, CallSet, Endpoint

\* A step that touches one request only: it is enough to look at that one.
LEMMA OneCall ==
  ASSUME SessionsInv, NEW c \in Caller, NEW r \in CallSet,
         call' = [call EXCEPT ![c] = r],
         UNCHANGED <<nowMs, locked, validator, ended, sessCache>>,
         RequestOK(c)', Admitted(c)'
  PROVE  SessionsInv'
  <1>1. SessionsTypeOK'
    BY DEF SessionsInv, SessionsTypeOK, CallSet
  <1>2. \A d \in Caller : d # c => call'[d] = call[d]
    BY DEF SessionsInv, SessionsTypeOK
  <1>3. \A d \in Caller : RequestOK(d)'
    <2> TAKE d \in Caller
    <2>1. CASE d = c
      BY <2>1
    <2>2. CASE d # c
      BY <2>2, <1>2 DEF SessionsInv, RequestOK
    <2> QED
      BY <2>1, <2>2
  <1>4. \A t \in Token : EntryOK(t)'
    BY DEF SessionsInv, EntryOK
  <1>5. \A d \in Caller : Admitted(d)'
    <2> TAKE d \in Caller
    <2>1. CASE d = c
      BY <2>1
    <2>2. CASE d # c
      BY <2>2, <1>2 DEF SessionsInv, AdmitsOnlyCurrent, Admitted, Passes
    <2> QED
      BY <2>1, <2>2
  <1> QED
    BY <1>1, <1>3, <1>4, <1>5 DEF SessionsInv, AdmitsOnlyCurrent, Admitted

LEMMA GoesCall ==
  ASSUME SessionsTypeOK, NEW c \in Caller, NEW a \in {"began", "asking", "vouched", "granted"}
  PROVE  /\ [call[c] EXCEPT !.at = a] \in CallSet
         /\ Goes(c, a) => /\ call' = [call EXCEPT ![c] = [call[c] EXCEPT !.at = a]]
                          /\ call'[c] = [call[c] EXCEPT !.at = a]
  BY DEF SessionsTypeOK, CallSet, Goes

LEMMA CheckOperatorOK ==
  ASSUME SessionsInv, NEW c \in Caller, NEW t \in Token \cup {AdminToken},
         CheckOperator(c, t)
  PROVE  SessionsInv'
  <1> DEFINE r == [at |-> "granted", endpoint |-> "telemetry", token |-> t, since |-> nowMs]
  <1>1. r \in CallSet
    BY DEF CallSet, Endpoint, SessionsInv, SessionsTypeOK
  <1>2. call' = [call EXCEPT ![c] = r] /\ call'[c] = r
    BY DEF CheckOperator, SessionsInv, SessionsTypeOK
  <1>3. RequestOK(c)' /\ Admitted(c)'
    BY <1>2 DEF RequestOK, Admitted, CheckOperator, Passes, SessionsInv, SessionsTypeOK
  <1> QED
    BY <1>1, <1>2, <1>3, OneCall DEF CheckOperator

LEMMA CheckAdminOK ==
  ASSUME SessionsInv, NEW c \in Caller, NEW e \in Endpoint,
         NEW t \in Token \cup {AdminToken}, CheckAdmin(c, e, t)
  PROVE  SessionsInv'
  <1> DEFINE a == IF Passes(t) THEN "granted" ELSE "began"
             r == [at |-> a, endpoint |-> e, token |-> t, since |-> nowMs]
  <1>1. r \in CallSet
    BY DEF CallSet, SessionsInv, SessionsTypeOK
  <1>2. call' = [call EXCEPT ![c] = r] /\ call'[c] = r
    BY DEF CheckAdmin, SessionsInv, SessionsTypeOK
  <1>3. RequestOK(c)' /\ Admitted(c)'
    BY <1>2 DEF RequestOK, Admitted, CheckAdmin, Passes, SessionsInv, SessionsTypeOK
  <1> QED
    BY <1>1, <1>2, <1>3, OneCall DEF CheckAdmin

LEMMA RefusedOK ==
  ASSUME SessionsInv, NEW c \in Caller, Refused(c),
         UNCHANGED <<nowMs, locked, validator, ended, sessCache>>
  PROVE  SessionsInv'
  <1>1. call'[c] = NoCall
    BY DEF Refused, SessionsInv, SessionsTypeOK
  <1>2. RequestOK(c)' /\ Admitted(c)'
    BY <1>1, NoCallOK DEF RequestOK, Admitted, SessionsInv, SessionsTypeOK
  <1> QED
    BY <1>2, NoCallOK, OneCall DEF Refused

LEMMA LookUpOK ==
  ASSUME SessionsInv, NEW c \in Caller, LookUp(c)
  PROVE  SessionsInv'
  <1> DEFINE a == IF call[c].since < sessCache[call[c].token] THEN "granted" ELSE "asking"
  <1>1. call[c].token \in Token /\ call[c].endpoint # "telemetry"
    BY DEF LookUp, SessionsInv, RequestOK
  <1>2. EntryOK(call[c].token)
    BY <1>1 DEF SessionsInv
  <1>3. call' = [call EXCEPT ![c] = [call[c] EXCEPT !.at = a]]
        /\ call'[c] = [call[c] EXCEPT !.at = a] /\ [call[c] EXCEPT !.at = a] \in CallSet
    BY GoesCall DEF LookUp, SessionsInv
  <1>4. RequestOK(c)'
    BY <1>1, <1>3 DEF LookUp, RequestOK, SessionsInv, SessionsTypeOK
  <1>5. Admitted(c)'
    BY <1>1, <1>2, <1>3, SessionsAssumption
    DEF LookUp, Admitted, EntryOK, SessionsInv, SessionsTypeOK
  <1> QED
    BY <1>3, <1>4, <1>5, OneCall DEF LookUp

LEMMA ValidateSessionOK ==
  ASSUME SessionsInv, NEW c \in Caller, ValidateSession(c)
  PROVE  SessionsInv'
  <1>1. CASE ended[call[c].token] = 0
    <2>1. call' = [call EXCEPT ![c] = [call[c] EXCEPT !.at = "vouched"]]
          /\ call'[c] = [call[c] EXCEPT !.at = "vouched"]
          /\ [call[c] EXCEPT !.at = "vouched"] \in CallSet
      BY <1>1, GoesCall DEF ValidateSession, SessionsInv
    <2>2. RequestOK(c)' /\ Admitted(c)'
      BY <1>1, <2>1 DEF ValidateSession, RequestOK, Admitted, SessionsInv, SessionsTypeOK
    <2> QED
      BY <2>1, <2>2, OneCall DEF ValidateSession
  <1>2. CASE ended[call[c].token] # 0
    BY <1>2, RefusedOK DEF ValidateSession
  <1> QED
    BY <1>1, <1>2

LEMMA RememberOK ==
  ASSUME SessionsInv, NEW c \in Caller, Remember(c)
  PROVE  SessionsInv'
  <1> DEFINE tok == call[c].token
             k == [call[c] EXCEPT !.at = "granted"]
  <1>1. /\ tok \in Token /\ call[c].endpoint # "telemetry"
        /\ ended[tok] = 0 \/ call[c].since <= ended[tok]
        /\ call[c].since \in Nat /\ call[c].since <= nowMs
    BY DEF Remember, SessionsInv, RequestOK, SessionsTypeOK
  <1>2. call' = [call EXCEPT ![c] = k] /\ call'[c] = k /\ k \in CallSet
    BY GoesCall DEF Remember, SessionsInv
  <1>3. Swept(call[c].since) \in [Token -> Nat]
        /\ \A t \in Token : Swept(call[c].since)[t] \in {0, sessCache[t]}
    BY DEF Swept, SessionsInv, SessionsTypeOK
  <1>4. /\ sessCache' \in [Token -> Nat]
        /\ sessCache'[tok] = call[c].since + SessionCacheTTL
        /\ \A t \in Token : t # tok => sessCache'[t] \in {0, sessCache[t]}
    BY <1>1, <1>3, SessionsAssumption DEF Remember, Until
  <1>5. SessionsTypeOK'
    BY <1>2, <1>4 DEF Remember, SessionsInv, SessionsTypeOK, CallSet
  <1>6. \A t \in Token : EntryOK(t)'
    <2> TAKE t \in Token
    <2>1. CASE t = tok
      BY <2>1, <1>1, <1>4, SessionsAssumption
      DEF Remember, EntryOK, SessionsInv, SessionsTypeOK
    <2>2. CASE t # tok
      BY <2>2, <1>4, SessionsAssumption
      DEF Remember, EntryOK, SessionsInv, SessionsTypeOK
    <2> QED
      BY <2>1, <2>2
  <1>7. \A d \in Caller : d # c => call'[d] = call[d]
    BY <1>2 DEF SessionsInv, SessionsTypeOK
  <1>8. \A d \in Caller : RequestOK(d)' /\ Admitted(d)'
    <2> TAKE d \in Caller
    <2>1. CASE d = c
      <3>1. call'[d].at = "granted" /\ call'[d].since = call[c].since
            /\ call'[d].token = tok /\ call'[d].endpoint = call[c].endpoint
        BY <2>1, <1>2 DEF SessionsInv, SessionsTypeOK
      <3>2. UNCHANGED <<nowMs, ended>> /\ ended[tok] \in Nat
        BY <1>1 DEF Remember, SessionsInv, SessionsTypeOK
      <3>3. ended[tok] = 0 \/ call[c].since < ended[tok] + SessionCacheTTL
        BY <3>2, <1>1, SessionsAssumption
      <3> HIDE DEF tok, k
      <3> QED
        BY <3>1, <3>2, <3>3, <1>1 DEF RequestOK, Admitted
    <2>2. CASE d # c
      <3>1. call'[d] = call[d] /\ UNCHANGED <<nowMs, locked, ended>>
        BY <2>2, <1>7 DEF Remember
      <3>2. RequestOK(d) /\ Admitted(d)
        BY DEF SessionsInv, AdmitsOnlyCurrent, Admitted
      <3> QED
        BY <3>1, <3>2 DEF RequestOK, Admitted, Passes
    <2> QED
      BY <2>1, <2>2
  <1> QED
    BY <1>5, <1>6, <1>8 DEF SessionsInv, AdmitsOnlyCurrent, Admitted

LEMMA SessionEndsOK ==
  ASSUME SessionsInv, NEW t \in Token, SessionEnds(t)
  PROVE  SessionsInv'
  <1>1. /\ ended' \in [Token -> Nat] /\ ended'[t] = nowMs /\ ended[t] = 0
        /\ \A u \in Token : u # t => ended'[u] = ended[u]
        /\ nowMs \in Nat
    BY DEF SessionEnds, SessionsInv, SessionsTypeOK
  <1>2. SessionsTypeOK'
    BY <1>1 DEF SessionEnds, SessionsInv, SessionsTypeOK
  <1>3. \A u \in Token : EntryOK(u)'
    BY <1>1 DEF SessionEnds, EntryOK, SessionsInv
  <1>4. \A c \in Caller : RequestOK(c)'
    BY <1>1 DEF SessionEnds, RequestOK, SessionsInv
  <1>5. \A c \in Caller : Admitted(c)'
    <2> SUFFICES ASSUME NEW c \in Caller, call[c].at = "granted",
                        ~Passes(call[c].token)
                 PROVE  /\ call[c].endpoint # "telemetry"
                        /\ \/ ended'[call[c].token] = 0
                           \/ call[c].since < ended'[call[c].token] + SessionCacheTTL
      BY DEF Admitted, SessionEnds, Passes
    <2>1. call[c].token \in Token /\ call[c].since \in Nat
      BY DEF SessionsInv, SessionsTypeOK, Passes
    <2>2. /\ call[c].endpoint # "telemetry" /\ call[c].since <= nowMs
          /\ \/ ended[call[c].token] = 0
             \/ call[c].since < ended[call[c].token] + SessionCacheTTL
      BY DEF SessionsInv, AdmitsOnlyCurrent, RequestOK
    <2>3. CASE call[c].token = t
      BY <2>1, <2>2, <2>3, <1>1, SessionsAssumption
    <2>4. CASE call[c].token # t
      BY <2>1, <2>2, <2>4, <1>1
    <2> QED
      BY <2>3, <2>4
  <1> QED
    BY <1>2, <1>3, <1>4, <1>5 DEF SessionsInv, AdmitsOnlyCurrent, Admitted

LEMMA SessionsTickOK ==
  ASSUME SessionsInv, SessionsTick
  PROVE  SessionsInv'
  <1>1. nowMs \in Nat /\ nowMs' = nowMs + 1 /\ nowMs' \in Nat \ {0}
        /\ UNCHANGED <<locked, validator, ended, sessCache, call>>
    BY DEF SessionsTick, ClockTick, SessionsInv, SessionsTypeOK
  <1>2. SessionsTypeOK'
    BY <1>1 DEF SessionsInv, SessionsTypeOK
  <1>3. \A u \in Token : EntryOK(u)'
    BY <1>1, SessionsAssumption DEF EntryOK, SessionsInv, SessionsTypeOK
  <1>4. \A c \in Caller : RequestOK(c)'
    BY <1>1 DEF RequestOK, SessionsInv, SessionsTypeOK
  <1>5. AdmitsOnlyCurrent'
    BY <1>1 DEF SessionsInv, AdmitsOnlyCurrent, Passes
  <1> QED
    BY <1>2, <1>3, <1>4, <1>5 DEF SessionsInv

LEMMA SessionsInductive == SessionsInv /\ [SessionsNext]_sessionVars => SessionsInv'
  <1> SUFFICES ASSUME SessionsInv, [SessionsNext]_sessionVars PROVE SessionsInv'
    OBVIOUS
  <1>1. ASSUME NEW c \in Caller, NEW t \in Token \cup {AdminToken}, CheckOperator(c, t)
        PROVE  SessionsInv'
    BY <1>1, CheckOperatorOK
  <1>2. ASSUME NEW c \in Caller, NEW t \in Token \cup {AdminToken},
               NEW e \in Endpoint, CheckAdmin(c, e, t)
        PROVE  SessionsInv'
    BY <1>2, CheckAdminOK
  <1>3. ASSUME NEW c \in Caller, LookUp(c) PROVE SessionsInv'
    BY <1>3, LookUpOK
  <1>4. ASSUME NEW c \in Caller, ValidateSession(c) PROVE SessionsInv'
    BY <1>4, ValidateSessionOK
  <1>5. ASSUME NEW c \in Caller, ValidationFails(c) PROVE SessionsInv'
    BY <1>5, RefusedOK DEF ValidationFails
  <1>6. ASSUME NEW c \in Caller, Remember(c) PROVE SessionsInv'
    BY <1>6, RememberOK
  <1>7. ASSUME NEW c \in Caller, Served(c) PROVE SessionsInv'
    BY <1>7, RefusedOK DEF Served, Refused
  <1>8. ASSUME NEW t \in Token, SessionEnds(t) PROVE SessionsInv'
    BY <1>8, SessionEndsOK
  <1>9. CASE UNCHANGED sessionVars
    BY <1>9 DEF sessionVars, SessionsInv, SessionsTypeOK, RequestOK, EntryOK,
                AdmitsOnlyCurrent, Passes
  <1> QED
    BY <1>1, <1>2, <1>3, <1>4, <1>5, <1>6, <1>7, <1>8, <1>9, SessionsTickOK
    DEF SessionsNext

\* However lookups, validations and ends of sessions interleave, nobody is let in
\* for a session that ended sessionCacheTTL or longer before the request came in,
\* and none but the static token opens the telemetry.
THEOREM SessionsHonoured == SessionsSpec => []AdmitsOnlyCurrent
  <1>1. SessionsInit => SessionsInv
    <2> SUFFICES ASSUME SessionsInit PROVE SessionsInv
      OBVIOUS
    <2>1. nowMs = 1 /\ \A c \in Caller : call[c] = NoCall
      BY DEF SessionsInit, ClockInit
    <2>2. SessionsTypeOK
      BY <2>1, NoCallOK DEF SessionsInit, ClockInit, SessionsTypeOK, CallSet
    <2>3. \A c \in Caller : RequestOK(c) /\ Admitted(c)
      BY <2>1, NoCallOK DEF RequestOK, Admitted
    <2>4. \A t \in Token : EntryOK(t)
      BY <2>1, SessionsAssumption DEF SessionsInit, EntryOK
    <2> QED
      BY <2>2, <2>3, <2>4 DEF SessionsInv, AdmitsOnlyCurrent, Admitted
  <1>2. SessionsInv => AdmitsOnlyCurrent
    BY DEF SessionsInv
  <1> QED
    BY <1>1, <1>2, SessionsInductive, PTL DEF SessionsSpec

-----------------------------------------------------------------------------
(* Migrations.                                                              *)

\* A process has come no further than to the file after those that are applied;
\* at most one is about to commit a file, and it has not been committed before.
ProcessOK(i) ==
    /\ starting[i].at # "down" => starting[i].file <= Len(applied) + 1
    /\ starting[i].at \in {"change", "record", "commit"} => starting[i].file <= Files
    /\ starting[i].at = "up" => starting[i].file > Files
    /\ starting[i].at = "commit" =>
         /\ starting[i].file \notin recorded
         /\ \A j \in Instance : starting[j].at = "commit"
                                /\ starting[j].file = starting[i].file => j = i

Sequential ==
    /\ applied = [n \in 1..Len(applied) |-> n]
    /\ recorded = 1..Len(applied)

MigrationsInv ==
    /\ MigrationsTypeOK
    /\ Sequential
    /\ \A i \in Instance : ProcessOK(i)

LEMMA NoMoreThanFiles == MigrationsInv => Len(applied) \in 0..Files
  <1> SUFFICES ASSUME MigrationsInv PROVE Len(applied) \in 0..Files
    OBVIOUS
  <1>1. Len(applied) \in Nat /\ Files \in Nat
    BY MigrationsAssumption DEF MigrationsInv, MigrationsTypeOK
  <1>2. 1..Len(applied) \subseteq 1..Files
    BY DEF MigrationsInv, MigrationsTypeOK, Sequential
  <1>3. Len(applied) > 0 => Len(applied) \in 1..Files
    BY <1>1, <1>2
  <1> QED
    BY <1>1, <1>3

\* Every process that serves has all migrations behind it.
LEMMA MigrationsSafe == MigrationsInv => AppliedOnceInOrder
  <1> SUFFICES ASSUME MigrationsInv, NEW i \in Instance, starting[i].at = "up"
               PROVE  Len(applied) = Files
    BY DEF AppliedOnceInOrder, MigrationsInv, Sequential
  <1>1. starting[i].file <= Len(applied) + 1 /\ starting[i].file > Files
        /\ starting[i].file \in Nat
    BY MigrationsAssumption DEF MigrationsInv, ProcessOK, MigrationsTypeOK
  <1> QED
    BY <1>1, NoMoreThanFiles, MigrationsAssumption

StartingSet == [at : {"down", "check", "change", "record", "commit", "up"},
                file : 1..(Files + 1)]

\* A step of one process that commits nothing.
LEMMA OneProcess ==
  ASSUME MigrationsInv, NEW i \in Instance, NEW r \in StartingSet,
         starting' = [starting EXCEPT ![i] = r],
         UNCHANGED <<applied, recorded>>,
         ProcessOK(i)',
         r.at = "commit" => \A j \in Instance :
             j # i => ~(starting[j].at = "commit" /\ starting[j].file = r.file)
  PROVE  MigrationsInv'
  <1>1. MigrationsTypeOK' /\ Sequential'
    BY DEF MigrationsInv, MigrationsTypeOK, StartingSet, Sequential
  <1>2. starting'[i] = r /\ \A j \in Instance : j # i => starting'[j] = starting[j]
    BY DEF MigrationsInv, MigrationsTypeOK
  <1>3. \A j \in Instance : ProcessOK(j)'
    <2> TAKE j \in Instance
    <2>1. CASE j = i
      BY <2>1
    <2>2. CASE j # i
      <3>1. ProcessOK(j) /\ starting'[j] = starting[j]
        BY <2>2, <1>2 DEF MigrationsInv
      <3>2. starting[j].at = "commit" => \A k \in Instance :
              starting'[k].at = "commit" /\ starting'[k].file = starting[j].file => k = j
        BY <2>2, <3>1, <1>2 DEF ProcessOK
      <3> QED
        BY <3>1, <3>2 DEF ProcessOK
    <2> QED
      BY <2>1, <2>2
  <1> QED
    BY <1>1, <1>3 DEF MigrationsInv

LEMMA GoesOnSet ==
  ASSUME MigrationsTypeOK, NEW i \in Instance, NEW f \in 1..(Files + 1),
         NEW a \in {"down", "check", "change", "record", "commit", "up"}
  PROVE  /\ [at |-> a, file |-> f] \in StartingSet
         /\ GoesOn(i, a) =>
              starting' = [starting EXCEPT ![i] = [at |-> a, file |-> starting[i].file]]
  BY DEF MigrationsTypeOK, StartingSet, GoesOn

LEMMA FileType ==
  ASSUME MigrationsInv, NEW i \in Instance
  PROVE  /\ starting[i].file \in 1..(Files + 1) /\ starting[i].file \in Nat
         /\ Files \in Nat /\ Len(applied) \in Nat /\ Files + 1 \in Nat
  BY MigrationsAssumption DEF MigrationsInv, MigrationsTypeOK

LEMMA MigrateOK ==
  ASSUME MigrationsInv, NEW i \in Instance, Migrate(i)
  PROVE  MigrationsInv'
  <1> DEFINE r == [at |-> "check", file |-> 1]
  <1>1. r \in StartingSet
    <2>1. 1 \in 1..(Files + 1)
      BY MigrationsAssumption
    <2> QED
      BY <2>1 DEF StartingSet
  <1>2. starting' = [starting EXCEPT ![i] = r] /\ starting'[i] = r
    BY DEF Migrate, MigrationsInv, MigrationsTypeOK
  <1>3. ProcessOK(i)'
    BY <1>2, FileType DEF ProcessOK, Migrate
  <1> QED
    BY <1>1, <1>2, <1>3, OneProcess DEF Migrate

\* A process goes on with the file it has come to, and does not commit it yet.
LEMMA GoesOnOK ==
  ASSUME MigrationsInv, NEW i \in Instance,
         NEW a \in {"down", "change", "record", "up"}, GoesOn(i, a),
         UNCHANGED <<applied, recorded>>,
         a # "down" => starting[i].file <= Len(applied) + 1,
         a \in {"change", "record"} => starting[i].file <= Files,
         a = "up" => starting[i].file > Files
  PROVE  MigrationsInv'
  <1> DEFINE r == [at |-> a, file |-> starting[i].file]
  <1>1. r \in StartingSet /\ starting' = [starting EXCEPT ![i] = r]
    BY FileType, GoesOnSet DEF MigrationsInv
  <1>2. starting'[i] = r
    BY <1>1 DEF MigrationsInv, MigrationsTypeOK
  <1>3. ProcessOK(i)'
    BY <1>2 DEF ProcessOK
  <1> QED
    BY <1>1, <1>3, OneProcess

LEMMA CheckFileOK ==
  ASSUME MigrationsInv, NEW i \in Instance, CheckFile(i)
  PROVE  MigrationsInv'
  <1> DEFINE f == starting[i].file
  <1>1. /\ f \in Nat /\ f \in 1..(Files + 1) /\ f <= Len(applied) + 1
        /\ UNCHANGED <<applied, recorded>>
    BY FileType DEF MigrationsInv, ProcessOK, CheckFile
  <1>2. CASE f > Files
    BY <1>1, <1>2, GoesOnOK DEF CheckFile
  <1>3. CASE f <= Files /\ f \in recorded
    <2> DEFINE r == [at |-> "check", file |-> f + 1]
    <2>1. r \in StartingSet
      BY <1>1, <1>3, FileType DEF StartingSet
    <2>2. starting' = [starting EXCEPT ![i] = r]
      <3>1. starting' = [starting EXCEPT ![i].file = @ + 1] /\ starting[i].at = "check"
        BY <1>1, <1>3, FileType DEF CheckFile
      <3>2. starting' = [starting EXCEPT ![i] = [starting[i] EXCEPT !.file = f + 1]]
        BY <3>1
      <3>3. starting[i] \in [at : {"check"}, file : 1..(Files + 1)]
        BY <3>1 DEF MigrationsInv, MigrationsTypeOK
      <3>4. [starting[i] EXCEPT !.file = f + 1] = r
        BY <3>3
      <3> QED
        BY <3>2, <3>4
    <2>3. starting'[i] = r
      BY <2>2 DEF MigrationsInv, MigrationsTypeOK
    <2>4. f <= Len(applied)
      BY <1>1, <1>3, FileType DEF MigrationsInv, Sequential
    <2>5. f + 1 <= Len(applied)' + 1
      BY <1>1, <2>4, FileType
    <2>6. ProcessOK(i)'
      BY <2>3, <2>5 DEF ProcessOK
    <2> QED
      BY <1>1, <2>1, <2>2, <2>6, OneProcess
  <1>4. CASE f <= Files /\ f \notin recorded
    BY <1>1, <1>4, FileType, GoesOnOK DEF CheckFile
  <1> QED
    BY <1>1, <1>2, <1>3, <1>4, FileType

LEMMA InsertRecordOK ==
  ASSUME MigrationsInv, NEW i \in Instance, InsertRecord(i)
  PROVE  MigrationsInv'
  <1> DEFINE r == [at |-> "commit", file |-> starting[i].file]
  <1>1. r \in StartingSet /\ starting' = [starting EXCEPT ![i] = r]
    BY FileType, GoesOnSet DEF MigrationsInv, InsertRecord
  <1>2. starting'[i] = r /\ \A j \in Instance : j # i => starting'[j] = starting[j]
    BY <1>1 DEF MigrationsInv, MigrationsTypeOK
  <1>3. /\ starting[i].file \notin recorded
        /\ \A j \in Instance : ~(starting[j].at = "commit"
                                 /\ starting[j].file = starting[i].file)
        /\ starting[i].file <= Len(applied) + 1 /\ starting[i].file <= Files
    BY DEF InsertRecord, Unrecorded, MigrationsInv, ProcessOK
  <1>4. ProcessOK(i)'
    BY <1>2, <1>3 DEF ProcessOK, InsertRecord
  <1> QED
    BY <1>1, <1>3, <1>4, OneProcess DEF InsertRecord

LEMMA CommitFileOK ==
  ASSUME MigrationsInv, NEW i \in Instance, CommitFile(i)
  PROVE  MigrationsInv'
  <1> DEFINE f == starting[i].file
             n == Len(applied)
  <1>1. f \in Nat /\ n \in Nat /\ f >= 1 /\ f <= Files
    BY FileType DEF MigrationsInv, ProcessOK, CommitFile
  <1>2. f = n + 1
    <2>1. f <= n + 1 /\ f \notin 1..n
      BY DEF MigrationsInv, ProcessOK, CommitFile, Sequential
    <2> QED
      BY <2>1, <1>1
  <1>3. /\ applied' = Append(applied, f) /\ applied \in Seq(1..Files) /\ f \in 1..Files
        /\ Len(applied') = n + 1
    BY <1>1, FileType DEF CommitFile, MigrationsInv, MigrationsTypeOK
  <1>4. /\ starting' = [starting EXCEPT ![i] = [at |-> "check", file |-> f + 1]]
        /\ starting'[i] = [at |-> "check", file |-> f + 1]
        /\ \A j \in Instance : j # i => starting'[j] = starting[j]
    BY DEF CommitFile, MigrationsInv, MigrationsTypeOK
  <1>5. MigrationsTypeOK'
    <2>1. applied' \in Seq(1..Files)
      BY <1>3
    <2>2. [at |-> "check", file |-> f + 1] \in StartingSet
      BY <1>1, FileType DEF StartingSet
    <2>3. recorded' \subseteq 1..Files
      BY <1>3 DEF CommitFile, MigrationsInv, MigrationsTypeOK
    <2> QED
      BY <1>4, <2>1, <2>2, <2>3 DEF MigrationsInv, MigrationsTypeOK, StartingSet
  <1>6. Sequential'
    <2>1. applied' = [m \in 1..(n + 1) |-> IF m = n + 1 THEN f ELSE applied[m]]
      BY <1>3
    <2>2. \A m \in 1..n : applied[m] = m
      BY DEF MigrationsInv, Sequential
    <2>3. applied' = [m \in 1..(n + 1) |-> m]
      BY <1>1, <1>2, <2>1, <2>2
    <2>4. recorded' = 1..(n + 1)
      BY <1>1, <1>2 DEF CommitFile, MigrationsInv, Sequential
    <2> QED
      BY <1>3, <2>3, <2>4 DEF Sequential
  <1>7. \A j \in Instance : ProcessOK(j)'
    <2> TAKE j \in Instance
    <2>1. CASE j = i
      <3>1. starting'[j].at = "check" /\ starting'[j].file <= Len(applied') + 1
        BY <2>1, <1>1, <1>2, <1>3, <1>4
      <3> QED
        BY <3>1 DEF ProcessOK
    <2>2. CASE j # i
      <3>1. ProcessOK(j) /\ starting'[j] = starting[j] /\ starting[j].file \in Nat
        BY <2>2, <1>4, FileType DEF MigrationsInv
      <3>2. starting[j].at # "commit"
        <4> SUFFICES ASSUME starting[j].at = "commit" PROVE FALSE
          OBVIOUS
        <4>1. starting[j].file <= n + 1 /\ starting[j].file \notin 1..n
              /\ starting[j].file >= 1
          BY <3>1, FileType DEF ProcessOK, MigrationsInv, Sequential
        <4>2. starting[j].file = f
          BY <4>1, <3>1, <1>1, <1>2
        <4> QED
          BY <4>2, <2>2 DEF MigrationsInv, ProcessOK, CommitFile
      <3>3. starting[j].at # "down" => starting[j].file <= Len(applied') + 1
        BY <3>1, <1>1, <1>3 DEF ProcessOK
      <3> QED
        BY <3>1, <3>2, <3>3 DEF ProcessOK
    <2> QED
      BY <2>1, <2>2
  <1> QED
    BY <1>5, <1>6, <1>7 DEF MigrationsInv

LEMMA MigrationsInductive ==
    MigrationsInv /\ [MigrationsNext]_migrationVars => MigrationsInv'
  <1> SUFFICES ASSUME MigrationsInv, [MigrationsNext]_migrationVars
               PROVE  MigrationsInv'
    OBVIOUS
  <1>1. ASSUME NEW i \in Instance, ChangeSchema(i) PROVE MigrationsInv'
    BY <1>1, GoesOnOK DEF ChangeSchema, MigrationsInv, ProcessOK
  <1>2. ASSUME NEW i \in Instance, MigrateFails(i) PROVE MigrationsInv'
    BY <1>2, GoesOnOK DEF MigrateFails
  <1>3. CASE UNCHANGED migrationVars
    BY <1>3 DEF migrationVars, MigrationsInv, MigrationsTypeOK, Sequential, ProcessOK
  <1> QED
    BY <1>1, <1>2, <1>3, MigrateOK, CheckFileOK, InsertRecordOK, CommitFileOK
    DEF MigrationsNext

\* Any number of processes that start on one database, and fail and start again,
\* apply every migration once, in the order of the files.
THEOREM MigrationsOnce == MigrationsSpec => []AppliedOnceInOrder
  <1>1. MigrationsInit => MigrationsInv
    <2> SUFFICES ASSUME MigrationsInit PROVE MigrationsInv
      OBVIOUS
    <2>1. Len(applied) = 0 /\ applied \in Seq(1..Files) /\ recorded = {}
      BY DEF MigrationsInit
    <2>2. MigrationsTypeOK
      BY <2>1, MigrationsAssumption DEF MigrationsInit, MigrationsTypeOK
    <2>3. Sequential
      BY <2>1 DEF MigrationsInit, Sequential
    <2>4. \A i \in Instance : ProcessOK(i)
      BY DEF MigrationsInit, ProcessOK
    <2> QED
      BY <2>2, <2>3, <2>4 DEF MigrationsInv
  <1> QED
    BY <1>1, MigrationsInductive, MigrationsSafe, PTL DEF MigrationsSpec

-----------------------------------------------------------------------------
(* Transcription jobs.                                                      *)

\* A place in the gate for each job inside, a place in the queue for each that
\* waits, and no job in it twice.
Gated ==
    /\ IsFiniteSet(Inside) /\ gate = Cardinality(Inside)
    /\ \A k \in DOMAIN senders : step[senders[k]] = "waiting"
    /\ \A k, l \in DOMAIN senders : senders[k] = senders[l] => k = l

\* What a job shows fits the step it has come to.
JobOK(j) ==
    /\ jobOrg[j] = NoJobOrg <=> step[j] = "none"
    /\ status[j] = "none" <=> step[j] = "none"
    /\ status[j] \in {"done", "error"} <=> step[j] \in {"leave", "over"}
    /\ j \in unanswered => step[j] # "none"

\* The last answer was given to the job's organisation, and is final if it said so.
ToldOK ==
    told # NoAnswer =>
        /\ jobOrg[told[2]] = told[1]
        /\ told[3] \in {"done", "error"} => status[told[2]] = told[3]

JobsInv ==
    /\ TranscriptionTypeOK
    /\ Gated
    /\ \A j \in Job : JobOK(j)
    /\ ToldOK

LEMMA JobsSafe == JobsInv => OneJobAtWork
  BY DEF JobsInv, TranscriptionTypeOK, Gated, ToldOK, OneJobAtWork

LEMMA InsideStays ==
  ASSUME Inside' = Inside, Gated, UNCHANGED <<gate, senders>>,
         \A k \in DOMAIN senders : step'[senders[k]] = "waiting"
  PROVE  Gated'
  BY DEF Gated

\* A job that goes on, alone.
LEMMA AtJob ==
  ASSUME JobsInv, NEW j \in Job, NEW s \in JobSteps, At(j, s)
  PROVE  /\ step' \in [Job -> JobSteps] /\ step'[j] = s
         /\ \A k \in Job : k # j => step'[k] = step[k]
  BY DEF JobsInv, TranscriptionTypeOK, At

LEMMA ShowsJob ==
  ASSUME JobsInv, NEW j \in Job,
         NEW st \in {"running", "queued", "done", "error"}, Shows(j, st)
  PROVE  /\ status' \in [Job -> {"none", "running", "queued", "done", "error"}]
         /\ status'[j] = st
         /\ \A k \in Job : k # j => status'[k] = status[k]
  BY DEF JobsInv, TranscriptionTypeOK, Shows

\* Who waits is a job; who is first is let through once.
LEMMA Waiting ==
  ASSUME JobsInv
  PROVE  /\ \A k \in DOMAIN senders : senders[k] \in Job
         /\ DOMAIN senders = 1..Len(senders) /\ Len(senders) \in Nat
  BY DEF JobsInv, TranscriptionTypeOK

\* The answers given so far stay true of jobs whose organisation and final status
\* do not change.
LEMMA ToldStays ==
  ASSUME JobsInv, told' = told,
         \A j \in Job : jobOrg[j] # NoJobOrg => jobOrg'[j] = jobOrg[j],
         \A j \in Job : status[j] \in {"done", "error"} => status'[j] = status[j]
  PROVE  ToldOK'
  <1> SUFFICES ASSUME told # NoAnswer
               PROVE  /\ jobOrg'[told[2]] = told[1]
                      /\ told[3] \in {"done", "error"} => status'[told[2]] = told[3]
    BY DEF ToldOK
  <1>1. told[1] \in JobOrg /\ told[2] \in Job
    BY DEF JobsInv, TranscriptionTypeOK
  <1>2. jobOrg[told[2]] = told[1]
        /\ (told[3] \in {"done", "error"} => status[told[2]] = told[3])
    BY DEF JobsInv, ToldOK
  <1> QED
    BY <1>1, <1>2, TranscriptionAssumption

LEMMA HandleTranscribeOK ==
  ASSUME JobsInv, NEW o \in JobOrg, NEW j \in Job, HandleTranscribeAsset(o, j)
  PROVE  JobsInv'
  <1>1. step[j] = "none" /\ status[j] = "none"
    BY DEF HandleTranscribeAsset, JobsInv, JobOK
  <1>2. /\ step' \in [Job -> JobSteps] /\ step'[j] = "enqueue"
        /\ \A k \in Job : k # j => step'[k] = step[k]
    BY AtJob DEF HandleTranscribeAsset, JobSteps
  <1>3. /\ status' \in [Job -> {"none", "running", "queued", "done", "error"}]
        /\ status'[j] = "running" /\ \A k \in Job : k # j => status'[k] = status[k]
    BY ShowsJob DEF HandleTranscribeAsset
  <1>4. /\ jobOrg' \in [Job -> JobOrg \cup {NoJobOrg}] /\ jobOrg'[j] = o
        /\ \A k \in Job : k # j => jobOrg'[k] = jobOrg[k]
        /\ jobOrg[j] = NoJobOrg /\ o # NoJobOrg
        /\ unanswered' = unanswered \cup {j} /\ UNCHANGED <<gate, senders, told>>
    BY TranscriptionAssumption
    DEF HandleTranscribeAsset, JobsInv, TranscriptionTypeOK
  <1>5. TranscriptionTypeOK'
    BY <1>2, <1>3, <1>4 DEF JobsInv, TranscriptionTypeOK
  <1>6. Inside' = Inside
    BY <1>1, <1>2 DEF Inside
  <1>7. \A k \in DOMAIN senders : step'[senders[k]] = "waiting"
    BY <1>1, <1>2, Waiting DEF JobsInv, Gated
  <1>8. \A k \in Job : JobOK(k)'
    BY <1>2, <1>3, <1>4 DEF JobsInv, JobOK
  <1>9. ToldOK'
    BY <1>1, <1>3, <1>4, ToldStays
  <1> QED
    BY <1>4, <1>5, <1>6, <1>7, <1>8, <1>9, InsideStays DEF JobsInv

LEMMA TranscribeAcceptedOK ==
  ASSUME JobsInv, NEW j \in Job, TranscribeAccepted(j)
  PROVE  JobsInv'
  <1>1. PICK st \in {status[j], "torn"} : told' = <<jobOrg[j], j, st>>
    BY DEF TranscribeAccepted
  <1>2. /\ jobOrg[j] \in JobOrg
        /\ status[j] \in {"running", "queued", "done", "error"}
    BY DEF TranscribeAccepted, JobsInv, JobOK, TranscriptionTypeOK
  <1>3. TranscriptionTypeOK'
    BY <1>1, <1>2 DEF TranscribeAccepted, JobsInv, TranscriptionTypeOK
  <1>4. Inside' = Inside
    BY DEF Inside, TranscribeAccepted
  <1>5. Gated'
    BY <1>4 DEF TranscribeAccepted, JobsInv, Gated
  <1>6. \A k \in Job : JobOK(k)'
    BY DEF TranscribeAccepted, JobsInv, JobOK
  <1>7. ToldOK'
    BY <1>1, <1>2 DEF ToldOK, TranscribeAccepted
  <1> QED
    BY <1>3, <1>5, <1>6, <1>7 DEF JobsInv

LEMMA HandleGetOK ==
  ASSUME JobsInv, NEW o \in JobOrg, NEW j \in Job, HandleGetTranscription(o, j)
  PROVE  JobsInv'
  <1>1. status[j] \in {"running", "queued", "done", "error"}
    BY TranscriptionAssumption
    DEF HandleGetTranscription, JobsInv, JobOK, TranscriptionTypeOK
  <1>2. TranscriptionTypeOK'
    BY <1>1 DEF HandleGetTranscription, JobsInv, TranscriptionTypeOK
  <1>3. Inside' = Inside
    BY DEF Inside, HandleGetTranscription
  <1>4. Gated'
    BY <1>3 DEF HandleGetTranscription, JobsInv, Gated
  <1>5. \A k \in Job : JobOK(k)'
    BY DEF HandleGetTranscription, JobsInv, JobOK
  <1>6. ToldOK'
    BY <1>1 DEF ToldOK, HandleGetTranscription
  <1> QED
    BY <1>2, <1>4, <1>5, <1>6 DEF JobsInv

\* Enqueue, when there is room in the gate and when there is none.
LEMMA EnqueueOK ==
  ASSUME JobsInv, NEW j \in Job, Enqueue(j)
  PROVE  JobsInv'
  <1>1. /\ status' \in [Job -> {"none", "running", "queued", "done", "error"}]
        /\ status'[j] = "queued" /\ \A k \in Job : k # j => status'[k] = status[k]
    BY ShowsJob DEF Enqueue
  <1>2. step[j] = "enqueue" /\ status[j] \notin {"done", "error"}
        /\ UNCHANGED <<jobOrg, unanswered, told>>
    BY DEF Enqueue, JobsInv, JobOK
  <1>3. ToldOK'
    BY <1>1, <1>2, ToldStays
  <1>4. CASE gate < GateSize
    <2>1. gate' = gate + 1 /\ At(j, "begin") /\ senders' = senders
      BY <1>4 DEF Enqueue
    <2>2. /\ step' \in [Job -> JobSteps] /\ step'[j] = "begin"
          /\ \A k \in Job : k # j => step'[k] = step[k]
      BY <2>1, AtJob DEF JobSteps
    <2>3. Inside' = Inside \cup {j} /\ j \notin Inside
      BY <1>2, <2>2 DEF Inside
    <2>4. IsFiniteSet(Inside') /\ Cardinality(Inside') = Cardinality(Inside) + 1
      BY <2>3, FS_AddElement DEF JobsInv, Gated
    <2>5. \A k \in DOMAIN senders : step'[senders[k]] = "waiting"
      BY <1>2, <2>2, Waiting DEF JobsInv, Gated
    <2>6. Gated'
      BY <2>1, <2>4, <2>5 DEF JobsInv, Gated
    <2>7. TranscriptionTypeOK'
      BY <1>1, <1>2, <1>4, <2>1, <2>2, TranscriptionAssumption
      DEF JobsInv, TranscriptionTypeOK
    <2>8. \A k \in Job : JobOK(k)'
      BY <1>1, <1>2, <2>2 DEF JobsInv, JobOK
    <2> QED
      BY <1>3, <2>6, <2>7, <2>8 DEF JobsInv
  <1>5. CASE ~(gate < GateSize)
    <2>1. senders' = Append(senders, j) /\ At(j, "waiting") /\ gate' = gate
      BY <1>5 DEF Enqueue
    <2>2. /\ step' \in [Job -> JobSteps] /\ step'[j] = "waiting"
          /\ \A k \in Job : k # j => step'[k] = step[k]
      BY <2>1, AtJob DEF JobSteps
    <2>3. Inside' = Inside
      BY <1>2, <2>2 DEF Inside
    <2>4. /\ senders' \in Seq(Job) /\ DOMAIN senders' = 1..(Len(senders) + 1)
          /\ senders'[Len(senders) + 1] = j
          /\ \A k \in 1..Len(senders) : senders'[k] = senders[k]
      BY <2>1 DEF JobsInv, TranscriptionTypeOK
    <2>5. \A k \in 1..Len(senders) : senders[k] # j
                                     /\ step'[senders[k]] = "waiting"
      BY <1>2, <2>2, Waiting DEF JobsInv, Gated
    <2>6. \A k \in 1..(Len(senders) + 1) :
             k \in 1..Len(senders) \/ k = Len(senders) + 1
      BY Waiting
    <2>7. \A k \in DOMAIN senders' : step'[senders'[k]] = "waiting"
      BY <2>2, <2>4, <2>5, <2>6
    <2>8. \A k, l \in DOMAIN senders' : senders'[k] = senders'[l] => k = l
      BY <2>4, <2>5, <2>6, Waiting DEF JobsInv, Gated
    <2>9. Gated'
      BY <2>1, <2>3, <2>7, <2>8 DEF JobsInv, Gated
    <2>10. TranscriptionTypeOK'
      BY <1>1, <1>2, <2>1, <2>2, <2>4 DEF JobsInv, TranscriptionTypeOK
    <2>11. \A k \in Job : JobOK(k)'
      BY <1>1, <1>2, <2>2 DEF JobsInv, JobOK
    <2> QED
      BY <1>3, <2>9, <2>10, <2>11 DEF JobsInv
  <1> QED
    BY <1>4, <1>5

\* A job inside goes on to the next step inside.
LEMMA InsideStepOK ==
  ASSUME JobsInv, NEW j \in Job, NEW s \in {"work", "held", "leave"},
         NEW st \in {"running", "queued", "done", "error"},
         At(j, s), Shows(j, st), step[j] \in {"begin", "work", "held"},
         s = "leave" <=> st \in {"done", "error"},
         UNCHANGED <<jobOrg, gate, senders, unanswered, told>>
  PROVE  JobsInv'
  <1>1. /\ status' \in [Job -> {"none", "running", "queued", "done", "error"}]
        /\ status'[j] = st /\ \A k \in Job : k # j => status'[k] = status[k]
    BY ShowsJob
  <1>2. /\ step' \in [Job -> JobSteps] /\ step'[j] = s
        /\ \A k \in Job : k # j => step'[k] = step[k]
    BY AtJob DEF JobSteps
  <1>3. status[j] \notin {"done", "error"}
    BY DEF JobsInv, JobOK
  <1>4. Inside' = Inside
    BY <1>2 DEF Inside
  <1>5. \A k \in DOMAIN senders : step'[senders[k]] = "waiting"
    BY <1>2, Waiting DEF JobsInv, Gated
  <1>6. TranscriptionTypeOK'
    BY <1>1, <1>2 DEF JobsInv, TranscriptionTypeOK
  <1>7. \A k \in Job : JobOK(k)'
    BY <1>1, <1>2 DEF JobsInv, JobOK
  <1>8. ToldOK'
    BY <1>1, <1>3, ToldStays
  <1> QED
    BY <1>4, <1>5, <1>6, <1>7, <1>8, InsideStays DEF JobsInv

LEMMA LeaveOK ==
  ASSUME JobsInv, NEW j \in Job, Leave(j)
  PROVE  JobsInv'
  <1>1. step[j] = "leave" /\ j \in Inside
        /\ UNCHANGED <<jobOrg, status, unanswered, told>>
    BY DEF Leave, Inside
  <1>2. ToldOK'
    BY <1>1, ToldStays
  <1>3. IsFiniteSet(Inside \ {j}) /\ Cardinality(Inside \ {j}) = Cardinality(Inside) - 1
    BY <1>1, FS_RemoveElement DEF JobsInv, Gated
  <1>4. Cardinality(Inside) \in Nat
    BY FS_CardinalityType DEF JobsInv, Gated
  <1>5. CASE senders = <<>>
    <2>1. At(j, "over") /\ gate' = gate - 1 /\ senders' = senders
      BY <1>5 DEF Leave
    <2>2. /\ step' \in [Job -> JobSteps] /\ step'[j] = "over"
          /\ \A k \in Job : k # j => step'[k] = step[k]
      BY <2>1, AtJob DEF JobSteps
    <2>3. Inside' = Inside \ {j}
      BY <1>1, <2>2 DEF Inside
    <2>4. gate' \in 0..GateSize
      <3>1. Cardinality(Inside \ {j}) \in Nat
        BY <1>3, FS_CardinalityType
      <3> QED
        BY <3>1, <1>3, <2>1, TranscriptionAssumption
        DEF JobsInv, Gated, TranscriptionTypeOK
    <2>5. TranscriptionTypeOK'
      BY <1>1, <2>1, <2>2, <2>4 DEF JobsInv, TranscriptionTypeOK
    <2>6. Gated'
      BY <1>3, <1>5, <2>1, <2>3 DEF JobsInv, Gated
    <2>7. \A k \in Job : JobOK(k)'
      BY <1>1, <2>2 DEF JobsInv, JobOK
    <2> QED
      BY <1>2, <2>5, <2>6, <2>7 DEF JobsInv
  <1>6. CASE senders # <<>>
    <2> DEFINE h == Head(senders)
    <2>1. /\ step' = [step EXCEPT ![j] = "over", ![h] = "begin"]
          /\ senders' = Tail(senders) /\ gate' = gate
      BY <1>6 DEF Leave
    <2>2. Len(senders) >= 1 /\ h = senders[1] /\ 1 \in DOMAIN senders
      BY <1>6, Waiting DEF JobsInv, TranscriptionTypeOK
    <2>3. h \in Job /\ step[h] = "waiting"
      BY <2>2, Waiting DEF JobsInv, Gated
    <2>4. /\ step' \in [Job -> JobSteps] /\ step'[j] = "over" /\ step'[h] = "begin"
          /\ \A k \in Job : k # j /\ k # h => step'[k] = step[k]
      <3>1. h # j
        BY <1>1, <2>3
      <3> HIDE DEF h
      <3> QED
        BY <2>1, <2>3, <3>1 DEF JobsInv, TranscriptionTypeOK, JobSteps
    <2>5. Inside' = (Inside \ {j}) \cup {h} /\ h \notin Inside \ {j}
      BY <1>1, <2>3, <2>4 DEF Inside
    <2>6. IsFiniteSet(Inside') /\ Cardinality(Inside') = Cardinality(Inside)
      <3>1. Cardinality((Inside \ {j}) \cup {h}) = Cardinality(Inside \ {j}) + 1
            /\ IsFiniteSet((Inside \ {j}) \cup {h})
        BY <1>3, <2>5, FS_AddElement
      <3> QED
        BY <3>1, <1>3, <1>4, <2>5
    <2>7. /\ senders' \in Seq(Job) /\ Len(senders') = Len(senders) - 1
          /\ DOMAIN senders' = 1..(Len(senders) - 1)
          /\ \A k \in 1..(Len(senders) - 1) : senders'[k] = senders[k + 1]
      BY <1>6, <2>1 DEF JobsInv, TranscriptionTypeOK
    <2>8. \A k \in 1..(Len(senders) - 1) :
             k + 1 \in DOMAIN senders /\ k + 1 # 1 /\ k \in Int
      BY Waiting
    <2>9. \A k \in DOMAIN senders' : step'[senders'[k]] = "waiting"
      <3> TAKE k \in DOMAIN senders'
      <3>1. senders'[k] = senders[k + 1] /\ k + 1 \in DOMAIN senders /\ k + 1 # 1
        BY <2>7, <2>8
      <3>2. senders[k + 1] \in Job /\ step[senders[k + 1]] = "waiting"
            /\ senders[k + 1] # h
        BY <3>1, <2>2, Waiting DEF JobsInv, Gated
      <3> HIDE DEF h
      <3> QED
        BY <3>1, <3>2, <1>1, <2>4
    <2>10. \A k, l \in DOMAIN senders' : senders'[k] = senders'[l] => k = l
      <3> SUFFICES ASSUME NEW k \in DOMAIN senders', NEW l \in DOMAIN senders',
                          senders'[k] = senders'[l]
                   PROVE  k = l
        OBVIOUS
      <3>1. senders[k + 1] = senders[l + 1] /\ k + 1 \in DOMAIN senders
            /\ l + 1 \in DOMAIN senders /\ k \in Int /\ l \in Int
        BY <2>7, <2>8
      <3>2. k + 1 = l + 1
        BY <3>1 DEF JobsInv, Gated
      <3> QED
        BY <3>1, <3>2
    <2>11. Gated'
      BY <2>1, <2>6, <2>9, <2>10 DEF JobsInv, Gated
    <2>12. TranscriptionTypeOK'
      BY <1>1, <2>1, <2>4, <2>7 DEF JobsInv, TranscriptionTypeOK
    <2>13. \A k \in Job : JobOK(k)'
      BY <1>1, <2>3, <2>4 DEF JobsInv, JobOK
    <2> QED
      BY <1>2, <2>11, <2>12, <2>13 DEF JobsInv
  <1> QED
    BY <1>5, <1>6

LEMMA JobsInductive == JobsInv /\ [TranscriptionNext]_jobVars => JobsInv'
  <1> SUFFICES ASSUME JobsInv, [TranscriptionNext]_jobVars PROVE JobsInv'
    OBVIOUS
  <1>1. ASSUME NEW j \in Job, Begin(j) PROVE JobsInv'
    BY <1>1, InsideStepOK DEF Begin
  <1>2. ASSUME NEW j \in Job, NEW st \in {"done", "error"}, Works(j, st)
        PROVE  JobsInv'
    BY <1>2, InsideStepOK DEF Works
  <1>3. CASE UNCHANGED jobVars
    BY <1>3 DEF jobVars, JobsInv, TranscriptionTypeOK, Gated, Inside, JobOK, ToldOK
  <1>4. ASSUME NEW j \in Job, Lingers(j) PROVE JobsInv'
    <2>1. status[j] \in {"running", "queued"}
      BY <1>4 DEF Lingers, JobsInv, JobOK, TranscriptionTypeOK
    <2>2. Shows(j, status[j])
      BY <1>4 DEF Lingers, Shows, JobsInv, TranscriptionTypeOK
    <2> QED
      BY <1>4, <2>1, <2>2, InsideStepOK DEF Lingers
  <1>5. ASSUME NEW j \in Job, NEW st \in {"done", "error"}, OutputEnds(j, st)
        PROVE  JobsInv'
    BY <1>5, InsideStepOK DEF OutputEnds
  <1> QED
    BY <1>1, <1>2, <1>3, <1>4, <1>5, HandleTranscribeOK, TranscribeAcceptedOK, HandleGetOK,
       EnqueueOK, LeaveOK
    DEF TranscriptionNext, Runs

\* Whatever the number of jobs, the command runs for no more of them at once than
\* the gate lets through, and an answer is for the organisation the job was made
\* for and final when it says so.
THEOREM JobsTakeTurns == TranscriptionSpec => []OneJobAtWork
  <1>1. TranscriptionInit => JobsInv
    <2> SUFFICES ASSUME TranscriptionInit PROVE JobsInv
      OBVIOUS
    <2>1. Inside = {}
      BY DEF TranscriptionInit, Inside
    <2>2. Gated
      BY <2>1, FS_EmptySet DEF TranscriptionInit, Gated
    <2>3. senders \in Seq(Job)
      BY DEF TranscriptionInit
    <2>4. TranscriptionTypeOK
      BY <2>3, TranscriptionAssumption
      DEF TranscriptionInit, TranscriptionTypeOK, JobSteps
    <2>5. \A j \in Job : JobOK(j)
      BY DEF TranscriptionInit, JobOK
    <2>6. ToldOK
      BY DEF TranscriptionInit, ToldOK
    <2> QED
      BY <2>2, <2>4, <2>5, <2>6 DEF JobsInv
  <1> QED
    BY <1>1, JobsInductive, JobsSafe, PTL DEF TranscriptionSpec

-----------------------------------------------------------------------------
(* Presence.                                                                *)

\* The reports of q on their way to p, and those of them that are older than m.
Flight(q, p) == {m \in wire : m.from = q /\ m.to = p}
Older(m) == {n \in Flight(m.from, m.to) : n.by < m.by}

\* As long as p and q are up and p has not missed too many reports of q: from the
\* last one it took, on and on, there is an interval for each report missed since
\* and for each one still to come.
Span(n) == n * PresenceInterval

Heard(p, q) ==
    /\ peers[p][q] \in 1..nowMs
    /\ due[q] <= peers[p][q] + Span(missed[p][q] + Cardinality(Flight(q, p)) + 1)
    /\ \A m \in Flight(q, p) :
           m.by - MaxDelay <= peers[p][q] + Span(missed[p][q] + Cardinality(Older(m)) + 1)

\* A report on its way: it is for a process that is up, from one that has begun;
\* it comes in time, and the next one is an interval behind it.
ReportOK(m) ==
    /\ life[m.to] = "up" /\ life[m.from] # "new"
    /\ m.by \in nowMs..(nowMs + MaxDelay)
    /\ life[m.from] = "up" => m.by - MaxDelay + PresenceInterval <= due[m.from]
    /\ life[m.from] = "dead" => m.by <= died[m.from] + MaxDelay

\* What p has of q: nothing before either has begun, nothing newer than the last
\* report of one that has ended, and nothing that p's last turn found stale.
KnownOK(p, q) ==
    /\ life[p] = "new" => peers[p][q] = 0
    /\ "new" \in {life[p], life[q]} => missed[p][q] > Losses
    /\ peers[p][q] <= nowMs
    /\ life[q] = "dead" => peers[p][q] <= died[q] + MaxDelay
    /\ life[p] = "up" /\ peers[p][q] # 0 =>
           due[p] - PresenceInterval <= peers[p][q] + PresenceStale

PresenceInv ==
    /\ PresenceTypeOK
    /\ \A q \in Proc : life[q] = "up" => due[q] \in nowMs..(nowMs + PresenceInterval)
    /\ \A m \in wire : ReportOK(m)
    /\ \A p, q \in Proc : IsFiniteSet(Flight(q, p)) /\ KnownOK(p, q)
    /\ \A p, q \in Up : p # q /\ missed[p][q] <= Losses => Heard(p, q)

LEMMA PresenceNumbers ==
  /\ PresenceInterval \in Nat /\ PresenceInterval > 0 /\ PresenceStale \in Nat
  /\ MaxDelay \in Nat /\ Losses \in Nat
  /\ Span(Losses + 1) + MaxDelay <= PresenceStale
  BY PresenceAssumption DEF Span

\* Longer for more of them.
LEMMA SpanGrows ==
  ASSUME NEW m \in Nat, NEW n \in Nat, m <= n
  PROVE  /\ Span(m) \in Nat /\ Span(m) <= Span(n)
         /\ Span(n + 1) = Span(n) + PresenceInterval
  <1>1. PICK k \in Nat : n = m + k
    <2>1. n - m \in Nat /\ n = m + (n - m)
      OBVIOUS
    <2> QED
      BY <2>1
  <1> DEFINE i == PresenceInterval
  <1>2. i \in Nat /\ m * i \in Nat /\ k * i \in Nat
    BY PresenceNumbers
  <1>3. n * i = m * i + k * i
    BY <1>1, <1>2
  <1>4. (n + 1) * i = n * i + i
    BY <1>2
  <1> QED
    BY <1>2, <1>3, <1>4 DEF Span

\* Of the reports on their way one is the oldest.
LEMMA OldestReport ==
  ASSUME PresenceInv, NEW p \in Proc, NEW q \in Proc, Flight(q, p) # {}
  PROVE  \E m \in Flight(q, p) : Older(m) = {}
  <1> DEFINE T == {m.by : m \in Flight(q, p)}
  <1>1. \A m \in Flight(q, p) : m.by \in Nat
    BY DEF Flight, PresenceInv, PresenceTypeOK
  <1>2. T \subseteq Nat /\ T # {}
    BY <1>1
  <1>3. PICK x \in T : \A y \in T : <<y, x>> \notin OpToRel(<, Nat)
    BY <1>2, WFMin, NatLessThanWellFounded, Zenon
  <1>4. \A y \in T : ~(y < x)
    BY <1>2, <1>3, Zenon DEF OpToRel
  <1>5. PICK m \in Flight(q, p) : x = m.by
    OBVIOUS
  <1>6. \A n \in Flight(q, p) : ~(n.by < m.by)
    BY <1>4, <1>5
  <1>7. m.from = q /\ m.to = p
    BY DEF Flight
  <1> QED
    BY <1>6, <1>7 DEF Older

\* So that what p took last of q is not stale yet.
LEMMA HeardIsFresh ==
  ASSUME PresenceInv, NEW p \in Up, NEW q \in Up, p # q, missed[p][q] <= Losses
  PROVE  peers[p][q] \in Nat \ {0} /\ nowMs - peers[p][q] <= PresenceStale
  <1> DEFINE r == peers[p][q]
  <1>1. p \in Proc /\ q \in Proc /\ missed[p][q] \in Nat /\ nowMs \in Nat
    BY DEF Up, PresenceInv, PresenceTypeOK
  <1>2. Heard(p, q)
    BY DEF PresenceInv
  <1>3. r \in 1..nowMs
    BY <1>2 DEF Heard
  <1>4. Span(missed[p][q] + 1) \in Nat /\ Span(missed[p][q] + 1) <= Span(Losses + 1)
    BY <1>1, SpanGrows, PresenceNumbers
  <1>5. Span(Losses + 1) \in Nat
    BY SpanGrows, PresenceNumbers
  <1>6. CASE Flight(q, p) = {}
    <2>1. Cardinality(Flight(q, p)) = 0
      BY <1>6, FS_EmptySet
    <2>2. due[q] <= r + Span(missed[p][q] + 1)
      BY <2>1, <1>1, <1>2 DEF Heard
    <2>3. nowMs <= due[q] /\ due[q] \in Nat
      BY <1>1 DEF Up, PresenceInv, PresenceTypeOK
    <2> QED
      BY <1>1, <1>3, <1>4, <1>5, <2>2, <2>3, PresenceNumbers
  <1>7. CASE Flight(q, p) # {}
    <2>1. PICK m \in Flight(q, p) : Older(m) = {}
      BY <1>1, <1>7, OldestReport
    <2>2. Cardinality(Older(m)) = 0
      BY <2>1, FS_EmptySet
    <2>3. m.by - MaxDelay <= r + Span(missed[p][q] + 1)
      BY <2>2, <1>1, <1>2 DEF Heard
    <2>4. nowMs <= m.by /\ m.by \in Nat
      BY <1>1 DEF Flight, PresenceInv, ReportOK, PresenceTypeOK
    <2> QED
      BY <1>1, <1>3, <1>4, <1>5, <2>3, <2>4, PresenceNumbers
  <1> QED
    BY <1>3, <1>6, <1>7

LEMMA PresenceSafe == PresenceInv => PresenceHonest
  <1> SUFFICES ASSUME PresenceInv PROVE PresenceHonest
    OBVIOUS
  <1>1. DeadAreForgotten
    <2> SUFFICES ASSUME NEW p \in Up, NEW q \in Proc, life[q] = "dead"
                 PROVE  /\ nowMs > died[q] + MaxDelay + PresenceStale => q \notin Counted(p)
                        /\ nowMs > died[q] + MaxDelay + PresenceStale + PresenceInterval
                               => peers[p][q] = 0
      BY DEF DeadAreForgotten
    <2>1. p \in Proc /\ p # q /\ KnownOK(p, q) /\ life[p] = "up"
      BY DEF Up, PresenceInv
    <2>2. nowMs \in Nat /\ peers[p][q] \in Nat /\ died[q] \in Nat /\ due[p] \in Nat
          /\ nowMs <= due[p]
      BY <2>1 DEF PresenceInv, PresenceTypeOK
    <2>3. peers[p][q] <= died[q] + MaxDelay
      BY <2>1 DEF KnownOK
    <2>4. peers[p][q] # 0 => due[p] - PresenceInterval <= peers[p][q] + PresenceStale
      BY <2>1 DEF KnownOK
    <2> QED
      BY <2>1, <2>2, <2>3, <2>4, PresenceNumbers DEF Counted, Stale
  <1>2. LivingAreCounted
    <2> SUFFICES ASSUME NEW p \in Up, NEW q \in Up, missed[p][q] <= Losses
                 PROVE  q \in Counted(p)
      BY DEF LivingAreCounted
    <2>1. CASE p = q
      BY <2>1 DEF Counted
    <2>2. CASE p # q
      <3>1. peers[p][q] \in Nat \ {0} /\ nowMs - peers[p][q] <= PresenceStale
        BY <2>2, HeardIsFresh
      <3>2. nowMs \in Nat /\ q \in Proc
        BY DEF Up, PresenceInv, PresenceTypeOK
      <3> QED
        BY <3>1, <3>2, PresenceNumbers DEF Counted, Stale
    <2> QED
      BY <2>1, <2>2
  <1> QED
    BY <1>1, <1>2 DEF PresenceHonest

\* A pair of processes that a step does not touch.
LEMMA HeardStays ==
  ASSUME PresenceInv, NEW p \in Proc, NEW q \in Proc, Heard(p, q),
         Flight(q, p)' = Flight(q, p), UNCHANGED <<peers[p][q], missed[p][q], due[q]>>,
         nowMs' \in Nat, nowMs' >= nowMs
  PROVE  Heard(p, q)'
  <1>1. \A m \in Flight(q, p) : m.from = q /\ m.to = p /\ Older(m)' = Older(m)
    BY DEF Flight, Older
  <1>2. peers'[p][q] \in 1..nowMs'
    BY DEF Heard, PresenceInv, PresenceTypeOK
  <1> QED
    BY <1>1, <1>2 DEF Heard, Span

\* What is on its way from one process to another when p reports, ...
LEMMA FlightsSent ==
  ASSUME PresenceInv, NEW p \in Proc, NEW S \in SUBSET Proc, Reports(p, S)
  PROVE  /\ \A m \in wire' : m \in wire \/ (m.from = p /\ m.to \in S /\ m.by = nowMs + MaxDelay)
         /\ wire' \subseteq [from : Proc, to : Proc, by : Nat]
         /\ \A q, r \in Proc : (q # p \/ r \notin S) => Flight(q, r)' = Flight(q, r)
         /\ \A r \in S : Flight(p, r)' = Flight(p, r)
                             \cup {[from |-> p, to |-> r, by |-> nowMs + MaxDelay]}
         /\ \A q, r \in Proc : IsFiniteSet(Flight(q, r)')
  <1> DEFINE new == [from : {p}, to : S, by : {nowMs + MaxDelay}]
  <1>1. wire' = wire \cup new
    BY DEF Reports
  <1>2. \A m \in new : m.from = p /\ m.to \in S /\ m.by = nowMs + MaxDelay
    OBVIOUS
  <1>3. new \subseteq [from : Proc, to : Proc, by : Nat]
    BY PresenceNumbers DEF PresenceInv, PresenceTypeOK
  <1>4. \A r \in S : {m \in new : m.from = p /\ m.to = r}
                         = {[from |-> p, to |-> r, by |-> nowMs + MaxDelay]}
    OBVIOUS
  <1> HIDE DEF new
  <1>5. \A q, r \in Proc : (q # p \/ r \notin S) => Flight(q, r)' = Flight(q, r)
    BY <1>1, <1>2 DEF Flight
  <1>6. \A r \in S : Flight(p, r)' = Flight(p, r) \cup {m \in new : m.from = p /\ m.to = r}
    BY <1>1 DEF Flight
  <1>7. \A r \in S : Flight(p, r)' = Flight(p, r)
                             \cup {[from |-> p, to |-> r, by |-> nowMs + MaxDelay]}
    BY <1>4, <1>6
  <1>8. \A q, r \in Proc : IsFiniteSet(Flight(q, r)')
    <2> TAKE q, r \in Proc
    <2>1. IsFiniteSet(Flight(q, r))
      BY DEF PresenceInv
    <2>2. CASE q = p /\ r \in S
      <3>1. IsFiniteSet(Flight(q, r) \cup {[from |-> p, to |-> r, by |-> nowMs + MaxDelay]})
        BY <2>1, FS_AddElement
      <3> QED
        BY <2>2, <3>1, <1>7
    <2>3. CASE ~(q = p /\ r \in S)
      BY <2>1, <2>3, <1>5
    <2> QED
      BY <2>2, <2>3
  <1>9. wire' \subseteq [from : Proc, to : Proc, by : Nat]
    BY <1>1, <1>3 DEF PresenceInv, PresenceTypeOK
  <1> QED
    BY <1>1, <1>2, <1>5, <1>7, <1>8, <1>9

\* ... and when a report is over.
LEMMA FlightsOver ==
  ASSUME PresenceInv, NEW m \in wire, wire' = wire \ {m}
  PROVE  /\ m.from \in Proc /\ m.to \in Proc /\ m.by \in Nat
         /\ wire' \subseteq [from : Proc, to : Proc, by : Nat]
         /\ \A q, p \in Proc : (q # m.from \/ p # m.to) => Flight(q, p)' = Flight(q, p)
         /\ m \in Flight(m.from, m.to)
         /\ Flight(m.from, m.to)' = Flight(m.from, m.to) \ {m}
         /\ \A q, p \in Proc : IsFiniteSet(Flight(q, p)')
  <1>1. /\ m.from \in Proc /\ m.to \in Proc /\ m.by \in Nat
        /\ wire' \subseteq [from : Proc, to : Proc, by : Nat]
    BY DEF PresenceInv, PresenceTypeOK
  <1>2. \A q, p \in Proc : (q # m.from \/ p # m.to) => Flight(q, p)' = Flight(q, p)
    BY DEF Flight
  <1>3. m \in Flight(m.from, m.to) /\ Flight(m.from, m.to)' = Flight(m.from, m.to) \ {m}
    BY DEF Flight
  <1>4. \A q, p \in Proc : IsFiniteSet(Flight(q, p)')
    <2> TAKE q, p \in Proc
    <2>1. IsFiniteSet(Flight(q, p)) /\ Flight(q, p)' \subseteq Flight(q, p)
      BY DEF PresenceInv, Flight
    <2> QED
      BY <2>1, FS_Subset
  <1> QED
    BY <1>1, <1>2, <1>3, <1>4

\* The reports before m, when another one is over: one less at most, and none less
\* when that one was not older.
LEMMA OlderOver ==
  ASSUME PresenceInv, NEW m \in wire, wire' = wire \ {m}, NEW n \in Flight(m.from, m.to)
  PROVE  /\ Cardinality(Older(n)) \in Nat /\ Cardinality(Older(n)') \in Nat
         /\ Cardinality(Older(n)) <= Cardinality(Older(n)') + 1
  <1>1. n.from = m.from /\ n.to = m.to /\ m.from \in Proc /\ m.to \in Proc
    BY FlightsOver DEF Flight
  <1>2. IsFiniteSet(Flight(m.from, m.to)) /\ Older(n) \subseteq Flight(m.from, m.to)
    BY <1>1 DEF PresenceInv, Older
  <1>3. IsFiniteSet(Older(n))
    BY <1>2, FS_Subset
  <1>4. Older(n)' = Older(n) \ {m}
    BY <1>1, FlightsOver DEF Older
  <1>5. /\ IsFiniteSet(Older(n) \ {m})
        /\ Cardinality(Older(n) \ {m}) = IF m \in Older(n) THEN Cardinality(Older(n)) - 1
                                         ELSE Cardinality(Older(n))
    BY <1>3, FS_RemoveElement
  <1>6. Cardinality(Older(n)) \in Nat /\ Cardinality(Older(n) \ {m}) \in Nat
    BY <1>3, <1>5, FS_CardinalityType
  <1> QED
    BY <1>4, <1>5, <1>6

LEMMA StartPresenceOK ==
  ASSUME PresenceInv, NEW p \in Proc, StartPresence(p)
  PROVE  PresenceInv'
  <1>1. /\ life[p] = "new" /\ life' = [life EXCEPT ![p] = "up"] /\ Reports(p, Up \cup {p})
        /\ due' = [due EXCEPT ![p] = nowMs + PresenceInterval]
        /\ UNCHANGED <<nowMs, died, peers, missed>>
    BY DEF StartPresence
  <1>2. /\ life' \in [Proc -> {"new", "up", "dead"}] /\ life'[p] = "up"
        /\ \A q \in Proc : q # p => life'[q] = life[q] /\ due'[q] = due[q]
        /\ due' \in [Proc -> Nat] /\ due'[p] = nowMs + PresenceInterval
        /\ nowMs \in Nat \ {0}
    BY <1>1, PresenceNumbers DEF PresenceInv, PresenceTypeOK
  <1>3. Up \cup {p} \in SUBSET Proc
    BY DEF Up
  <1>4. PresenceTypeOK'
    BY <1>1, <1>2, <1>3, FlightsSent DEF PresenceInv, PresenceTypeOK
  <1>5. \A q \in Proc : life'[q] = "up" => due'[q] \in nowMs..(nowMs + PresenceInterval)
    BY <1>2, PresenceNumbers DEF PresenceInv
  <1>6. \A m \in wire' : ReportOK(m)'
    <2> TAKE m \in wire'
    <2>1. CASE m \in wire
      <3>1. ReportOK(m) /\ m.from \in Proc /\ m.to \in Proc
        BY <2>1 DEF PresenceInv, PresenceTypeOK
      <3>2. m.from # p /\ m.to # p
        BY <3>1, <1>1 DEF ReportOK
      <3> QED
        BY <3>1, <3>2, <1>1, <1>2 DEF ReportOK
    <2>2. CASE m \notin wire
      <3>1. m.from = p /\ m.to \in Up \cup {p} /\ m.by = nowMs + MaxDelay
        BY <2>2, <1>1, <1>3, FlightsSent
      <3>2. life'[m.to] = "up"
        BY <3>1, <1>1, <1>2 DEF Up
      <3> QED
        BY <3>1, <3>2, <1>1, <1>2, PresenceNumbers DEF ReportOK
    <2> QED
      BY <2>1, <2>2
  <1>7. \A r, q \in Proc : IsFiniteSet(Flight(q, r)')
    BY <1>1, <1>3, FlightsSent
  <1>8. \A r, q \in Proc : KnownOK(r, q)'
    <2> TAKE r, q \in Proc
    <2>1. KnownOK(r, q)
      BY DEF PresenceInv
    <2> QED
      BY <2>1, <1>1, <1>2, PresenceNumbers DEF KnownOK
  <1>9. ASSUME NEW r \in Up', NEW q \in Up', r # q, missed'[r][q] <= Losses
        PROVE  Heard(r, q)'
    <2>1. r \in Proc /\ q \in Proc /\ KnownOK(r, q) /\ missed[r][q] \in Nat
      BY DEF Up, PresenceInv, PresenceTypeOK
    <2>2. r # p /\ q # p
      BY <2>1, <1>1, <1>9, PresenceNumbers DEF KnownOK
    <2>3. r \in Up /\ q \in Up
      BY <2>1, <2>2, <1>2 DEF Up
    <2>4. Heard(r, q)
      BY <2>3, <1>1, <1>9 DEF PresenceInv
    <2>5. Flight(q, r)' = Flight(q, r)
      BY <2>1, <2>2, <1>1, <1>3, FlightsSent
    <2> QED
      BY <2>1, <2>2, <2>4, <2>5, <1>1, <1>2, HeardStays
  <1> QED
    BY <1>1, <1>4, <1>5, <1>6, <1>7, <1>8, <1>9 DEF PresenceInv

\* A report more on its way, and an interval more until the next one.
LEMMA HeardAfterTurn ==
  ASSUME PresenceInv, NEW p \in Up, NEW q \in Up, p # q, missed[p][q] <= Losses,
         Heard(p, q), Reports(q, Up), due[q] = nowMs, due'[q] = nowMs + PresenceInterval,
         UNCHANGED <<nowMs, peers[p][q], missed[p][q]>>
  PROVE  Heard(p, q)'
  <1> DEFINE new == [from |-> q, to |-> p, by |-> nowMs + MaxDelay]
             F == Flight(q, p)
             r == peers[p][q]
             k == missed[p][q]
  <1>1. /\ p \in Proc /\ q \in Proc /\ k \in Nat /\ nowMs \in Nat /\ life[q] = "up"
        /\ r \in 1..nowMs
    BY DEF Up, PresenceInv, PresenceTypeOK, Heard
  <1>2. Flight(q, p)' = F \cup {new}
    BY <1>1, FlightsSent DEF Up
  <1>3. \A m \in F : m.by \in Nat /\ m.by < nowMs + MaxDelay /\ m.from = q /\ m.to = p
    <2> TAKE m \in F
    <2>1. m \in wire /\ m.from = q /\ m.to = p
      BY DEF Flight
    <2>2. ReportOK(m) /\ m.by \in Nat
      BY <2>1 DEF PresenceInv, PresenceTypeOK
    <2>3. m.by - MaxDelay + PresenceInterval <= nowMs
      BY <2>1, <2>2, <1>1 DEF ReportOK
    <2> QED
      BY <2>1, <2>2, <2>3, <1>1, PresenceNumbers
  <1>4. new.from = q /\ new.to = p /\ new.by = nowMs + MaxDelay
    OBVIOUS
  <1> HIDE DEF new
  <1>5. new \notin F
    BY <1>1, <1>3, <1>4, PresenceNumbers
  <1>6. IsFiniteSet(F) /\ Cardinality(F) \in Nat
    BY <1>1, FS_CardinalityType DEF PresenceInv
  <1>7. Cardinality(F \cup {new}) = Cardinality(F) + 1
    BY <1>5, <1>6, FS_AddElement
  <1> DEFINE n == k + Cardinality(F) + 1
  <1>8. n \in Nat /\ due[q] <= r + Span(n)
    BY <1>1, <1>6 DEF Heard
  <1>9. Span(n) \in Nat /\ Span(n + 1) = Span(n) + PresenceInterval
    <2> HIDE DEF n
    <2> QED
      BY <1>8, SpanGrows
  <1>10. k + Cardinality(F \cup {new}) + 1 = n + 1
    BY <1>1, <1>6, <1>7
  <1>11. due'[q] <= r + Span(k + Cardinality(F \cup {new}) + 1)
    <2> HIDE DEF n
    <2> QED
      BY <1>1, <1>8, <1>9, <1>10, PresenceNumbers
  <1>12. ASSUME NEW m \in F \cup {new}
         PROVE  m.by - MaxDelay <= r + Span(k + Cardinality(Older(m)') + 1)
    <2>1. CASE m \in F
      <3>1. Older(m)' = Older(m)
        BY <2>1, <1>1, <1>2, <1>3, <1>4, PresenceNumbers DEF Older
      <3> QED
        BY <2>1, <3>1 DEF Heard
    <2>2. CASE m = new
      <3>1. Older(m)' = F
        <4>1. Older(m)' = {x \in F \cup {new} : x.by < nowMs + MaxDelay}
          BY <2>2, <1>2, <1>4 DEF Older
        <4> QED
          BY <4>1, <1>1, <1>3, <1>4, PresenceNumbers
      <3>2. k + Cardinality(Older(m)') + 1 = n
        BY <3>1
      <3> HIDE DEF n
      <3> QED
        BY <2>2, <3>2, <1>1, <1>4, <1>8, <1>9, PresenceNumbers
    <2> QED
      BY <2>1, <2>2
  <1> QED
    BY <1>1, <1>2, <1>11, <1>12 DEF Heard, Span

LEMMA PresenceTicksOK ==
  ASSUME PresenceInv, NEW q \in Proc, PresenceTicks(q)
  PROVE  PresenceInv'
  <1>1. /\ life[q] = "up" /\ due[q] = nowMs /\ Reports(q, Up)
        /\ peers' = [peers EXCEPT ![q] = Pruned(q)]
        /\ due' = [due EXCEPT ![q] = nowMs + PresenceInterval]
        /\ UNCHANGED <<nowMs, life, died, missed>>
    BY DEF PresenceTicks
  <1>2. /\ \A p \in Proc : p # q => due'[p] = due[p] /\ peers'[p] = peers[p]
        /\ due' \in [Proc -> Nat] /\ due'[q] = nowMs + PresenceInterval
        /\ nowMs \in Nat \ {0} /\ q \in Up
    BY <1>1, PresenceNumbers DEF PresenceInv, PresenceTypeOK, Up
  <1>3. Pruned(q) \in [Proc -> Nat] /\ peers'[q] = Pruned(q)
        /\ peers' \in [Proc -> [Proc -> Nat]]
    <2>1. Pruned(q) \in [Proc -> Nat]
      BY DEF Pruned, PresenceInv, PresenceTypeOK
    <2> QED
      BY <1>1, <2>1 DEF PresenceInv, PresenceTypeOK
  <1>4. \A x \in Proc : /\ peers'[q][x] \in {0, peers[q][x]}
                        /\ peers'[q][x] # 0 => nowMs - peers[q][x] <= PresenceStale
                        /\ nowMs - peers[q][x] <= PresenceStale => peers'[q][x] = peers[q][x]
    <2> TAKE x \in Proc
    <2>1. peers'[q][x] = IF nowMs - peers[q][x] > PresenceStale THEN 0 ELSE peers[q][x]
      BY <1>3 DEF Pruned, Stale
    <2>2. peers[q][x] \in Nat /\ nowMs - peers[q][x] \in Int
      BY <1>2 DEF PresenceInv, PresenceTypeOK
    <2> QED
      BY <2>1, <2>2, PresenceNumbers
  <1>5. PresenceTypeOK'
    BY <1>1, <1>2, <1>3, FlightsSent DEF PresenceInv, PresenceTypeOK, Up
  <1>6. \A p \in Proc : life'[p] = "up" => due'[p] \in nowMs..(nowMs + PresenceInterval)
    BY <1>1, <1>2, PresenceNumbers DEF PresenceInv
  <1>7. \A m \in wire' : ReportOK(m)'
    <2> TAKE m \in wire'
    <2>1. CASE m \in wire
      <3>1. ReportOK(m) /\ m.from \in Proc /\ m.to \in Proc /\ m.by \in Nat
        BY <2>1 DEF PresenceInv, PresenceTypeOK
      <3>2. due[m.from] <= due'[m.from] /\ due[m.from] \in Nat /\ due'[m.from] \in Nat
        BY <3>1, <1>1, <1>2, PresenceNumbers DEF PresenceInv, PresenceTypeOK
      <3> QED
        BY <3>1, <3>2, <1>1, PresenceNumbers DEF ReportOK
    <2>2. CASE m \notin wire
      <3>1. m.from = q /\ m.to \in Up /\ m.by = nowMs + MaxDelay
        BY <2>2, <1>1, FlightsSent DEF Up
      <3> QED
        BY <3>1, <1>1, <1>2, PresenceNumbers DEF ReportOK, Up
    <2> QED
      BY <2>1, <2>2
  <1>8. \A p, x \in Proc : IsFiniteSet(Flight(x, p)')
    BY <1>1, FlightsSent DEF Up
  <1>9. \A p, x \in Proc : KnownOK(p, x)'
    <2> TAKE p, x \in Proc
    <2>1. KnownOK(p, x) /\ peers[p][x] \in Nat
      BY DEF PresenceInv, PresenceTypeOK
    <2>2. CASE p # q
      BY <2>1, <2>2, <1>1, <1>2 DEF KnownOK
    <2>3. CASE p = q
      <3>1. peers'[q][x] <= peers[q][x] /\ peers'[q][x] \in Nat
        BY <2>1, <2>3, <1>4
      <3>2. life[x] = "dead" => died[x] \in Nat
        BY DEF PresenceInv, PresenceTypeOK
      <3> QED
        BY <2>1, <2>3, <3>1, <3>2, <1>1, <1>2, <1>4, PresenceNumbers DEF KnownOK
    <2> QED
      BY <2>2, <2>3
  <1>10. ASSUME NEW p \in Up', NEW x \in Up', p # x, missed'[p][x] <= Losses
         PROVE  Heard(p, x)'
    <2>1. p \in Proc /\ x \in Proc /\ p \in Up /\ x \in Up
      BY <1>1 DEF Up
    <2>2. Heard(p, x) /\ missed[p][x] <= Losses
      BY <2>1, <1>1, <1>10 DEF PresenceInv
    <2>3. peers'[p][x] = peers[p][x]
      <3>1. nowMs - peers[p][x] <= PresenceStale
        BY <2>1, <2>2, <1>10, HeardIsFresh
      <3> QED
        BY <2>1, <3>1, <1>2, <1>4
    <2>4. CASE x = q
      BY <2>1, <2>2, <2>3, <2>4, <1>1, <1>2, <1>10, HeardAfterTurn
    <2>5. CASE x # q
      <3>1. Flight(x, p)' = Flight(x, p)
        BY <2>1, <2>5, <1>1, FlightsSent DEF Up
      <3> QED
        BY <2>1, <2>2, <2>3, <2>5, <3>1, <1>1, <1>2, HeardStays
    <2> QED
      BY <2>4, <2>5
  <1> QED
    BY <1>1, <1>5, <1>6, <1>7, <1>8, <1>9, <1>10 DEF PresenceInv

\* What a report that is over leaves as it was.
LEMMA WireOver ==
  ASSUME PresenceInv, NEW m \in wire, wire' = wire \ {m},
         UNCHANGED <<nowMs, life, died, due>>
  PROVE  /\ \A q \in Proc : life'[q] = "up" => due'[q] \in nowMs'..(nowMs' + PresenceInterval)
         /\ \A n \in wire' : ReportOK(n)'
         /\ \A p, q \in Proc : IsFiniteSet(Flight(q, p)')
  BY FlightsOver DEF PresenceInv, ReportOK

\* After a report has come, those that are left began no later than now.
LEMMA HeardNow ==
  ASSUME PresenceInv, NEW m \in wire, wire' = wire \ {m}, NEW p \in Proc, NEW q \in Proc,
         m.from = q, m.to = p, life[q] = "up", peers'[p][q] = nowMs, missed'[p][q] = 0,
         UNCHANGED <<nowMs, due>>
  PROVE  Heard(p, q)'
  <1>1. /\ nowMs \in Nat \ {0} /\ due[q] \in Nat /\ due[q] <= nowMs + PresenceInterval
    BY DEF PresenceInv, PresenceTypeOK
  <1>2. IsFiniteSet(Flight(q, p)') /\ Cardinality(Flight(q, p)') \in Nat
    BY FlightsOver, FS_CardinalityType
  <1>3. \A k \in Nat : Span(k + 1) \in Nat /\ PresenceInterval <= Span(k + 1)
    <2> TAKE k \in Nat
    <2>1. Span(k) \in Nat /\ Span(k + 1) = Span(k) + PresenceInterval /\ Span(k + 1) \in Nat
      BY SpanGrows
    <2> QED
      BY <2>1, PresenceNumbers
  <1>4. due[q] <= nowMs + Span(0 + Cardinality(Flight(q, p)') + 1)
    <2>1. 0 + Cardinality(Flight(q, p)') + 1 = Cardinality(Flight(q, p)') + 1
      BY <1>2
    <2> QED
      BY <2>1, <1>1, <1>2, <1>3, PresenceNumbers
  <1>5. ASSUME NEW n \in Flight(q, p)'
        PROVE  n.by - MaxDelay <= nowMs + Span(0 + Cardinality(Older(n)') + 1)
    <2>1. n \in Flight(m.from, m.to) /\ n \in wire
      BY <1>5, FlightsOver DEF Flight
    <2>2. Cardinality(Older(n)') \in Nat
      BY <2>1, OlderOver
    <2>3. n.by \in Nat /\ n.by <= nowMs + MaxDelay
      BY <2>1, <1>1, PresenceNumbers DEF PresenceInv, PresenceTypeOK, ReportOK
    <2>4. 0 + Cardinality(Older(n)') + 1 = Cardinality(Older(n)') + 1
      BY <2>2
    <2> QED
      BY <2>2, <2>3, <2>4, <1>1, <1>3, PresenceNumbers
  <1> QED
    BY <1>1, <1>4, <1>5 DEF Heard, Span

LEMMA OnReportOK ==
  ASSUME PresenceInv, NEW m \in wire, OnReport(m)
  PROVE  PresenceInv'
  <1>1. life[m.to] = "up" /\ wire' = wire \ {m} /\ UNCHANGED <<nowMs, life, died, due>>
    BY DEF OnReport
  <1>2. m.from \in Proc /\ m.to \in Proc /\ ReportOK(m) /\ nowMs \in Nat \ {0}
        /\ m.by \in Nat
    BY DEF PresenceInv, PresenceTypeOK
  <1>3. CASE m.from = m.to
    <2>1. UNCHANGED <<peers, missed>>
      BY <1>3 DEF OnReport
    <2>2. PresenceTypeOK'
      BY <1>1, <2>1, FlightsOver DEF PresenceInv, PresenceTypeOK
    <2>3. \A p, q \in Proc : KnownOK(p, q)'
      BY <1>1, <2>1 DEF PresenceInv, KnownOK
    <2>4. ASSUME NEW p \in Up', NEW q \in Up', p # q, missed'[p][q] <= Losses
          PROVE  Heard(p, q)'
      <3>1. p \in Up /\ q \in Up /\ Heard(p, q) /\ p \in Proc /\ q \in Proc
        BY <1>1, <2>1, <2>4 DEF PresenceInv, Up
      <3>2. Flight(q, p)' = Flight(q, p)
        BY <3>1, <1>1, <1>3, <2>4, FlightsOver
      <3> QED
        BY <3>1, <3>2, <1>1, <1>2, <2>1, HeardStays
    <2> QED
      BY <1>1, <2>2, <2>3, <2>4, WireOver DEF PresenceInv
  <1>4. CASE m.from # m.to
    <2>1. /\ peers' = [peers EXCEPT ![m.to][m.from] = nowMs]
          /\ missed' = [missed EXCEPT ![m.to][m.from] = 0]
      BY <1>4 DEF OnReport
    <2>2. /\ peers' \in [Proc -> [Proc -> Nat]] /\ missed' \in [Proc -> [Proc -> Nat]]
          /\ peers'[m.to][m.from] = nowMs /\ missed'[m.to][m.from] = 0
          /\ \A p, q \in Proc : p # m.to \/ q # m.from =>
                peers'[p][q] = peers[p][q] /\ missed'[p][q] = missed[p][q]
      BY <1>2, <2>1 DEF PresenceInv, PresenceTypeOK
    <2>3. PresenceTypeOK'
      BY <1>1, <2>2, FlightsOver DEF PresenceInv, PresenceTypeOK
    <2>4. \A p, q \in Proc : KnownOK(p, q)'
      <3> TAKE p, q \in Proc
      <3>1. KnownOK(p, q)
        BY DEF PresenceInv
      <3>2. CASE p # m.to \/ q # m.from
        BY <3>1, <3>2, <1>1, <2>2 DEF KnownOK
      <3>3. CASE p = m.to /\ q = m.from
        <4>1. life[p] = "up" /\ life[q] # "new" /\ nowMs <= m.by
          BY <3>3, <1>1, <1>2 DEF ReportOK
        <4>2. life[q] = "dead" => nowMs <= died[q] + MaxDelay
          BY <3>3, <4>1, <1>2, PresenceNumbers DEF ReportOK, PresenceInv, PresenceTypeOK
        <4>3. due[p] \in Nat /\ due[p] <= nowMs + PresenceInterval
          BY <4>1 DEF PresenceInv, PresenceTypeOK
        <4> QED
          BY <3>3, <4>1, <4>2, <4>3, <1>1, <1>2, <2>2, PresenceNumbers DEF KnownOK
      <3> QED
        BY <3>2, <3>3
    <2>5. ASSUME NEW p \in Up', NEW q \in Up', p # q, missed'[p][q] <= Losses
          PROVE  Heard(p, q)'
      <3>1. p \in Up /\ q \in Up /\ p \in Proc /\ q \in Proc /\ life[q] = "up"
        BY <1>1 DEF Up
      <3>2. CASE p # m.to \/ q # m.from
        <4>1. Heard(p, q)
          BY <3>1, <3>2, <2>2, <2>5 DEF PresenceInv
        <4>2. Flight(q, p)' = Flight(q, p)
          BY <3>1, <3>2, <1>1, FlightsOver
        <4> QED
          BY <3>1, <3>2, <4>1, <4>2, <1>1, <1>2, <2>2, HeardStays
      <3>3. CASE p = m.to /\ q = m.from
        BY <3>1, <3>3, <1>1, <2>2, HeardNow
      <3> QED
        BY <3>2, <3>3
    <2> QED
      BY <1>1, <2>3, <2>4, <2>5, WireOver DEF PresenceInv
  <1> QED
    BY <1>3, <1>4

\* A report less on its way, and one more missed.
LEMMA HeardAfterLoss ==
  ASSUME PresenceInv, NEW m \in wire, wire' = wire \ {m}, NEW p \in Proc, NEW q \in Proc,
         m.from = q, m.to = p, Heard(p, q), missed'[p][q] = missed[p][q] + 1,
         UNCHANGED <<nowMs, peers[p][q], due[q]>>
  PROVE  Heard(p, q)'
  <1> DEFINE F == Flight(q, p)
             r == peers[p][q]
             k == missed[p][q]
  <1>1. k \in Nat /\ nowMs \in Nat /\ r \in 1..nowMs /\ due[q] \in Nat
    BY DEF PresenceInv, PresenceTypeOK, Heard
  <1>2. IsFiniteSet(F) /\ Cardinality(F) \in Nat /\ m \in F /\ Flight(q, p)' = F \ {m}
    BY FlightsOver, FS_CardinalityType DEF PresenceInv
  <1>3. Cardinality(Flight(q, p)') = Cardinality(F) - 1
    BY <1>2, FS_RemoveElement
  <1>4. k + 1 + Cardinality(Flight(q, p)') + 1 = k + Cardinality(F) + 1
    BY <1>1, <1>2, <1>3
  <1>5. due[q] <= r + Span(k + 1 + Cardinality(Flight(q, p)') + 1)
    BY <1>4 DEF Heard
  <1>6. ASSUME NEW n \in Flight(q, p)'
        PROVE  n.by - MaxDelay <= r + Span(k + 1 + Cardinality(Older(n)') + 1)
    <2>1. n \in F /\ n \in Flight(m.from, m.to) /\ n \in wire /\ n.by \in Nat
      BY <1>2, <1>6 DEF Flight, PresenceInv, PresenceTypeOK
    <2> DEFINE a == k + Cardinality(Older(n)) + 1
               b == k + 1 + Cardinality(Older(n)') + 1
    <2>2. a \in Nat /\ b \in Nat /\ a <= b
      BY <2>1, <1>1, OlderOver
    <2>3. n.by - MaxDelay <= r + Span(a)
      BY <2>1 DEF Heard
    <2>4. Span(a) \in Nat /\ Span(b) \in Nat /\ Span(a) <= Span(b)
      <3> HIDE DEF a, b
      <3> QED
        BY <2>2, SpanGrows
    <2> HIDE DEF a
    <2>5. n.by - MaxDelay <= r + Span(b)
      <3> HIDE DEF b
      <3> QED
        BY <2>1, <2>3, <2>4, <1>1, PresenceNumbers
    <2> QED
      BY <2>5
  <1> QED
    BY <1>1, <1>5, <1>6 DEF Heard, Span

LEMMA LoseReportOK ==
  ASSUME PresenceInv, NEW m \in wire, LoseReport(m)
  PROVE  PresenceInv'
  <1>1. /\ wire' = wire \ {m} /\ UNCHANGED <<nowMs, life, died, due, peers>>
        /\ missed' = [missed EXCEPT ![m.to][m.from] = IF @ > Losses THEN @ ELSE @ + 1]
    BY DEF LoseReport
  <1>2. m.from \in Proc /\ m.to \in Proc /\ nowMs \in Nat \ {0}
    BY DEF PresenceInv, PresenceTypeOK
  <1>3. /\ missed' \in [Proc -> [Proc -> Nat]]
        /\ missed'[m.to][m.from] = IF missed[m.to][m.from] > Losses
                                   THEN missed[m.to][m.from] ELSE missed[m.to][m.from] + 1
        /\ \A p, q \in Proc : p # m.to \/ q # m.from => missed'[p][q] = missed[p][q]
    BY <1>1, <1>2 DEF PresenceInv, PresenceTypeOK
  <1>4. PresenceTypeOK'
    BY <1>1, <1>3, FlightsOver DEF PresenceInv, PresenceTypeOK
  <1>5. \A p, q \in Proc : missed'[p][q] >= missed[p][q] /\ missed[p][q] \in Nat
                           /\ missed'[p][q] \in Nat
    <2> TAKE p, q \in Proc
    <2>1. missed[p][q] \in Nat /\ missed'[p][q] \in Nat
      BY <1>3 DEF PresenceInv, PresenceTypeOK
    <2>2. CASE p # m.to \/ q # m.from
      BY <2>1, <2>2, <1>3
    <2>3. CASE p = m.to /\ q = m.from
      BY <2>1, <2>3, <1>3
    <2> QED
      BY <2>1, <2>2, <2>3
  <1>6. \A p, q \in Proc : KnownOK(p, q)'
    <2> TAKE p, q \in Proc
    <2>1. KnownOK(p, q)
      BY DEF PresenceInv
    <2> QED
      BY <2>1, <1>1, <1>5, PresenceNumbers DEF KnownOK
  <1>7. ASSUME NEW p \in Up', NEW q \in Up', p # q, missed'[p][q] <= Losses
        PROVE  Heard(p, q)'
    <2>1. p \in Up /\ q \in Up /\ p \in Proc /\ q \in Proc
      BY <1>1 DEF Up
    <2>2. Heard(p, q)
      BY <2>1, <1>5, <1>7, PresenceNumbers DEF PresenceInv
    <2>3. CASE p # m.to \/ q # m.from
      <3>1. Flight(q, p)' = Flight(q, p)
        BY <2>1, <2>3, <1>1, FlightsOver
      <3> QED
        BY <2>1, <2>2, <2>3, <3>1, <1>1, <1>2, <1>3, HeardStays
    <2>4. CASE p = m.to /\ q = m.from
      <3>1. missed'[p][q] = missed[p][q] + 1
        BY <2>1, <2>4, <1>3, <1>5, <1>7, PresenceNumbers
      <3> QED
        BY <2>1, <2>2, <2>4, <3>1, <1>1, HeardAfterLoss
    <2> QED
      BY <2>3, <2>4
  <1> QED
    BY <1>1, <1>4, <1>6, <1>7, WireOver DEF PresenceInv

LEMMA DieOK ==
  ASSUME PresenceInv, NEW x \in Proc, Die(x)
  PROVE  PresenceInv'
  <1>1. /\ life[x] = "up" /\ life' = [life EXCEPT ![x] = "dead"]
        /\ died' = [died EXCEPT ![x] = nowMs]
        /\ wire' = {m \in wire : m.to # x}
        /\ UNCHANGED <<nowMs, due, peers, missed>>
    BY DEF Die
  <1>2. /\ life' \in [Proc -> {"new", "up", "dead"}] /\ life'[x] = "dead"
        /\ died' \in [Proc -> Nat] /\ died'[x] = nowMs /\ nowMs \in Nat \ {0}
        /\ \A q \in Proc : q # x => life'[q] = life[q] /\ died'[q] = died[q]
    BY <1>1 DEF PresenceInv, PresenceTypeOK
  <1>3. PresenceTypeOK'
    BY <1>1, <1>2 DEF PresenceInv, PresenceTypeOK
  <1>4. \A q \in Proc : life'[q] = "up" => due'[q] \in nowMs'..(nowMs' + PresenceInterval)
    BY <1>1, <1>2 DEF PresenceInv
  <1>5. \A m \in wire' : ReportOK(m)'
    <2> TAKE m \in wire'
    <2>1. m \in wire /\ ReportOK(m) /\ m.from \in Proc /\ m.to \in Proc /\ m.to # x
          /\ m.by \in Nat
      BY <1>1 DEF PresenceInv, PresenceTypeOK
    <2>2. m.by <= nowMs + MaxDelay
      BY <2>1, <1>2, PresenceNumbers DEF ReportOK
    <2> QED
      BY <2>1, <2>2, <1>1, <1>2 DEF ReportOK
  <1>6. \A p, q \in Proc : p # x => Flight(q, p)' = Flight(q, p)
    BY <1>1 DEF Flight
  <1>7. \A p, q \in Proc : IsFiniteSet(Flight(q, p)')
    <2> TAKE p, q \in Proc
    <2>1. IsFiniteSet(Flight(q, p)) /\ Flight(q, p)' \subseteq Flight(q, p)
      BY <1>1 DEF PresenceInv, Flight
    <2> QED
      BY <2>1, FS_Subset
  <1>8. \A p, q \in Proc : KnownOK(p, q)'
    <2> TAKE p, q \in Proc
    <2>1. KnownOK(p, q) /\ peers[p][q] \in Nat
      BY DEF PresenceInv, PresenceTypeOK
    <2>2. CASE q # x
      BY <2>1, <2>2, <1>1, <1>2 DEF KnownOK
    <2>3. CASE q = x
      <3>1. peers[p][q] <= nowMs
        BY <2>1 DEF KnownOK
      <3> QED
        BY <2>1, <2>3, <3>1, <1>1, <1>2, PresenceNumbers DEF KnownOK
    <2> QED
      BY <2>2, <2>3
  <1>9. ASSUME NEW p \in Up', NEW q \in Up', p # q, missed'[p][q] <= Losses
        PROVE  Heard(p, q)'
    <2>1. p \in Up /\ q \in Up /\ p \in Proc /\ q \in Proc /\ p # x
      BY <1>2 DEF Up
    <2>2. Heard(p, q)
      BY <2>1, <1>1, <1>9 DEF PresenceInv
    <2> QED
      BY <2>1, <2>2, <1>1, <1>2, <1>6, HeardStays
  <1> QED
    BY <1>3, <1>4, <1>5, <1>7, <1>8, <1>9 DEF PresenceInv

LEMMA PresenceTickOK ==
  ASSUME PresenceInv, PresenceTick
  PROVE  PresenceInv'
  <1>1. /\ \A p \in Up : due[p] > nowMs
        /\ \A m \in wire : m.by > nowMs
        /\ nowMs' = nowMs + 1 /\ nowMs \in Nat \ {0}
        /\ UNCHANGED <<life, died, due, peers, wire, missed>>
    BY DEF PresenceTick, ClockTick, PresenceInv, PresenceTypeOK
  <1>2. PresenceTypeOK' /\ Up' = Up
    BY <1>1 DEF PresenceInv, PresenceTypeOK, Up
  <1>3. \A q \in Proc : life'[q] = "up" => due'[q] \in nowMs'..(nowMs' + PresenceInterval)
    BY <1>1, PresenceNumbers DEF PresenceInv, Up
  <1>4. \A m \in wire' : ReportOK(m)'
    <2> TAKE m \in wire'
    <2>1. ReportOK(m) /\ m.by > nowMs /\ m.by \in Nat
      BY <1>1 DEF PresenceInv, PresenceTypeOK
    <2> QED
      BY <2>1, <1>1, PresenceNumbers DEF ReportOK
  <1>5. \A p, q \in Proc : Flight(q, p)' = Flight(q, p)
    BY <1>1 DEF Flight
  <1>6. \A p, q \in Proc : IsFiniteSet(Flight(q, p)') /\ KnownOK(p, q)'
    <2> TAKE p, q \in Proc
    <2>1. IsFiniteSet(Flight(q, p)') /\ KnownOK(p, q) /\ peers[p][q] \in Nat
      BY <1>5 DEF PresenceInv, PresenceTypeOK
    <2> QED
      BY <2>1, <1>1 DEF KnownOK
  <1>7. ASSUME NEW p \in Up', NEW q \in Up', p # q, missed'[p][q] <= Losses
        PROVE  Heard(p, q)'
    <2>1. p \in Up /\ q \in Up /\ p \in Proc /\ q \in Proc
      BY <1>2 DEF Up
    <2>2. Heard(p, q)
      BY <2>1, <1>1, <1>7 DEF PresenceInv
    <2> QED
      BY <2>1, <2>2, <1>1, <1>5, HeardStays
  <1> QED
    BY <1>2, <1>3, <1>4, <1>6, <1>7 DEF PresenceInv

LEMMA PresenceInductive == PresenceInv /\ [PresenceNext]_presenceVars => PresenceInv'
  <1> SUFFICES ASSUME PresenceInv, [PresenceNext]_presenceVars PROVE PresenceInv'
    OBVIOUS
  <1>1. CASE UNCHANGED presenceVars
    <2>1. UNCHANGED <<nowMs, life, died, due, peers, wire, missed>>
      BY <1>1 DEF presenceVars
    <2>2. PresenceTypeOK' /\ Up' = Up
      BY <2>1 DEF PresenceInv, PresenceTypeOK, Up
    <2>3. \A p, q \in Proc : Flight(q, p)' = Flight(q, p)
      BY <2>1 DEF Flight
    <2>4. \A p, q \in Proc : IsFiniteSet(Flight(q, p)') /\ KnownOK(p, q)'
      BY <2>1, <2>3 DEF PresenceInv, KnownOK
    <2>5. \A m \in wire' : ReportOK(m)'
      BY <2>1 DEF PresenceInv, ReportOK
    <2>6. ASSUME NEW p \in Up', NEW q \in Up', p # q, missed'[p][q] <= Losses
          PROVE  Heard(p, q)'
      <3>1. p \in Proc /\ q \in Proc /\ Heard(p, q) /\ nowMs \in Nat
        BY <2>1, <2>2, <2>6 DEF PresenceInv, PresenceTypeOK, Up
      <3> QED
        BY <3>1, <2>1, <2>3, HeardStays
    <2> QED
      BY <2>1, <2>2, <2>4, <2>5, <2>6 DEF PresenceInv
  <1> QED
    BY <1>1, StartPresenceOK, PresenceTicksOK, DieOK, OnReportOK, LoseReportOK,
       PresenceTickOK
    DEF PresenceNext

\* Whatever reports are delayed, lost and overtaken, and whoever ends and starts: a
\* process that lives is counted by all that have heard of it of late, and one that
\* has ended is dropped in time.
THEOREM PresenceIsHonest == PresenceSpec => []PresenceHonest
  <1>1. PresenceInit => PresenceInv
    <2> SUFFICES ASSUME PresenceInit PROVE PresenceInv
      OBVIOUS
    <2>1. \A p, q \in Proc : Flight(q, p) = {}
      BY DEF PresenceInit, Flight
    <2>2. PresenceTypeOK /\ Up = {}
      BY PresenceNumbers DEF PresenceInit, PresenceTypeOK, ClockInit, Never, Up
    <2>3. \A p, q \in Proc : KnownOK(p, q)
      <3> TAKE p, q \in Proc
      <3>1. /\ life[p] = "new" /\ life[q] = "new" /\ peers[p][q] = 0
            /\ missed[p][q] = Losses + 1 /\ nowMs = 1
        BY DEF PresenceInit, Never, ClockInit
      <3> QED
        BY <3>1, PresenceNumbers DEF KnownOK
    <2> QED
      BY <2>1, <2>2, <2>3, FS_EmptySet DEF PresenceInv, PresenceInit, Up
  <1> QED
    BY <1>1, PresenceInductive, PresenceSafe, PTL DEF PresenceSpec

-----------------------------------------------------------------------------
(* Round-trip statistics.                                                   *)

\* A moment that is stored, about to be stored or read is none after the last pong.
Bygone(c) ==
    /\ came[c] <= nowMs /\ rttAtMs[c] <= came[c] /\ writing[c] <= came[c]
    /\ Len(loaded[c]) = 2 => loaded[c][2] <= came[c]

AnswerOK ==
    /\ stats.clients = stats.sampled + stats.noSample + stats.stale
    /\ stats.sampled = stats.buckets[1] + stats.buckets[2] + stats.buckets[3]
                       + stats.buckets[4]
    /\ stats.p50 <= stats.p95
    /\ stats.sampled > 0 => /\ stats.buckets[BucketOf(stats.p50)] > 0
                            /\ stats.buckets[BucketOf(stats.p95)] > 0

ClockStatsInv ==
    /\ nowMs \in Nat \ {0} /\ asked \in Nat
    /\ {rttMs, rttAtMs, writing, came} \subseteq [Member -> Nat]
    /\ loaded \in [Member -> Seq(Nat)]
    /\ \A c \in Member : Bygone(c)
    /\ AnswerOK

\* All have been read.
AllRead == /\ ClockStatsInv /\ \A c \in Member : Len(loaded[c]) = 2

LEMMA CountOf ==
  ASSUME NEW S \in SUBSET Member
  PROVE  IsFiniteSet(S) /\ Cardinality(S) \in Nat
  BY FS_Subset, FS_CardinalityType, ClockStatsAssumption

\* Two parts of the members that share nobody.
LEMMA CountsAdd ==
  ASSUME NEW S \in SUBSET Member, NEW T \in SUBSET Member, S \cap T = {}
  PROVE  Cardinality(S \cup T) = Cardinality(S) + Cardinality(T)
  <1>1. IsFiniteSet(S) /\ IsFiniteSet(T) /\ Cardinality(S) \in Nat /\ Cardinality(T) \in Nat
    BY CountOf
  <1>2. Cardinality(S \cup T) = Cardinality(S) + Cardinality(T) - Cardinality(S \cap T)
    BY <1>1, FS_Union
  <1>3. Cardinality(S \cap T) = 0
    BY FS_EmptySet
  <1> QED
    BY <1>1, <1>2, <1>3

LEMMA SomeCounted ==
  ASSUME NEW S \in SUBSET Member, NEW c \in S
  PROVE  Cardinality(S) > 0
  <1>1. IsFiniteSet(S) /\ Cardinality(S) \in Nat /\ S # {}
    BY CountOf
  <1> QED
    BY <1>1, FS_EmptySet

LEMMA CountsGrow ==
  ASSUME NEW T \in SUBSET Member, NEW S \in SUBSET T
  PROVE  Cardinality(S) <= Cardinality(T)
  BY CountOf, FS_Subset

\* Each client is in one of the three groups.
LEMMA GroupsAdd ==
  Cardinality(Member) = Cardinality(FreshSample) + Cardinality(NoSample)
                        + Cardinality(StaleSample)
  <1>1. NoSample \in SUBSET Member /\ StaleSample \in SUBSET Member
        /\ FreshSample \in SUBSET Member /\ NoSample \cap StaleSample = {}
        /\ NoSample \cup StaleSample \in SUBSET Member
    BY DEF NoSample, StaleSample, FreshSample
  <1>2. Cardinality(NoSample \cup StaleSample)
            = Cardinality(NoSample) + Cardinality(StaleSample)
    BY <1>1, CountsAdd
  <1>3. Member = FreshSample \cup (NoSample \cup StaleSample)
        /\ FreshSample \cap (NoSample \cup StaleSample) = {}
    BY <1>1 DEF FreshSample
  <1>4. Cardinality(Member)
            = Cardinality(FreshSample) + Cardinality(NoSample \cup StaleSample)
    BY <1>1, <1>3, CountsAdd
  <1>5. /\ Cardinality(FreshSample) \in Nat /\ Cardinality(NoSample) \in Nat
        /\ Cardinality(StaleSample) \in Nat
    BY <1>1, CountOf
  <1> QED
    BY <1>2, <1>4, <1>5

\* The fresh ones whose round trip lies in a range, by the ends of the range.
Range2(lo, hi) == {c \in FreshSample : loaded[c][1] \in lo..(hi - 1)}
Beyond2(lo) == {c \in FreshSample : loaded[c][1] >= lo}

LEMMA FreshTimes ==
  ASSUME AllRead
  PROVE  /\ FreshSample \in SUBSET Member
         /\ \A c \in FreshSample : loaded[c][1] \in Nat
         /\ \A lo, hi : Range2(lo, hi) \in SUBSET Member
                        /\ Cardinality(Range2(lo, hi)) = Within(lo, hi)
                        /\ Within(lo, hi) \in Nat
         /\ \A lo : Beyond2(lo) \in SUBSET Member
                    /\ Cardinality(Beyond2(lo)) = Beyond(lo) /\ Beyond(lo) \in Nat
  <1>1. FreshSample \in SUBSET Member
    BY DEF FreshSample
  <1>2. \A c \in FreshSample : loaded[c][1] \in Nat
    <2>1. \A c \in Member : loaded[c] \in Seq(Nat) /\ Len(loaded[c]) = 2
      BY DEF AllRead, ClockStatsInv
    <2> QED
      BY <1>1, <2>1
  <1>3. ASSUME NEW lo, NEW hi
        PROVE  /\ Range2(lo, hi) \in SUBSET Member /\ Within(lo, hi) \in Nat
               /\ Cardinality(Range2(lo, hi)) = Within(lo, hi)
    <2>1. Range2(lo, hi) \in SUBSET Member
      BY <1>1 DEF Range2
    <2>2. Cardinality(Range2(lo, hi)) = Within(lo, hi)
      BY DEF Range2, Within
    <2> QED
      BY <2>1, <2>2, CountOf
  <1>4. ASSUME NEW lo
        PROVE  /\ Beyond2(lo) \in SUBSET Member /\ Beyond(lo) \in Nat
               /\ Cardinality(Beyond2(lo)) = Beyond(lo)
    <2>1. Beyond2(lo) \in SUBSET Member
      BY <1>1 DEF Beyond2
    <2>2. Cardinality(Beyond2(lo)) = Beyond(lo)
      BY DEF Beyond2, Beyond
    <2> QED
      BY <2>1, <2>2, CountOf
  <1> QED
    BY <1>1, <1>2, <1>3, <1>4

\* Each fresh one is in one of the four buckets.
LEMMA BucketsAdd ==
  ASSUME AllRead
  PROVE  Cardinality(FreshSample) = Within(0, Lt10) + Within(Lt10, Lt30)
                                    + Within(Lt30, Lt100) + Beyond(Lt100)
  <1> DEFINE A == Range2(0, Lt10)
             B == Range2(Lt10, Lt30)
             C == Range2(Lt30, Lt100)
             D == Beyond2(Lt100)
  <1>1. Lt10 \in Nat /\ Lt30 \in Nat /\ Lt100 \in Nat /\ Lt10 < Lt30 /\ Lt30 < Lt100
    BY ClockStatsAssumption
  <1>2. \A c \in FreshSample : loaded[c][1] \in Nat
    BY FreshTimes
  <1>3. A \cap B = {} /\ (A \cup B) \cap C = {} /\ (A \cup B \cup C) \cap D = {}
    BY <1>1, <1>2 DEF Range2, Beyond2
  <1>4. FreshSample = (A \cup B \cup C) \cup D
    BY <1>1, <1>2 DEF Range2, Beyond2
  <1>5. /\ A \in SUBSET Member /\ B \in SUBSET Member /\ C \in SUBSET Member
        /\ D \in SUBSET Member
        /\ Cardinality(A) = Within(0, Lt10) /\ Cardinality(B) = Within(Lt10, Lt30)
        /\ Cardinality(C) = Within(Lt30, Lt100) /\ Cardinality(D) = Beyond(Lt100)
        /\ Within(0, Lt10) \in Nat /\ Within(Lt10, Lt30) \in Nat
        /\ Within(Lt30, Lt100) \in Nat /\ Beyond(Lt100) \in Nat
    BY FreshTimes
  <1> HIDE DEF A, B, C, D
  <1>6. Cardinality(A \cup B) = Cardinality(A) + Cardinality(B)
    BY <1>3, <1>5, CountsAdd
  <1>7. Cardinality((A \cup B) \cup C) = Cardinality(A \cup B) + Cardinality(C)
    BY <1>3, <1>5, CountsAdd
  <1>8. Cardinality((A \cup B \cup C) \cup D) = Cardinality(A \cup B \cup C) + Cardinality(D)
    BY <1>3, <1>5, CountsAdd
  <1> QED
    BY <1>4, <1>5, <1>6, <1>7, <1>8

\* The round trip that has k fresh ones before it: there is one when k is less than
\* their number.
AtRank(k, ms) ==
    /\ ms \in {loaded[c][1] : c \in FreshSample}
    /\ Within(0, ms) <= k /\ k < Within(0, ms + 1)

\* The values that a function takes on a finite set have a greatest.
LEMMA FiniteMax ==
  ASSUME NEW F, IsFiniteSet(F), F # {}, NEW f \in [F -> Int]
  PROVE  \E c \in F : \A d \in F : f[d] <= f[c]
  <1> DEFINE Above(c) == {d \in F : f[d] > f[c]}
             T == {Cardinality(Above(c)) : c \in F}
  <1>1. \A c \in F : IsFiniteSet(Above(c)) /\ Cardinality(Above(c)) \in Nat
    BY FS_Subset, FS_CardinalityType
  <1>2. T \in SUBSET Nat /\ T # {}
    BY <1>1
  <1>3. PICK n \in T : \A y \in T : <<y, n>> \notin OpToRel(<, Nat)
    <2> HIDE DEF T
    <2> QED
      BY <1>2, WFMin, NatLessThanWellFounded, Zenon
  <1>4. n \in Nat /\ \A y \in T : y \in Nat /\ ~(y < n)
    <2>1. \A y \in T : y \in Nat
      BY <1>2
    <2>2. \A y \in T : ~(y < n)
      BY <1>2, <1>3, <2>1, Zenon DEF OpToRel
    <2> QED
      BY <2>1, <2>2
  <1>5. PICK c \in F : n = Cardinality(Above(c))
    OBVIOUS
  <1>6. SUFFICES ASSUME NEW d \in F, f[d] > f[c] PROVE FALSE
    BY <1>5
  <1>7. Above(d) \in SUBSET Above(c)
    <2>1. \A e \in F : f[e] \in Int
      OBVIOUS
    <2>2. \A e \in F : f[e] > f[d] => f[e] > f[c]
      BY <2>1, <1>6
    <2> QED
      BY <2>2
  <1>8. d \in Above(c) /\ d \notin Above(d)
    BY <1>6
  <1> HIDE DEF Above
  <1>9. Cardinality(Above(d)) <= n /\ Cardinality(Above(d)) # n
    BY <1>1, <1>5, <1>7, <1>8, FS_Subset
  <1>10. Cardinality(Above(d)) \in T
    OBVIOUS
  <1>11. Cardinality(Above(d)) \in Nat /\ ~(Cardinality(Above(d)) < n)
    <2> HIDE DEF T
    <2> QED
      BY <1>4, <1>10
  <1> QED
    BY <1>4, <1>9, <1>11

LEMMA RankExists ==
  ASSUME AllRead, NEW k \in Nat, k < Cardinality(FreshSample)
  PROVE  \E ms : AtRank(k, ms)
  <1> DEFINE T == {n \in Nat : k < Within(0, n + 1)}
  <1>1. T # {}
    <2>1. PICK b \in Nat : \A c \in FreshSample : loaded[c][1] <= b
      <3> DEFINE f == [c \in FreshSample |-> loaded[c][1]]
      <3>1. IsFiniteSet(FreshSample) /\ FreshSample # {}
        BY FreshTimes, CountOf, FS_EmptySet
      <3>2. f \in [FreshSample -> Int] /\ \A c \in FreshSample : f[c] \in Nat
        BY FreshTimes
      <3>3. \E c \in FreshSample : \A d \in FreshSample : f[d] <= f[c]
        BY <3>1, <3>2, FiniteMax
      <3> QED
        BY <3>2, <3>3
    <2>2. Range2(0, b + 1) = FreshSample
      BY <2>1, FreshTimes DEF Range2
    <2>3. Within(0, b + 1) = Cardinality(FreshSample)
      BY <2>2, FreshTimes
    <2> QED
      BY <2>1, <2>3
  <1>2. PICK n \in T : \A y \in T : <<y, n>> \notin OpToRel(<, Nat)
    BY <1>1, WFMin, NatLessThanWellFounded, Zenon
  <1>3. n \in Nat /\ k < Within(0, n + 1) /\ \A y \in T : ~(y < n)
    BY <1>2, Zenon DEF OpToRel
  <1>4. Within(0, n) <= k
    <2>1. CASE n = 0
      <3>1. Range2(0, n) = {}
        BY <2>1 DEF Range2
      <3>2. Within(0, n) = 0
        BY <3>1, FreshTimes, FS_EmptySet
      <3> QED
        BY <3>2
    <2>2. CASE n # 0
      <3>1. n - 1 \in Nat /\ n - 1 < n /\ (n - 1) + 1 = n
        BY <2>2, <1>3
      <3>2. ~(k < Within(0, (n - 1) + 1))
        BY <3>1, <1>3
      <3>3. Within(0, n) \in Nat
        BY FreshTimes
      <3> QED
        BY <3>1, <3>2, <3>3
    <2> QED
      BY <2>1, <2>2
  <1>5. n \in {loaded[c][1] : c \in FreshSample}
    <2>1. SUFFICES ASSUME \A c \in FreshSample : loaded[c][1] # n PROVE FALSE
      OBVIOUS
    <2>2. Range2(0, n + 1) = Range2(0, n)
      BY <2>1, <1>3, FreshTimes DEF Range2
    <2>3. Within(0, n + 1) = Within(0, n) /\ Within(0, n) \in Nat
      BY <2>2, FreshTimes
    <2> QED
      BY <2>3, <1>3, <1>4
  <1> QED
    BY <1>3, <1>4, <1>5 DEF AtRank

LEMMA PercentileRank ==
  ASSUME AllRead, FreshSample # {}, NEW p \in {50, 95}
  PROVE  /\ (Cardinality(FreshSample) * p) \div 100 \in Nat
         /\ AtRank((Cardinality(FreshSample) * p) \div 100, Percentile(p))
  <1> DEFINE n == Cardinality(FreshSample)
             k == (n * p) \div 100
  <1>1. n \in Nat /\ n > 0
    BY FreshTimes, CountOf, FS_EmptySet
  <1>2. k \in Nat /\ k < n
    <2> HIDE DEF n
    <2>1. CASE p = 50
      BY <1>1, <2>1
    <2>2. CASE p = 95
      BY <1>1, <2>2
    <2> QED
      BY <2>1, <2>2
  <1>3. \E ms : AtRank(k, ms)
    <2> HIDE DEF k
    <2> QED
      BY <1>2, RankExists
  <1>4. Percentile(p) = CHOOSE ms \in {loaded[c][1] : c \in FreshSample} :
                            Within(0, ms) <= k /\ k < Within(0, ms + 1)
    BY DEF Percentile
  <1> HIDE DEF k
  <1>5. AtRank(k, Percentile(p))
    BY <1>3, <1>4 DEF AtRank
  <1> QED
    BY <1>2, <1>5 DEF k

LEMMA PercentilesOK ==
  ASSUME AllRead
  PROVE  /\ Percentile(50) <= Percentile(95)
         /\ Cardinality(FreshSample) > 0 =>
              \A p \in {50, 95} : Buckets[BucketOf(Percentile(p))] > 0
  <1>1. CASE FreshSample = {}
    BY <1>1, FS_EmptySet DEF Percentile
  <1>2. CASE FreshSample # {}
    <2> DEFINE n == Cardinality(FreshSample)
               a == (n * 50) \div 100
               b == (n * 95) \div 100
               v == Percentile(50)
               w == Percentile(95)
    <2>1. a \in Nat /\ b \in Nat /\ AtRank(a, v) /\ AtRank(b, w)
      BY <1>2, PercentileRank
    <2>2. a <= b
      <3>1. n \in Nat
        BY FreshTimes, CountOf
      <3> HIDE DEF n
      <3> QED
        BY <3>1
    <2> HIDE DEF n, a, b, v, w
    <2>3. v \in Nat /\ w \in Nat
      BY <2>1, FreshTimes DEF AtRank
    <2>4. v <= w
      <3>1. SUFFICES ASSUME w < v PROVE FALSE
        BY <2>3
      <3>2. Range2(0, w + 1) \in SUBSET Range2(0, v)
        BY <2>3, <3>1, FreshTimes DEF Range2
      <3>3. Within(0, w + 1) <= Within(0, v)
        BY <3>2, FreshTimes, CountsGrow
      <3>4. Within(0, w + 1) \in Nat /\ Within(0, v) \in Nat
        BY FreshTimes
      <3> QED
        BY <2>1, <2>2, <3>3, <3>4 DEF AtRank
    <2>5. ASSUME NEW p \in {50, 95} PROVE Buckets[BucketOf(Percentile(p))] > 0
      <3> DEFINE ms == Percentile(p)
      <3>1. PICK c \in FreshSample : ms = loaded[c][1]
        BY <1>2, PercentileRank DEF AtRank
      <3>2. ms \in Nat /\ {Lt10, Lt30, Lt100} \subseteq Nat /\ Lt10 < Lt30 /\ Lt30 < Lt100
        BY <3>1, FreshTimes, ClockStatsAssumption
      <3>3. /\ Buckets[1] = Within(0, Lt10) /\ Buckets[2] = Within(Lt10, Lt30)
            /\ Buckets[3] = Within(Lt30, Lt100) /\ Buckets[4] = Beyond(Lt100)
        BY DEF Buckets
      <3> HIDE DEF ms
      <3>4. CASE ms < Lt10
        <4>1. c \in Range2(0, Lt10) /\ BucketOf(ms) = 1
          BY <3>1, <3>2, <3>4 DEF Range2, BucketOf
        <4> QED
          BY <4>1, <3>3, FreshTimes, SomeCounted DEF ms
      <3>5. CASE ~(ms < Lt10) /\ ms < Lt30
        <4>1. c \in Range2(Lt10, Lt30) /\ BucketOf(ms) = 2
          BY <3>1, <3>2, <3>5 DEF Range2, BucketOf
        <4> QED
          BY <4>1, <3>3, FreshTimes, SomeCounted DEF ms
      <3>6. CASE ~(ms < Lt30) /\ ms < Lt100
        <4>1. c \in Range2(Lt30, Lt100) /\ BucketOf(ms) = 3
          BY <3>1, <3>2, <3>6 DEF Range2, BucketOf
        <4> QED
          BY <4>1, <3>3, FreshTimes, SomeCounted DEF ms
      <3>7. CASE ~(ms < Lt100)
        <4>1. c \in Beyond2(Lt100) /\ BucketOf(ms) = 4
          BY <3>1, <3>2, <3>7 DEF Beyond2, BucketOf
        <4> QED
          BY <4>1, <3>3, FreshTimes, SomeCounted DEF ms
      <3> QED
        BY <3>2, <3>4, <3>5, <3>6, <3>7
    <2> QED
      BY <2>4, <2>5 DEF v, w
  <1> QED
    BY <1>1, <1>2

\* Whatever the values that were read, the answer is consistent.
LEMMA AnswerIsOK ==
  ASSUME AllRead, Answer
  PROVE  AnswerOK'
  <1>1. /\ stats'.clients = Cardinality(Member) /\ stats'.sampled = Cardinality(FreshSample)
        /\ stats'.noSample = Cardinality(NoSample) /\ stats'.stale = Cardinality(StaleSample)
        /\ stats'.p50 = Percentile(50) /\ stats'.p95 = Percentile(95)
        /\ stats'.buckets = Buckets
    BY DEF Answer
  <1>2. Buckets[1] + Buckets[2] + Buckets[3] + Buckets[4] = Cardinality(FreshSample)
    BY BucketsAdd DEF Buckets
  <1>3. Percentile(50) <= Percentile(95)
    BY PercentilesOK
  <1>4. Cardinality(FreshSample) > 0 =>
            /\ Buckets[BucketOf(Percentile(50))] > 0
            /\ Buckets[BucketOf(Percentile(95))] > 0
    BY PercentilesOK
  <1> QED
    BY <1>1, <1>2, <1>3, <1>4, GroupsAdd DEF AnswerOK, BucketOf

LEMMA NoStatsOK == ASSUME stats = NoStats PROVE AnswerOK
  BY DEF NoStats, AnswerOK

LEMMA AppendLast ==
  ASSUME NEW s \in Seq(Nat), NEW e \in Nat
  PROVE  Append(s, e)[Len(s) + 1] = e
  OBVIOUS

LEMMA StatsInductive == ClockStatsInv /\ [ClockStatsNext]_clockStatsVars => ClockStatsInv'
  <1> SUFFICES ASSUME ClockStatsInv, [ClockStatsNext]_clockStatsVars PROVE ClockStatsInv'
    OBVIOUS
  <1> USE DEF ClockStatsInv
  <1>0. rttMs \in [Member -> Nat] /\ rttAtMs \in [Member -> Nat]
        /\ writing \in [Member -> Nat] /\ came \in [Member -> Nat]
    OBVIOUS
  <1>1. ASSUME NEW c \in Member, NEW rtt \in RoundTrips, OnPong(c, rtt)
        PROVE  ClockStatsInv'
    <2>1. rtt \in Nat
      BY ClockStatsAssumption
    <2>2. ASSUME NEW d \in Member PROVE Bygone(d)'
      BY <1>1, <2>1, <1>0 DEF OnPong, Bygone
    <2>3. AnswerOK'
      BY <1>1 DEF OnPong, AnswerOK, BucketOf
    <2> QED
      BY <1>1, <1>0, <2>1, <2>2, <2>3 DEF OnPong
  <1>2. ASSUME NEW c \in Member, SetRttAt(c) PROVE ClockStatsInv'
    <2>1. ASSUME NEW d \in Member PROVE Bygone(d)'
      BY <1>2, <1>0 DEF SetRttAt, Bygone
    <2>2. AnswerOK'
      BY <1>2 DEF SetRttAt, AnswerOK, BucketOf
    <2> QED
      BY <1>2, <1>0, <2>1, <2>2 DEF SetRttAt
  <1>3. ASSUME NEW c \in Member, LoadRtt(c) PROVE ClockStatsInv'
    <2>1. ASSUME NEW d \in Member PROVE Bygone(d)'
      BY <1>3, <1>0 DEF LoadRtt, Bygone
    <2>2. AnswerOK'
      BY <1>3 DEF LoadRtt, AnswerOK, BucketOf
    <2> QED
      BY <1>3, <1>0, <2>1, <2>2 DEF LoadRtt
  <1>4. ASSUME NEW c \in Member, LoadRttAt(c) PROVE ClockStatsInv'
    <2>1. ASSUME NEW d \in Member PROVE Bygone(d)'
      <3>1. CASE d = c
        <4>1. loaded[c] \in Seq(Nat) /\ Len(loaded[c]) = 1 /\ rttAtMs[c] \in Nat
              /\ rttAtMs[c] <= came[c] /\ loaded'[c] = Append(loaded[c], rttAtMs[c])
          BY <1>4, <1>0 DEF LoadRttAt, Bygone
        <4>2. Append(loaded[c], rttAtMs[c])[Len(loaded[c]) + 1] = rttAtMs[c]
          BY <4>1, AppendLast
        <4>3. loaded'[c][2] <= came[c]
          <5>1. Len(loaded[c]) + 1 = 2
            BY <4>1
          <5> QED
            BY <4>1, <4>2, <5>1, Zenon
        <4>4. UNCHANGED <<nowMs, rttAtMs, writing, came>>
          BY <1>4 DEF LoadRttAt
        <4> QED
          BY <3>1, <4>3, <4>4 DEF Bygone
      <3>2. CASE d # c
        BY <1>4, <1>0, <3>2 DEF LoadRttAt, Bygone
      <3> QED
        BY <3>1, <3>2
    <2>2. AnswerOK'
      BY <1>4 DEF LoadRttAt, AnswerOK, BucketOf
    <2> QED
      BY <1>4, <1>0, <2>1, <2>2 DEF LoadRttAt
  <1>5. CASE HandleClockStats
    <2>1. AnswerOK'
      BY <1>5 DEF HandleClockStats, NoStats, AnswerOK
    <2> QED
      BY <1>5, <2>1 DEF HandleClockStats, Bygone
  <1>6. CASE Answer
    <2>1. AnswerOK'
      BY <1>6, AnswerIsOK DEF AllRead, Answer
    <2>2. \A d \in Member : loaded'[d] = <<>>
      BY <1>6 DEF Answer
    <2>3. loaded' \in [Member -> Seq(Nat)]
      BY <1>6 DEF Answer
    <2>4. \A d \in Member : Bygone(d)'
      BY <1>6, <2>2 DEF Answer, Bygone
    <2> QED
      BY <1>6, <2>1, <2>3, <2>4 DEF Answer
  <1>7. CASE ClockStatsTick
    <2>1. nowMs' \in Nat \ {0} /\ nowMs <= nowMs'
      BY <1>7 DEF ClockStatsTick, ClockTick
    <2>2. AnswerOK'
      BY <1>7 DEF ClockStatsTick, AnswerOK, BucketOf
    <2>3. ASSUME NEW d \in Member PROVE Bygone(d)'
      BY <1>7, <1>0, <2>1 DEF ClockStatsTick, Bygone
    <2> QED
      BY <1>7, <2>1, <2>2, <2>3 DEF ClockStatsTick
  <1>8. CASE UNCHANGED clockStatsVars
    <2>1. AnswerOK'
      BY <1>8 DEF clockStatsVars, AnswerOK, BucketOf
    <2>2. \A d \in Member : Bygone(d)'
      BY <1>8 DEF clockStatsVars, Bygone
    <2> QED
      BY <1>8, <2>1, <2>2 DEF clockStatsVars
  <1> QED
    BY <1>1, <1>2, <1>3, <1>4, <1>5, <1>6, <1>7, <1>8 DEF ClockStatsNext

LEMMA StatsHonest == ClockStatsInv => ClockStatsHonest
  <1> SUFFICES ASSUME ClockStatsInv PROVE ClockStatsHonest
    OBVIOUS
  <1>1. ASSUME NEW c \in Member, Len(loaded[c]) = 2, ~(asked - loaded[c][2] > StaleAfter)
        PROVE  asked - came[c] <= StaleAfter
    <2>1. loaded[c][2] \in Nat /\ loaded[c][2] <= came[c]
      BY <1>1 DEF ClockStatsInv, Bygone
    <2>2. came[c] \in Nat /\ asked \in Nat /\ StaleAfter \in Nat
      BY ClockStatsAssumption DEF ClockStatsInv
    <2> QED
      BY <1>1, <2>1, <2>2
  <1> QED
    BY <1>1 DEF ClockStatsInv, AnswerOK, ClockStatsHonest

\* Whatever pongs come between the unlocked reads, for any number of clients: the
\* groups and the buckets add up, the percentiles are in order and lie in buckets
\* that are not empty, and a fresh client has answered a ping lately.
THEOREM StatsAreHonest == ClockStatsSpec => []ClockStatsHonest
  <1>1. ClockStatsInit => ClockStatsInv
    <2> SUFFICES ASSUME ClockStatsInit PROVE ClockStatsInv
      OBVIOUS
    <2>1. AnswerOK
      BY NoStatsOK DEF ClockStatsInit
    <2> QED
      BY <2>1 DEF ClockStatsInit, ClockInit, ClockStatsInv, Bygone
  <1> QED
    BY <1>1, StatsInductive, StatsHonest, PTL DEF ClockStatsSpec
=============================================================================
