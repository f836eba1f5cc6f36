------------------------------ MODULE LastRun ------------------------------
(***************************************************************************)
(* The late-join memory of a gateway node as a value                       *)
(* (services/gateway/internal/server/lastrun.go): the last cue of every    *)
(* scope, and the tombstones of the runs that were stopped lately.  Each   *)
(* operator is one critical section of lastRunStore.mu.                    *)
(***************************************************************************)
EXTENDS Integers

CONSTANTS
    Room,           \* room names
    AllRooms,       \* the empty room name: the scope of a global broadcast
    Run,            \* run ids
    NoRun,          \* the empty run id, and the run of an empty entry
    ReplayTTL,      \* replayTTLMs
    StopTombstone   \* stopTombstoneMs

ASSUME StoreAssumption ==
    /\ AllRooms \notin Room
    /\ NoRun \notin Run
    /\ ReplayTTL \in Nat
    /\ StopTombstone \in Nat

Scope == Room \cup {AllRooms}

\* An absent tombstone.
Never == -1

Entry == [run: Run \cup {NoRun}, at: Nat]

Store == [runs: [Scope -> Entry], stopped: [Run -> Nat \cup {Never}]]

NoEntry == [run |-> NoRun, at |-> 0]

EmptyStore == [runs    |-> [s \in Scope |-> NoEntry],
               stopped |-> [r \in Run |-> Never]]

\* What a frame on the bus tells the memory.  "stop" stands for STOP and
\* BLACKOUT, "other" for HOLD, SKIP and show_activated.
Frame == [kind: {"cue", "stop", "other"}, run: Run \cup {NoRun}, scope: Scope]

\* Mutant of Dead: the tombstone ends one tick early.
DeadTooShort(st, r, t) ==
    st.stopped[r] # Never /\ t - st.stopped[r] < StopTombstone

\* A tombstone keeps run r out of the memory at time t.
Dead(st, r, t) ==
    st.stopped[r] # Never /\ t - st.stopped[r] <= StopTombstone

ObserveCue(st, s, r, t) ==
    IF Dead(st, r, t) THEN st
    ELSE [st EXCEPT !.runs[s] = [run |-> r, at |-> t]]

\* A stop of run r (of everything in scope s when r is empty) ends entry x at
\* key k.
Ends(s, r, k, x) ==
    IF r # NoRun THEN x = r ELSE s = AllRooms \/ k \in {s, AllRooms}

\* The new tombstone, and the stale ones swept away; a stop that names no run
\* leaves none.
Stones(st, r, t) ==
    LET set == [st.stopped EXCEPT ![r] = t]
    IN  IF r = NoRun THEN st.stopped
        ELSE [x \in Run |-> IF set[x] # Never /\ t - set[x] > StopTombstone
                            THEN Never ELSE set[x]]

ObserveStop(st, s, r, t) ==
    [runs    |-> [k \in Scope |-> IF Ends(s, r, k, st.runs[k].run)
                                  THEN NoEntry ELSE st.runs[k]],
     stopped |-> Stones(st, r, t)]

\* observe: the memory after frame f was seen with clock reading t.
Observe(st, f, t) ==
    CASE f.kind = "cue"  -> ObserveCue(st, f.scope, f.run, t)
      [] f.kind = "stop" -> ObserveStop(st, f.scope, f.run, t)
      [] OTHER           -> st

\* The newer of the room's own entry and the global one.
Newest(st, room) ==
    LET own == st.runs[room]
        all == st.runs[AllRooms]
    IN  IF all.run # NoRun /\ (own.run = NoRun \/ all.at > own.at)
        THEN all ELSE own

\* forRoom: the run a client that joins the room at time t is sent, or NoRun.
ForRoom(st, room, t) ==
    LET best == Newest(st, room)
    IN  IF best.run # NoRun /\ t - best.at <= ReplayTTL THEN best.run ELSE NoRun
=============================================================================
