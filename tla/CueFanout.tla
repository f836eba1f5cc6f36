----------------------------- MODULE CueFanout -----------------------------
(***************************************************************************)
(* A cue on its way to every gateway node and its late-join memory: the    *)
(* three timed repeats of broadcastCueWithRepeats, interventions, the bus  *)
(* (fanout.go) whose deliveries each run in a goroutine of their own, and  *)
(* the observe call of BroadcastSink at each node.                         *)
(*                                                                         *)
(* Time is counted in ticks.  Lag bounds how late a due timer starts and   *)
(* how long a started delivery takes to reach the memory; it stands for    *)
(* the scheduling delay of a goroutine and the latency of the bus.         *)
(***************************************************************************)
EXTENDS LastRun, FiniteSets

CONSTANTS
    Node,       \* gateway nodes; a single one is the local bus
    Repeats,    \* cueRepeats
    Interval,   \* cueRepeatInterval
    Lag,        \* the timeliness bound above
    NoNode,     \* the issuer of a run not issued yet
    MaxLosses,  \* bound: deliveries the bus loses in a behaviour
    MaxStops,   \* bound: interventions in a behaviour
    MaxCrashes, \* bound: restarts in a behaviour
    MaxTime     \* bound: the clock

\* The bound the comment on stopTombstoneMs relies on: every repeat has been
\* observed before a tombstone set after the cue was issued can expire.
ASSUME FanoutAssumption ==
    /\ Repeats \in Nat \ {0}
    /\ Interval \in Nat
    /\ Lag \in Nat
    /\ {MaxLosses, MaxStops, MaxCrashes, MaxTime} \subseteq Nat
    /\ NoNode \notin Node

ASSUME TombstoneAssumption ==
    (Repeats - 1) * Interval + 2 * Lag <= StopTombstone

VARIABLES
    now,      \* the server clock
    issued,   \* per run: issuing node, scope, time and repeats started so far
    flights,  \* deliveries to a node that its memory has not seen
    store,    \* lastRuns of every node
    stops,    \* interventions cast so far
    losses,   \* deliveries lost so far
    crashes,  \* restarts so far
    seen,     \* history: what a node has observed since it started
    dropped   \* history: the runs a stop has removed from a node's memory

vars == <<now, issued, flights, store, stops, losses, crashes, seen, dropped>>

\* The histories constrain nothing.
history == <<seen, dropped>>

Issue == [node: Node \cup {NoNode}, scope: Scope, at: Nat, fired: 0..Repeats]

\* A delivery: the frame, its number among the frames of its run (or among the
\* stops), and when it was cast.
Flight == [node: Node, frame: Frame, seq: Nat, at: Nat]

TypeOK ==
    /\ now \in Nat
    /\ issued \in [Run -> Issue]
    /\ flights \subseteq Flight
    /\ store \in [Node -> Store]
    /\ stops \in Nat
    /\ losses \in Nat
    /\ crashes \in Nat
    /\ seen \in [Node -> SUBSET ({"cue", "stop"} \X (Run \cup {NoRun}))]
    /\ dropped \in [Node -> SUBSET Run]

Init ==
    /\ now = 0
    /\ issued = [r \in Run |-> [node |-> NoNode, scope |-> AllRooms,
                                at |-> 0, fired |-> 0]]
    /\ flights = {}
    /\ store = [n \in Node |-> EmptyStore]
    /\ stops = 0
    /\ losses = 0
    /\ crashes = 0
    /\ seen = [n \in Node |-> {}]
    /\ dropped = [n \in Node |-> {}]

-----------------------------------------------------------------------------
Issued(r) == issued[r].node # NoNode

\* The moment the next repeat of r is due.
Due(r) == issued[r].at + issued[r].fired * Interval

\* Mutants of Pending: one repeat too many, and one too few.
PendingOneMore(r) == Issued(r) /\ issued[r].fired <= Repeats
PendingOneLess(r) == Issued(r) /\ issued[r].fired < Repeats - 1

Pending(r) == Issued(r) /\ issued[r].fired < Repeats

CueFrame(r) == [kind |-> "cue", run |-> r, scope |-> issued[r].scope]

\* cast: every node gets the frame, each in a goroutine of its own.
Deliveries(f, seq) ==
    {[node |-> n, frame |-> f, seq |-> seq, at |-> now] : n \in Node}

\* handleCue: a fresh run id, and three timers.
IssueCue(n, r, s) ==
    /\ ~Issued(r)
    /\ now + (Repeats - 1) * Interval + 2 * Lag <= MaxTime
    /\ issued' = [issued EXCEPT ![r] = [node |-> n, scope |-> s,
                                        at |-> now, fired |-> 0]]
    /\ UNCHANGED <<now, flights, store, stops, losses, crashes, history>>

\* A timer of broadcastCueWithRepeats goes off.
FireRepeat(r) ==
    /\ Pending(r)
    /\ now >= Due(r)
    /\ flights' = flights \cup Deliveries(CueFrame(r), issued[r].fired)
    /\ issued' = [issued EXCEPT ![r].fired = @ + 1]
    /\ UNCHANGED <<now, store, stops, losses, crashes, history>>

\* handleIntervention with STOP or BLACKOUT, for a run the operator knows of or,
\* from a console that remembers no run, for whatever the scope covers.
CastStop(r, s) ==
    /\ stops < MaxStops
    /\ r \in Run => Issued(r)
    /\ stops' = stops + 1
    /\ flights' = flights \cup
                    Deliveries([kind |-> "stop", run |-> r, scope |-> s], stops)
    /\ UNCHANGED <<now, issued, store, losses, crashes, history>>

\* The runs a memory holds.
Held(st) == {st.runs[s].run : s \in Scope} \ {NoRun}

\* The sink's goroutine: it has read the clock, at some moment since the cast,
\* and observes once it holds the memory's lock.
ObserveFrame(f) ==
    /\ \E t \in f.at..now :
         store' = [store EXCEPT ![f.node] = Observe(@, f.frame, t)]
    /\ flights' = flights \ {f}
    /\ seen' = [seen EXCEPT ![f.node] = @ \cup {<<f.frame.kind, f.frame.run>>}]
    /\ dropped' = IF f.frame.kind = "stop"
                  THEN [dropped EXCEPT ![f.node] =
                          @ \cup (Held(store[f.node]) \ Held(store'[f.node]))]
                  ELSE dropped
    /\ UNCHANGED <<now, issued, stops, losses, crashes>>

\* The bus drops a frame on its way to one node.
Lose(f) ==
    /\ losses < MaxLosses
    /\ losses' = losses + 1
    /\ flights' = flights \ {f}
    /\ UNCHANGED <<now, issued, store, stops, crashes, history>>

\* A node restarts: its memory, its timers and its deliveries are gone.
Restart(n) ==
    /\ crashes < MaxCrashes
    /\ crashes' = crashes + 1
    /\ store' = [store EXCEPT ![n] = EmptyStore]
    /\ seen' = [seen EXCEPT ![n] = {}]
    /\ dropped' = [dropped EXCEPT ![n] = {}]
    /\ flights' = {f \in flights : f.node # n}
    /\ issued' = [r \in Run |-> IF issued[r].node = n
                                THEN [issued[r] EXCEPT !.fired = Repeats]
                                ELSE issued[r]]
    /\ UNCHANGED <<now, stops, losses>>

\* Time passes, but not past what Lag allows a timer or a delivery.
Tick ==
    /\ now < MaxTime
    /\ \A r \in Run : Pending(r) => now < Due(r) + Lag
    /\ \A f \in flights : now < f.at + Lag
    /\ now' = now + 1
    /\ UNCHANGED <<issued, flights, store, stops, losses, crashes, history>>

Next ==
    \/ \E r \in Run : \/ \E n \in Node, s \in Scope : IssueCue(n, r, s)
                      \/ FireRepeat(r)
    \/ \E r \in Run \cup {NoRun}, s \in Scope : CastStop(r, s)
    \/ \E f \in flights : ObserveFrame(f) \/ Lose(f)
    \/ \E n \in Node : Restart(n)
    \/ Tick

Spec == Init /\ [][Next]_vars

\* Timers go off, and goroutines that can run do.
Fairness ==
    /\ WF_vars(Tick)
    /\ \A r \in Run : WF_vars(FireRepeat(r))
    /\ WF_vars(\E f \in flights : ObserveFrame(f))

FairSpec == Spec /\ Fairness

-----------------------------------------------------------------------------
(* Properties *)

\* A run a node has seen stopped by name never comes back into its memory, in
\* whatever order the stop and the repeats of the cue reach the node: the
\* tombstone outlives them all.
StopSticks ==
    \A n \in Node, r \in Run : <<"stop", r>> \in seen[n] => r \notin Held(store[n])

\* A cue outlives the loss of all its repeats but one on the way to a node.
CueSurvivesLoss ==
    \A n \in Node, r \in Run :
        Issued(r) ~> (<<"cue", r>> \in seen[n] \/ crashes > 0)

\* Said at stopTombstoneMs and in the header of lastrun.go: a STOP drops the
\* run from the memory and the repeats that follow it do not write it back.
StopDropsRun == \A n \in Node : dropped[n] \cap Held(store[n]) = {}

\* No repeat and no delivery is on its way any more.
Quiet == flights = {} /\ \A r \in Run : ~Pending(r)

\* Said of the memory in lastrun.go and server.go: the nodes' memories agree by
\* themselves, since each node sees every frame.
MemoriesAgree ==
    (Quiet /\ losses = 0 /\ crashes = 0) =>
        \A n, m \in Node, s \in Scope :
            store[n].runs[s].run = store[m].runs[s].run
=============================================================================
