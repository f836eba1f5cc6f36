------------------------------ MODULE LateJoin ------------------------------
(***************************************************************************)
(* A gateway node between its bus and its phones: BroadcastSink (observe,  *)
(* then broadcast) runs concurrently for every frame, while the read loop  *)
(* of a connection joins a room, writes the welcome, looks the late-join   *)
(* memory up and writes what it found.  Hub supplies the registry and the  *)
(* broadcast, LastRun the memory.                                          *)
(***************************************************************************)
EXTENDS Hub, Integers

CONSTANTS
    Run, NoRun, ReplayTTL, StopTombstone,  \* see LastRun
    ScopeOf,     \* the scope each run was issued to: a run id is never reused
    NotLooked,   \* a handler that has not read the memory since JoinRoom
    MaxTime      \* bound: the clock

Memory == INSTANCE LastRun

ASSUME LateJoinAssumption ==
    /\ ScopeOf \in [Run -> Scope]
    /\ NoRun \notin Run
    /\ NotLooked \notin Run \cup {NoRun}
    /\ MaxTime \in Nat

VARIABLES
    now,      \* the server clock
    store,    \* s.lastRuns
    frame,    \* per broadcast: the frame its sink has observed, {} before that
    replay,   \* per client: what forRoom returned to its handler
    offered,  \* history: the runs written to each client
    skipped,  \* history: runs in reach of a lookup that chose another or none
    looked,   \* history: the room of each client's last lookup
    visited   \* history: the rooms each client has been in

memVars == <<now, store, frame, replay, offered, skipped, looked>>
vars == <<clients, rooms, room, conn, handler, closes, joining, casts,
          now, store, frame, replay, offered, skipped, looked, visited>>

\* The frames the sink is called with.
CueFrames == {[kind |-> "cue", run |-> r, scope |-> ScopeOf[r]] : r \in Run}
StopFrames == [kind: {"stop"}, run: Run \cup {NoRun}, scope: Scope]
Frames == CueFrames \cup StopFrames

TypeOK ==
    /\ HubTypeOK
    /\ now \in Nat
    /\ store \in Memory!Store
    /\ frame \in [Cast -> {{}} \cup {{f} : f \in Frames}]
    /\ replay \in [Client -> Run \cup {NoRun, NotLooked}]
    /\ offered \in [Client -> SUBSET Run]
    /\ skipped \in [Client -> SUBSET Run]
    /\ looked \in [Client -> Room \cup {NoRoom}]
    /\ visited \in [Client -> SUBSET (Room \cup {NoRoom})]

Init ==
    /\ HubInit
    /\ now = 0
    /\ store = Memory!EmptyStore
    /\ frame = [k \in Cast |-> {}]
    /\ replay = [c \in Client |-> NotLooked]
    /\ offered = [c \in Client |-> {}]
    /\ skipped = [c \in Client |-> {}]
    /\ looked = [c \in Client |-> NoRoom]
    /\ visited = [c \in Client |-> {NoRoom}]

-----------------------------------------------------------------------------
(* BroadcastSink *)

\* observe: the memory learns of the frame.
SinkObserves(k, f) ==
    /\ frame[k] = {}
    /\ frame' = [frame EXCEPT ![k] = {f}]
    /\ \E t \in 0..now : store' = Memory!Observe(store, f, t)
    /\ UNCHANGED <<hubVars, now, replay, offered, skipped, looked>>

\* Mutant of SinkBroadcasts: Broadcast is called whatever the room.
SinkBroadcastsToAll(k) ==
    /\ frame[k] # {}
    /\ StartCast(k, AllRooms)
    /\ UNCHANGED memVars

\* Then hub.Broadcast or hub.BroadcastRoom takes its snapshot.
SinkBroadcasts(k) ==
    /\ \E f \in frame[k] : StartCast(k, f.scope)
    /\ UNCHANGED memVars

\* The runs broadcast k hands to a client it is written to.
CuesOf(k) == {f.run : f \in frame[k] \cap CueFrames}

SinkWrites(k, c) ==
    /\ SendFrame(k, c)
    /\ offered' = [offered EXCEPT ![c] = @ \cup CuesOf(k)]
    /\ UNCHANGED <<now, store, frame, replay, skipped, looked>>

-----------------------------------------------------------------------------
(* The tail of a hello *)

\* The runs the memory keeps for clients of room r.
InReach(r) == {store.runs[r].run, store.runs[AllRooms].run} \ {NoRun}

\* Mutant of HandlerLooksUp: the memory is read before JoinRoom.
HandlerLooksUpEarly(c) ==
    /\ handler[c] = "resolving"
    /\ replay[c] = NotLooked
    /\ \E t \in 0..now :
         LET found == Memory!ForRoom(store, joining[c], t)
         IN  /\ replay' = [replay EXCEPT ![c] = found]
             /\ looked' = [looked EXCEPT ![c] = joining[c]]
             /\ skipped' = [skipped EXCEPT ![c] = @ \cup (InReach(joining[c]) \ {found})]
    /\ UNCHANGED <<hubVars, now, store, frame, offered>>

\* lastRuns.forRoom, after JoinRoom and the welcome.
HandlerLooksUp(c) ==
    /\ handler[c] = "joined"
    /\ replay[c] = NotLooked
    /\ \E t \in 0..now :
         LET found == Memory!ForRoom(store, joining[c], t)
         IN  /\ replay' = [replay EXCEPT ![c] = found]
             /\ looked' = [looked EXCEPT ![c] = joining[c]]
             /\ skipped' = [skipped EXCEPT ![c] = @ \cup (InReach(joining[c]) \ {found})]
    /\ UNCHANGED <<hubVars, now, store, frame, offered>>

\* Mutant of HandlerReplays: the second result of forRoom is not looked at.
HandlerReplaysNothing(c) ==
    /\ replay[c] # NotLooked
    /\ Welcomed(c)
    /\ offered' = [offered EXCEPT ![c] = @ \cup {replay[c]}]
    /\ replay' = [replay EXCEPT ![c] = NotLooked]
    /\ UNCHANGED <<now, store, frame, skipped, looked>>

\* The found run is written, and the loop reads on.
HandlerReplays(c) ==
    /\ replay[c] # NotLooked
    /\ Welcomed(c)
    /\ offered' = [offered EXCEPT ![c] = @ \cup ({replay[c]} \ {NoRun})]
    /\ replay' = [replay EXCEPT ![c] = NotLooked]
    /\ UNCHANGED <<now, store, frame, skipped, looked>>

\* Writing the welcome or the run failed.
HandlerFails(c) ==
    /\ WelcomeFails(c)
    /\ replay' = [replay EXCEPT ![c] = NotLooked]
    /\ UNCHANGED <<now, store, frame, offered, skipped, looked>>

Tick ==
    /\ now < MaxTime
    /\ now' = now + 1
    /\ UNCHANGED <<hubVars, store, frame, replay, offered, skipped, looked>>

-----------------------------------------------------------------------------
\* The steps of the hub that touch neither the memory nor a hello's tail.
HubSteps ==
    \/ \E c \in Client :
         \/ Connect(c) \/ Resolved(c) \/ Return(c) \/ PingFails(c) \/ PeerGone(c)
         \/ LoopCloses(c) \/ PingerCloses(c)
         \/ \E r \in Room : Hello(c, r)
    \/ \E k \in Cast, c \in Client : SendFrameFails(k, c) \/ CastCloses(k, c)

Steps ==
    \/ HubSteps /\ UNCHANGED memVars
    \/ \E k \in Cast :
         \/ \E f \in Frames : SinkObserves(k, f)
         \/ SinkBroadcasts(k)
         \/ \E c \in Client : SinkWrites(k, c)
    \/ \E c \in Client : HandlerLooksUp(c) \/ HandlerReplays(c) \/ HandlerFails(c)
    \/ Tick

\* The history of rooms, kept beside every step.
Remember == visited' = [c \in Client |-> visited[c] \cup {room'[c]}]

Next == Steps /\ Remember

Spec == Init /\ [][Next]_vars

-----------------------------------------------------------------------------
(* Properties *)

\* Broadcast k has put run r in the memory and will still be written to c.
OnItsWay(k, r, c) ==
    /\ r \in CuesOf(k)
    /\ casts[k].phase = "new" \/ c \in casts[k].left

\* Nobody falls between the broadcast and the memory: a client that has joined
\* its room has been offered every run the memory keeps for that room, or it is
\* about to be, or its lookup saw the run and preferred a newer one in reach (or
\* found it expired).  It rests on two orders in two goroutines: the sink
\* observes before it takes the snapshot, the handler joins before it looks up.
NoMissedRun ==
    \A c \in clients, s \in Scope :
        LET r == store.runs[s].run
        IN  (looked[c] = room[c] /\ s \in {room[c], AllRooms} /\ r # NoRun)
            => \/ r \in offered[c] \cup skipped[c] \cup {replay[c]}
               \/ \E k \in Cast : OnItsWay(k, r, c)

\* A run reaches only clients that have been in the room it was issued to,
\* whether a broadcast or the memory brought it, and however often they move.
OnlyOwnRooms ==
    \A c \in Client : \A r \in offered[c] :
        ScopeOf[r] \in visited[c] \cup {AllRooms}
=============================================================================
