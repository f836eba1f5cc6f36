-------------------------- MODULE LateJoin_proofs --------------------------
(***************************************************************************)
(* Proofs about LateJoin, for any number of connections, rooms, runs and   *)
(* frames, and any clock: nobody misses a run, nobody gets another room's. *)
(***************************************************************************)
EXTENDS LateJoin, Hub_proofs

\* A broadcast starts only after its frame has been observed.
ObservedFirst == \A k \in Cast : frame[k] = {} => casts[k].phase = "new"

\* The memory keeps a run under the scope it was issued to.
StoreScope ==
    \A s \in Scope : LET r == store.runs[s].run IN r # NoRun => s = ScopeOf[r]

\* The tail of a hello works in the room the client is in.
JoinedRoom ==
    \A c \in clients : handler[c] = "joined" => room[c] = joining[c]

\* The last lookup was in the room the client is in, except between JoinRoom
\* and the lookup that follows it.
LookedRoom ==
    /\ \A c \in Client : handler[c] = "none" => looked[c] = NoRoom
    /\ \A c \in Client : replay[c] # NotLooked => handler[c] = "joined"
    /\ \A c \in clients : \/ looked[c] \in {NoRoom, room[c]}
                          \/ handler[c] = "joined" /\ replay[c] = NotLooked

\* What is about to be written to a client is for a room it has been in.
Own(c) == visited[c] \cup {AllRooms}

OwnRoom == \A c \in Client : room[c] \in visited[c]

OwnReplay == \A c \in clients : replay[c] \in Run => ScopeOf[replay[c]] \in Own(c)

\* A connection that is dropped while its loop goes on is dropped after a failed
\* write, and is written nothing more.
Unwritable ==
    \A c \in Client :
        handler[c] \notin {"none", "returned"} /\ c \notin clients => ~Writable(c)

OwnFrames ==
    \A k \in Cast : \A c \in casts[k].left, f \in frame[k] : f.scope \in Own(c)

IInv ==
    /\ TypeOK
    /\ HubInv
    /\ ObservedFirst
    /\ StoreScope
    /\ JoinedRoom
    /\ LookedRoom
    /\ OwnRoom
    /\ OwnReplay
    /\ Unwritable
    /\ OwnFrames
    /\ OnlyOwnRooms
    /\ NoMissedRun

-----------------------------------------------------------------------------
(* The memory: what observing a frame and looking a run up can give. *)

LEMMA FrameParts ==
  ASSUME NEW f \in Frames
  PROVE  /\ f.kind \in {"cue", "stop"}
         /\ f.run \in Run \cup {NoRun}
         /\ f.scope \in Scope
         /\ f \in CueFrames <=> f.kind = "cue"
         /\ f \in CueFrames => f.run \in Run /\ f.scope = ScopeOf[f.run]
  BY LateJoinAssumption DEF Frames, CueFrames, StopFrames

LEMMA ObserveCueFacts ==
  ASSUME NEW st \in Memory!Store, NEW s \in Scope, NEW r \in Run, NEW t \in Nat
  PROVE  /\ Memory!ObserveCue(st, s, r, t) \in Memory!Store
         /\ \A q \in Scope : Memory!ObserveCue(st, s, r, t).runs[q].run
                              \in {st.runs[q].run} \cup (IF q = s THEN {r} ELSE {})
  <1>1. CASE Memory!Dead(st, r, t)
    BY <1>1 DEF Memory!ObserveCue
  <1>2. CASE ~Memory!Dead(st, r, t)
    <2> DEFINE e == [run |-> r, at |-> t]
               new == [st EXCEPT !.runs[s] = e]
    <2>1. e \in Memory!Entry
      BY DEF Memory!Entry
    <2>2. new \in Memory!Store
      BY <2>1 DEF Memory!Store, Memory!Scope, Scope
    <2>3. \A q \in Scope : new.runs[q] = IF q = s THEN e ELSE st.runs[q]
      BY DEF Memory!Store, Memory!Scope, Scope
    <2>4. Memory!ObserveCue(st, s, r, t) = new
      BY <1>2 DEF Memory!ObserveCue
    <2> QED
      BY <2>2, <2>3, <2>4
  <1> QED
    BY <1>1, <1>2

LEMMA ObserveStopFacts ==
  ASSUME NEW st \in Memory!Store, NEW s \in Scope, NEW r \in Run \cup {NoRun},
         NEW t \in Nat
  PROVE  /\ Memory!ObserveStop(st, s, r, t) \in Memory!Store
         /\ \A q \in Scope : Memory!ObserveStop(st, s, r, t).runs[q].run
                              \in {st.runs[q].run, NoRun}
  <1>1. Memory!NoEntry \in Memory!Entry /\ Memory!NoEntry.run = NoRun
    BY DEF Memory!NoEntry, Memory!Entry
  <1>2. Memory!Stones(st, r, t) \in [Run -> Nat \cup {Memory!Never}]
    BY DEF Memory!Stones, Memory!Store
  <1> QED
    BY <1>1, <1>2 DEF Memory!ObserveStop, Memory!Store, Memory!Scope, Scope

LEMMA ObserveFacts ==
  ASSUME NEW st \in Memory!Store, NEW f \in Frames, NEW t \in Nat
  PROVE  /\ Memory!Observe(st, f, t) \in Memory!Store
         /\ \A q \in Scope : Memory!Observe(st, f, t).runs[q].run
              \in {st.runs[q].run, NoRun}
                  \cup (IF f \in CueFrames /\ q = f.scope THEN {f.run} ELSE {})
  <1>1. CASE f.kind = "cue"
    <2>1. f \in CueFrames /\ f.run \in Run /\ f.scope \in Scope
      BY <1>1, FrameParts
    <2>2. Memory!Observe(st, f, t) = Memory!ObserveCue(st, f.scope, f.run, t)
      BY <1>1 DEF Memory!Observe
    <2> QED
      BY <2>1, <2>2, ObserveCueFacts
  <1>2. CASE f.kind = "stop"
    <2>1. f.run \in Run \cup {NoRun} /\ f.scope \in Scope
      BY FrameParts
    <2>2. Memory!Observe(st, f, t) = Memory!ObserveStop(st, f.scope, f.run, t)
      BY <1>2 DEF Memory!Observe
    <2>3. /\ Memory!Observe(st, f, t) \in Memory!Store
          /\ \A q \in Scope : Memory!Observe(st, f, t).runs[q].run
                               \in {st.runs[q].run, NoRun}
      BY <2>1, <2>2, ObserveStopFacts
    <2> QED
      BY <2>3
  <1> QED
    BY <1>1, <1>2, FrameParts

LEMMA ForRoomFacts ==
  ASSUME NEW st \in Memory!Store, NEW q \in Room, NEW t \in Nat
  PROVE  /\ Memory!ForRoom(st, q, t) \in Run \cup {NoRun}
         /\ Memory!ForRoom(st, q, t)
               \in {st.runs[q].run, st.runs[AllRooms].run, NoRun}
  <1>1. Memory!Newest(st, q) \in {st.runs[q], st.runs[AllRooms]}
    BY DEF Memory!Newest
  <1>2. st.runs[q].run \in Run \cup {NoRun} /\ st.runs[AllRooms].run \in Run \cup {NoRun}
    BY DEF Memory!Store, Memory!Entry, Memory!Scope
  <1> QED
    BY <1>1, <1>2 DEF Memory!ForRoom

-----------------------------------------------------------------------------
LEMMA FrameOne ==
  ASSUME TypeOK, NEW k \in Cast
  PROVE  /\ frame[k] \subseteq Frames
         /\ \A f, g \in frame[k] : f = g
         /\ CuesOf(k) \subseteq Run
  <1>1. frame[k] \subseteq Frames /\ \A f, g \in frame[k] : f = g
    BY DEF TypeOK
  <1> QED
    BY <1>1, FrameParts DEF CuesOf

\* The registry inside the composition takes steps of Hub only.
LEMMA StepsOfHub == TypeOK /\ [Next]_vars => [HubNext]_hubVars
  <1> SUFFICES ASSUME TypeOK, Next PROVE [HubNext]_hubVars
    BY DEF vars, hubVars
  <1>1. ASSUME HubSteps PROVE HubNext
    BY <1>1 DEF HubSteps, HubNext
  <1>2. ASSUME NEW k \in Cast, SinkBroadcasts(k) PROVE HubNext
    BY <1>2, FrameOne, FrameParts DEF SinkBroadcasts, HubNext
  <1>3. ASSUME NEW k \in Cast, NEW c \in Client, SinkWrites(k, c) PROVE HubNext
    BY <1>3 DEF SinkWrites, HubNext
  <1>4. ASSUME NEW c \in Client, HandlerReplays(c) \/ HandlerFails(c) PROVE HubNext
    BY <1>4 DEF HandlerReplays, HandlerFails, HubNext
  <1>5. ASSUME UNCHANGED hubVars PROVE [HubNext]_hubVars
    BY <1>5
  <1> QED
    BY <1>1, <1>2, <1>3, <1>4, <1>5
    DEF Next, Steps, SinkObserves, HandlerLooksUp, Tick

LEMMA HubPart == TypeOK /\ HubInv /\ [Next]_vars => HubInv'
  BY StepsOfHub, InvStep

-----------------------------------------------------------------------------
(* Type correctness. *)

LEMMA MemTypeInit == Init => TypeOK
  <1>1. Memory!EmptyStore \in Memory!Store
    BY DEF Memory!EmptyStore, Memory!Store, Memory!NoEntry, Memory!Entry
  <1> QED
    BY <1>1, TypeInit DEF Init, TypeOK

LEMMA RememberType ==
  ASSUME TypeOK, HubTypeOK', Remember
  PROVE  visited' \in [Client -> SUBSET (Room \cup {NoRoom})]
  BY DEF TypeOK, HubTypeOK, Remember

LEMMA MemTypeStep == TypeOK /\ [Next]_vars => TypeOK'
  <1> SUFFICES ASSUME TypeOK, [Next]_vars PROVE TypeOK'
    OBVIOUS
  <1>0. HubTypeOK'
    BY StepsOfHub, TypeStep DEF TypeOK
  <1>1. CASE UNCHANGED vars
    BY <1>0, <1>1 DEF TypeOK, vars
  <1>2. CASE Next
    <2>0. visited' \in [Client -> SUBSET (Room \cup {NoRoom})]
      BY <1>0, <1>2, RememberType DEF Next
    <2>1. ASSUME UNCHANGED memVars PROVE TypeOK'
      BY <1>0, <2>0, <2>1 DEF TypeOK, memVars
    <2>2. ASSUME NEW k \in Cast, NEW f \in Frames, SinkObserves(k, f) PROVE TypeOK'
      <3>1. store' \in Memory!Store
        <4>1. PICK t \in 0..now : store' = Memory!Observe(store, f, t)
          BY <2>2 DEF SinkObserves
        <4>2. t \in Nat
          BY DEF TypeOK
        <4> QED
          BY <4>1, <4>2, ObserveFacts DEF TypeOK
      <3> QED
        BY <1>0, <2>0, <2>2, <3>1 DEF TypeOK, SinkObserves
    <2>3. ASSUME NEW k \in Cast, NEW c \in Client, SinkWrites(k, c) PROVE TypeOK'
      BY <1>0, <2>0, <2>3, FrameOne DEF TypeOK, SinkWrites
    <2>4. ASSUME NEW c \in Client, HandlerLooksUp(c) PROVE TypeOK'
      <3>1. PICK t \in 0..now :
              LET found == Memory!ForRoom(store, joining[c], t)
              IN  /\ replay' = [replay EXCEPT ![c] = found]
                  /\ looked' = [looked EXCEPT ![c] = joining[c]]
                  /\ skipped' = [skipped EXCEPT ![c] =
                                   @ \cup (InReach(joining[c]) \ {found})]
        BY <2>4 DEF HandlerLooksUp
      <3>2. t \in Nat /\ joining[c] \in Room
        BY DEF TypeOK, HubTypeOK
      <3>3. Memory!ForRoom(store, joining[c], t) \in Run \cup {NoRun}
        BY <3>2, ForRoomFacts DEF TypeOK
      <3>4. InReach(joining[c]) \subseteq Run
        BY <3>2 DEF TypeOK, InReach, Memory!Store, Memory!Entry, Memory!Scope
      <3>5. UNCHANGED <<now, store, frame, offered>>
        BY <2>4 DEF HandlerLooksUp
      <3> QED
        BY <1>0, <2>0, <3>1, <3>2, <3>3, <3>4, <3>5 DEF TypeOK
    <2>5. ASSUME NEW c \in Client, HandlerReplays(c) PROVE TypeOK'
      BY <1>0, <2>0, <2>5 DEF TypeOK, HandlerReplays
    <2>6. ASSUME NEW c \in Client, HandlerFails(c) PROVE TypeOK'
      BY <1>0, <2>0, <2>6 DEF TypeOK, HandlerFails
    <2>7. ASSUME Tick PROVE TypeOK'
      BY <1>0, <2>0, <2>7 DEF TypeOK, Tick
    <2> QED
      BY <1>2, <2>1, <2>2, <2>3, <2>4, <2>5, <2>6, <2>7
      DEF Next, Steps, SinkBroadcasts
  <1> QED
    BY <1>1, <1>2

\* Every variable of the composition keeps its type; in particular the memory
\* stays a memory, whatever frames it observes.
THEOREM TypeCorrect == Spec => []TypeOK
  BY MemTypeInit, MemTypeStep, PTL DEF Spec

-----------------------------------------------------------------------------
(* The order of the sink and the contents of the memory. *)

LEMMA ObservedFirstStep == IInv /\ [Next]_vars => ObservedFirst'
  <1> SUFFICES ASSUME TypeOK, HubInv, ObservedFirst, [Next]_vars,
                      NEW k \in Cast, frame'[k] = {}
               PROVE  casts'[k].phase = "new"
    BY DEF IInv, ObservedFirst
  <1>1. CASE UNCHANGED <<casts, frame>>
    BY <1>1 DEF ObservedFirst
  <1>2. ASSUME NEW j \in Cast, NEW f \in Frames, SinkObserves(j, f)
        PROVE  casts'[k].phase = "new"
    BY <1>2 DEF ObservedFirst, SinkObserves, TypeOK, hubVars
  <1>3. ASSUME NEW j \in Cast, SinkBroadcasts(j) PROVE casts'[k].phase = "new"
    BY <1>3 DEF ObservedFirst, SinkBroadcasts, StartCast, memVars, TypeOK, HubTypeOK
  <1>4. ASSUME NEW j \in Cast, NEW c \in casts[j].left, UNCHANGED frame,
               NEW got, CastLeft(j, c, got)
        PROVE  casts'[k].phase = "new"
    BY <1>4 DEF ObservedFirst, CastLeft, TypeOK, HubTypeOK, HubInv, CastsOK, CastOK
  <1>5. ASSUME NEW j \in Cast, NEW c \in Client, CastCloses(j, c), UNCHANGED frame
        PROVE  casts'[k].phase = "new"
    <2>1. c \in casts[j].left
      BY <1>5 DEF CastCloses, HubInv, CastsOK, CastOK
    <2> QED
      BY <1>4, <1>5, <2>1 DEF CastCloses
  <1> QED
    BY <1>1, <1>2, <1>3, <1>4, <1>5
    DEF Next, Steps, HubSteps, vars, hubVars, memVars, SinkWrites, SendFrame,
        Sends, SendFrameFails, CastCloses, HandlerLooksUp, HandlerReplays,
        HandlerFails, Tick, Connect, Resolved, Return, PingFails, PeerGone, LoopCloses,
        PingerCloses, Hello, Welcomed, WelcomeFails

LEMMA StoreScopeStep == IInv /\ [Next]_vars => StoreScope'
  <1> SUFFICES ASSUME TypeOK, StoreScope, [Next]_vars PROVE StoreScope'
    BY DEF IInv
  <1>1. CASE UNCHANGED store
    BY <1>1 DEF StoreScope
  <1>2. ASSUME NEW k \in Cast, NEW f \in Frames, SinkObserves(k, f) PROVE StoreScope'
    <2>1. PICK t \in 0..now : store' = Memory!Observe(store, f, t)
      BY <1>2 DEF SinkObserves
    <2>2. \A q \in Scope : store'.runs[q].run
            \in {store.runs[q].run, NoRun}
                  \cup (IF f \in CueFrames /\ q = f.scope THEN {f.run} ELSE {})
      BY <2>1, ObserveFacts DEF TypeOK
    <2> QED
      BY <2>2, FrameParts DEF StoreScope
  <1> QED
    BY <1>1, <1>2
    DEF Next, Steps, vars, memVars, SinkBroadcasts, SinkWrites, HandlerLooksUp,
        HandlerReplays, HandlerFails, Tick

-----------------------------------------------------------------------------
(* The tail of a hello. *)

LEMMA JoinedRoomStep == IInv /\ [Next]_vars => JoinedRoom'
  <1> SUFFICES ASSUME TypeOK, JoinedRoom, [HubNext]_hubVars PROVE JoinedRoom'
    BY StepsOfHub DEF IInv
  <1> USE DEF TypeOK, HubTypeOK, JoinedRoom
  <1>1. CASE UNCHANGED <<clients, handler, room, joining>>
    BY <1>1
  <1>2. ASSUME NEW c \in Client, Connect(c) PROVE JoinedRoom'
    BY <1>2 DEF Connect
  <1>3. ASSUME NEW c \in Client, NEW r \in Room, Hello(c, r) PROVE JoinedRoom'
    BY <1>3 DEF Hello, Reads
  <1>4. ASSUME NEW c \in Client, Resolved(c) PROVE JoinedRoom'
    BY <1>4 DEF Resolved, JoinRoom
  <1>5. ASSUME NEW c \in Client, Welcomed(c) PROVE JoinedRoom'
    BY <1>5 DEF Welcomed
  <1>6. ASSUME NEW c \in Client, NEW g, Unregister(c, g),
               \A d \in Client : d # c => handler'[d] = handler[d]
        PROVE  JoinedRoom'
    BY <1>6 DEF Unregister
  <1> QED
    BY <1>1, <1>2, <1>3, <1>4, <1>5, <1>6, StepIsNext
    DEF Step, hubVars, WelcomeFails, Return, PingFails, PeerGone, LoopCloses,
        PingerCloses, StartCast, SendFrame, SendFrameFails, CastCloses

LEMMA UnwritableStep == IInv /\ [Next]_vars => Unwritable'
  <1> SUFFICES ASSUME TypeOK, HubInv, Unwritable, [HubNext]_hubVars PROVE Unwritable'
    BY StepsOfHub DEF IInv
  <1> USE DEF TypeOK, HubTypeOK, Unwritable, Writable
  <1>1. CASE UNCHANGED <<clients, handler, conn>>
    BY <1>1
  <1>2. ASSUME NEW c \in Client, Connect(c) PROVE Unwritable'
    BY <1>2 DEF Connect
  <1>3. ASSUME NEW c \in Client, UNCHANGED <<clients, conn>>,
               handler[c] \notin {"none", "returned"},
               \E h : handler' = [handler EXCEPT ![c] = h]
        PROVE  Unwritable'
    BY <1>3
  <1>4. ASSUME NEW c \in Client, NEW g, Unregister(c, g), WriteFails(c),
               \E h : handler' = [handler EXCEPT ![c] = h]
        PROVE  Unwritable'
    BY <1>4 DEF Unregister, WriteFails
  <1>5. ASSUME NEW c \in Client, Return(c) PROVE Unwritable'
    BY <1>5 DEF Return, Unregister, WriteFails
  <1>6. ASSUME NEW c \in Client, PeerGone(c) PROVE Unwritable'
    BY <1>6 DEF PeerGone
  <1>7. ASSUME NEW c \in Client, NEW g, CloseSocket(c, g), UNCHANGED <<clients, handler>>
        PROVE  Unwritable'
    BY <1>7 DEF CloseSocket
  <1>8. ASSUME NEW c \in Client, NEW g, Unregister(c, g), WriteFails(c),
               UNCHANGED handler
        PROVE  Unwritable'
    BY <1>8 DEF Unregister, WriteFails
  <1> QED
    BY <1>1, <1>2, <1>3, <1>4, <1>5, <1>6, <1>7, <1>8, StepIsNext
    DEF Step, hubVars, Hello, Reads, Resolved, Welcomed, WelcomeFails, PingFails,
        LoopCloses, PingerCloses, StartCast, SendFrame, SendFrameFails, CastCloses

LEMMA OwnRoomStep == IInv /\ [Next]_vars => OwnRoom'
  BY DEF IInv, OwnRoom, Next, Remember, vars

\* What a client may be given never shrinks.
LEMMA OwnGrows ==
  ASSUME TypeOK, [Next]_vars, NEW c \in Client
  PROVE  Own(c) \subseteq Own(c)'
  BY DEF TypeOK, Next, Remember, vars, Own

LEMMA LookedRoomStep == IInv /\ [Next]_vars => LookedRoom'
  <1> SUFFICES ASSUME TypeOK, HubInv, LookedRoom, JoinedRoom, [Next]_vars
               PROVE  LookedRoom'
    BY DEF IInv
  <1> USE DEF TypeOK, HubTypeOK, LookedRoom
  <1>1. CASE UNCHANGED <<clients, handler, room, looked, replay>>
    BY <1>1
  <1>2. ASSUME NEW c \in Client, Connect(c), UNCHANGED memVars PROVE LookedRoom'
    BY <1>2 DEF Connect, memVars
  <1>3. ASSUME NEW c \in Client, NEW r \in Room, Hello(c, r), UNCHANGED memVars
        PROVE  LookedRoom'
    BY <1>3 DEF Hello, Reads, memVars
  <1>4. ASSUME NEW c \in Client, Resolved(c), UNCHANGED memVars PROVE LookedRoom'
    BY <1>4 DEF Resolved, JoinRoom, memVars
  <1>5. ASSUME NEW c \in Client, NEW g, Unregister(c, g),
               UNCHANGED <<looked, replay, handler>>
        PROVE  LookedRoom'
    BY <1>5 DEF Unregister
  <1>8. ASSUME NEW c \in Client, Return(c), UNCHANGED memVars PROVE LookedRoom'
    BY <1>8 DEF Return, Reads, Unregister, memVars
  <1>9. ASSUME NEW c \in Client, HandlerFails(c) PROVE LookedRoom'
    BY <1>9 DEF HandlerFails, WelcomeFails, Unregister
  <1>6. ASSUME NEW c \in Client, HandlerLooksUp(c) PROVE LookedRoom'
    <2>1. /\ handler[c] = "joined"
          /\ looked' = [looked EXCEPT ![c] = joining[c]]
          /\ UNCHANGED hubVars
          /\ \A d \in Client : d # c => replay'[d] = replay[d]
      BY <1>6 DEF HandlerLooksUp
    <2> QED
      BY <2>1 DEF JoinedRoom, hubVars
  <1>7. ASSUME NEW c \in Client, HandlerReplays(c) PROVE LookedRoom'
    BY <1>7 DEF HandlerReplays, Welcomed
  <1>10. CASE HubSteps /\ UNCHANGED memVars
    BY <1>1, <1>2, <1>3, <1>4, <1>5, <1>8, <1>10
    DEF HubSteps, memVars, PingFails, PeerGone, LoopCloses, PingerCloses,
        SendFrameFails, CastCloses
  <1> QED
    BY <1>1, <1>6, <1>7, <1>9, <1>10
    DEF Next, Steps, vars, hubVars, memVars, SinkObserves, SinkBroadcasts,
        StartCast, SinkWrites, SendFrame, Tick

\* A lookup finds a run of the scopes that reach the room it is made for.
LEMMA LookupScope ==
  ASSUME TypeOK, StoreScope, NEW c \in Client, NEW t \in 0..now,
         Memory!ForRoom(store, joining[c], t) \in Run
  PROVE  ScopeOf[Memory!ForRoom(store, joining[c], t)] \in {joining[c], AllRooms}
  <1>1. t \in Nat /\ joining[c] \in Room
    BY DEF TypeOK, HubTypeOK
  <1>2. Memory!ForRoom(store, joining[c], t)
          \in {store.runs[joining[c]].run, store.runs[AllRooms].run, NoRun}
    BY <1>1, ForRoomFacts DEF TypeOK
  <1>3. NoRun \notin Run
    BY LateJoinAssumption
  <1> QED
    BY <1>1, <1>2, <1>3 DEF StoreScope, Scope

LEMMA OwnReplayStep == IInv /\ [Next]_vars => OwnReplay'
  <1> SUFFICES ASSUME IInv, [Next]_vars, NEW c \in clients', replay'[c] \in Run
               PROVE  ScopeOf[replay'[c]] \in Own(c)'
    BY DEF OwnReplay
  <1>0. c \in Client /\ TypeOK
    <2>1. HubTypeOK'
      BY StepsOfHub, TypeStep DEF IInv, HubInv
    <2> QED
      BY <2>1 DEF IInv, HubTypeOK
  <1>1. ASSUME replay'[c] = replay[c] PROVE ScopeOf[replay'[c]] \in Own(c)'
    <2>1. replay[c] # NotLooked
      BY <1>1, LateJoinAssumption
    <2>2. handler[c] # "none"
      BY <1>0, <2>1 DEF IInv, LookedRoom
    <2>3. c \in clients
      BY <1>0, <2>2
      DEF Next, Steps, HubSteps, vars, hubVars, memVars, SinkObserves, SinkBroadcasts,
          StartCast, SinkWrites, SendFrame, SendFrameFails, HandlerLooksUp,
          HandlerReplays, HandlerFails, WelcomeFails, Welcomed, Tick, Return,
          PingFails, PeerGone, LoopCloses, PingerCloses, CastCloses, Hello, Resolved,
          Connect, Unregister
    <2> QED
      BY <1>0, <1>1, <2>3, OwnGrows DEF IInv, OwnReplay
  <1>2. ASSUME HandlerLooksUp(c), Remember PROVE ScopeOf[replay'[c]] \in Own(c)'
    <2>1. PICK t \in 0..now :
            replay' = [replay EXCEPT ![c] = Memory!ForRoom(store, joining[c], t)]
      BY <1>2 DEF HandlerLooksUp
    <2>2. replay'[c] = Memory!ForRoom(store, joining[c], t)
      BY <1>0, <2>1 DEF TypeOK
    <2>3. ScopeOf[replay'[c]] \in {joining[c], AllRooms}
      BY <1>0, <2>2, LookupScope DEF IInv
    <2>4. c \in clients /\ handler[c] = "joined"
      BY <1>2 DEF HandlerLooksUp, hubVars
    <2>5. joining[c] \in visited[c]
      BY <1>0, <2>4 DEF IInv, JoinedRoom, OwnRoom
    <2> QED
      BY <1>0, <2>3, <2>5, OwnGrows DEF Own
  <1>3. ASSUME NEW d \in Client, HandlerReplays(d) \/ HandlerFails(d)
        PROVE  replay'[c] = replay[c]
    BY <1>0, <1>3, LateJoinAssumption DEF HandlerReplays, HandlerFails, TypeOK
  <1>4. ASSUME NEW d \in Client, d # c, HandlerLooksUp(d) PROVE replay'[c] = replay[c]
    BY <1>0, <1>4 DEF HandlerLooksUp, TypeOK
  <1> QED
    BY <1>0, <1>1, <1>2, <1>3, <1>4
    DEF Next, Steps, vars, memVars, SinkObserves, SinkBroadcasts, SinkWrites, Tick

-----------------------------------------------------------------------------
(* Broadcasts. *)

\* The goroutine of a target takes that target, and nobody else, off the list.
LEMMA LeftAfter ==
  ASSUME HubTypeOK, NEW k \in Cast, NEW c \in Client, NEW got, CastLeft(k, c, got)
  PROVE  /\ casts'[k].left = casts[k].left \ {c}
         /\ \A j \in Cast : j # k => casts'[j] = casts[j]
  BY DEF HubTypeOK, CastLeft

\* A broadcast is for the clients that are in its scope at that moment.
LEMMA LeftAtStart ==
  ASSUME HubInv, NEW k \in Cast, NEW s \in Scope, StartCast(k, s)
  PROVE  /\ casts'[k].left = MembersOf(s)
         /\ \A j \in Cast : j # k => casts'[j] = casts[j]
         /\ \A c \in Client : c \in MembersOf(s) <=>
                (c \in clients /\ (s = AllRooms \/ room[c] = s))
         /\ MembersOf(s) \subseteq Client
  <1>1. MembersOf(s) \subseteq Client
    BY DEF HubInv, HubTypeOK, MembersOf, Scope
  <1>2. \A c \in Client : c \in MembersOf(s) <=>
                (c \in clients /\ (s = AllRooms \/ room[c] = s))
    BY DEF HubInv, MembershipInv, MembersOf, Scope
  <1> QED
    BY <1>1, <1>2 DEF HubInv, HubTypeOK, StartCast

LEMMA OwnFramesStep == IInv /\ [Next]_vars => OwnFrames'
  <1> SUFFICES ASSUME IInv, [Next]_vars, NEW k \in Cast,
                      NEW c \in casts'[k].left, NEW f \in frame'[k]
               PROVE  f.scope \in Own(c)'
    BY DEF OwnFrames
  <1>0. TypeOK /\ HubInv /\ HubTypeOK
    BY DEF IInv, HubInv
  <1>1. ASSUME c \in casts[k].left, f \in frame[k] PROVE f.scope \in Own(c)'
    <2>1. c \in Client
      BY <1>0, <1>1 DEF HubTypeOK, CastState
    <2> QED
      BY <1>0, <1>1, <2>1, OwnGrows DEF IInv, OwnFrames
  <1>2. ASSUME NEW j \in Cast, NEW g \in Frames, SinkObserves(j, g)
        PROVE  f.scope \in Own(c)'
    <2>1. casts' = casts /\ frame[j] = {} /\ frame' = [frame EXCEPT ![j] = {g}]
      BY <1>2 DEF SinkObserves, hubVars
    <2>2. casts[j].left = {}
      BY <1>0, <2>1 DEF IInv, ObservedFirst, HubInv, CastsOK, CastOK
    <2> QED
      BY <1>0, <1>1, <2>1, <2>2 DEF TypeOK
  <1>3. ASSUME NEW j \in Cast, SinkBroadcasts(j) PROVE f.scope \in Own(c)'
    <2>1. PICK g \in frame[j] : StartCast(j, g.scope)
      BY <1>3 DEF SinkBroadcasts
    <2>2. frame' = frame /\ g.scope \in Scope
      BY <1>0, <1>3, FrameOne, FrameParts DEF SinkBroadcasts, memVars
    <2>3. CASE j = k
      <3>1. f = g
        BY <1>0, <2>2, <2>3, FrameOne
      <3>2. c \in Client /\ (f.scope = AllRooms \/ room[c] = f.scope)
        BY <1>0, <2>1, <2>2, <2>3, <3>1, LeftAtStart
      <3> QED
        BY <3>2, <1>0, OwnGrows DEF IInv, OwnRoom, Own
    <2>4. CASE j # k
      BY <1>0, <1>1, <2>1, <2>2, <2>4, LeftAtStart
    <2> QED
      BY <2>3, <2>4
  <1>4. ASSUME NEW j \in Cast, NEW d \in Client, NEW got, CastLeft(j, d, got),
               UNCHANGED frame
        PROVE  f.scope \in Own(c)'
    BY <1>0, <1>1, <1>4, LeftAfter
  <1>5. CASE UNCHANGED <<casts, frame>>
    BY <1>1, <1>5
  <1> QED
    BY <1>2, <1>3, <1>4, <1>5
    DEF Next, Steps, HubSteps, vars, hubVars, memVars, SinkWrites, SendFrame,
        Sends, SendFrameFails, CastCloses, HandlerLooksUp, HandlerReplays,
        HandlerFails, Tick, Connect, Resolved, Return, PingFails, PeerGone, LoopCloses,
        PingerCloses, Hello, Welcomed, WelcomeFails

LEMMA OnlyOwnRoomsStep == IInv /\ [Next]_vars => OnlyOwnRooms'
  <1> SUFFICES ASSUME IInv, [Next]_vars, NEW c \in Client, NEW r \in offered'[c]
               PROVE  ScopeOf[r] \in Own(c)'
    BY DEF OnlyOwnRooms, Own
  <1>0. TypeOK /\ HubInv /\ Own(c) \subseteq Own(c)'
    BY OwnGrows DEF IInv
  <1>1. CASE r \in offered[c]
    BY <1>0, <1>1 DEF IInv, OnlyOwnRooms, Own
  <1>2. ASSUME NEW k \in Cast, NEW d \in Client, SinkWrites(k, d)
        PROVE  ScopeOf[r] \in Own(c)'
    <2>1. CASE r \notin offered[c]
      <3>1. d = c /\ r \in CuesOf(k)
        BY <1>0, <1>2, <2>1 DEF SinkWrites, TypeOK
      <3>2. PICK f \in frame[k] \cap CueFrames : r = f.run
        BY <3>1 DEF CuesOf
      <3>3. f.scope = ScopeOf[r]
        BY <1>0, <3>2, FrameOne, FrameParts
      <3>4. c \in casts[k].left
        BY <1>2, <3>1 DEF SinkWrites, SendFrame, Sends
      <3> QED
        BY <1>0, <3>2, <3>3, <3>4 DEF IInv, OwnFrames
    <2> QED
      BY <1>1, <2>1
  <1>3. ASSUME NEW d \in Client, HandlerReplays(d) PROVE ScopeOf[r] \in Own(c)'
    <2>1. CASE r \notin offered[c]
      <3>1. d = c /\ r = replay[c] /\ r # NoRun
        BY <1>0, <1>3, <2>1 DEF HandlerReplays, TypeOK
      <3>2. r \in Run
        BY <1>0, <1>3, <3>1 DEF HandlerReplays, TypeOK
      <3>3. c \in clients
        BY <1>0, <1>3, <3>1 DEF HandlerReplays, Welcomed, IInv, Unwritable
      <3> QED
        BY <1>0, <3>1, <3>2, <3>3 DEF IInv, OwnReplay
    <2> QED
      BY <1>1, <2>1
  <1> QED
    BY <1>1, <1>2, <1>3
    DEF Next, Steps, vars, memVars, SinkObserves, SinkBroadcasts, HandlerLooksUp,
        HandlerFails, Tick

-----------------------------------------------------------------------------
(* Nobody misses a run. *)

\* Client c has been given run r, has preferred another, or is about to get r.
Has(r, c) ==
    \/ r \in offered[c] \cup skipped[c] \cup {replay[c]}
    \/ \E k \in Cast : OnItsWay(k, r, c)

\* A run on its way in a broadcast stays so until it is written, as long as the
\* client is registered and in reach of the run.
LEMMA OnItsWayKept ==
  ASSUME IInv, Next, NEW c \in clients, c \in clients', NEW r \in Run,
         ScopeOf[r] \in {room[c], AllRooms}, NEW k \in Cast, OnItsWay(k, r, c)
  PROVE  Has(r, c)'
  <1>0. c \in Client /\ TypeOK /\ HubInv /\ HubTypeOK
    BY DEF IInv, HubInv, HubTypeOK
  <1>1. CASE UNCHANGED <<casts, frame>>
    BY <1>1 DEF Has, OnItsWay, CuesOf
  <1>2. ASSUME NEW j \in Cast, NEW f \in Frames, SinkObserves(j, f) PROVE Has(r, c)'
    <2>1. j # k
      BY <1>2 DEF OnItsWay, CuesOf, SinkObserves
    <2>2. casts' = casts /\ frame'[k] = frame[k]
      BY <1>0, <1>2, <2>1 DEF SinkObserves, hubVars, TypeOK
    <2> QED
      BY <2>2 DEF Has, OnItsWay, CuesOf
  <1>3. ASSUME NEW j \in Cast, SinkBroadcasts(j) PROVE Has(r, c)'
    <2>1. PICK f \in frame[j] : StartCast(j, f.scope)
      BY <1>3 DEF SinkBroadcasts
    <2>2. frame' = frame /\ f.scope \in Scope
      BY <1>0, <1>3, FrameOne, FrameParts DEF SinkBroadcasts, memVars
    <2>3. CASE j = k
      <3>1. f.scope = ScopeOf[r]
        <4>1. PICK g \in frame[k] \cap CueFrames : r = g.run
          BY DEF OnItsWay, CuesOf
        <4>2. g = f
          BY <1>0, <2>3, <4>1, FrameOne
        <4> QED
          BY <1>0, <4>1, <4>2, FrameOne, FrameParts
      <3>2. c \in casts'[k].left
        BY <1>0, <2>1, <2>2, <2>3, <3>1, LeftAtStart
      <3> QED
        BY <2>2, <3>2 DEF Has, OnItsWay, CuesOf
    <2>4. CASE j # k
      <3>1. casts'[k] = casts[k]
        BY <1>0, <2>1, <2>2, <2>4, LeftAtStart
      <3> QED
        BY <2>2, <3>1 DEF Has, OnItsWay, CuesOf
    <2> QED
      BY <2>3, <2>4
  <1>4. ASSUME NEW j \in Cast, NEW d \in Client, NEW got, CastLeft(j, d, got),
               d \in casts[j].left, UNCHANGED frame, <<j, d>> # <<k, c>>
        PROVE  Has(r, c)'
    <2>1. CASE j = k
      <3>1. casts[k].phase # "new"
        BY <1>0, <1>4, <2>1 DEF HubInv, CastsOK, CastOK
      <3>2. c \in casts'[k].left
        BY <1>0, <1>4, <2>1, <3>1, LeftAfter DEF OnItsWay
      <3> QED
        BY <1>4, <3>2 DEF Has, OnItsWay, CuesOf
    <2>2. CASE j # k
      <3>1. casts'[k] = casts[k]
        BY <1>0, <1>4, <2>2, LeftAfter
      <3> QED
        BY <1>4, <3>1 DEF Has, OnItsWay, CuesOf
    <2> QED
      BY <2>1, <2>2
  <1>5. ASSUME NEW j \in Cast, NEW d \in Client, SinkWrites(j, d) PROVE Has(r, c)'
    <2>1. CASE <<j, d>> = <<k, c>>
      BY <1>0, <1>5, <2>1 DEF Has, OnItsWay, SinkWrites, TypeOK
    <2>2. CASE <<j, d>> # <<k, c>>
      BY <1>4, <1>5, <2>2 DEF SinkWrites, SendFrame, Sends
    <2> QED
      BY <2>1, <2>2
  <1>6. ASSUME NEW j \in Cast, NEW d \in Client, SendFrameFails(j, d),
               UNCHANGED memVars
        PROVE  Has(r, c)'
    <2>1. d # c
      BY <1>6 DEF SendFrameFails, Unregister
    <2> QED
      BY <1>1, <1>4, <1>6, <2>1 DEF SendFrameFails, Sends, memVars
  <1>7. ASSUME NEW j \in Cast, NEW d \in Client, CastCloses(j, d), UNCHANGED memVars
        PROVE  Has(r, c)'
    <2>1. d # c /\ d \in casts[j].left
      BY <1>0, <1>7 DEF CastCloses, HubInv, SocketInv, CastsOK, CastOK, Goroutine
    <2> QED
      BY <1>4, <1>7, <2>1 DEF CastCloses, memVars
  <1> QED
    BY <1>1, <1>2, <1>3, <1>5, <1>6, <1>7
    DEF Next, Steps, HubSteps, hubVars, memVars, HandlerLooksUp, HandlerReplays,
        HandlerFails, Tick, Connect, Resolved, Return, PingFails, PeerGone, LoopCloses,
        PingerCloses, Hello, Welcomed, WelcomeFails

\* What a client has been given, or is about to get, it keeps.
LEMMA HasKept ==
  ASSUME IInv, Next, NEW c \in clients, c \in clients', NEW r \in Run,
         ScopeOf[r] \in {room[c], AllRooms}, Has(r, c)
  PROVE  Has(r, c)'
  <1>0. c \in Client /\ TypeOK
    BY DEF IInv, HubInv, HubTypeOK
  <1>1. CASE \E k \in Cast : OnItsWay(k, r, c)
    BY <1>1, OnItsWayKept
  <1>2. CASE r \in offered[c] \cup skipped[c]
    BY <1>0, <1>2
    DEF Has, TypeOK, Next, Steps, memVars, SinkObserves, SinkBroadcasts, SinkWrites,
        HandlerLooksUp, HandlerReplays, HandlerFails, Tick
  <1>3. CASE r = replay[c]
    <2>1. ASSUME NEW d \in Client, HandlerReplays(d) PROVE Has(r, c)'
      BY <1>0, <1>3, <2>1, LateJoinAssumption DEF Has, HandlerReplays, TypeOK
    <2>2. ASSUME NEW d \in Client, HandlerFails(d) PROVE Has(r, c)'
      <3>1. d # c
        BY <2>2 DEF HandlerFails, WelcomeFails, Unregister
      <3> QED
        BY <1>0, <1>3, <2>2, <3>1 DEF Has, HandlerFails, TypeOK
    <2>3. ASSUME NEW d \in Client, HandlerLooksUp(d) PROVE Has(r, c)'
      <3>1. d # c
        BY <1>3, <2>3, LateJoinAssumption DEF HandlerLooksUp
      <3> QED
        BY <1>0, <1>3, <2>3, <3>1 DEF Has, HandlerLooksUp, TypeOK
    <2>4. CASE replay' = replay
      BY <1>3, <2>4 DEF Has
    <2> QED
      BY <2>1, <2>2, <2>3, <2>4
      DEF Next, Steps, memVars, SinkObserves, SinkBroadcasts, SinkWrites, Tick
  <1> QED
    BY <1>1, <1>2, <1>3 DEF Has

LEMMA NoMissedRunStep ==
  IInv /\ TypeOK' /\ StoreScope' /\ [Next]_vars => NoMissedRun'
  <1> SUFFICES ASSUME IInv, TypeOK', StoreScope', [Next]_vars,
                      NEW c \in clients', NEW s \in Scope, NEW r,
                      looked'[c] = room'[c], s \in {room'[c], AllRooms},
                      r = store'.runs[s].run, r # NoRun
               PROVE  Has(r, c)'
    BY DEF NoMissedRun, Has
  <1>0. c \in Client /\ TypeOK /\ HubInv
    BY DEF IInv, TypeOK, HubTypeOK
  <1>1. r \in Run /\ ScopeOf[r] = s
    BY DEF TypeOK, StoreScope, Memory!Store, Memory!Entry, Memory!Scope, Scope
  <1>2. CASE UNCHANGED vars
    BY <1>0, <1>2 DEF IInv, NoMissedRun, Has, OnItsWay, CuesOf, vars
  <1>3. ASSUME Next, c \in clients, store.runs[s].run = r, looked[c] = room[c],
               room'[c] = room[c]
        PROVE  Has(r, c)'
    <2>1. Has(r, c)
      BY <1>1, <1>3 DEF IInv, NoMissedRun, Has
    <2> QED
      BY <1>1, <1>3, <2>1, HasKept
  <1>4. CASE Next
    <2>1. ASSUME NEW k \in Cast, NEW f \in Frames, SinkObserves(k, f) PROVE Has(r, c)'
      <3>1. PICK t \in 0..now : store' = Memory!Observe(store, f, t)
        BY <2>1 DEF SinkObserves
      <3>2. r \in {store.runs[s].run, NoRun}
                    \cup (IF f \in CueFrames /\ s = f.scope THEN {f.run} ELSE {})
        BY <1>0, <3>1, ObserveFacts DEF TypeOK
      <3>3. CASE r = store.runs[s].run
        BY <1>3, <1>4, <2>1, <3>3 DEF SinkObserves, hubVars
      <3>4. CASE f \in CueFrames /\ r = f.run
        <4>1. casts'[k].phase = "new"
          BY <1>0, <2>1 DEF SinkObserves, hubVars, IInv, ObservedFirst
        <4>2. frame'[k] = {f}
          BY <1>0, <2>1 DEF SinkObserves, TypeOK
        <4> QED
          BY <3>4, <4>1, <4>2 DEF Has, OnItsWay, CuesOf
      <3> QED
        BY <3>2, <3>3, <3>4
    <2>2. ASSUME NEW d \in Client, HandlerLooksUp(d) PROVE Has(r, c)'
      <3>1. CASE d = c
        <4>1. PICK t \in 0..now :
                LET found == Memory!ForRoom(store, joining[c], t)
                IN  /\ replay' = [replay EXCEPT ![c] = found]
                    /\ looked' = [looked EXCEPT ![c] = joining[c]]
                    /\ skipped' = [skipped EXCEPT ![c] =
                                     @ \cup (InReach(joining[c]) \ {found})]
          BY <2>2, <3>1 DEF HandlerLooksUp
        <4>2. joining[c] = room'[c] /\ r = store.runs[s].run
          BY <1>0, <2>2, <4>1 DEF HandlerLooksUp, TypeOK
        <4>3. r \in InReach(joining[c])
          BY <4>2 DEF InReach
        <4>4. r \in skipped'[c] \cup {replay'[c]}
          BY <1>0, <4>1, <4>3 DEF TypeOK
        <4> QED
          BY <4>4 DEF Has
      <3>2. CASE d # c
        BY <1>0, <1>3, <1>4, <2>2, <3>2 DEF HandlerLooksUp, hubVars, TypeOK
      <3> QED
        BY <3>1, <3>2
    <2>3. ASSUME NEW d \in Client, Resolved(d), UNCHANGED memVars PROVE Has(r, c)'
      <3>1. c \in clients /\ looked[c] = room'[c] /\ store' = store
        BY <2>3 DEF Resolved, memVars
      <3>2. CASE d = c
        <4>1. looked[c] \in {NoRoom, room[c]}
          BY <1>0, <2>3, <3>1, <3>2 DEF IInv, LookedRoom, Resolved
        <4>2. room'[c] = joining[c] /\ joining[c] \in Room
          BY <1>0, <2>3, <3>1, <3>2 DEF Resolved, JoinRoom, TypeOK, HubTypeOK
        <4>3. room'[c] = room[c]
          BY <3>1, <4>1, <4>2, RoomAssumption
        <4> QED
          BY <1>3, <1>4, <3>1, <4>3
      <3>3. CASE d # c
        <4>1. room'[c] = room[c]
          BY <1>0, <2>3, <3>3 DEF Resolved, JoinRoom, TypeOK, HubTypeOK
        <4> QED
          BY <1>3, <1>4, <3>1, <4>1
      <3> QED
        BY <3>2, <3>3
    <2>4. ASSUME NEW d \in Client, Connect(d), UNCHANGED memVars PROVE Has(r, c)'
      <3>1. CASE d = c
        BY <1>0, <2>4, <3>1, RoomAssumption
        DEF Connect, memVars, IInv, LookedRoom, TypeOK, HubTypeOK
      <3>2. CASE d # c
        BY <1>0, <1>3, <1>4, <2>4, <3>2 DEF Connect, memVars, TypeOK, HubTypeOK
      <3> QED
        BY <3>1, <3>2
    <2>5. CASE clients' \subseteq clients /\ UNCHANGED <<room, looked, store>>
      BY <1>3, <1>4, <2>5
    <2> QED
      BY <1>4, <2>1, <2>2, <2>3, <2>4, <2>5
      DEF Next, Steps, HubSteps, hubVars, memVars, SinkBroadcasts, StartCast,
          SinkWrites, SendFrame, SendFrameFails, HandlerReplays, HandlerFails, Tick,
          Return, PingFails, PeerGone, LoopCloses, PingerCloses, CastCloses, Hello,
          Welcomed, WelcomeFails, Unregister
  <1> QED
    BY <1>2, <1>4

-----------------------------------------------------------------------------
(* The strengthened invariant and what follows from it. *)

LEMMA IInvInit == Init => IInv
  <1> SUFFICES ASSUME Init PROVE IInv
    OBVIOUS
  <1>1. TypeOK /\ HubInv
    BY MemTypeInit, InvInit DEF Init
  <1>2. /\ clients = {}
        /\ \A k \in Cast : casts[k].left = {} /\ casts[k].phase = "new"
        /\ \A c \in Client : handler[c] = "none"
    BY DEF Init, HubInit
  <1>3. \A q \in Scope : store.runs[q].run = NoRun
    BY DEF Init, Memory!EmptyStore, Memory!NoEntry, Memory!Scope, Scope
  <1>4. \A c \in Client : /\ room[c] = NoRoom /\ visited[c] = {NoRoom}
                          /\ looked[c] = NoRoom /\ replay[c] = NotLooked
                          /\ offered[c] = {}
    BY DEF Init, HubInit
  <1> QED
    BY <1>1, <1>2, <1>3, <1>4
    DEF IInv, ObservedFirst, StoreScope, JoinedRoom, LookedRoom, OwnRoom, OwnReplay,
        Unwritable, OwnFrames, OnlyOwnRooms, NoMissedRun

LEMMA IInvStep == IInv /\ [Next]_vars => IInv'
  <1> SUFFICES ASSUME IInv, [Next]_vars PROVE IInv'
    OBVIOUS
  <1>1. TypeOK' /\ HubInv'
    BY MemTypeStep, HubPart DEF IInv
  <1>2. StoreScope'
    BY StoreScopeStep
  <1>3. NoMissedRun'
    BY <1>1, <1>2, NoMissedRunStep
  <1> QED
    BY <1>1, <1>2, <1>3, ObservedFirstStep, JoinedRoomStep, LookedRoomStep,
       OwnRoomStep, OwnReplayStep, UnwritableStep, OwnFramesStep, OnlyOwnRoomsStep
    DEF IInv

\* The strengthened invariant of the hub with its memory holds in every reachable state.
THEOREM LateJoinInvariant == Spec => []IInv
  BY IInvInit, IInvStep, PTL DEF Spec

\* No client falls between the broadcast and the memory: observing before the
\* snapshot (BroadcastSink) and joining before the lookup (handleWS) are enough,
\* for any number of clients, rooms, runs and frames.
THEOREM NobodyMissesARun == Spec => []NoMissedRun
  <1>1. IInv => NoMissedRun
    BY DEF IInv
  <1> QED
    BY <1>1, LateJoinInvariant, PTL

\* A client is written no run of a room it has never been in, though it may
\* move while broadcasts and lookups are under way.
THEOREM NobodyGetsAnothersRun == Spec => []OnlyOwnRooms
  <1>1. IInv => OnlyOwnRooms
    BY DEF IInv
  <1> QED
    BY <1>1, LateJoinInvariant, PTL
=============================================================================
