----------------------------- MODULE Hub_proofs -----------------------------
(***************************************************************************)
(* Proofs about Hub, for any number of connections, rooms and broadcasts:  *)
(* its invariants, and that it implements RoomCast.                        *)
(***************************************************************************)
EXTENDS Hub, TLAPS

\* A connection that has not been made is nowhere, and its socket exists only
\* from the moment its handler runs.
Fresh ==
    \A c \in Client :
        /\ handler[c] = "none" <=> conn[c] = "none"
        /\ handler[c] = "none" =>
               c \notin clients /\ \A g \in Goroutine : <<c, g>> \notin closes

\* A registered client has been placed.
Placement == \A c \in clients : room[c] \in Room

\* The bookkeeping of one broadcast.  Its targets have been connected before,
\* so none of them can register again; the goroutine that closes a target's
\* socket is one the broadcast still waits for.
CastOK(k) ==
    /\ casts[k].left \subseteq casts[k].targets
    /\ casts[k].left \cap casts[k].got = {}
    /\ casts[k].left # {} <=> casts[k].phase = "sending"
    /\ casts[k].phase = "new" => casts[k].got = {}
    /\ \A c \in casts[k].targets :
          /\ handler[c] # "none"
          /\ c \in casts[k].left \/ c \in casts[k].got \/ c \notin clients
    /\ \A c \in Client : <<c, k>> \in closes => c \in casts[k].left

CastsOK == \A k \in Cast : CastOK(k)

HubInv ==
    /\ HubTypeOK
    /\ Fresh
    /\ Placement
    /\ MembershipInv
    /\ SocketInv
    /\ CastsOK

\* The actions, one disjunct each, for the case splits below.
Step ==
    \/ \E c \in Client :
         \/ Connect(c) \/ Resolved(c) \/ Welcomed(c) \/ WelcomeFails(c)
         \/ Return(c) \/ PingFails(c) \/ PeerGone(c)
         \/ LoopCloses(c) \/ PingerCloses(c)
    \/ \E c \in Client, r \in Room : Hello(c, r)
    \/ \E k \in Cast, s \in Scope : StartCast(k, s)
    \/ \E k \in Cast, c \in Client : SendFrame(k, c) \/ SendFrameFails(k, c)
                                 \/ CastCloses(k, c)

\* Goroutine g drops c, after a failed write or without one.
Drops(c, g) == Unregister(c, g) /\ (UNCHANGED conn \/ WriteFails(c))

\* Goroutine g ends its Unregister of c.
Closes(c, g) ==
    /\ <<c, g>> \in closes
    /\ CloseSocket(c, g)
    /\ UNCHANGED <<clients, rooms, room, handler, joining>>

LEMMA StepIsNext == HubNext => Step
  BY DEF HubNext, Step

-----------------------------------------------------------------------------
\* What the critical sections of Hub.mu do to the table of rooms.

LEMMA RemovedType ==
  ASSUME NEW c \in Client, HubTypeOK
  PROVE  RemovedFromRoom(c) \in [Room -> SUBSET Client]
  BY DEF HubTypeOK, RemovedFromRoom

LEMMA UnregisterType ==
  ASSUME NEW c \in Client, NEW g \in Goroutine, HubTypeOK, Drops(c, g)
  PROVE  /\ clients' \subseteq Client
         /\ rooms' \in [Room -> SUBSET Client]
         /\ room' \in [Client -> Room \cup {NoRoom}]
         /\ conn' \in [Client -> {"none", "open", "broken", "failed", "closed"}]
         /\ closes' \subseteq Client \X Goroutine
         /\ joining' \in [Client -> Room]
  <1>1. /\ clients' \subseteq Client
        /\ rooms' \in [Room -> SUBSET Client]
        /\ room' = room
        /\ joining' = joining
    BY RemovedType DEF HubTypeOK, Drops, Unregister
  <1>2. conn' \in [Client -> {"none", "open", "broken", "failed", "closed"}]
    BY DEF HubTypeOK, Drops, WriteFails
  <1>3. closes' \subseteq Client \X Goroutine
    BY DEF HubTypeOK, Drops, Unregister
  <1> QED
    BY <1>1, <1>2, <1>3 DEF HubTypeOK

LEMMA ClosesType ==
  ASSUME NEW c \in Client, NEW g \in Goroutine, HubTypeOK, Closes(c, g)
  PROVE  /\ clients' \subseteq Client
         /\ rooms' \in [Room -> SUBSET Client]
         /\ room' \in [Client -> Room \cup {NoRoom}]
         /\ conn' \in [Client -> {"none", "open", "broken", "failed", "closed"}]
         /\ handler' = handler
         /\ closes' \subseteq Client \X Goroutine
         /\ joining' \in [Client -> Room]
  BY DEF HubTypeOK, Closes, CloseSocket

LEMMA CastLeftType ==
  ASSUME NEW k \in Cast, NEW c \in Client, NEW got \in SUBSET Client,
         HubTypeOK, CastLeft(k, c, got)
  PROVE  casts' \in [Cast -> CastState]
  BY DEF HubTypeOK, CastLeft, CastState

LEMMA TypeInit == HubInit => HubTypeOK
  BY RoomAssumption DEF HubInit, HubTypeOK, CastState, Scope

LEMMA TypeStep == HubTypeOK /\ [HubNext]_hubVars => HubTypeOK'
  <1> SUFFICES ASSUME HubTypeOK, [HubNext]_hubVars PROVE HubTypeOK'
    OBVIOUS
  <1>1. CASE UNCHANGED hubVars
    BY <1>1 DEF HubTypeOK, hubVars
  <1>2. ASSUME NEW c \in Client, Connect(c) PROVE HubTypeOK'
    BY <1>2, RoomAssumption DEF HubTypeOK, Connect
  <1>3. ASSUME NEW c \in Client, NEW r \in Room, Hello(c, r) PROVE HubTypeOK'
    BY <1>3 DEF HubTypeOK, Hello
  <1>4. ASSUME NEW c \in Client, Resolved(c) PROVE HubTypeOK'
    <2>1. Placed(c, joining[c]) \in [Room -> SUBSET Client]
      BY RemovedType DEF HubTypeOK, Placed
    <2> QED
      BY <1>4, <2>1 DEF HubTypeOK, Resolved, JoinRoom
  <1>5. ASSUME NEW c \in Client, Welcomed(c) PROVE HubTypeOK'
    BY <1>5 DEF HubTypeOK, Welcomed
  <1>6. ASSUME NEW c \in Client, WelcomeFails(c) PROVE HubTypeOK'
    BY <1>6, UnregisterType DEF HubTypeOK, WelcomeFails, Drops, Goroutine
  <1>7. ASSUME NEW c \in Client, Return(c) PROVE HubTypeOK'
    BY <1>7, UnregisterType DEF HubTypeOK, Return, Drops, Goroutine
  <1>8. ASSUME NEW c \in Client, PingFails(c) PROVE HubTypeOK'
    BY <1>8, UnregisterType DEF HubTypeOK, PingFails, Drops, Goroutine
  <1>9. ASSUME NEW c \in Client, PeerGone(c) PROVE HubTypeOK'
    BY <1>9 DEF HubTypeOK, PeerGone
  <1>10. ASSUME NEW k \in Cast, NEW s \in Scope, StartCast(k, s) PROVE HubTypeOK'
    <2>1. MembersOf(s) \in SUBSET Client
      BY DEF HubTypeOK, MembersOf, Scope
    <2> QED
      BY <1>10, <2>1 DEF HubTypeOK, StartCast, CastState
  <1>11. ASSUME NEW k \in Cast, NEW c \in Client, SendFrame(k, c) PROVE HubTypeOK'
    BY <1>11, CastLeftType DEF HubTypeOK, SendFrame
  <1>12. ASSUME NEW k \in Cast, NEW c \in Client, SendFrameFails(k, c)
         PROVE HubTypeOK'
    BY <1>12, CastLeftType, UnregisterType
    DEF HubTypeOK, SendFrameFails, Drops, Goroutine
  <1>13. ASSUME NEW c \in Client, LoopCloses(c) \/ PingerCloses(c) PROVE HubTypeOK'
    BY <1>13, ClosesType
    DEF HubTypeOK, LoopCloses, PingerCloses, Closes, Goroutine
  <1>14. ASSUME NEW k \in Cast, NEW c \in Client, CastCloses(k, c) PROVE HubTypeOK'
    BY <1>14, ClosesType, CastLeftType DEF HubTypeOK, CastCloses, Closes, Goroutine
  <1> QED
    BY <1>1, <1>2, <1>3, <1>4, <1>5, <1>6, <1>7, <1>8, <1>9, <1>10, <1>11, <1>12,
       <1>13, <1>14, StepIsNext DEF Step

-----------------------------------------------------------------------------
(* The other conjuncts, one lemma each. *)

LEMMA DropsFresh ==
  ASSUME NEW c \in Client, NEW g \in Goroutine, HubTypeOK, Fresh, Drops(c, g),
         handler[c] # "none", handler'[c] # "none",
         \A d \in Client : d # c => handler'[d] = handler[d]
  PROVE  Fresh'
  <1>1. \A d \in Client : conn'[d] = "none" <=> conn[d] = "none"
    BY DEF HubTypeOK, Fresh, Drops, WriteFails
  <1>2. \A d \in Client, h \in Goroutine :
           <<d, h>> \in closes' => d = c \/ <<d, h>> \in closes
    BY DEF Drops, Unregister
  <1>3. clients' \subseteq clients
    BY DEF Drops, Unregister
  <1> QED
    BY <1>1, <1>2, <1>3 DEF Fresh

LEMMA ClosesFresh ==
  ASSUME NEW c \in Client, NEW g \in Goroutine, HubTypeOK, Fresh, Closes(c, g)
  PROVE  Fresh'
  BY DEF HubTypeOK, Fresh, Closes, CloseSocket

LEMMA FreshStep == HubInv /\ [HubNext]_hubVars => Fresh'
  <1> SUFFICES ASSUME HubTypeOK, Fresh, CastsOK, [HubNext]_hubVars PROVE Fresh'
    BY DEF HubInv
  <1>1. CASE UNCHANGED <<clients, conn, handler, closes>>
    BY <1>1 DEF Fresh
  <1>2. ASSUME NEW c \in Client, Connect(c) PROVE Fresh'
    BY <1>2 DEF HubTypeOK, Fresh, Connect
  <1>3. ASSUME NEW c \in Client, UNCHANGED <<clients, conn, closes>>,
               handler[c] # "none",
               \E h : h # "none" /\ handler' = [handler EXCEPT ![c] = h]
        PROVE  Fresh'
    BY <1>3 DEF HubTypeOK, Fresh
  <1>4. ASSUME NEW c \in Client, NEW r \in Room, Hello(c, r) PROVE Fresh'
    BY <1>3, <1>4 DEF Hello, Reads
  <1>5. ASSUME NEW c \in Client, Resolved(c) \/ Welcomed(c) PROVE Fresh'
    BY <1>3, <1>5 DEF Resolved, Welcomed
  <1>6. ASSUME NEW c \in Client, WelcomeFails(c) PROVE Fresh'
    BY <1>6, DropsFresh DEF HubTypeOK, WelcomeFails, Drops, Goroutine
  <1>7. ASSUME NEW c \in Client, Return(c) PROVE Fresh'
    BY <1>7, DropsFresh DEF HubTypeOK, Return, Reads, Drops, Goroutine
  <1>8. ASSUME NEW c \in Client, PingFails(c) PROVE Fresh'
    BY <1>8, DropsFresh DEF HubTypeOK, PingFails, Drops, Goroutine
  <1>9. ASSUME NEW c \in Client, PeerGone(c) PROVE Fresh'
    BY <1>9 DEF HubTypeOK, Fresh, PeerGone
  <1>10. ASSUME NEW k \in Cast, NEW c \in Client, SendFrameFails(k, c) PROVE Fresh'
    <2>1. handler[c] # "none"
      BY <1>10 DEF SendFrameFails, Sends, CastsOK, CastOK
    <2> QED
      BY <1>10, <2>1, DropsFresh DEF SendFrameFails, Drops, Goroutine
  <1>11. ASSUME NEW c \in Client, LoopCloses(c) \/ PingerCloses(c) PROVE Fresh'
    BY <1>11, ClosesFresh DEF LoopCloses, PingerCloses, Closes, Goroutine
  <1>12. ASSUME NEW k \in Cast, NEW c \in Client, CastCloses(k, c) PROVE Fresh'
    BY <1>12, ClosesFresh DEF CastCloses, Closes, Goroutine
  <1> QED
    BY <1>1, <1>2, <1>4, <1>5, <1>6, <1>7, <1>8, <1>9, <1>10, <1>11, <1>12,
       StepIsNext DEF Step, hubVars, StartCast, SendFrame

\* Membership, together with the placement it needs: the four actions that
\* touch the tables, and the rest.
LEMMA UnregisterTables ==
  ASSUME NEW c \in Client, NEW g, HubTypeOK, Placement, MembershipInv,
         Unregister(c, g)
  PROVE  Placement' /\ MembershipInv'
  BY DEF HubTypeOK, Placement, MembershipInv, Unregister, RemovedFromRoom

LEMMA JoinRoomTables ==
  ASSUME NEW c \in Client, NEW r \in Room, HubTypeOK, Placement, MembershipInv,
         JoinRoom(c, r), UNCHANGED clients
  PROVE  Placement' /\ MembershipInv'
  <1>1. CASE c \in clients
    <2>1. rooms' = [q \in Room |-> IF q = r THEN RemovedFromRoom(c)[q] \cup {c}
                                   ELSE RemovedFromRoom(c)[q]]
      BY <1>1, RemovedType DEF JoinRoom, Placed
    <2>2. room' = [room EXCEPT ![c] = r]
      BY <1>1 DEF JoinRoom
    <2> QED
      BY <1>1, <2>1, <2>2 DEF HubTypeOK, Placement, MembershipInv, RemovedFromRoom
  <1>2. CASE c \notin clients
    BY <1>2 DEF JoinRoom, Placement, MembershipInv
  <1> QED
    BY <1>1, <1>2

LEMMA MembershipStep ==
  HubInv /\ [HubNext]_hubVars => Placement' /\ MembershipInv'
  <1> SUFFICES ASSUME HubTypeOK, Fresh, Placement, MembershipInv, [HubNext]_hubVars
               PROVE  Placement' /\ MembershipInv'
    BY DEF HubInv
  <1>1. CASE UNCHANGED <<clients, rooms, room>>
    BY <1>1 DEF Placement, MembershipInv
  <1>2. ASSUME NEW c \in Client, Connect(c) PROVE Placement' /\ MembershipInv'
    BY <1>2, RoomAssumption DEF HubTypeOK, Fresh, Placement, MembershipInv, Connect
  <1>3. ASSUME NEW c \in Client, Resolved(c) PROVE Placement' /\ MembershipInv'
    BY <1>3, JoinRoomTables DEF HubTypeOK, Resolved
  <1>4. ASSUME NEW c \in Client, NEW g, Unregister(c, g)
        PROVE  Placement' /\ MembershipInv'
    BY <1>4, UnregisterTables
  <1> QED
    BY <1>1, <1>2, <1>3, <1>4, StepIsNext
    DEF Step, hubVars, Hello, Welcomed, WelcomeFails, Return, PingFails, PeerGone,
        LoopCloses, PingerCloses, StartCast, SendFrame, SendFrameFails, CastCloses

\* The goroutine that finds the client registered gets the socket to close.
LEMMA DropsSocket ==
  ASSUME NEW c \in Client, NEW g \in Goroutine, HubTypeOK, Fresh, SocketInv,
         Drops(c, g),
         handler[c] # "none",
         \A d \in Client : d # c => handler'[d] = handler[d]
  PROVE  SocketInv'
  <1>1. ASSUME NEW d \in Client, d # c
        PROVE  /\ conn'[d] = conn[d]
               /\ d \in clients' <=> d \in clients
               /\ \A h \in Goroutine : <<d, h>> \in closes' <=> <<d, h>> \in closes
    BY <1>1 DEF HubTypeOK, Drops, Unregister, WriteFails
  <1>2. c \notin clients' /\ (conn'[c] = "closed" <=> conn[c] = "closed")
    BY DEF HubTypeOK, Drops, Unregister, WriteFails
  <1>3. CASE c \in clients
    <2>1. \A h \in Goroutine : <<c, h>> \in closes' <=> h = g
      BY <1>3 DEF SocketInv, Drops, Unregister
    <2>2. conn'[c] # "closed"
      BY <1>2, <1>3 DEF SocketInv, Writable
    <2> QED
      BY <1>1, <1>2, <2>1, <2>2 DEF SocketInv, Writable
  <1>4. CASE c \notin clients
    <2>1. closes' = closes
      BY <1>4 DEF Drops, Unregister
    <2> QED
      BY <1>1, <1>2, <1>4, <2>1 DEF SocketInv, Writable
  <1> QED
    BY <1>3, <1>4

LEMMA ClosesSocket ==
  ASSUME NEW c \in Client, NEW g \in Goroutine, HubTypeOK, Fresh, SocketInv,
         Closes(c, g)
  PROVE  SocketInv'
  <1>1. c \notin clients /\ handler[c] # "none"
    BY DEF Closes, SocketInv, Fresh
  <1>2. \A h \in Goroutine : <<c, h>> \in closes <=> h = g
    BY <1>1 DEF Closes, SocketInv
  <1>3. conn'[c] = "closed" /\ \A h \in Goroutine : <<c, h>> \notin closes'
    BY <1>2 DEF HubTypeOK, Closes, CloseSocket
  <1>4. ASSUME NEW d \in Client, d # c
        PROVE  /\ conn'[d] = conn[d]
               /\ \A h \in Goroutine : <<d, h>> \in closes' <=> <<d, h>> \in closes
    BY <1>4 DEF HubTypeOK, Closes, CloseSocket
  <1>5. UNCHANGED <<clients, handler>>
    BY DEF Closes
  <1> QED
    BY <1>1, <1>3, <1>4, <1>5 DEF SocketInv, Writable

LEMMA SocketStep == HubInv /\ [HubNext]_hubVars => SocketInv'
  <1> SUFFICES ASSUME HubTypeOK, Fresh, SocketInv, CastsOK, [HubNext]_hubVars
               PROVE  SocketInv'
    BY DEF HubInv
  <1>1. CASE UNCHANGED <<clients, conn, handler, closes>>
    BY <1>1 DEF SocketInv, Writable
  <1>2. ASSUME NEW c \in Client, Connect(c) PROVE SocketInv'
    BY <1>2 DEF HubTypeOK, Fresh, SocketInv, Writable, Connect
  <1>3. ASSUME NEW c \in Client, UNCHANGED <<clients, conn, closes>>,
               handler[c] # "none", \E h : handler' = [handler EXCEPT ![c] = h]
        PROVE SocketInv'
    BY <1>3 DEF HubTypeOK, SocketInv, Writable
  <1>4. ASSUME NEW c \in Client, NEW r \in Room, Hello(c, r) PROVE SocketInv'
    BY <1>3, <1>4 DEF Hello, Reads
  <1>5. ASSUME NEW c \in Client, Resolved(c) \/ Welcomed(c) PROVE SocketInv'
    BY <1>3, <1>5 DEF Resolved, Welcomed
  <1>6. ASSUME NEW c \in Client, WelcomeFails(c) PROVE SocketInv'
    BY <1>6, DropsSocket DEF HubTypeOK, WelcomeFails, Drops, Goroutine
  <1>7. ASSUME NEW c \in Client, Return(c) PROVE SocketInv'
    BY <1>7, DropsSocket DEF HubTypeOK, Return, Reads, Drops, Goroutine
  <1>8. ASSUME NEW c \in Client, PingFails(c) PROVE SocketInv'
    BY <1>8, DropsSocket DEF HubTypeOK, PingFails, Drops, Goroutine
  <1>9. ASSUME NEW c \in Client, PeerGone(c) PROVE SocketInv'
    BY <1>9 DEF HubTypeOK, SocketInv, Writable, PeerGone
  <1>10. ASSUME NEW k \in Cast, NEW c \in Client, SendFrameFails(k, c)
         PROVE  SocketInv'
    <2>1. handler[c] # "none"
      BY <1>10 DEF SendFrameFails, Sends, CastsOK, CastOK
    <2> QED
      BY <1>10, <2>1, DropsSocket DEF SendFrameFails, Drops, Goroutine
  <1>11. ASSUME NEW c \in Client, LoopCloses(c) \/ PingerCloses(c) PROVE SocketInv'
    BY <1>11, ClosesSocket DEF LoopCloses, PingerCloses, Closes, Goroutine
  <1>12. ASSUME NEW k \in Cast, NEW c \in Client, CastCloses(k, c) PROVE SocketInv'
    BY <1>12, ClosesSocket DEF CastCloses, Closes, Goroutine
  <1> QED
    BY <1>1, <1>2, <1>4, <1>5, <1>6, <1>7, <1>8, <1>9, <1>10, <1>11, <1>12,
       StepIsNext DEF Step, hubVars, StartCast, SendFrame

\* A step that leaves the broadcasts alone and registers nobody who has been
\* connected before keeps the bookkeeping.
LEMMA CastsKept ==
  ASSUME CastsOK, UNCHANGED casts,
         \A c \in Client : handler[c] # "none" =>
             handler'[c] # "none" /\ (c \in clients' => c \in clients),
         \A c \in Client, k \in Cast : <<c, k>> \in closes' => <<c, k>> \in closes,
         HubTypeOK
  PROVE  CastsOK'
  BY DEF CastsOK, CastOK, HubTypeOK, CastState

LEMMA CastsStep == HubInv /\ [HubNext]_hubVars => CastsOK'
  <1> SUFFICES ASSUME HubInv, [HubNext]_hubVars PROVE CastsOK'
    OBVIOUS
  <1> USE DEF HubInv
  <1>1. CASE UNCHANGED hubVars
    BY <1>1, CastsKept DEF hubVars
  <1>2. ASSUME NEW c \in Client, Connect(c) PROVE CastsOK'
    BY <1>2, CastsKept DEF HubTypeOK, Connect
  <1>3. ASSUME NEW c \in Client, NEW r \in Room, Hello(c, r) PROVE CastsOK'
    BY <1>3, CastsKept DEF HubTypeOK, Hello
  <1>4. ASSUME NEW c \in Client, Resolved(c) PROVE CastsOK'
    BY <1>4, CastsKept DEF HubTypeOK, Resolved
  <1>5. ASSUME NEW c \in Client, Welcomed(c) PROVE CastsOK'
    BY <1>5, CastsKept DEF HubTypeOK, Welcomed
  <1>6. ASSUME NEW c \in Client, WelcomeFails(c) PROVE CastsOK'
    BY <1>6, CastsKept, GoroutineAssumption DEF HubTypeOK, WelcomeFails, Unregister
  <1>7. ASSUME NEW c \in Client, Return(c) PROVE CastsOK'
    BY <1>7, CastsKept, GoroutineAssumption DEF HubTypeOK, Return, Unregister
  <1>8. ASSUME NEW c \in Client, PingFails(c) PROVE CastsOK'
    BY <1>8, CastsKept, GoroutineAssumption DEF HubTypeOK, PingFails, Unregister
  <1>9. ASSUME NEW c \in Client, PeerGone(c) PROVE CastsOK'
    BY <1>9, CastsKept DEF HubTypeOK, PeerGone
  <1>10. ASSUME NEW k \in Cast, NEW s \in Scope, StartCast(k, s) PROVE CastsOK'
    <2>1. MembersOf(s) \subseteq clients
      BY DEF HubTypeOK, MembershipInv, MembersOf, Scope
    <2>2. ASSUME NEW j \in Cast PROVE CastOK(j)'
      <3>1. CASE j = k
        <4>1. \A c \in Client : <<c, k>> \notin closes'
          BY <1>10 DEF StartCast, CastsOK, CastOK
        <4> QED
          BY <1>10, <2>1, <3>1, <4>1
          DEF HubTypeOK, Fresh, StartCast, CastOK, CastState
      <3>2. CASE j # k
        BY <1>10, <3>2 DEF HubTypeOK, CastsOK, StartCast, CastOK, CastState
      <3> QED
        BY <3>1, <3>2
    <2> QED
      BY <2>2 DEF CastsOK
  <1>11. ASSUME NEW k \in Cast, NEW c \in Client, NEW got \in SUBSET {c},
                c \in casts[k].left, CastLeft(k, c, got), UNCHANGED handler,
                clients' \subseteq clients, c \in got \/ c \notin clients',
                <<c, k>> \notin closes',
                \A d \in Client, j \in Cast : <<d, j>> \in closes' => <<d, j>> \in closes
         PROVE  CastsOK'
    <2>1. ASSUME NEW j \in Cast PROVE CastOK(j)'
      <3>1. CASE j = k
        BY <1>11, <3>1 DEF HubTypeOK, CastsOK, CastLeft, CastOK, CastState
      <3>2. CASE j # k
        BY <1>11, <3>2 DEF HubTypeOK, CastsOK, CastLeft, CastOK, CastState
      <3> QED
        BY <3>1, <3>2
    <2> QED
      BY <2>1 DEF CastsOK
  <1>12. ASSUME NEW k \in Cast, NEW c \in Client, SendFrame(k, c) PROVE CastsOK'
    BY <1>11, <1>12 DEF SendFrame, Sends
  <1>13. ASSUME NEW k \in Cast, NEW c \in Client, SendFrameFails(k, c) PROVE CastsOK'
    <2>1. CASE c \in clients
      <3>1. closes' = closes \cup {<<c, k>>} /\ clients' = clients \ {c}
        BY <1>13, <2>1 DEF SendFrameFails, Unregister
      <3>2. UNCHANGED <<casts, handler>> /\ c \in casts[k].left
        BY <1>13, <2>1 DEF SendFrameFails, Sends
      <3>3. ASSUME NEW j \in Cast PROVE CastOK(j)'
        BY <3>1, <3>2 DEF HubTypeOK, CastsOK, CastOK, CastState
      <3> QED
        BY <3>3 DEF CastsOK
    <2>2. CASE c \notin clients
      <3>1. closes' = closes /\ clients' \subseteq clients /\ c \notin clients'
        BY <1>13, <2>2 DEF SendFrameFails, Unregister
      <3>2. /\ CastLeft(k, c, {})
            /\ UNCHANGED handler
            /\ c \in casts[k].left
            /\ <<c, k>> \notin closes
        BY <1>13, <2>2 DEF SendFrameFails, Sends
      <3> QED
        BY <1>11, <3>1, <3>2
    <2> QED
      BY <2>1, <2>2
  <1>14. ASSUME NEW c \in Client, LoopCloses(c) \/ PingerCloses(c) PROVE CastsOK'
    BY <1>14, CastsKept DEF HubTypeOK, LoopCloses, PingerCloses, CloseSocket
  <1>15. ASSUME NEW k \in Cast, NEW c \in Client, CastCloses(k, c) PROVE CastsOK'
    <2>1. c \in casts[k].left /\ c \notin clients
      BY <1>15 DEF CastCloses, CastsOK, CastOK, SocketInv, Goroutine
    <2>2. closes' = closes \ {<<c, k>>}
      BY <1>15 DEF CastCloses, CloseSocket
    <2>3. CastLeft(k, c, {}) /\ UNCHANGED <<clients, handler>>
      BY <1>15 DEF CastCloses
    <2> QED
      BY <1>11, <2>1, <2>2, <2>3
  <1> QED
    BY <1>1, <1>2, <1>3, <1>4, <1>5, <1>6, <1>7, <1>8, <1>9, <1>10, <1>12, <1>13,
       <1>14, <1>15, StepIsNext DEF Step

-----------------------------------------------------------------------------
\* The strengthened invariant: it holds at the start and every step keeps it.

LEMMA InvInit == HubInit => HubInv
  <1> SUFFICES ASSUME HubInit PROVE HubInv
    OBVIOUS
  <1>1. HubTypeOK
    BY TypeInit
  <1> QED
    BY <1>1 DEF HubInit, HubInv, Fresh, Placement, MembershipInv, SocketInv,
                CastsOK, CastOK

LEMMA InvStep == HubInv /\ [HubNext]_hubVars => HubInv'
  BY TypeStep, FreshStep, MembershipStep, SocketStep, CastsStep DEF HubInv

\* The strengthened invariant of the hub holds in every reachable state.
THEOREM HubInvariant == HubSpec => []HubInv
  BY InvInit, InvStep, PTL DEF HubSpec

\* Every variable of the hub keeps its type, whatever goroutines do.
THEOREM HubTypeCorrect == HubSpec => []HubTypeOK
  <1>1. HubInv => HubTypeOK
    BY DEF HubInv
  <1> QED
    BY <1>1, HubInvariant, PTL

\* The tables of clients and of rooms agree at every moment, for any number of
\* connections that join, move and are dropped concurrently (hub.go).
THEOREM TablesAgree == HubSpec => []MembershipInv
  <1>1. HubInv => MembershipInv
    BY DEF HubInv
  <1> QED
    BY <1>1, HubInvariant, PTL

\* Of the goroutines that race to drop a client exactly one goes on to close its
\* socket, after the lock; the socket is open until then and closed from then
\* on, and no registered client's socket is closed (Unregister in hub.go).
THEOREM SocketsClosed == HubSpec => []SocketInv
  <1>1. HubInv => SocketInv
    BY DEF HubInv
  <1> QED
    BY <1>1, HubInvariant, PTL

LEMMA InvCastComplete == HubInv => CastComplete
  BY DEF HubInv, HubTypeOK, CastsOK, CastOK, CastComplete, CastState

\* A broadcast that has returned owes nobody its frame: each target has it or
\* has been dropped.
THEOREM CastsComplete == HubSpec => []CastComplete
  BY InvCastComplete, HubInvariant, PTL

-----------------------------------------------------------------------------
(* The hub implements RoomCast. *)

LEMMA PromiseInit == HubInit => Promise!Init
  BY DEF HubInit, Promise!Init, Where, Linked

\* A broadcast that ends owes nobody: CastComplete, read through the mapping.
LEMMA PromiseSettled == HubInv' => Promise!Settled
  <1> SUFFICES ASSUME HubInv' PROVE Promise!Settled
    OBVIOUS
  <1>1. CastComplete'
    BY InvCastComplete, PTL
  <1>2. ASSUME NEW k \in Cast, NEW c \in Client, casts'[k].phase = "done",
               c \in casts'[k].targets, c \notin casts'[k].got
        PROVE  Where'[c] = AllRooms
    <2>1. c \notin clients'
      BY <1>1, <1>2 DEF CastComplete
    <2>2. conn'[c] # "none"
      BY <1>2 DEF HubInv, CastsOK, CastOK, Fresh
    <2> QED
      BY <2>1, <2>2 DEF Where
  <1> QED
    BY <1>2 DEF Promise!Settled

\* Where a client is, said of one client at a time.
LEMMA WhereIs ==
  ASSUME HubInv, NEW c \in Client
  PROVE  /\ handler[c] = "none" => Where[c] = NoRoom
         /\ c \in clients => Where[c] = room[c] /\ Where[c] \in Room
         /\ (handler[c] # "none" /\ c \notin clients) => Where[c] = AllRooms
         /\ Promise!Present(c) <=> c \in clients
  <1>1. handler[c] = "none" => Where[c] = NoRoom
    BY DEF HubInv, Fresh, Where
  <1>2. c \in clients => Where[c] = room[c] /\ Where[c] \in Room
    BY DEF HubInv, Fresh, Placement, Where
  <1>3. (handler[c] # "none" /\ c \notin clients) => Where[c] = AllRooms
    BY DEF HubInv, Fresh, Where
  <1>4. Promise!Present(c) <=> c \in clients
    BY <1>1, <1>2, <1>3, RoomAssumption DEF Promise!Present, HubInv, Fresh
  <1> QED
    BY <1>1, <1>2, <1>3, <1>4

\* Dropping a client: it leaves, unless it had left before.  Its link stays.
LEMMA DropsWhere ==
  ASSUME NEW c \in Client, NEW g, HubInv, Drops(c, g), handler[c] # "none"
  PROVE  /\ c \in clients => Where' = [Where EXCEPT ![c] = AllRooms]
         /\ c \notin clients => Where' = Where
         /\ Linked' = Linked
  <1>1. \A d \in Client : /\ conn'[d] = "none" <=> conn[d] = "none"
                          /\ conn'[d] = "closed" <=> conn[d] = "closed"
    BY DEF HubInv, HubTypeOK, Fresh, Drops, WriteFails
  <1>2. room' = room /\ clients' = clients \ {c} /\ conn[c] # "none"
    BY DEF HubInv, Fresh, Drops, Unregister
  <1>3. c \in clients => Where' = [Where EXCEPT ![c] = AllRooms]
    BY <1>1, <1>2 DEF Where
  <1>4. c \notin clients => Where' = Where
    BY <1>1, <1>2 DEF HubInv, HubTypeOK, Where
  <1>5. Linked' = Linked
    BY <1>1 DEF Linked
  <1> QED
    BY <1>3, <1>4, <1>5

LEMMA DropsPromise ==
  ASSUME NEW c \in Client, NEW g, HubInv, HubInv', Drops(c, g), UNCHANGED casts,
         handler[c] # "none"
  PROVE  [Promise!Next]_(Promise!castVars)
  <1>1. CASE c \in clients
    <2>1. Promise!Leave(c)
      BY <1>1, DropsWhere, WhereIs DEF Promise!Leave
    <2> QED
      BY <2>1, PromiseSettled DEF Promise!Next
  <1>2. CASE c \notin clients
    BY <1>2, DropsWhere DEF Promise!castVars
  <1> QED
    BY <1>1, <1>2

\* Closing the socket of a client that has left cuts its link.
LEMMA ClosesLink ==
  ASSUME NEW c \in Client, NEW g \in Goroutine, HubInv, Closes(c, g)
  PROVE  /\ Where' = Where
         /\ Where[c] = AllRooms
         /\ c \in Linked
         /\ Linked' = Linked \ {c}
  <1>1. /\ c \notin clients
        /\ handler[c] # "none"
        /\ conn[c] # "closed"
        /\ conn[c] # "none"
    BY DEF HubInv, Closes, SocketInv, Fresh
  <1>2. /\ conn' = [conn EXCEPT ![c] = "closed"]
        /\ UNCHANGED <<clients, room>>
    BY DEF Closes, CloseSocket
  <1>3. Where' = Where
    BY <1>1, <1>2 DEF HubInv, HubTypeOK, Where
  <1>4. Linked' = Linked \ {c} /\ c \in Linked
    BY <1>1, <1>2 DEF HubInv, HubTypeOK, Linked
  <1> QED
    BY <1>1, <1>3, <1>4, WhereIs

\* The broadcasts as RoomCast sees them after a target's goroutine has ended.
LEMMA CastLeftPromise ==
  ASSUME HubInv, NEW k \in Cast, NEW c \in casts[k].left, NEW got \in SUBSET {c},
         CastLeft(k, c, got)
  PROVE  LET reached == [j \in Cast |-> casts[j].got]
             begun   == {j \in Cast : casts[j].phase # "new"}
             ended   == {j \in Cast : casts[j].phase = "done"}
         IN  /\ [j \in Cast |-> casts[j].scope]' = [j \in Cast |-> casts[j].scope]
             /\ [j \in Cast |-> casts[j].targets]' = [j \in Cast |-> casts[j].targets]
             /\ reached' = [reached EXCEPT ![k] = @ \cup got]
             /\ got = {} => reached' = reached
             /\ begun' = begun
             /\ k \in begun \ ended
             /\ ended' = ended \/ ended' = ended \cup {k}
  <1>1. casts[k].phase = "sending"
    BY DEF HubInv, CastsOK, CastOK
  <1>2. \A j \in Cast : j # k => casts'[j] = casts[j]
    BY DEF HubInv, HubTypeOK, CastLeft
  <1>3. /\ casts'[k].scope = casts[k].scope
        /\ casts'[k].targets = casts[k].targets
        /\ casts'[k].got = casts[k].got \cup got
        /\ casts'[k].phase \in {"sending", "done"}
    BY <1>1 DEF HubInv, HubTypeOK, CastLeft
  <1> QED
    BY <1>1, <1>2, <1>3

LEMMA PromiseStep ==
  HubInv /\ HubInv' /\ [HubNext]_hubVars => [Promise!Next]_(Promise!castVars)
  <1> SUFFICES ASSUME HubInv, HubInv', [HubNext]_hubVars
               PROVE  [Promise!Next]_(Promise!castVars)
    OBVIOUS
  <1>0. HubTypeOK
    BY DEF HubInv
  <1>1. CASE UNCHANGED <<clients, room, casts>> /\
             \A c \in Client : /\ conn'[c] = "none" <=> conn[c] = "none"
                               /\ conn'[c] = "closed" <=> conn[c] = "closed"
    BY <1>1 DEF Promise!castVars, Where, Linked
  <1>2. ASSUME NEW c \in Client, Connect(c) PROVE Promise!Next
    <2>1. Where' = [Where EXCEPT ![c] = DefaultRoom]
      BY <1>0, <1>2 DEF HubTypeOK, Connect, Where
    <2>2. Linked' = Linked \cup {c}
      BY <1>0, <1>2 DEF HubTypeOK, Connect, Linked
    <2>3. Promise!Enter(c)
      BY <1>2, <2>1, <2>2, WhereIs DEF Promise!Enter, Connect
    <2> QED
      BY <2>3, PromiseSettled DEF Promise!Next
  <1>3. ASSUME NEW c \in Client, Resolved(c)
        PROVE  [Promise!Next]_(Promise!castVars)
    <2>1. CASE c \in clients
      <3>1. /\ room' = [room EXCEPT ![c] = joining[c]]
            /\ UNCHANGED <<clients, conn>>
        BY <1>3, <2>1 DEF Resolved, JoinRoom
      <3>2. conn[c] # "none"
        BY <2>1 DEF HubInv, Fresh
      <3>3. Where' = [Where EXCEPT ![c] = joining[c]]
        BY <1>0, <2>1, <3>1, <3>2 DEF HubTypeOK, Where
      <3>4. Promise!Move(c, joining[c]) /\ joining[c] \in Room
        BY <1>0, <1>3, <2>1, <3>3, WhereIs
        DEF Promise!Move, Resolved, HubTypeOK, Linked
      <3> QED
        BY <3>4, PromiseSettled DEF Promise!Next
    <2>2. CASE c \notin clients
      BY <1>1, <1>3, <2>2 DEF Resolved, JoinRoom
    <2> QED
      BY <2>1, <2>2
  <1>4. ASSUME NEW c \in Client, WelcomeFails(c) \/ Return(c) \/ PingFails(c)
        PROVE  [Promise!Next]_(Promise!castVars)
    BY <1>4, DropsPromise DEF WelcomeFails, Return, PingFails, Reads, Drops
  <1>5. ASSUME NEW c \in Client, PeerGone(c)
        PROVE  [Promise!Next]_(Promise!castVars)
    BY <1>0, <1>1, <1>5 DEF PeerGone, HubTypeOK
  <1>6. ASSUME NEW k \in Cast, NEW s \in Scope, StartCast(k, s) PROVE Promise!Next
    <2>1. MembersOf(s) = Promise!InScope(s)
      <3>1. \A c \in Client : c \in MembersOf(s)
                <=> c \in clients /\ (s = AllRooms \/ room[c] = s)
        BY DEF HubInv, MembershipInv, MembersOf, Scope
      <3>2. MembersOf(s) \subseteq Client
        BY <1>0 DEF HubTypeOK, MembersOf, Scope
      <3> QED
        BY <3>1, <3>2, WhereIs DEF Promise!InScope
    <2>2. casts[k].got = {} /\ \A j \in Cast : j # k => casts'[j] = casts[j]
      BY <1>0, <1>6 DEF StartCast, HubInv, CastsOK, CastOK, HubTypeOK
    <2>3. /\ casts'[k].got = {}
          /\ casts'[k].scope = s
          /\ casts'[k].targets = Promise!InScope(s)
          /\ casts'[k].phase \in {"sending", "done"}
      BY <1>0, <1>6, <2>1 DEF StartCast, HubTypeOK
    <2>4. Where' = Where /\ Linked' = Linked
      BY <1>6 DEF StartCast, Where, Linked
    <2>5. casts[k].phase = "new"
      BY <1>6 DEF StartCast
    <2>6. Promise!Begin(k, s)
      BY <2>2, <2>3, <2>4, <2>5 DEF Promise!Begin
    <2> QED
      BY <2>6, PromiseSettled DEF Promise!Next, Scope
  <1>7. ASSUME NEW k \in Cast, NEW c \in Client, SendFrame(k, c) PROVE Promise!Next
    <2>1. c \in casts[k].targets /\ c \notin casts[k].got
      BY <1>0, <1>7
      DEF SendFrame, Sends, HubInv, CastsOK, CastOK, HubTypeOK, CastState
    <2>2. c \in Linked
      BY <1>7 DEF SendFrame, Writable, Linked
    <2>3. Where' = Where /\ Linked' = Linked
      BY <1>7 DEF SendFrame, Where, Linked
    <2>4. Promise!Reach(k, c)
      BY <1>7, <2>1, <2>2, <2>3, CastLeftPromise
      DEF SendFrame, Sends, Promise!Reach, Promise!MayEnd
    <2> QED
      BY <2>4, PromiseSettled DEF Promise!Next
  <1>8. ASSUME NEW k \in Cast, NEW c \in Client, SendFrameFails(k, c)
        PROVE  [Promise!Next]_(Promise!castVars)
    <2>1. /\ Drops(c, k)
          /\ c \in casts[k].left
          /\ handler[c] # "none"
      BY <1>8 DEF SendFrameFails, Sends, Drops, HubInv, CastsOK, CastOK
    <2>2. CASE c \in clients
      BY <1>8, <2>1, <2>2, DropsPromise DEF SendFrameFails
    <2>3. CASE c \notin clients
      <3>1. CastLeft(k, c, {})
        BY <1>8, <2>3 DEF SendFrameFails
      <3>2. Promise!End(k) \/ UNCHANGED Promise!castVars
        BY <2>1, <2>3, <3>1, DropsWhere, CastLeftPromise
        DEF Promise!End, Promise!castVars
      <3> QED
        BY <3>2, PromiseSettled DEF Promise!Next
    <2> QED
      BY <2>2, <2>3
  <1>9. ASSUME NEW c \in Client, LoopCloses(c) \/ PingerCloses(c)
        PROVE  Promise!Next
    <2>1. PICK g \in Goroutine : Closes(c, g)
      BY <1>9 DEF LoopCloses, PingerCloses, Closes, Goroutine
    <2>2. UNCHANGED casts
      BY <1>9 DEF LoopCloses, PingerCloses
    <2>3. Promise!Cut(c)
      BY <2>1, <2>2, ClosesLink DEF Promise!Cut, Promise!MayEnd
    <2> QED
      BY <2>3, PromiseSettled DEF Promise!Next
  <1>10. ASSUME NEW k \in Cast, NEW c \in Client, CastCloses(k, c)
         PROVE  Promise!Next
    <2>1. Closes(c, k) /\ CastLeft(k, c, {}) /\ c \in casts[k].left
      BY <1>10 DEF CastCloses, Closes, HubInv, CastsOK, CastOK
    <2>2. k \in Goroutine
      BY DEF Goroutine
    <2>3. Promise!Cut(c)
      BY <2>1, <2>2, ClosesLink, CastLeftPromise DEF Promise!Cut, Promise!MayEnd
    <2> QED
      BY <2>3, PromiseSettled DEF Promise!Next
  <1> QED
    BY <1>1, <1>2, <1>3, <1>4, <1>5, <1>6, <1>7, <1>8, <1>9, <1>10, StepIsNext
    DEF Step, hubVars, Hello, Welcomed

\* The hub is an implementation of the broadcast RoomCast promises: one room
\* per client, no return after leaving, an audience fixed at one instant and
\* settled in full before the broadcast returns.
THEOREM HubKeepsPromise == HubSpec => KeepsPromise
  <1>1. HubInit => Promise!Init
    BY PromiseInit
  <1>2. HubInv /\ HubInv' /\ [HubNext]_hubVars => [Promise!Next]_(Promise!castVars)
    BY PromiseStep
  <1> QED
    BY <1>1, <1>2, HubInvariant, PTL DEF HubSpec, KeepsPromise, Promise!Spec
=============================================================================
