-------------------------------- MODULE Hub --------------------------------
(***************************************************************************)
(* The gateway's registry of WebSocket clients and its broadcast           *)
(* (services/gateway/internal/hub/hub.go), driven by the goroutines that   *)
(* use it: the read loop of each connection (handleWS), its keepalive ping *)
(* goroutine, and any number of concurrent broadcasts.                     *)
(*                                                                         *)
(* Every critical section of Hub.mu is one action, and so is every write to *)
(* and close of a socket outside it.  A failed write and the critical      *)
(* section of the Unregister that follows it are one action: whatever      *)
(* others do between the two they could as well do before them, since no   *)
(* write succeeds after one has failed and nothing else looks at that.     *)
(***************************************************************************)
EXTENDS FiniteSets

CONSTANTS
    Client,       \* connections; a phone that reconnects is another Client
    Room,         \* room names a join code can resolve to
    DefaultRoom,  \* "faz0", the room of a client that has not said hello
    AllRooms,     \* the empty room name: the scope of a global broadcast
    Cast,         \* broadcasts, each used once
    NoRoom,       \* the room field of a client that was never placed
    ReadLoop,     \* the goroutine of a connection that runs handleWS
    Pinger        \* its keepalive goroutine

ASSUME RoomAssumption ==
    /\ DefaultRoom \in Room
    /\ AllRooms \notin Room
    /\ NoRoom \notin Room \cup {AllRooms}

ASSUME GoroutineAssumption ==
    /\ ReadLoop \notin Cast
    /\ Pinger \notin Cast \cup {ReadLoop}

VARIABLES
    clients,  \* h.clients: the registered clients
    rooms,    \* h.rooms: members of each room; a deleted key is the empty set
    room,     \* c.room
    conn,     \* the socket: "none", "open", "broken" by the peer, "failed" (a
              \* write to it has failed, and no later one succeeds), "closed"
    handler,  \* handleWS: "none", "reading", "resolving" a join code, "joined"
              \* (welcome and replay not yet written), "returned" from its loop
    closes,   \* <<c, g>>: goroutine g has unregistered c and will close it now
    joining,  \* the room a hello has resolved to and JoinRoom will be given
    casts     \* broadcasts: phase, scope, snapshot, still to write, written

hubVars == <<clients, rooms, room, conn, handler, closes, joining, casts>>

\* What can drop a connection: its own two goroutines, and the one a broadcast
\* runs for it.
Goroutine == Cast \cup {ReadLoop, Pinger}

Scope == Room \cup {AllRooms}

CastState == [phase: {"new", "sending", "done"}, scope: Scope,
              targets: SUBSET Client, left: SUBSET Client, got: SUBSET Client]

HubTypeOK ==
    /\ clients \subseteq Client
    /\ rooms \in [Room -> SUBSET Client]
    /\ room \in [Client -> Room \cup {NoRoom}]
    /\ conn \in [Client -> {"none", "open", "broken", "failed", "closed"}]
    /\ handler \in [Client -> {"none", "reading", "resolving", "joined", "returned"}]
    /\ closes \subseteq Client \X Goroutine
    /\ joining \in [Client -> Room]
    /\ casts \in [Cast -> CastState]

HubInit ==
    /\ clients = {}
    /\ rooms = [r \in Room |-> {}]
    /\ room = [c \in Client |-> NoRoom]
    /\ conn = [c \in Client |-> "none"]
    /\ handler = [c \in Client |-> "none"]
    /\ closes = {}
    /\ joining = [c \in Client |-> DefaultRoom]
    /\ casts = [k \in Cast |-> [phase |-> "new", scope |-> AllRooms,
                                targets |-> {}, left |-> {}, got |-> {}]]

-----------------------------------------------------------------------------
(* The critical sections of Hub.mu, as functions of the room table. *)

\* Mutant of RemovedFromRoom: the room goes with the first member that leaves.
RoomDropped(c) == [r \in Room \ {room[c]} |-> rooms[r]]

\* removeFromRoomLocked: c leaves the room its room field names.
RemovedFromRoom(c) ==
    [r \in Room |-> IF r = room[c] THEN rooms[r] \ {c} ELSE rooms[r]]

\* placeLocked after removeFromRoomLocked: c moves to room r.
Placed(c, r) == [RemovedFromRoom(c) EXCEPT ![r] = @ \cup {c}]

\* Unregister, up to its Unlock: goroutine g drops c from both tables, and has
\* the socket to close when c was still registered.
Unregister(c, g) ==
    /\ clients' = clients \ {c}
    /\ rooms' = RemovedFromRoom(c)
    /\ closes' = IF c \in clients THEN closes \cup {<<c, g>>} ELSE closes
    /\ UNCHANGED <<room, joining>>

\* Mutant of CloseSocket: the error path forgets the socket.
CloseForgotten(c, g) ==
    /\ closes' = closes \ {<<c, g>>}
    /\ UNCHANGED conn

\* The rest of Unregister: c.Close, without the lock.
CloseSocket(c, g) ==
    /\ closes' = closes \ {<<c, g>>}
    /\ conn' = [conn EXCEPT ![c] = "closed"]

\* Mutant of JoinRoom: without the check that c is still registered.
JoinRoomUnchecked(c, r) ==
    /\ rooms' = Placed(c, r)
    /\ room' = [room EXCEPT ![c] = r]

\* JoinRoom: moves c, unless something has unregistered it meanwhile.
JoinRoom(c, r) ==
    IF c \in clients
      THEN /\ rooms' = Placed(c, r)
           /\ room' = [room EXCEPT ![c] = r]
      ELSE UNCHANGED <<rooms, room>>

\* A write can succeed until one has failed or the gateway has closed the
\* socket: the kernel takes bytes for a peer that has gone without a word.
Writable(c) == conn[c] \in {"open", "broken"}

\* A write fails: gorilla/websocket keeps the error for every later one.
WriteFails(c) ==
    conn' = IF conn[c] = "closed" THEN conn ELSE [conn EXCEPT ![c] = "failed"]

\* Mutant of MembersOf: the scope is ignored.
EveryClient(s) == clients

\* The clients a broadcast to scope s is for.
MembersOf(s) == IF s = AllRooms THEN clients ELSE rooms[s]

-----------------------------------------------------------------------------
(* The read loop of a connection. *)

\* The upgrade succeeded: NewClient and Register, in the default room.
Connect(c) ==
    /\ handler[c] = "none"
    /\ handler' = [handler EXCEPT ![c] = "reading"]
    /\ conn' = [conn EXCEPT ![c] = "open"]
    /\ clients' = clients \cup {c}
    /\ rooms' = [rooms EXCEPT ![DefaultRoom] = @ \cup {c}]
    /\ room' = [room EXCEPT ![c] = DefaultRoom]
    /\ UNCHANGED <<closes, joining, casts>>

\* The loop is in its ReadMessage, and not in an Unregister it called.
Reads(c) == handler[c] = "reading" /\ <<c, ReadLoop>> \notin closes

\* A hello with an accepted protocol version arrives; the join code will
\* resolve to r (DefaultRoom when it is empty or nothing resolves codes).
\* A client may say hello again and move.
Hello(c, r) ==
    /\ Reads(c)
    /\ conn[c] \in {"open", "failed"}
    /\ handler' = [handler EXCEPT ![c] = "resolving"]
    /\ joining' = [joining EXCEPT ![c] = r]
    /\ UNCHANGED <<clients, rooms, room, conn, closes, casts>>

\* The code has resolved: JoinRoom, whatever happened to c in between.
Resolved(c) ==
    /\ handler[c] = "resolving"
    /\ JoinRoom(c, joining[c])
    /\ handler' = [handler EXCEPT ![c] = "joined"]
    /\ UNCHANGED <<clients, conn, closes, joining, casts>>

\* Welcome (and the replay, modelled in LateJoin) are written.
Welcomed(c) ==
    /\ handler[c] = "joined"
    /\ Writable(c)
    /\ handler' = [handler EXCEPT ![c] = "reading"]
    /\ UNCHANGED <<clients, rooms, room, conn, closes, joining, casts>>

\* Server.send failed: the client is dropped, and then the loop reads on.
WelcomeFails(c) ==
    /\ handler[c] = "joined"
    /\ WriteFails(c)
    /\ Unregister(c, ReadLoop)
    /\ handler' = [handler EXCEPT ![c] = "reading"]
    /\ UNCHANGED casts

\* Mutant of Return: without the deferred Unregister.
ReturnLeavesClient(c) ==
    /\ Reads(c) \/ handler[c] = "resolving"
    /\ handler' = [handler EXCEPT ![c] = "returned"]
    /\ UNCHANGED <<clients, rooms, room, conn, closes, joining, casts>>

\* The loop returns and the deferred Unregister runs: the socket gave an error,
\* the hello's version was refused, the join code did not resolve, or the answer
\* to a clock request could not be written.  Otherwise nothing is wrong with the
\* socket, and a broadcast can still write to it until it is closed.
Return(c) ==
    /\ \/ Reads(c) /\ (UNCHANGED conn \/ WriteFails(c))
       \/ handler[c] = "resolving" /\ UNCHANGED conn
    /\ Unregister(c, ReadLoop)
    /\ handler' = [handler EXCEPT ![c] = "returned"]
    /\ UNCHANGED casts

\* The keepalive goroutine could not write its ping; it unregisters the client
\* while the read loop is anywhere, on its way out included.
PingFails(c) ==
    /\ handler[c] # "none"
    /\ WriteFails(c)
    /\ Unregister(c, Pinger)
    /\ UNCHANGED <<handler, casts>>

\* One of the two reaches c.Close.
LoopCloses(c) ==
    /\ <<c, ReadLoop>> \in closes
    /\ CloseSocket(c, ReadLoop)
    /\ UNCHANGED <<clients, rooms, room, handler, joining, casts>>

PingerCloses(c) ==
    /\ <<c, Pinger>> \in closes
    /\ CloseSocket(c, Pinger)
    /\ UNCHANGED <<clients, rooms, room, handler, joining, casts>>

\* The peer goes away; nothing at the gateway has noticed yet.
PeerGone(c) ==
    /\ conn[c] = "open"
    /\ conn' = [conn EXCEPT ![c] = "broken"]
    /\ UNCHANGED <<clients, rooms, room, handler, closes, joining, casts>>

-----------------------------------------------------------------------------
(* broadcast: a snapshot under the read lock, then one goroutine per target. *)

StartCast(k, s) ==
    /\ casts[k].phase = "new"
    /\ casts' = [casts EXCEPT ![k] =
                   [phase |-> IF MembersOf(s) = {} THEN "done" ELSE "sending",
                    scope |-> s, targets |-> MembersOf(s),
                    left |-> MembersOf(s), got |-> {}]]
    /\ UNCHANGED <<clients, rooms, room, conn, handler, closes, joining>>

\* Mutant of CastLeft: broadcast does not wait for the other goroutines.
CastLeftUnawaited(k, c, got) ==
    casts' = [casts EXCEPT ![k] =
                [phase |-> "done", scope |-> @.scope, targets |-> @.targets,
                 left |-> @.left \ {c}, got |-> @.got \cup got]]

\* Mutant of CastLeft: a goroutine whose write fails forgets wg.Done.
CastLeftUndone(k, c, got) ==
    casts' = [casts EXCEPT ![k] =
                [phase |-> IF @.left = got THEN "done" ELSE @.phase,
                 scope |-> @.scope, targets |-> @.targets,
                 left |-> @.left \ got, got |-> @.got \cup got]]

\* The goroutine of target c ends; the last one lets wg.Wait return.
CastLeft(k, c, got) ==
    casts' = [casts EXCEPT ![k] =
                [phase |-> IF @.left = {c} THEN "done" ELSE @.phase,
                 scope |-> @.scope, targets |-> @.targets,
                 left |-> @.left \ {c}, got |-> @.got \cup got]]

\* The goroutine of target c is in its write.
Sends(k, c) == c \in casts[k].left /\ <<c, k>> \notin closes

SendFrame(k, c) ==
    /\ Sends(k, c)
    /\ Writable(c)
    /\ CastLeft(k, c, {c})
    /\ UNCHANGED <<clients, rooms, room, conn, handler, closes, joining>>

\* The write fails: the socket is gone, or it is stuck for writeTimeout.  When
\* another goroutine has unregistered c, Unregister does nothing and this one
\* ends; otherwise it has the socket to close first.
SendFrameFails(k, c) ==
    /\ Sends(k, c)
    /\ WriteFails(c)
    /\ Unregister(c, k)
    /\ IF c \in clients THEN UNCHANGED casts ELSE CastLeft(k, c, {})
    /\ UNCHANGED handler

CastCloses(k, c) ==
    /\ <<c, k>> \in closes
    /\ CloseSocket(c, k)
    /\ CastLeft(k, c, {})
    /\ UNCHANGED <<clients, rooms, room, handler, joining>>

-----------------------------------------------------------------------------
HubNext ==
    \/ \E c \in Client :
         \/ Connect(c) \/ Resolved(c) \/ Welcomed(c) \/ WelcomeFails(c)
         \/ Return(c) \/ PingFails(c) \/ PeerGone(c)
         \/ LoopCloses(c) \/ PingerCloses(c)
         \/ \E r \in Room : Hello(c, r)
    \/ \E k \in Cast :
         \/ \E s \in Scope : StartCast(k, s)
         \/ \E c \in Client :
              SendFrame(k, c) \/ SendFrameFails(k, c) \/ CastCloses(k, c)

HubSpec == HubInit /\ [][HubNext]_hubVars

\* A goroutine that can run does; a write ends within writeTimeout, and c.Close
\* does not wait for the peer; a read on a socket the peer left or the gateway
\* closed ends with an error.
HubFairness ==
    /\ \A k \in Cast, c \in Client :
         /\ WF_hubVars(SendFrame(k, c) \/ SendFrameFails(k, c))
         /\ WF_hubVars(CastCloses(k, c))
    /\ \A c \in Client :
         /\ WF_hubVars(Resolved(c))
         /\ WF_hubVars(Welcomed(c) \/ WelcomeFails(c))
         /\ WF_hubVars(conn[c] \in {"broken", "closed"} /\ Return(c))
         /\ WF_hubVars(LoopCloses(c))
         /\ WF_hubVars(PingerCloses(c))

FairHubSpec == HubSpec /\ HubFairness

-----------------------------------------------------------------------------
(* Properties *)

\* The two tables agree: a registered client is in exactly the room its field
\* names, and no room holds a client that is not registered.  A JoinRoom that
\* lost the race with a failed ping must not leave a ghost behind.
MembershipInv ==
    \A r \in Room, c \in Client :
        c \in rooms[r] <=> (c \in clients /\ room[c] = r)

\* Nobody holds a socket nobody will close, and nobody's socket is closed under
\* it: that of a registered client is neither closed nor about to be, and once a
\* client is out of the tables either its socket is closed or exactly one of the
\* goroutines that raced to unregister it still has to close it.
SocketInv ==
    \A c \in Client :
        /\ c \in clients =>
               conn[c] # "closed" /\ \A g \in Goroutine : <<c, g>> \notin closes
        /\ (handler[c] # "none" /\ c \notin clients) =>
               \/ conn[c] = "closed" /\ \A g \in Goroutine : <<c, g>> \notin closes
               \/ conn[c] # "closed" /\ \E g \in Goroutine :
                     \A h \in Goroutine : <<c, h>> \in closes <=> h = g

\* When a broadcast has returned, every client it was for has the frame or is
\* no longer registered: a slow or dead client costs nobody else the frame.
CastComplete ==
    \A k \in Cast : casts[k].phase = "done" =>
        \A c \in casts[k].targets : c \in casts[k].got \/ c \notin clients

\* Where RoomCast sees a client.
Where == [c \in Client |-> IF conn[c] = "none" THEN NoRoom
                           ELSE IF c \in clients THEN room[c] ELSE AllRooms]

\* The sockets the hub has not closed.
Linked == {c \in Client : conn[c] \notin {"none", "closed"}}

Promise == INSTANCE RoomCast WITH
    Gone     <- AllRooms,  \* any value that is neither a room nor NoRoom
    where    <- Where,
    linked   <- Linked,
    scope    <- [k \in Cast |-> casts[k].scope],
    audience <- [k \in Cast |-> casts[k].targets],
    reached  <- [k \in Cast |-> casts[k].got],
    begun    <- {k \in Cast : casts[k].phase # "new"},
    ended    <- {k \in Cast : casts[k].phase = "done"}

\* The hub keeps the promise RoomCast states: one room per client, no return
\* after leaving, an audience fixed at one instant and paid in full.
KeepsPromise == Promise!Spec

\* Every broadcast returns, whatever its targets do.
CastEnds == \A k \in Cast : casts[k].phase = "sending" ~> casts[k].phase = "done"

\* A client whose peer has left is out of the rooms and its socket closed in the
\* end, even when no broadcast and no ping touches it.
DeadClientLeaves ==
    \A c \in Client :
        conn[c] = "broken" ~>
            (c \notin clients /\ handler[c] = "returned" /\ conn[c] = "closed")
=============================================================================
