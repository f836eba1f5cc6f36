------------------------------ MODULE RoomCast ------------------------------
(***************************************************************************)
(* What the hub promises the rest of the gateway, without saying how: a    *)
(* client is in one room at a time and leaves for good, and a broadcast    *)
(* has an audience fixed at one instant, reaches nobody else, and is over  *)
(* only when each member of its audience has the frame or has left.  A     *)
(* client that has left can be written to until its link is cut: by the    *)
(* broadcasts it was in the audience of, and by no later one.              *)
(***************************************************************************)
CONSTANTS Client, Room, DefaultRoom, AllRooms, Cast, NoRoom,
          Gone  \* where a client is once it has left

VARIABLES
    where,     \* the room of each client, NoRoom before it enters, or Gone
    linked,    \* the clients that a write can still get to
    scope,     \* the room each broadcast is for, or AllRooms
    audience,  \* the clients each broadcast is for
    reached,   \* the clients each broadcast has been written to
    begun,     \* the broadcasts whose audience is fixed
    ended      \* the broadcasts that have returned

castVars == <<where, linked, scope, audience, reached, begun, ended>>

Present(c) == where[c] \notin {NoRoom, Gone}

InScope(s) == {c \in Client : Present(c) /\ (s = AllRooms \/ where[c] = s)}

Init ==
    /\ where = [c \in Client |-> NoRoom]
    /\ linked = {}
    /\ scope = [k \in Cast |-> AllRooms]
    /\ audience = [k \in Cast |-> {}]
    /\ reached = [k \in Cast |-> {}]
    /\ begun = {}
    /\ ended = {}

Enter(c) ==
    /\ where[c] = NoRoom
    /\ where' = [where EXCEPT ![c] = DefaultRoom]
    /\ linked' = linked \cup {c}
    /\ UNCHANGED <<scope, audience, reached, begun, ended>>

Move(c, r) ==
    /\ Present(c)
    /\ where' = [where EXCEPT ![c] = r]
    /\ UNCHANGED <<linked, scope, audience, reached, begun, ended>>

\* A broadcast may be over because it has dealt with the last of its audience.
MayEnd == ended' = ended \/ \E k \in begun \ ended : ended' = ended \cup {k}

Leave(c) ==
    /\ Present(c)
    /\ where' = [where EXCEPT ![c] = Gone]
    /\ UNCHANGED <<linked, scope, audience, reached, begun, ended>>

\* The link of a client that has left is cut.
Cut(c) ==
    /\ where[c] = Gone
    /\ c \in linked
    /\ linked' = linked \ {c}
    /\ MayEnd
    /\ UNCHANGED <<where, scope, audience, reached, begun>>

Begin(k, s) ==
    /\ k \notin begun
    /\ begun' = begun \cup {k}
    /\ scope' = [scope EXCEPT ![k] = s]
    /\ audience' = [audience EXCEPT ![k] = InScope(s)]
    /\ ended' \in {ended, ended \cup {k}}
    /\ UNCHANGED <<where, linked, reached>>

Reach(k, c) ==
    /\ c \in audience[k] \ reached[k]
    /\ c \in linked
    /\ reached' = [reached EXCEPT ![k] = @ \cup {c}]
    /\ MayEnd
    /\ UNCHANGED <<where, linked, scope, audience, begun>>

End(k) ==
    /\ k \in begun \ ended
    /\ ended' = ended \cup {k}
    /\ UNCHANGED <<where, linked, scope, audience, reached, begun>>

\* A broadcast that ends owes nothing to any member of its audience.
Settled ==
    \A k \in ended' \ ended, c \in Client :
        c \in audience'[k] => (c \in reached'[k] \/ where'[c] = Gone)

Next ==
    /\ \/ \E c \in Client : Enter(c) \/ Leave(c) \/ Cut(c) \/ \E r \in Room : Move(c, r)
       \/ \E k \in Cast : \/ \E s \in Room \cup {AllRooms} : Begin(k, s)
                          \/ \E c \in Client : Reach(k, c)
                          \/ End(k)
    /\ Settled

Spec == Init /\ [][Next]_castVars
=============================================================================
