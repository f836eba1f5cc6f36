------------------------------ MODULE PgStore ------------------------------
(***************************************************************************)
(* The control API's PostgreSQL store (control-api/internal/store/pg):     *)
(* its statements, under READ COMMITTED.  A statement is one step; what a  *)
(* transaction has written is nobody's to see before it commits.  The      *)
(* constraints are those of migrations/: UNIQUE on users.email,            *)
(* rooms.join_code and show_versions (show_id, version), and a foreign key *)
(* from a room's active version to the versions.                           *)
(***************************************************************************)
EXTENDS Integers, FiniteSets

CONSTANTS Org, Email, Event, Show, Room, Version, Code, Digest, Record,
          Moment, None, NoOrg

Row == Event \cup Show \cup Room \cup Version \cup Record

\* Ids of different tables differ, and those of run records have an order.
ASSUME PgAssumption ==
    /\ Event \cap (Show \cup Room \cup Version \cup Record) = {}
    /\ Show \cap (Room \cup Version \cup Record) = {}
    /\ Room \cap (Version \cup Record) = {}
    /\ Version \cap Record = {}
    /\ Record \subseteq Nat /\ IsFiniteSet(Record)
    /\ None \notin Org \cup Row \cup Code \cup Digest
    /\ NoOrg \notin Org \cup {None}

VARIABLES
    orgs, user, sessions,
    owner,                    \* org_id of each row, None where there is none
    place, code, active,      \* rooms: event_id, join_code, active_show_version_id
    showOf, number, digest,   \* show_versions: show_id, version, sha256
    stamp,                    \* runs: created_at
    lock                      \* the request that has a row of shows FOR UPDATE

roomCols == <<place, code, active>>
versionCols == <<showOf, number, digest>>
tables == <<orgs, user, sessions, owner, roomCols, versionCols, stamp>>

\* Tables as the migrations leave them, and no lock.
Migrated ==
    /\ orgs = {} /\ sessions = {}
    /\ user = [m \in Email |-> None]
    /\ owner = [x \in Row |-> None]
    /\ place = [r \in Room |-> None]
    /\ code = [r \in Room |-> None]
    /\ active = [r \in Room |-> None]
    /\ showOf = [v \in Version |-> None]
    /\ number = [v \in Version |-> 0]
    /\ digest = [v \in Version |-> None]
    /\ stamp = [x \in Record |-> 0]
    /\ lock = [s \in Show |-> None]

\* An id that has not been given: which one, newID leaves to chance.
SomeLeft(T) == \E x \in T : owner[x] = None
NewId(T) == CHOOSE x \in T : owner[x] = None
-----------------------------------------------------------------------------
\* Mutant of CreateOrgWithUser: no transaction, so that the organisation stays
\* when the e-mail address is refused.
CreateOrgAlone(o, m) ==
    /\ orgs' = orgs \cup {o}
    /\ user' = IF user[m] = None THEN [user EXCEPT ![m] = o] ELSE user
    /\ UNCHANGED <<sessions, owner, roomCols, versionCols, stamp, lock>>

\* The transaction commits, or rolls back on the UNIQUE of the address.
CreateOrgWithUser(o, m) ==
    /\ IF user[m] = None
       THEN orgs' = orgs \cup {o} /\ user' = [user EXCEPT ![m] = o]
       ELSE UNCHANGED <<orgs, user>>
    /\ UNCHANGED <<sessions, owner, roomCols, versionCols, stamp, lock>>

UserByEmail(m) == user[m]

SessionByToken(o) == o \in sessions

CreateSession(o) ==
    /\ sessions' = sessions \cup {o}
    /\ UNCHANGED <<orgs, user, owner, roomCols, versionCols, stamp, lock>>

CreateEvent(o, e) ==
    /\ owner' = [owner EXCEPT ![e] = o]
    /\ UNCHANGED <<orgs, user, sessions, roomCols, versionCols, stamp, lock>>

CreateShow(o, s) ==
    /\ owner' = [owner EXCEPT ![s] = o]
    /\ UNCHANGED <<orgs, user, sessions, roomCols, versionCols, stamp, lock>>

\* UNIQUE (join_code): without it the insert would conflict.
CodeTaken(c) == \E r \in Room : code[r] = c

CreateRoom(o, e, r, c) ==
    /\ owner' = [owner EXCEPT ![r] = o]
    /\ place' = [place EXCEPT ![r] = e]
    /\ code' = [code EXCEPT ![r] = c]
    /\ UNCHANGED <<orgs, user, sessions, active, versionCols, stamp, lock>>

SetRoomActiveVersion(o, r, v) ==
    /\ owner[r] = o
    /\ active' = [active EXCEPT ![r] = v]
    /\ UNCHANGED <<orgs, user, sessions, owner, place, code, versionCols, stamp,
                   lock>>

\* ON CONFLICT (id) DO NOTHING.
CreateRun(o, x, t) ==
    /\ IF owner[x] = None
       THEN owner' = [owner EXCEPT ![x] = o] /\ stamp' = [stamp EXCEPT ![x] = t]
       ELSE UNCHANGED <<owner, stamp>>
    /\ UNCHANGED <<orgs, user, sessions, roomCols, versionCols, lock>>
-----------------------------------------------------------------------------
(* CreateShowVersion: the row of the show, the number, the insert with its  *)
(* commit.                                                                  *)

\* Mutant of LockShow: SELECT without FOR UPDATE.
LockNothing(w, o, s) == owner[s] = o /\ UNCHANGED <<tables, lock>>

LockShow(w, o, s) ==
    /\ owner[s] = o
    /\ lock[s] = None
    /\ lock' = [lock EXCEPT ![s] = w]
    /\ UNCHANGED tables

VersionsOf(s) == {v \in Version : owner[v] # None /\ showOf[v] = s}

\* Mutant of NextNumber: the count of a lost update.
SameNumber(s) == LET taken == {number[v] : v \in VersionsOf(s)}
                 IN  CHOOSE n \in {0} \cup taken : \A m \in taken : n >= m

\* COALESCE(MAX(version), 0) + 1.
NextNumber(s) ==
    LET taken == {number[v] : v \in VersionsOf(s)}
    IN  1 + CHOOSE n \in {0} \cup taken : \A m \in taken : n >= m

\* UNIQUE (show_id, version).
NumberTaken(s, n) == \E v \in VersionsOf(s) : number[v] = n

\* Mutant of CommitVersion: no COMMIT, and the connection keeps the row.
CommitForgotten(w, o, s, v, d, n) == w # None /\ UNCHANGED <<tables, lock>>

CommitVersion(w, o, s, v, d, n) ==
    /\ owner' = [owner EXCEPT ![v] = o]
    /\ showOf' = [showOf EXCEPT ![v] = s]
    /\ number' = [number EXCEPT ![v] = n]
    /\ digest' = [digest EXCEPT ![v] = d]
    /\ lock' = [lock EXCEPT ![s] = IF @ = w THEN None ELSE @]
    /\ UNCHANGED <<orgs, user, sessions, roomCols, stamp>>
-----------------------------------------------------------------------------
ListEvents(o) == {e \in Event : owner[e] = o}
EventByID(o, e) == {x \in {e} : owner[x] = o}
ListRooms(o, e) == {r \in Room : owner[r] = o /\ place[r] = e}
RoomByJoinCode(c) == {r \in Room : code[r] = c}
ListShows(o) == {s \in Show : owner[s] = o}
ListShowVersions(o, s) == {v \in Version : owner[v] = o /\ showOf[v] = s}
\* Mutant of ShowVersionByID: WHERE without org_id.
VersionOfAnyone(o, v) == {x \in {v} : o # None /\ owner[x] # None}

ShowVersionByID(o, v) == {x \in {v} : owner[x] = o}

\* The tenant a run belongs to: that of its room, if there is such a room.
OrgIDByRoom(r) == IF r \in Room /\ owner[r] # None THEN owner[r] ELSE NoOrg

\* ORDER BY created_at DESC, id DESC LIMIT.
ListRuns(o, limit) ==
    {x \in Record :
        /\ owner[x] = o
        /\ Cardinality({y \in Record :
               owner[y] = o /\ (\/ stamp[y] > stamp[x]
                                \/ stamp[y] = stamp[x] /\ y > x)}) < limit}
=============================================================================
