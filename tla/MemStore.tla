------------------------------ MODULE MemStore ------------------------------
(***************************************************************************)
(* The control API's in-memory store                                       *)
(* (services/control-api/internal/store/memstore): every method is one     *)
(* critical section of one mutex, so it also says what the PostgreSQL      *)
(* driver promises behind the same interface.  An id is a model value and  *)
(* is taken to be unused when it is handed out, as newID's are.            *)
(***************************************************************************)
EXTENDS Integers, FiniteSets

CONSTANTS Org, Email, Event, Show, Room, Version, Code, Digest, Record,
          Caller,   \* the requests that may be under way at once
          Moment,   \* what created_at may be, a set of naturals
          None,     \* no row, or a column that is empty
          NoOrg     \* the organisation of a run in a room of no organisation

Row == Event \cup Show \cup Room \cup Version \cup Record

VARIABLES
    orgs,         \* organisations
    user,         \* the organisation of the user with an e-mail address
    sessions,     \* organisations that hold a session token
    owner,        \* the org_id column of each row, None where there is no row
    place, code, active,         \* event, join code, active version of a room
    showOf, number, digest,      \* show, number, package of a version
    stamp,        \* created_at of a run record
    nextVersion,  \* the number the next version of a show gets, 0 at first
    answer        \* the rows each request has been given

rows == <<owner, place, code, active, showOf, number, digest, stamp>>
memVars == <<orgs, user, sessions, rows, nextVersion, answer>>

New ==
    /\ orgs = {}
    /\ user = [m \in Email |-> None]
    /\ sessions = {}
    /\ owner = [x \in Row |-> None]
    /\ place = [r \in Room |-> None]
    /\ code = [r \in Room |-> None]
    /\ active = [r \in Room |-> None]
    /\ showOf = [v \in Version |-> None]
    /\ number = [v \in Version |-> 0]
    /\ digest = [v \in Version |-> None]
    /\ stamp = [x \in Record |-> 0]
    /\ nextVersion = [s \in Show |-> 0]
    /\ answer = [w \in Caller |-> {}]
-----------------------------------------------------------------------------
CreateOrgWithUser(o, m) ==
    /\ user[m] = None
    /\ orgs' = orgs \cup {o}
    /\ user' = [user EXCEPT ![m] = o]
    /\ UNCHANGED <<sessions, rows, nextVersion, answer>>

CreateSession(o) ==
    /\ sessions' = sessions \cup {o}
    /\ UNCHANGED <<orgs, user, rows, nextVersion, answer>>

CreateEvent(o, e) ==
    /\ owner' = [owner EXCEPT ![e] = o]
    /\ UNCHANGED <<orgs, user, sessions, place, code, active, showOf, number,
                   digest, stamp, nextVersion, answer>>

CreateShow(o, s) ==
    /\ owner' = [owner EXCEPT ![s] = o]
    /\ UNCHANGED <<orgs, user, sessions, place, code, active, showOf, number,
                   digest, stamp, nextVersion, answer>>

CreateRoom(o, e, r, c) ==
    /\ \A x \in Room : code[x] # c
    /\ owner' = [owner EXCEPT ![r] = o]
    /\ place' = [place EXCEPT ![r] = e]
    /\ code' = [code EXCEPT ![r] = c]
    /\ UNCHANGED <<orgs, user, sessions, active, showOf, number, digest, stamp,
                   nextVersion, answer>>

SetRoomActiveVersion(o, r, v) ==
    /\ owner[r] = o
    /\ active' = [active EXCEPT ![r] = v]
    /\ UNCHANGED <<orgs, user, sessions, owner, place, code, showOf, number,
                   digest, stamp, nextVersion, answer>>

CreateShowVersion(o, s, v, d) ==
    LET next == IF nextVersion[s] = 0 THEN 1 ELSE nextVersion[s]
    IN  /\ owner[s] = o
        /\ owner' = [owner EXCEPT ![v] = o]
        /\ showOf' = [showOf EXCEPT ![v] = s]
        /\ number' = [number EXCEPT ![v] = next]
        /\ digest' = [digest EXCEPT ![v] = d]
        /\ nextVersion' = [nextVersion EXCEPT ![s] = next + 1]
        /\ UNCHANGED <<orgs, user, sessions, place, code, active, stamp, answer>>

\* The second report of a record changes nothing.
CreateRun(o, x, t) ==
    /\ owner[x] = None
    /\ owner' = [owner EXCEPT ![x] = o]
    /\ stamp' = [stamp EXCEPT ![x] = t]
    /\ UNCHANGED <<orgs, user, sessions, place, code, active, showOf, number,
                   digest, nextVersion, answer>>
-----------------------------------------------------------------------------
ListEvents(o) == {e \in Event : owner[e] = o}
EventByID(o, e) == IF owner[e] = o THEN {e} ELSE {}
ListRooms(o, e) == {r \in Room : owner[r] = o /\ place[r] = e}
ListShows(o) == {s \in Show : owner[s] = o}
ListShowVersions(o, s) == {v \in Version : owner[v] = o /\ showOf[v] = s}
ShowVersionByID(o, v) == IF owner[v] = o THEN {v} ELSE {}
RoomByJoinCode(c) == {r \in Room : code[r] = c}

\* The first limit runs when the newest come first and, of the same moment,
\* the one with the greater id.
ListRuns(o, limit) ==
    LET mine == {x \in Record : owner[x] = o}
        Before(x, y) == stamp[x] > stamp[y] \/ (stamp[x] = stamp[y] /\ x > y)
    IN  {x \in mine : Cardinality({y \in mine : Before(y, x)}) < limit}

Reads ==
    {RoomByJoinCode(c) : c \in Code}
    \cup UNION {{ListEvents(o), ListShows(o)}
                \cup {EventByID(o, e) : e \in Event}
                \cup {ListRooms(o, e) : e \in Event}
                \cup {ListShowVersions(o, s) : s \in Show}
                \cup {ShowVersionByID(o, v) : v \in Version}
                \cup {ListRuns(o, n) : n \in 1..Cardinality(Record)} : o \in Org}

\* A handler that reads twice answers with the rows of both.
Answer(w) ==
    /\ \E a \in Reads \cup {{}} :
         answer' \in {[answer EXCEPT ![w] = a], [answer EXCEPT ![w] = @ \cup a]}
    /\ UNCHANGED <<orgs, user, sessions, rows, nextVersion>>

\* The requests of a process that ends are gone, what it stored is not.
Restart ==
    /\ answer' = [w \in Caller |-> {}]
    /\ UNCHANGED <<orgs, user, sessions, rows, nextVersion>>

Next ==
    \/ \E o \in Org :
        \/ CreateSession(o)
        \/ \E m \in Email : CreateOrgWithUser(o, m)
        \/ \E e \in Event : \/ CreateEvent(o, e)
                            \/ \E r \in Room, c \in Code : CreateRoom(o, e, r, c)
        \/ \E s \in Show : \/ CreateShow(o, s)
                           \/ \E v \in Version, d \in Digest :
                                CreateShowVersion(o, s, v, d)
        \/ \E r \in Room, v \in Version : SetRoomActiveVersion(o, r, v)
    \/ \E o \in Org \cup {NoOrg}, x \in Record, t \in Moment : CreateRun(o, x, t)
    \/ \E w \in Caller : Answer(w)
    \/ Restart

MemSpec == New /\ [][Next]_memVars
=============================================================================
