----------------------------- MODULE ControlApi -----------------------------
(***************************************************************************)
(* The handlers of the control API (control-api/internal/api) over the     *)
(* PostgreSQL store and the blob store.  A request is a record that names  *)
(* the step its handler has reached.  Steps that only read rows which,     *)
(* once there, neither change nor go are merged with the step that follows *)
(* them.  A request that is turned away before it has written anything is  *)
(* no step.                                                                *)
(***************************************************************************)
EXTENDS PgStore

CONSTANTS
    Worker,       \* requests that may be under way at once
    Asset,        \* audio files, by content
    Needs,        \* the audio files a manifest refers to
    JoinCodeRetries,
    MaxRunsLimit,
    MaxRequests   \* bound on the requests of a behaviour

Key == Digest \cup Asset

\* Packages and audio files are kept under different prefixes.
ASSUME ApiAssumption ==
    /\ Digest \cap Asset = {}
    /\ Needs \in [Digest -> SUBSET Asset]
    /\ None \notin Worker \cup Asset
    /\ JoinCodeRetries \in Nat /\ MaxRunsLimit \in Nat \ {0}
    /\ MaxRequests \in Nat /\ 0..MaxRequests \subseteq Moment

Idle == [at |-> "idle", org |-> None, on |-> None, key |-> None, n |-> 0]
NoReply == [to |-> None, rows |-> {}]

VARIABLES
    req,     \* the request each worker serves
    reply,   \* the rows it was answered with last, and to whom
    disk,    \* what is under the final name of each blob
    driver,  \* which blob store is configured
    left     \* requests still to come

apiVars == <<tables, lock, req, reply, disk, driver, left>>

TypeOK ==
    /\ orgs \subseteq Org /\ sessions \subseteq Org
    /\ user \in [Email -> Org \cup {None}]
    /\ owner \in [Row -> Org \cup {None, NoOrg}]
    /\ place \in [Room -> Event \cup {None}]
    /\ code \in [Room -> Code \cup {None}]
    /\ active \in [Room -> Version \cup {None}]
    /\ showOf \in [Version -> Show \cup {None}]
    /\ number \in [Version -> Nat]
    /\ digest \in [Version -> Digest \cup {None}]
    /\ stamp \in [Record -> Nat]
    /\ lock \in [Show -> Worker \cup {None}]
    /\ req \in [Worker -> [at : {"idle", "session", "code", "record", "join", "put",
                                 "temp", "lock", "number", "insert"},
                           org : Org \cup {None, NoOrg},
                           on : Row \cup {None},
                           key : Key \cup {None},
                           n : Nat]]
    /\ reply \in [Worker -> [to : Org \cup {None}, rows : SUBSET Row]]
    /\ disk \in [Key -> {"absent", "partial", "whole"}]
    /\ driver \in {"fs", "s3"}
    /\ left \in 0..MaxRequests

Init ==
    /\ Migrated
    /\ req = [w \in Worker |-> Idle]
    /\ reply = [w \in Worker |-> NoReply]
    /\ disk = [k \in Key |-> "absent"]
    /\ driver \in {"fs", "s3"}
    /\ left = MaxRequests
-----------------------------------------------------------------------------
Take(w) ==
    /\ req[w].at = "idle"
    /\ left > 0
    /\ left' = left - 1

Goes(w, at, o, on, key) ==
    req' = [req EXCEPT ![w] = [at |-> at, org |-> o, on |-> on, key |-> key,
                               n |-> 0]]

Moves(w, at) == req' = [req EXCEPT ![w].at = at]

Quits(w) == req' = [req EXCEPT ![w] = Idle]

\* authed: a request that shows the session of organisation o.
Authed(w, o) == Take(w) /\ SessionByToken(o)

Register(w, o, m) ==
    /\ Take(w) /\ o \notin orgs
    /\ CreateOrgWithUser(o, m)
    /\ IF user[m] = None THEN Goes(w, "session", o, None, None) ELSE UNCHANGED req
    /\ UNCHANGED <<reply, disk, driver>>

Login(w, m) ==
    /\ Take(w) /\ UserByEmail(m) # None
    /\ Goes(w, "session", UserByEmail(m), None, None)
    /\ UNCHANGED <<reply, tables, lock, disk, driver>>

NewSession(w) ==
    /\ req[w].at = "session"
    /\ CreateSession(req[w].org)
    /\ Quits(w) /\ UNCHANGED <<reply, disk, driver, left>>

HandleCreateEvent(w, o) ==
    /\ Authed(w, o)
    /\ SomeLeft(Event) /\ CreateEvent(o, NewId(Event))
    /\ UNCHANGED <<reply, req, disk, driver>>

HandleCreateShow(w, o) ==
    /\ Authed(w, o)
    /\ SomeLeft(Show) /\ CreateShow(o, NewId(Show))
    /\ UNCHANGED <<reply, req, disk, driver>>

HandleCreateRoom(w, o, e) ==
    /\ Authed(w, o) /\ EventByID(o, e) # {}
    /\ Goes(w, "code", o, e, None)
    /\ UNCHANGED <<reply, tables, lock, disk, driver>>

\* One turn of the loop with code c; n counts the codes that were taken.
TryCode(w, c) ==
    /\ req[w].at = "code"
    /\ \/ /\ ~ CodeTaken(c)
          /\ SomeLeft(Room)
          /\ CreateRoom(req[w].org, req[w].on, NewId(Room), c)
          /\ Quits(w)
       \/ /\ CodeTaken(c)
          /\ IF req[w].n >= JoinCodeRetries THEN Quits(w)
             ELSE req' = [req EXCEPT ![w].n = @ + 1]
          /\ UNCHANGED <<tables, lock>>
    /\ UNCHANGED <<reply, disk, driver, left>>

HandleActivateRoom(w, o, r, v) ==
    /\ Authed(w, o) /\ ShowVersionByID(o, v) # {}
    /\ SetRoomActiveVersion(o, r, v)
    /\ UNCHANGED <<reply, lock, req, disk, driver>>

\* The gateway's report of record x in room r, which may be of no tenant ...
HandleInternalCreateRun(w, x, r) ==
    /\ Take(w)
    /\ Goes(w, "record", OrgIDByRoom(r), x, None)
    /\ UNCHANGED <<reply, tables, lock, disk, driver>>

\* ... which is looked up before the row is written.
StoreRun(w) ==
    /\ req[w].at = "record"
    /\ CreateRun(req[w].org, req[w].on, MaxRequests - left)
    /\ Quits(w) /\ UNCHANGED <<reply, disk, driver, left>>
-----------------------------------------------------------------------------
(* Blobs, and publishing a version.                                         *)

Exists(k) == disk[k] # "absent"

HandleUploadAsset(w, o, a) ==
    /\ Authed(w, o)
    /\ Goes(w, "put", o, None, a)
    /\ UNCHANGED <<reply, tables, lock, disk, driver>>

\* Mutant of HandlePublish: the audio files are not looked for.
PublishBlindly(w, o, s, d) ==
    /\ Authed(w, o) /\ owner[s] = o
    /\ Goes(w, "put", o, s, d)
    /\ UNCHANGED <<reply, tables, lock, disk, driver>>

HandlePublish(w, o, s, d) ==
    /\ Authed(w, o) /\ owner[s] = o
    /\ \A a \in Needs[d] : Exists(a)
    /\ Goes(w, "put", o, s, d)
    /\ UNCHANGED <<reply, tables, lock, disk, driver>>

\* What follows once the blob is in place.
PutDone(w) == IF req[w].key \in Digest THEN Moves(w, "lock") ELSE Quits(w)

Holds(k) == disk' = [disk EXCEPT ![k] = "whole"]

\* Mutant of FsPut: the file is written under its final name.
FsPutInPlace(w) ==
    /\ req[w].at = "put" /\ driver = "fs"
    /\ IF Exists(req[w].key) THEN PutDone(w) /\ UNCHANGED disk
       ELSE Moves(w, "temp") /\ disk' = [disk EXCEPT ![req[w].key] = "partial"]
    /\ UNCHANGED <<tables, lock, reply, driver, left>>

\* FS.Put: what is there stays; otherwise a temporary file is written ...
FsPut(w) ==
    /\ req[w].at = "put" /\ driver = "fs"
    /\ IF Exists(req[w].key) THEN PutDone(w) ELSE Moves(w, "temp")
    /\ UNCHANGED <<tables, lock, reply, disk, driver, left>>

\* ... and renamed.
FsRename(w) ==
    /\ req[w].at = "temp"
    /\ Holds(req[w].key) /\ PutDone(w)
    /\ UNCHANGED <<tables, lock, reply, driver, left>>

\* S3.Put: the service replaces whole objects.
S3Put(w) ==
    /\ req[w].at = "put" /\ driver = "s3"
    /\ Holds(req[w].key) /\ PutDone(w)
    /\ UNCHANGED <<tables, lock, reply, driver, left>>

PublishLocks(w) ==
    /\ req[w].at = "lock"
    /\ LockShow(w, req[w].org, req[w].on)
    /\ Moves(w, "number")
    /\ UNCHANGED <<reply, disk, driver, left>>

PublishNumbers(w) ==
    /\ req[w].at = "number"
    /\ req' = [req EXCEPT ![w].at = "insert", ![w].n = NextNumber(req[w].on)]
    /\ UNCHANGED <<tables, lock, reply, disk, driver, left>>

PublishInserts(w) ==
    /\ req[w].at = "insert" /\ ~ NumberTaken(req[w].on, req[w].n)
    /\ SomeLeft(Version)
    /\ CommitVersion(w, req[w].org, req[w].on, NewId(Version), req[w].key,
                     req[w].n)
    /\ Quits(w)
    /\ UNCHANGED <<reply, disk, driver, left>>
-----------------------------------------------------------------------------
Tell(w, o, rows) ==
    /\ reply' = [reply EXCEPT ![w] = [to |-> o, rows |-> rows]]
    /\ UNCHANGED <<tables, lock, disk, driver>>

HandleListEvents(w, o) == Authed(w, o) /\ Tell(w, o, ListEvents(o)) /\ UNCHANGED req
HandleGetEvent(w, o, e) == Authed(w, o) /\ Tell(w, o, EventByID(o, e)) /\ UNCHANGED req
HandleListShows(w, o) == Authed(w, o) /\ Tell(w, o, ListShows(o)) /\ UNCHANGED req

HandleListRooms(w, o, e) ==
    /\ Authed(w, o) /\ EventByID(o, e) # {}
    /\ Tell(w, o, ListRooms(o, e)) /\ UNCHANGED req

HandleListShowVersions(w, o, s) ==
    /\ Authed(w, o) /\ owner[s] = o
    /\ Tell(w, o, ListShowVersions(o, s)) /\ UNCHANGED req

HandleGetShowVersion(w, o, v) ==
    Authed(w, o) /\ Tell(w, o, ShowVersionByID(o, v)) /\ UNCHANGED req

HandleListRuns(w, o, limit) ==
    /\ Authed(w, o)
    /\ Tell(w, o, ListRuns(o, IF limit < MaxRunsLimit THEN limit ELSE MaxRunsLimit))
    /\ UNCHANGED req

\* Mutant of HandleJoin: the version's id is used although the room has none.
JoinUnchecked(w, c) ==
    /\ Take(w)
    /\ \E r \in RoomByJoinCode(c) : Tell(w, owner[r], {r, active[r]})
    /\ UNCHANGED req

\* A phone's request: the room of a code ...
HandleJoin(w, c) ==
    /\ Take(w)
    /\ \E r \in RoomByJoinCode(c) :
         /\ Tell(w, owner[r], {r})
         /\ IF active[r] = None THEN UNCHANGED req
            ELSE Goes(w, "join", owner[r], active[r], None)

\* ... and the version that was active when the room was read.
JoinVersion(w) ==
    /\ req[w].at = "join"
    /\ Tell(w, req[w].org, reply[w].rows \cup ShowVersionByID(req[w].org, req[w].on))
    /\ Quits(w) /\ UNCHANGED left
-----------------------------------------------------------------------------
Released(W) == lock' = [s \in Show |-> IF lock[s] \in W THEN None ELSE lock[s]]

\* A statement, a write or the client fails: the handler returns, and its
\* transaction and its temporary file go with it.
Fails(w) ==
    /\ req[w].at # "idle"
    /\ Quits(w) /\ Released({w})
    /\ UNCHANGED <<tables, reply, disk, driver, left>>

\* The process ends and is started again.
Crash ==
    /\ \E w \in Worker : req[w].at # "idle"
    /\ req' = [w \in Worker |-> Idle]
    /\ reply' = [w \in Worker |-> NoReply]
    /\ Released(Worker)
    /\ UNCHANGED <<tables, disk, driver, left>>

Accounts(w) ==
    \/ \E o \in Org, m \in Email : Register(w, o, m)
    \/ \E m \in Email : Login(w, m)
    \/ NewSession(w)

Rooms(w) ==
    \/ \E o \in Org : \/ HandleCreateEvent(w, o)
                      \/ \E e \in Event : HandleCreateRoom(w, o, e)
                      \/ \E r \in Room, v \in Version : HandleActivateRoom(w, o, r, v)
    \/ \E c \in Code : TryCode(w, c)
    \/ \E x \in Record, r \in Room \cup {None} : HandleInternalCreateRun(w, x, r)
    \/ StoreRun(w)

Publishing(w) ==
    \/ \E o \in Org : \/ HandleCreateShow(w, o)
                      \/ \E a \in Asset : HandleUploadAsset(w, o, a)
                      \/ \E s \in Show, d \in Digest : HandlePublish(w, o, s, d)
    \/ FsPut(w) \/ FsRename(w) \/ S3Put(w)
    \/ PublishLocks(w) \/ PublishNumbers(w) \/ PublishInserts(w)

Reading(w) ==
    \/ \E o \in Org :
        \/ HandleListEvents(w, o) \/ HandleListShows(w, o)
        \/ \E e \in Event : HandleGetEvent(w, o, e) \/ HandleListRooms(w, o, e)
        \/ \E s \in Show : HandleListShowVersions(w, o, s)
        \/ \E v \in Version : HandleGetShowVersion(w, o, v)
        \/ \E n \in 1..Cardinality(Record) : HandleListRuns(w, o, n)
    \/ \E c \in Code : HandleJoin(w, c)
    \/ JoinVersion(w)

Next ==
    \/ \E w \in Worker : Accounts(w) \/ Rooms(w) \/ Publishing(w) \/ Reading(w)
                         \/ Fails(w)
    \/ Crash

Spec == Init /\ [][Next]_apiVars

\* A handler that can go on does: the pool, the disk and the database answer.
Steps(w) ==
    \/ NewSession(w) \/ StoreRun(w) \/ JoinVersion(w)
    \/ \E c \in Code : TryCode(w, c)
    \/ FsPut(w) \/ FsRename(w) \/ S3Put(w)
    \/ PublishLocks(w) \/ PublishNumbers(w) \/ PublishInserts(w)

Fairness == \A w \in Worker : WF_apiVars(Steps(w))
-----------------------------------------------------------------------------
\* The numbers of a show's versions are 1, 2, ..., as many as there are versions:
\* without gap or repetition, whoever publishes at the same time and whatever
\* fails half-way.
VersionsGapless ==
    \A s \in Show :
        {number[v] : v \in VersionsOf(s)} = 1..Cardinality(VersionsOf(s))

\* Nobody who has read the next number loses it: UNIQUE (show_id, version) is
\* never what turns a publication away.
NumbersReserved ==
    \A w \in Worker :
        req[w].at = "insert" => ~ NumberTaken(req[w].on, req[w].n)

\* A phone that learns of a version finds its package, and every audio file
\* the package names, complete.
PublishedWhole ==
    \A v \in Version :
        owner[v] # None => /\ disk[digest[v]] = "whole"
                           /\ \A a \in Needs[digest[v]] : disk[a] = "whole"

\* Tenants are kept apart: an answer has rows of one organisation, the one
\* whose session asked; a room belongs to its event's organisation, shows
\* a version of its own, and shares its code with no other.
TenantsApart ==
    /\ \A w \in Worker : \A x \in reply[w].rows : owner[x] = reply[w].to
    /\ \A r \in Room : owner[r] # None =>
         /\ owner[place[r]] = owner[r]
         /\ active[r] # None => owner[active[r]] = owner[r]
         /\ \A q \in Room : code[q] = code[r] => q = r
    /\ \A v \in Version : owner[v] # None => owner[showOf[v]] = owner[v]

\* The store behaves as the in-memory one: each step is one of its critical
\* sections, or none.
Mem == INSTANCE MemStore WITH
           Caller <- Worker,
           nextVersion <- [s \in Show |-> IF VersionsOf(s) = {} THEN 0
                                          ELSE NextNumber(s)],
           answer <- [w \in Worker |-> reply[w].rows]

ActsAsMemStore == [][Mem!Next]_(Mem!memVars)

\* No handler waits for ever: not for the row of a show, and not for a code
\* that is free.
RequestEnds ==
    \A w \in Worker : req[w].at # "idle" ~> req[w].at = "idle"
=============================================================================
