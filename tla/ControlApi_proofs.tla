------------------------- MODULE ControlApi_proofs -------------------------
(***************************************************************************)
(* Proofs about ControlApi: what its tables, its blobs and the requests    *)
(* under way say of each other, for any number of requests, tenants and    *)
(* rows.                                                                   *)
(***************************************************************************)
EXTENDS ControlApi, FiniteSetTheorems, TLAPS

\* A room is in an event of its own organisation, shows a version of its own,
\* and shares its code with none.
RoomOK(r) ==
    /\ owner[r] # NoOrg
    /\ owner[r] = None => code[r] = None /\ active[r] = None
    /\ owner[r] # None =>
         /\ place[r] \in Event /\ owner[place[r]] = owner[r]
         /\ code[r] \in Code
         /\ active[r] # None => active[r] \in Version /\ owner[active[r]] = owner[r]

CodesDiffer == \A q, r \in Room : code[r] # None /\ code[q] = code[r] => q = r

Whole(d) == disk[d] = "whole" /\ \A a \in Needs[d] : disk[a] = "whole"

VersionOK(v) ==
    /\ owner[v] # NoOrg
    /\ owner[v] # None =>
         /\ showOf[v] \in Show /\ owner[showOf[v]] = owner[v]
         /\ digest[v] \in Digest /\ Whole(digest[v])

ShowOK(s) ==
    /\ owner[s] # NoOrg
    /\ IsFiniteSet(VersionsOf(s))
    /\ {number[v] : v \in VersionsOf(s)} = 1..Cardinality(VersionsOf(s))

\* What a handler has found out before the step it has come to.
ReqOK(w) ==
    LET q == req[w]
    IN  /\ q.at = "session" => q.org \in Org
        /\ q.at = "code" => q.org \in Org /\ q.on \in Event /\ owner[q.on] = q.org
        /\ q.at = "record" => q.on \in Record /\ q.org # None
        /\ q.at = "join" => /\ q.on \in Version /\ q.org \in Org
                            /\ reply[w].to = q.org
        /\ q.at \in {"put", "temp"} => q.key \in Key
        /\ q.at \in {"put", "temp"} /\ q.key \in Digest =>
             /\ q.on \in Show /\ q.org \in Org /\ owner[q.on] = q.org
             /\ \A a \in Needs[q.key] : disk[a] = "whole"
        /\ q.at \in {"lock", "number", "insert"} =>
             /\ q.on \in Show /\ q.org \in Org /\ owner[q.on] = q.org
             /\ q.key \in Digest /\ Whole(q.key)
        /\ q.at \in {"number", "insert"} => lock[q.on] = w
        /\ q.at = "insert" => q.n = NextNumber(q.on)

ReplyOK(w) == \A x \in reply[w].rows : owner[x] = reply[w].to /\ owner[x] # None

ApiInv ==
    /\ TypeOK
    /\ \A r \in Room : RoomOK(r)
    /\ CodesDiffer
    /\ \A v \in Version : VersionOK(v)
    /\ \A s \in Show : ShowOK(s)
    /\ \A e \in Event : owner[e] # NoOrg
    /\ \A k \in Key : disk[k] # "partial"
    /\ \A w \in Worker : ReqOK(w) /\ ReplyOK(w)

ReqSet == [at : {"idle", "session", "code", "record", "join", "put",
                 "temp", "lock", "number", "insert"},
           org : Org \cup {None, NoOrg},
           on : Row \cup {None},
           key : Key \cup {None},
           n : Nat]

ReplySet == [to : Org \cup {None}, rows : SUBSET Row]

LEMMA TypeParts ==
    TypeOK => /\ owner \in [Row -> Org \cup {None, NoOrg}]
              /\ req \in [Worker -> ReqSet] /\ reply \in [Worker -> ReplySet]
              /\ disk \in [Key -> {"absent", "partial", "whole"}]
              /\ lock \in [Show -> Worker \cup {None}]
              /\ left \in 0..MaxRequests /\ MaxRequests \in Nat
  BY ApiAssumption DEF TypeOK, ReqSet, ReplySet

LEMMA IdleType == Idle \in ReqSet /\ NoReply \in ReplySet /\ Idle.at = "idle"
                  /\ NoReply.rows = {}
  BY DEF Idle, NoReply, ReqSet, ReplySet

-----------------------------------------------------------------------------
(* What stays as it is when rows are only added, and blobs only completed.  *)

Grows ==
    /\ \A x \in Row : owner[x] # None => owner'[x] = owner[x]
    /\ \A k \in Key : disk[k] = "whole" => disk'[k] = "whole"

LEMMA WholeStays ==
  ASSUME Grows, NEW d \in Digest, Whole(d)
  PROVE  Whole(d)'
  BY ApiAssumption DEF Grows, Whole, Key

\* The request of a worker that does not move.
LEMMA ReqStays ==
  ASSUME ApiInv, Grows, NEW w \in Worker,
         req'[w] = req[w], reply'[w] = reply[w],
         req[w].at \in {"number", "insert"} => lock'[req[w].on] = lock[req[w].on],
         req[w].at = "insert" =>
           \A s \in Show : s = req[w].on => NextNumber(s)' = NextNumber(s)
  PROVE  ReqOK(w)' /\ ReplyOK(w)'
  <1>0. PICK q \in ReqSet : q = req[w] /\ q = req'[w]
    BY TypeParts DEF ApiInv
  <1>1. ReqOK(w) /\ ReplyOK(w) /\ q \in ReqSet /\ reply[w] \in ReplySet
    BY TypeParts DEF ApiInv
  <1>2. ReplyOK(w)'
    BY <1>1 DEF ReplyOK, Grows, ReplySet
  <1>3. q.at = "code" => owner'[q.on] = q.org
    BY <1>0, <1>1, PgAssumption DEF ReqOK, Grows, Row
  <1>4. q.at \in {"put", "temp"} /\ q.key \in Digest =>
           owner'[q.on] = q.org /\ \A a \in Needs[q.key] : disk'[a] = "whole"
    BY <1>0, <1>1, PgAssumption, ApiAssumption DEF ReqOK, Grows, Row, Key
  <1>5. q.at \in {"lock", "number", "insert"} => owner'[q.on] = q.org /\ Whole(q.key)'
    BY <1>0, <1>1, WholeStays, PgAssumption DEF ReqOK, Grows, Row
  <1>6. q.at = "insert" => q.n = NextNumber(q.on)'
    BY <1>0, <1>1 DEF ReqOK
  <1>7. q.at \in {"number", "insert"} => lock'[q.on] = w
    BY <1>0, <1>1 DEF ReqOK
  <1>8. q.at = "insert" => (req[w].n = NextNumber(req[w].on))'
    BY <1>0, <1>6
  <1>9. q.at \in {"lock", "number", "insert"} => Whole(req[w].key)'
    BY <1>0, <1>5
  <1> QED
    BY <1>0, <1>1, <1>2, <1>3, <1>4, <1>5, <1>7, <1>8, <1>9 DEF ReqOK

LEMMA VersionStays ==
  ASSUME ApiInv, Grows, NEW v \in Version,
         owner'[v] = owner[v], showOf'[v] = showOf[v], digest'[v] = digest[v]
  PROVE  VersionOK(v)'
  <1>1. VersionOK(v)
    BY DEF ApiInv
  <1>2. owner[v] # None => owner'[showOf[v]] = owner[v] /\ Whole(digest[v])'
    BY <1>1, WholeStays DEF VersionOK, Grows, Row
  <1> QED
    BY <1>1, <1>2 DEF VersionOK

LEMMA ShowStays ==
  ASSUME ApiInv, NEW s \in Show, owner'[s] # NoOrg,
         \A v \in Version : owner'[v] = owner[v], showOf' = showOf, number' = number
  PROVE  ShowOK(s)' /\ VersionsOf(s)' = VersionsOf(s) /\ NextNumber(s)' = NextNumber(s)
  <1>1. VersionsOf(s)' = VersionsOf(s)
    BY DEF VersionsOf
  <1> QED
    BY <1>1 DEF ApiInv, ShowOK, NextNumber

-----------------------------------------------------------------------------
(* Steps that add no row: one worker moves on, and perhaps a blob or a lock *)
(* changes with it.                                                         *)

LEMMA RequestStep ==
  ASSUME ApiInv, NEW w \in Worker, NEW r \in ReqSet, NEW p \in ReplySet,
         req' = [req EXCEPT ![w] = r], reply' = [reply EXCEPT ![w] = p],
         UNCHANGED <<owner, place, code, active, showOf, number, digest, stamp>>,
         orgs' \subseteq Org, sessions' \subseteq Org,
         user' \in [Email -> Org \cup {None}],
         driver' \in {"fs", "s3"}, left' \in 0..MaxRequests,
         disk' \in [Key -> {"absent", "whole"}],
         \A k \in Key : disk[k] = "whole" => disk'[k] = "whole",
         lock' \in [Show -> Worker \cup {None}],
         \A s \in Show : lock[s] # None /\ lock[s] # w => lock'[s] = lock[s],
         ReqOK(w)', ReplyOK(w)'
  PROVE  ApiInv'
  <1>1. TypeOK'
    BY DEF ApiInv, TypeOK, ReqSet, ReplySet
  <1>2. Grows
    BY DEF Grows
  <1>3. \A s \in Show : NextNumber(s)' = NextNumber(s) /\ ShowOK(s)'
    BY ShowStays DEF ApiInv, ShowOK
  <1>4. \A v \in Version : VersionOK(v)'
    BY <1>2, VersionStays
  <1>5. /\ \A x \in Room : RoomOK(x)'
        /\ CodesDiffer'
        /\ \A e \in Event : owner'[e] # NoOrg
        /\ \A k \in Key : disk'[k] # "partial"
    BY DEF ApiInv, RoomOK, CodesDiffer
  <1>6. \A u \in Worker : ReqOK(u)' /\ ReplyOK(u)'
    <2> TAKE u \in Worker
    <2>1. CASE u = w
      BY <2>1
    <2>2. CASE u # w
      <3>1. req'[u] = req[u] /\ reply'[u] = reply[u] /\ req \in [Worker -> ReqSet]
        BY <2>2, TypeParts DEF ApiInv
      <3>2. req[u].at \in {"number", "insert"} =>
               req[u].on \in Show /\ lock[req[u].on] = u
        BY DEF ApiInv, ReqOK
      <3>3. req[u].at \in {"number", "insert"} => lock'[req[u].on] = lock[req[u].on]
        BY <2>2, <3>2, ApiAssumption
      <3>4. req[u].at = "insert" =>
               \A s \in Show : s = req[u].on => NextNumber(s)' = NextNumber(s)
        BY <1>3
      <3> QED
        BY <3>1, <3>3, <3>4, <1>2, ReqStays
    <2> QED
      BY <2>1, <2>2
  <1> QED
    BY <1>1, <1>3, <1>4, <1>5, <1>6 DEF ApiInv

\* The same, where only the worker moves.
LEMMA WorkerMoves ==
  ASSUME ApiInv, NEW w \in Worker, NEW r \in ReqSet,
         req' = [req EXCEPT ![w] = r], left' \in 0..MaxRequests,
         UNCHANGED <<tables, lock, reply, disk, driver>>, ReqOK(w)'
  PROVE  ApiInv'
  <1>1. reply[w] \in ReplySet /\ reply' = [reply EXCEPT ![w] = reply[w]]
        /\ UNCHANGED <<owner, place, code, active, showOf, number, digest, stamp,
                       orgs, user, sessions>>
    BY TypeParts DEF ApiInv, tables, roomCols, versionCols
  <1>2. ReplyOK(w)'
    BY <1>1 DEF ApiInv, ReplyOK
  <1>3. /\ orgs' \subseteq Org /\ sessions' \subseteq Org
        /\ user' \in [Email -> Org \cup {None}] /\ driver' \in {"fs", "s3"}
        /\ disk' \in [Key -> {"absent", "whole"}]
        /\ lock' \in [Show -> Worker \cup {None}]
    BY <1>1 DEF ApiInv, TypeOK
  <1> QED
    BY <1>1, <1>2, <1>3, RequestStep

\* A worker that is done owes nothing.
LEMMA IdleOK ==
  ASSUME NEW w \in Worker, req'[w] = Idle
  PROVE  ReqOK(w)'
  BY IdleType DEF ReqOK

LEMMA LeftType ==
  ASSUME ApiInv, NEW w \in Worker, Take(w)
  PROVE  left' \in 0..MaxRequests /\ req[w].at = "idle"
  BY TypeParts DEF Take, ApiInv

LEMMA GoesOK ==
  ASSUME ApiInv, NEW w \in Worker,
         NEW a \in {"session", "code", "record", "join", "put", "lock"},
         NEW o \in Org \cup {None, NoOrg}, NEW x \in Row \cup {None},
         NEW k \in Key \cup {None}, Goes(w, a, o, x, k)
  PROVE  /\ [at |-> a, org |-> o, on |-> x, key |-> k, n |-> 0] \in ReqSet
         /\ req' = [req EXCEPT ![w] = [at |-> a, org |-> o, on |-> x, key |-> k, n |-> 0]]
         /\ req'[w] = [at |-> a, org |-> o, on |-> x, key |-> k, n |-> 0]
  BY TypeParts DEF ApiInv, Goes, ReqSet

LEMMA LoginOK ==
  ASSUME ApiInv, NEW w \in Worker, NEW m \in Email, Login(w, m)
  PROVE  ApiInv'
  <1>1. user[m] \in Org
    BY DEF Login, UserByEmail, ApiInv, TypeOK
  <1>2. /\ [at |-> "session", org |-> user[m], on |-> None, key |-> None, n |-> 0] \in ReqSet
        /\ req' = [req EXCEPT ![w] = [at |-> "session", org |-> user[m], on |-> None, key |-> None, n |-> 0]]
        /\ req'[w] = [at |-> "session", org |-> user[m], on |-> None, key |-> None, n |-> 0]
    BY <1>1, GoesOK DEF Login, UserByEmail
  <1>3. ReqOK(w)'
    BY <1>1, <1>2 DEF ReqOK
  <1> QED
    BY <1>2, <1>3, LeftType, WorkerMoves DEF Login

LEMMA HandleCreateRoomOK ==
  ASSUME ApiInv, NEW w \in Worker, NEW o \in Org, NEW e \in Event,
         HandleCreateRoom(w, o, e)
  PROVE  ApiInv'
  <1> DEFINE r == [at |-> "code", org |-> o, on |-> e, key |-> None, n |-> 0]
  <1>1. owner[e] = o
    BY DEF HandleCreateRoom, EventByID
  <1>2. r \in ReqSet /\ req' = [req EXCEPT ![w] = r] /\ req'[w] = r
    BY GoesOK DEF HandleCreateRoom, Row
  <1>3. ReqOK(w)'
    BY <1>1, <1>2 DEF ReqOK, HandleCreateRoom, tables
  <1> QED
    BY <1>2, <1>3, LeftType, WorkerMoves DEF HandleCreateRoom, Authed

LEMMA HandleInternalCreateRunOK ==
  ASSUME ApiInv, NEW w \in Worker, NEW x \in Record, NEW q \in Room \cup {None},
         HandleInternalCreateRun(w, x, q)
  PROVE  ApiInv'
  <1> DEFINE o == OrgIDByRoom(q)
             r == [at |-> "record", org |-> o, on |-> x, key |-> None, n |-> 0]
  <1>1. o \in Org \cup {NoOrg} /\ o # None
    <2>1. q \in Room => owner[q] \in Org \cup {None, NoOrg}
      BY TypeParts DEF ApiInv, Row
    <2> QED
      BY <2>1, PgAssumption DEF OrgIDByRoom
  <1>2. r \in ReqSet /\ req' = [req EXCEPT ![w] = r] /\ req'[w] = r
    <2> HIDE DEF o
    <2> QED
      BY <1>1, GoesOK DEF HandleInternalCreateRun, Row, o
  <1>3. ReqOK(w)'
    <2> HIDE DEF o
    <2> QED
      BY <1>1, <1>2 DEF ReqOK
  <1> QED
    <2> HIDE DEF r
    <2> QED
      BY <1>2, <1>3, LeftType, WorkerMoves DEF HandleInternalCreateRun

LEMMA HandleUploadAssetOK ==
  ASSUME ApiInv, NEW w \in Worker, NEW o \in Org, NEW a \in Asset,
         HandleUploadAsset(w, o, a)
  PROVE  ApiInv'
  <1> DEFINE r == [at |-> "put", org |-> o, on |-> None, key |-> a, n |-> 0]
  <1>1. r \in ReqSet /\ req' = [req EXCEPT ![w] = r] /\ req'[w] = r
    BY GoesOK DEF HandleUploadAsset, Key
  <1>2. ReqOK(w)'
    BY <1>1, ApiAssumption DEF ReqOK, Key
  <1> QED
    BY <1>1, <1>2, LeftType, WorkerMoves DEF HandleUploadAsset, Authed

LEMMA HandlePublishOK ==
  ASSUME ApiInv, NEW w \in Worker, NEW o \in Org, NEW s \in Show, NEW d \in Digest,
         HandlePublish(w, o, s, d)
  PROVE  ApiInv'
  <1> DEFINE r == [at |-> "put", org |-> o, on |-> s, key |-> d, n |-> 0]
  <1>1. r \in ReqSet /\ req' = [req EXCEPT ![w] = r] /\ req'[w] = r
    BY GoesOK DEF HandlePublish, Key, Row
  <1>2. \A a \in Needs[d] : disk[a] = "whole"
    BY ApiAssumption DEF HandlePublish, Exists, ApiInv, TypeOK, Key
  <1>3. ReqOK(w)'
    BY <1>1, <1>2 DEF ReqOK, HandlePublish, tables, Key
  <1> QED
    BY <1>1, <1>3, LeftType, WorkerMoves DEF HandlePublish, Authed

LEMMA FailsOK ==
  ASSUME ApiInv, NEW w \in Worker, Fails(w)
  PROVE  ApiInv'
  <1>1. req' = [req EXCEPT ![w] = Idle] /\ Idle \in ReqSet /\ req'[w] = Idle
    BY IdleType, TypeParts DEF Fails, Quits, ApiInv
  <1>2. ReqOK(w)'
    BY <1>1, IdleOK
  <1>3. /\ lock' \in [Show -> Worker \cup {None}]
        /\ \A s \in Show : lock[s] # None /\ lock[s] # w => lock'[s] = lock[s]
    BY TypeParts DEF Fails, Released, ApiInv
  <1>4. /\ UNCHANGED <<owner, place, code, active, showOf, number, digest, stamp>>
        /\ orgs' \subseteq Org /\ sessions' \subseteq Org
        /\ user' \in [Email -> Org \cup {None}] /\ driver' \in {"fs", "s3"}
        /\ disk' \in [Key -> {"absent", "whole"}] /\ disk' = disk
        /\ left' \in 0..MaxRequests
        /\ reply' = reply /\ reply' = [reply EXCEPT ![w] = reply[w]]
        /\ reply[w] \in ReplySet
    BY TypeParts DEF Fails, ApiInv, TypeOK, tables, roomCols, versionCols
  <1>5. ReplyOK(w)'
    BY <1>4 DEF ApiInv, ReplyOK
  <1> QED
    BY <1>1, <1>2, <1>3, <1>4, <1>5, RequestStep

\* Everything a request reads is there: a step to a and n turns counted, with the
\* rest of the record kept.
LEMMA MovesOK ==
  ASSUME ApiInv, NEW w \in Worker, NEW n \in Nat,
         NEW a \in {"code", "put", "temp", "lock", "number", "insert"}
  PROVE  [req[w] EXCEPT !.at = a, !.n = n] \in ReqSet
         /\ [req[w] EXCEPT !.at = a] = [req[w] EXCEPT !.at = a, !.n = req[w].n]
         /\ req[w].n \in Nat /\ req[w] \in ReqSet
  BY TypeParts DEF ApiInv, ReqSet

\* A blob is put: the handler of an upload is done, that of a publication goes on
\* to the database with a whole package.
LEMMA PutDoneOK ==
  ASSUME ApiInv, NEW w \in Worker, req[w].at \in {"put", "temp"}, PutDone(w),
         disk' \in [Key -> {"absent", "whole"}], disk'[req[w].key] = "whole",
         \A k \in Key : disk[k] = "whole" => disk'[k] = "whole",
         UNCHANGED <<tables, lock, reply, driver, left>>
  PROVE  ApiInv'
  <1>0. PICK q \in ReqSet : q = req[w]
    BY MovesOK
  <1> DEFINE r == IF q.key \in Digest THEN [q EXCEPT !.at = "lock"] ELSE Idle
  <1>1. r \in ReqSet
    BY <1>0, IdleType, MovesOK
  <1>2. req' = [req EXCEPT ![w] = r] /\ req'[w] = r
    <2>1. req \in [Worker -> ReqSet]
      BY TypeParts DEF ApiInv
    <2>2. CASE q.key \in Digest
      BY <1>0, <2>1, <2>2 DEF PutDone, Moves
    <2>3. CASE q.key \notin Digest
      BY <1>0, <2>1, <2>3 DEF PutDone, Quits
    <2> QED
      BY <2>2, <2>3
  <1>3. UNCHANGED <<owner, place, code, active, showOf, number, digest, stamp,
                    orgs, user, sessions>>
    BY DEF tables, roomCols, versionCols
  <1>4. ReqOK(w)'
    <2>1. CASE q.key \in Digest
      <3>1. /\ q.on \in Show /\ q.org \in Org /\ owner[q.on] = q.org
            /\ \A a \in Needs[q.key] : disk[a] = "whole"
        BY <1>0, <2>1 DEF ApiInv, ReqOK
      <3>2. Whole(q.key)'
        BY <1>0, <2>1, <3>1, ApiAssumption DEF Whole, Key
      <3>3. /\ req'[w].at = "lock" /\ req'[w].on = q.on /\ req'[w].org = q.org
            /\ req'[w].key = q.key
        BY <1>1, <1>2, <2>1 DEF ReqSet
      <3>4. Whole(req[w].key)'
        BY <3>2, <3>3
      <3> HIDE DEF r
      <3> QED
        BY <1>3, <2>1, <3>1, <3>3, <3>4 DEF ReqOK
    <2>2. CASE q.key \notin Digest
      BY <1>2, <2>2, IdleOK
    <2> QED
      BY <2>1, <2>2
  <1>5. /\ orgs' \subseteq Org /\ sessions' \subseteq Org
        /\ user' \in [Email -> Org \cup {None}] /\ driver' \in {"fs", "s3"}
        /\ left' \in 0..MaxRequests
        /\ lock' \in [Show -> Worker \cup {None}]
        /\ reply' = [reply EXCEPT ![w] = reply[w]] /\ reply[w] \in ReplySet
    BY <1>3, TypeParts DEF ApiInv, TypeOK
  <1>6. ReplyOK(w)'
    BY <1>3 DEF ApiInv, ReplyOK
  <1> HIDE DEF r
  <1> QED
    BY <1>1, <1>2, <1>3, <1>4, <1>5, <1>6, RequestStep

LEMMA DiskParts ==
  ASSUME ApiInv, NEW w \in Worker, req[w].at \in {"put", "temp"}
  PROVE  /\ req[w].key \in Key /\ disk \in [Key -> {"absent", "whole"}]
         /\ Exists(req[w].key) => disk[req[w].key] = "whole"
         /\ Holds(req[w].key) => /\ disk' \in [Key -> {"absent", "whole"}]
                                 /\ disk'[req[w].key] = "whole"
                                 /\ \A k \in Key : disk[k] = "whole" => disk'[k] = "whole"
  <1>1. req[w].key \in Key /\ disk \in [Key -> {"absent", "whole"}]
    BY DEF ApiInv, ReqOK, TypeOK
  <1> QED
    BY <1>1 DEF Exists, Holds

LEMMA FsPutOK ==
  ASSUME ApiInv, NEW w \in Worker, FsPut(w)
  PROVE  ApiInv'
  <1>1. CASE Exists(req[w].key)
    BY <1>1, DiskParts, PutDoneOK DEF FsPut
  <1>2. CASE ~Exists(req[w].key)
    <2> DEFINE r == [req[w] EXCEPT !.at = "temp"]
    <2>1. req' = [req EXCEPT ![w] = r] /\ req'[w] = r /\ r \in ReqSet
      BY <1>2, TypeParts, MovesOK DEF FsPut, Moves, ApiInv
    <2>2. UNCHANGED <<owner, tables, lock, reply, disk, driver, left>>
      BY <1>2 DEF FsPut, tables
    <2>3. /\ req'[w].at = "temp" /\ req'[w].on = req[w].on /\ req'[w].org = req[w].org
          /\ req'[w].key = req[w].key
      BY <2>1, TypeParts DEF ReqSet, ApiInv
    <2>4. ReqOK(w)'
      BY <2>2, <2>3 DEF ApiInv, ReqOK, FsPut
    <2>5. left' \in 0..MaxRequests
      BY <2>2 DEF ApiInv, TypeOK
    <2> HIDE DEF r
    <2> QED
      BY <2>1, <2>2, <2>4, <2>5, WorkerMoves
  <1> QED
    BY <1>1, <1>2

LEMMA PublishLocksOK ==
  ASSUME ApiInv, NEW w \in Worker, PublishLocks(w)
  PROVE  ApiInv'
  <1>0. PICK q \in ReqSet : q = req[w]
    BY TypeParts DEF ApiInv
  <1> DEFINE r == [q EXCEPT !.at = "number"]
  <1>1. req' = [req EXCEPT ![w] = r] /\ req'[w] = r /\ r \in ReqSet
    BY <1>0, TypeParts, MovesOK DEF PublishLocks, Moves, ApiInv
  <1>2. /\ q.on \in Show /\ q.org \in Org /\ owner[q.on] = q.org
        /\ q.key \in Digest /\ Whole(q.key)
    BY <1>0 DEF ApiInv, ReqOK, PublishLocks
  <1>3. /\ UNCHANGED <<owner, place, code, active, showOf, number, digest, stamp,
                       orgs, user, sessions, reply, disk, driver, left>>
        /\ lock' = [lock EXCEPT ![q.on] = w] /\ lock[q.on] = None
    BY <1>0 DEF PublishLocks, LockShow, tables, roomCols, versionCols
  <1>4. /\ lock' \in [Show -> Worker \cup {None}] /\ lock'[q.on] = w
        /\ \A s \in Show : lock[s] # None /\ lock[s] # w => lock'[s] = lock[s]
    BY <1>2, <1>3, TypeParts DEF ApiInv
  <1>5. /\ req'[w].at = "number" /\ req'[w].on = q.on /\ req'[w].org = q.org
        /\ req'[w].key = q.key
    BY <1>1, TypeParts DEF ReqSet, ApiInv
  <1>6. Whole(q.key)'
    BY <1>2, <1>3 DEF Whole
  <1>7. ReqOK(w)'
    <2>1. Whole(req[w].key)'
      BY <1>5, <1>6
    <2> HIDE DEF r
    <2> QED
      BY <1>2, <1>3, <1>4, <1>5, <2>1 DEF ReqOK
  <1>8. /\ orgs' \subseteq Org /\ sessions' \subseteq Org
        /\ user' \in [Email -> Org \cup {None}] /\ driver' \in {"fs", "s3"}
        /\ disk' \in [Key -> {"absent", "whole"}] /\ left' \in 0..MaxRequests
        /\ reply' = [reply EXCEPT ![w] = reply[w]] /\ reply[w] \in ReplySet
    BY <1>3, TypeParts DEF ApiInv, TypeOK
  <1>9. ReplyOK(w)'
    BY <1>3 DEF ApiInv, ReplyOK
  <1> HIDE DEF r
  <1> QED
    BY <1>1, <1>3, <1>4, <1>7, <1>8, <1>9, RequestStep

LEMMA GreatestOf ==
  ASSUME NEW k \in Nat
  PROVE  (CHOOSE n \in {0} \cup 1..k : \A m \in 1..k : n >= m) = k
  <1>1. \A n \in {0} \cup 1..k : (\A m \in 1..k : n >= m) => n = k
    <2> SUFFICES ASSUME NEW n \in {0} \cup 1..k, \A m \in 1..k : n >= m
                 PROVE  n = k
      OBVIOUS
    <2>1. n \in Nat /\ n <= k
      OBVIOUS
    <2>2. k # 0 => n >= k
      OBVIOUS
    <2> QED
      BY <2>1, <2>2
  <1>2. k \in {0} \cup 1..k /\ \A m \in 1..k : k >= m
    OBVIOUS
  <1> QED
    BY <1>1, <1>2

\* The next number is one more than there are versions.
LEMMA NextIs ==
  ASSUME ApiInv, NEW s \in Show
  PROVE  /\ NextNumber(s) = Cardinality(VersionsOf(s)) + 1
         /\ NextNumber(s) \in Nat /\ Cardinality(VersionsOf(s)) \in Nat
  <1>1. PICK k \in Nat : /\ k = Cardinality(VersionsOf(s))
                         /\ {number[v] : v \in VersionsOf(s)} = 1..k
    BY FS_CardinalityType DEF ApiInv, ShowOK
  <1>2. NextNumber(s) = 1 + k
    <2> DEFINE taken == {number[v] : v \in VersionsOf(s)}
    <2>1. NextNumber(s) = 1 + CHOOSE n \in {0} \cup taken : \A m \in taken : n >= m
      BY DEF NextNumber
    <2>2. taken = 1..k
      BY <1>1
    <2> HIDE DEF taken
    <2> QED
      BY <2>1, <2>2, GreatestOf
  <1> QED
    BY <1>1, <1>2

LEMMA PublishNumbersOK ==
  ASSUME ApiInv, NEW w \in Worker, PublishNumbers(w)
  PROVE  ApiInv'
  <1>0. PICK q \in ReqSet : q = req[w]
    BY TypeParts DEF ApiInv
  <1>1. /\ q.on \in Show /\ q.org \in Org /\ owner[q.on] = q.org
        /\ q.key \in Digest /\ Whole(q.key) /\ lock[q.on] = w
    BY <1>0 DEF ApiInv, ReqOK, PublishNumbers
  <1>2. PICK x \in Nat : x = NextNumber(q.on)
    BY <1>1, NextIs
  <1> DEFINE r == [q EXCEPT !.at = "insert", !.n = x]
  <1>3. req' = [req EXCEPT ![w] = r] /\ req'[w] = r /\ r \in ReqSet
    <2>1. r \in ReqSet
      BY <1>0, <1>2, MovesOK
    <2>2. req' = [req EXCEPT ![w] = r]
      BY <1>0, <1>2 DEF PublishNumbers
    <2> QED
      BY <2>1, <2>2, TypeParts DEF ApiInv
  <1>4. /\ UNCHANGED <<owner, showOf, number, tables, lock, reply, disk, driver, left>>
        /\ left' \in 0..MaxRequests
    BY DEF PublishNumbers, tables, versionCols, ApiInv, TypeOK
  <1>5. /\ req'[w].at = "insert" /\ req'[w].on = q.on /\ req'[w].org = q.org
        /\ req'[w].key = q.key /\ req'[w].n = x
    BY <1>3, TypeParts DEF ReqSet, ApiInv
  <1>6. Whole(q.key)' /\ NextNumber(q.on)' = x
    BY <1>1, <1>2, <1>4 DEF Whole, NextNumber, VersionsOf
  <1>7. ReqOK(w)'
    <2>1. Whole(req[w].key)' /\ (req[w].n = NextNumber(req[w].on))'
      BY <1>5, <1>6
    <2> HIDE DEF r
    <2> QED
      BY <1>1, <1>4, <1>5, <2>1 DEF ReqOK
  <1> HIDE DEF r
  <1> QED
    BY <1>3, <1>4, <1>7, WorkerMoves

LEMMA PutsOK ==
  ASSUME ApiInv, NEW w \in Worker, FsRename(w) \/ S3Put(w)
  PROVE  ApiInv'
  <1>1. /\ req[w].at \in {"put", "temp"} /\ Holds(req[w].key) /\ PutDone(w)
        /\ UNCHANGED <<tables, lock, reply, driver, left>>
    BY DEF FsRename, S3Put
  <1> QED
    BY <1>1, DiskParts, PutDoneOK

\* Accounts: rows that nothing else refers to.
LEMMA RegisterOK ==
  ASSUME ApiInv, NEW w \in Worker, NEW o \in Org, NEW m \in Email, Register(w, o, m)
  PROVE  ApiInv'
  <1> DEFINE r == IF user[m] = None
                  THEN [at |-> "session", org |-> o, on |-> None, key |-> None, n |-> 0]
                  ELSE req[w]
  <1>1. req' = [req EXCEPT ![w] = r] /\ req'[w] = r /\ r \in ReqSet
    <2>1. CASE user[m] = None
      BY <2>1, GoesOK DEF Register
    <2>2. CASE user[m] # None
      BY <2>2, TypeParts DEF Register, ApiInv
    <2> QED
      BY <2>1, <2>2
  <1>2. /\ UNCHANGED <<owner, place, code, active, showOf, number, digest, stamp,
                       sessions, lock, reply, disk, driver>>
        /\ left' \in 0..MaxRequests /\ req[w].at = "idle"
        /\ orgs' \subseteq Org /\ user' \in [Email -> Org \cup {None}]
    BY LeftType DEF Register, CreateOrgWithUser, roomCols, versionCols, ApiInv, TypeOK
  <1>3. ReqOK(w)'
    BY <1>1, <1>2 DEF ReqOK
  <1>4. /\ sessions' \subseteq Org /\ driver' \in {"fs", "s3"}
        /\ disk' \in [Key -> {"absent", "whole"}]
        /\ lock' \in [Show -> Worker \cup {None}]
        /\ reply' = [reply EXCEPT ![w] = reply[w]] /\ reply[w] \in ReplySet
    BY <1>2, TypeParts DEF ApiInv, TypeOK
  <1>5. ReplyOK(w)'
    BY <1>2 DEF ApiInv, ReplyOK
  <1> HIDE DEF r
  <1> QED
    BY <1>1, <1>2, <1>3, <1>4, <1>5, RequestStep

LEMMA NewSessionOK ==
  ASSUME ApiInv, NEW w \in Worker, NewSession(w)
  PROVE  ApiInv'
  <1>1. req' = [req EXCEPT ![w] = Idle] /\ req'[w] = Idle /\ Idle \in ReqSet
    BY IdleType, TypeParts DEF NewSession, Quits, ApiInv
  <1>2. /\ UNCHANGED <<owner, place, code, active, showOf, number, digest, stamp,
                       orgs, user, lock, reply, disk, driver, left>>
        /\ sessions' \subseteq Org
    BY DEF NewSession, CreateSession, roomCols, versionCols, ApiInv, TypeOK, ReqOK
  <1>3. /\ orgs' \subseteq Org /\ user' \in [Email -> Org \cup {None}]
        /\ driver' \in {"fs", "s3"} /\ left' \in 0..MaxRequests
        /\ disk' \in [Key -> {"absent", "whole"}]
        /\ lock' \in [Show -> Worker \cup {None}]
        /\ reply' = [reply EXCEPT ![w] = reply[w]] /\ reply[w] \in ReplySet
    BY <1>2, TypeParts DEF ApiInv, TypeOK
  <1>4. ReplyOK(w)'
    BY <1>2 DEF ApiInv, ReplyOK
  <1> QED
    BY <1>1, <1>2, <1>3, <1>4, IdleOK, RequestStep

-----------------------------------------------------------------------------
(* Answers.                                                                 *)

\* A worker answers with rows of one organisation.
LEMMA TellOK ==
  ASSUME ApiInv, NEW w \in Worker, NEW r \in ReqSet, NEW o \in Org,
         NEW rows \in SUBSET Row, Tell(w, o, rows),
         req' = [req EXCEPT ![w] = r], left' \in 0..MaxRequests,
         \A x \in rows : owner[x] = o, ReqOK(w)'
  PROVE  ApiInv'
  <1> DEFINE p == [to |-> o, rows |-> rows]
  <1>1. p \in ReplySet /\ reply' = [reply EXCEPT ![w] = p] /\ reply'[w] = p
    BY TypeParts DEF Tell, ReplySet, ApiInv
  <1>2. /\ UNCHANGED <<owner, place, code, active, showOf, number, digest, stamp,
                       orgs, user, sessions, lock, disk, driver>>
    BY DEF Tell, tables, roomCols, versionCols
  <1>3. ReplyOK(w)'
    BY <1>1, <1>2, PgAssumption DEF ReplyOK
  <1>4. /\ orgs' \subseteq Org /\ user' \in [Email -> Org \cup {None}]
        /\ sessions' \subseteq Org /\ driver' \in {"fs", "s3"}
        /\ disk' \in [Key -> {"absent", "whole"}]
        /\ lock' \in [Show -> Worker \cup {None}]
    BY <1>2, TypeParts DEF ApiInv, TypeOK
  <1> HIDE DEF p
  <1> QED
    BY <1>1, <1>2, <1>3, <1>4, RequestStep

\* The worker itself does not move.
LEMMA ListOK ==
  ASSUME ApiInv, NEW w \in Worker, NEW o \in Org, NEW rows \in SUBSET Row,
         Take(w), Tell(w, o, rows), UNCHANGED req, \A x \in rows : owner[x] = o
  PROVE  ApiInv'
  <1>1. req[w] \in ReqSet /\ req' = [req EXCEPT ![w] = req[w]]
    BY TypeParts DEF ApiInv
  <1>2. ReqOK(w)'
    BY LeftType DEF ReqOK
  <1> QED
    BY <1>1, <1>2, LeftType, TellOK

LEMMA ReadingOK ==
  ASSUME ApiInv, NEW w \in Worker, NEW o \in Org,
         \/ HandleListEvents(w, o) \/ HandleListShows(w, o)
         \/ \E e \in Event : HandleGetEvent(w, o, e) \/ HandleListRooms(w, o, e)
         \/ \E s \in Show : HandleListShowVersions(w, o, s)
         \/ \E v \in Version : HandleGetShowVersion(w, o, v)
         \/ \E n \in 1..Cardinality(Record) : HandleListRuns(w, o, n)
  PROVE  ApiInv'
  <1>1. ASSUME HandleListEvents(w, o) PROVE ApiInv'
    <2>1. ListEvents(o) \in SUBSET Row /\ \A x \in ListEvents(o) : owner[x] = o
      BY DEF ListEvents, Row
    <2> QED
      BY <1>1, <2>1, ListOK DEF HandleListEvents, Authed
  <1>2. ASSUME HandleListShows(w, o) PROVE ApiInv'
    <2>1. ListShows(o) \in SUBSET Row /\ \A x \in ListShows(o) : owner[x] = o
      BY DEF ListShows, Row
    <2> QED
      BY <1>2, <2>1, ListOK DEF HandleListShows, Authed
  <1>3. ASSUME NEW e \in Event, HandleGetEvent(w, o, e) PROVE ApiInv'
    <2>1. EventByID(o, e) \in SUBSET Row /\ \A x \in EventByID(o, e) : owner[x] = o
      BY DEF EventByID, Row
    <2> QED
      BY <1>3, <2>1, ListOK DEF HandleGetEvent, Authed
  <1>4. ASSUME NEW e \in Event, HandleListRooms(w, o, e) PROVE ApiInv'
    <2>1. ListRooms(o, e) \in SUBSET Row /\ \A x \in ListRooms(o, e) : owner[x] = o
      BY DEF ListRooms, Row
    <2> QED
      BY <1>4, <2>1, ListOK DEF HandleListRooms, Authed
  <1>5. ASSUME NEW s \in Show, HandleListShowVersions(w, o, s) PROVE ApiInv'
    <2>1. ListShowVersions(o, s) \in SUBSET Row
          /\ \A x \in ListShowVersions(o, s) : owner[x] = o
      BY DEF ListShowVersions, Row
    <2> QED
      BY <1>5, <2>1, ListOK DEF HandleListShowVersions, Authed
  <1>6. ASSUME NEW v \in Version, HandleGetShowVersion(w, o, v) PROVE ApiInv'
    <2>1. ShowVersionByID(o, v) \in SUBSET Row
          /\ \A x \in ShowVersionByID(o, v) : owner[x] = o
      BY DEF ShowVersionByID, Row
    <2> QED
      BY <1>6, <2>1, ListOK DEF HandleGetShowVersion, Authed
  <1>7. ASSUME NEW n, HandleListRuns(w, o, n) PROVE ApiInv'
    <2> DEFINE l == IF n < MaxRunsLimit THEN n ELSE MaxRunsLimit
    <2>1. ListRuns(o, l) \in SUBSET Row /\ \A x \in ListRuns(o, l) : owner[x] = o
      BY DEF ListRuns, Row
    <2> HIDE DEF l
    <2>2. Take(w) /\ Tell(w, o, ListRuns(o, l)) /\ UNCHANGED req
      BY <1>7 DEF HandleListRuns, Authed, l
    <2> QED
      BY <2>1, <2>2, ListOK
  <1> QED
    BY <1>1, <1>2, <1>3, <1>4, <1>5, <1>6, <1>7

\* Who owns a room is an organisation.
LEMMA RoomOwner ==
  ASSUME ApiInv, NEW r \in Room, owner[r] # None
  PROVE  owner[r] \in Org
  BY TypeParts DEF ApiInv, RoomOK, Row

LEMMA HandleJoinOK ==
  ASSUME ApiInv, NEW w \in Worker, NEW c \in Code, HandleJoin(w, c)
  PROVE  ApiInv'
  <1>1. PICK r \in Room :
           /\ code[r] = c /\ Tell(w, owner[r], {r})
           /\ IF active[r] = None THEN UNCHANGED req
              ELSE Goes(w, "join", owner[r], active[r], None)
    BY DEF HandleJoin, RoomByJoinCode
  <1>2. owner[r] \in Org /\ RoomOK(r)
    BY <1>1, RoomOwner, PgAssumption DEF ApiInv, RoomOK
  <1>3. {r} \in SUBSET Row /\ \A x \in {r} : owner[x] = owner[r]
    BY DEF Row
  <1>4. CASE active[r] = None
    BY <1>1, <1>2, <1>3, <1>4, ListOK DEF HandleJoin
  <1>5. CASE active[r] # None
    <2> DEFINE q == [at |-> "join", org |-> owner[r], on |-> active[r], key |-> None, n |-> 0]
    <2>1. active[r] \in Version
      BY <1>2, <1>5, PgAssumption DEF RoomOK
    <2>2. q \in ReqSet /\ req' = [req EXCEPT ![w] = q] /\ req'[w] = q
      BY <1>1, <1>2, <1>5, <2>1, GoesOK DEF Row
    <2>3. reply'[w].to = owner[r]
      BY <1>1, TypeParts DEF Tell, ApiInv
    <2>4. ReqOK(w)'
      BY <1>2, <2>1, <2>2, <2>3 DEF ReqOK
    <2>5. left' \in 0..MaxRequests
      BY LeftType DEF HandleJoin
    <2> HIDE DEF q
    <2> QED
      BY <1>1, <1>2, <1>3, <2>2, <2>4, <2>5, TellOK
  <1> QED
    BY <1>4, <1>5

LEMMA JoinVersionOK ==
  ASSUME ApiInv, NEW w \in Worker, JoinVersion(w)
  PROVE  ApiInv'
  <1> DEFINE o == req[w].org
             more == ShowVersionByID(o, req[w].on)
  <1>1. o \in Org /\ req[w].on \in Version /\ reply[w].to = o
    BY DEF JoinVersion, ApiInv, ReqOK
  <1>2. req' = [req EXCEPT ![w] = Idle] /\ req'[w] = Idle /\ Idle \in ReqSet
    BY IdleType, TypeParts DEF JoinVersion, Quits, ApiInv
  <1>3. reply[w].rows \cup more \in SUBSET Row
        /\ \A x \in reply[w].rows \cup more : owner[x] = o
    <2>1. reply[w].rows \in SUBSET Row /\ \A x \in reply[w].rows : owner[x] = o
      BY <1>1, TypeParts DEF ApiInv, ReplyOK, ReplySet
    <2>2. more \in SUBSET Row /\ \A x \in more : owner[x] = o
      BY <1>1 DEF ShowVersionByID, Row
    <2> QED
      BY <2>1, <2>2
  <1>4. left' \in 0..MaxRequests
    BY DEF JoinVersion, ApiInv, TypeOK
  <1>5. Tell(w, o, reply[w].rows \cup more)
    BY DEF JoinVersion
  <1>6. ReqOK(w)'
    BY <1>2, IdleOK
  <1>7. PICK all \in SUBSET Row : all = reply[w].rows \cup more
    BY <1>3
  <1> HIDE DEF o, more
  <1> QED
    BY <1>1, <1>2, <1>3, <1>4, <1>5, <1>6, <1>7, TellOK

-----------------------------------------------------------------------------
(* Steps that add a row.                                                    *)

LEMMA RowAdded ==
  ASSUME ApiInv, NEW x \in Row, owner[x] = None, NEW o \in Org \cup {NoOrg},
         owner' = [owner EXCEPT ![x] = o], UNCHANGED disk
  PROVE  /\ owner' \in [Row -> Org \cup {None, NoOrg}] /\ owner'[x] = o
         /\ \A y \in Row : y # x => owner'[y] = owner[y]
         /\ Grows
  <1>1. owner' \in [Row -> Org \cup {None, NoOrg}] /\ owner'[x] = o
        /\ \A y \in Row : y # x => owner'[y] = owner[y]
    BY TypeParts DEF ApiInv
  <1> QED
    BY <1>1 DEF Grows

LEMMA NewIdOK ==
  ASSUME NEW T, SomeLeft(T)
  PROVE  NewId(T) \in T /\ owner[NewId(T)] = None
  BY DEF SomeLeft, NewId

\* Nobody else notices, apart from those who wait for the row of the show.
LEMMA OthersStay ==
  ASSUME ApiInv, Grows, NEW w \in Worker, NEW r \in ReqSet,
         req' = [req EXCEPT ![w] = r], UNCHANGED reply,
         \A s \in Show : lock[s] # None /\ lock[s] # w =>
             lock'[s] = lock[s] /\ NextNumber(s)' = NextNumber(s),
         r = Idle \/ (r = req[w] /\ r.at = "idle")
  PROVE  \A u \in Worker : ReqOK(u)' /\ ReplyOK(u)'
  <1>0. req \in [Worker -> ReqSet]
    BY TypeParts DEF ApiInv
  <1>1. ASSUME NEW u \in Worker, u # w
        PROVE  ReqOK(u)' /\ ReplyOK(u)'
    <2>1. req'[u] = req[u] /\ reply'[u] = reply[u]
      BY <1>0, <1>1
    <2>2. req[u].at \in {"number", "insert"} =>
             req[u].on \in Show /\ lock[req[u].on] = u
      BY DEF ApiInv, ReqOK
    <2>3. req[u].at \in {"number", "insert"} => lock'[req[u].on] = lock[req[u].on]
      BY <1>1, <2>2, ApiAssumption
    <2>4. req[u].at = "insert" =>
             \A s \in Show : s = req[u].on => NextNumber(s)' = NextNumber(s)
      BY <1>1, <2>2, ApiAssumption
    <2> QED
      BY <2>1, <2>3, <2>4, ReqStays
  <1>2. ReqOK(w)'
    BY <1>0, IdleType DEF ReqOK
  <1>3. ReplyOK(w)'
    BY TypeParts DEF ApiInv, ReplyOK, Grows, ReplySet
  <1> QED
    BY <1>1, <1>2, <1>3

\* Rooms keep what holds of them as long as no room is added or changed.
LEMMA RoomsStay ==
  ASSUME ApiInv, Grows, \A r \in Room : owner'[r] = owner[r],
         UNCHANGED <<place, code, active>>
  PROVE  (\A r \in Room : RoomOK(r)') /\ CodesDiffer'
  <1>1. ASSUME NEW r \in Room PROVE RoomOK(r)'
    <2>1. RoomOK(r) /\ owner'[r] = owner[r]
      BY DEF ApiInv
    <2>2. owner[r] # None =>
            /\ owner'[place[r]] = owner[r]
            /\ active[r] # None => owner'[active[r]] = owner[r]
      BY <2>1 DEF RoomOK, Grows, Row
    <2> QED
      BY <2>1, <2>2 DEF RoomOK
  <1> QED
    BY <1>1 DEF ApiInv, CodesDiffer

\* An event, a show or the record of a run.
LEMMA PlainRow ==
  ASSUME ApiInv, NEW w \in Worker, NEW x \in Event \cup Show \cup Record,
         owner[x] = None, NEW o \in Org \cup {NoOrg}, x \in Record \/ o \in Org,
         owner' = [owner EXCEPT ![x] = o], stamp' \in [Record -> Nat],
         UNCHANGED <<orgs, user, sessions, place, code, active, showOf, number, digest,
                     lock, reply, disk, driver>>,
         NEW r \in ReqSet, req' = [req EXCEPT ![w] = r],
         r = Idle \/ (r = req[w] /\ r.at = "idle"), left' \in 0..MaxRequests
  PROVE  ApiInv'
  <1>1. /\ owner' \in [Row -> Org \cup {None, NoOrg}] /\ owner'[x] = o
        /\ \A y \in Row : y # x => owner'[y] = owner[y]
        /\ Grows /\ x \in Row
    BY RowAdded DEF Row
  <1>2. TypeOK'
    BY <1>1 DEF ApiInv, TypeOK, ReqSet
  <1>3. /\ \A y \in Room : owner'[y] = owner[y]
        /\ \A v \in Version : owner'[v] = owner[v]
    BY <1>1, PgAssumption DEF Row
  <1>4. \A y \in Event \cup Show : owner'[y] # NoOrg
    BY <1>1, PgAssumption DEF ApiInv, ShowOK, Row
  <1>5. \A s \in Show : ShowOK(s)' /\ NextNumber(s)' = NextNumber(s)
    BY <1>3, <1>4, ShowStays
  <1>6. \A v \in Version : VersionOK(v)'
    BY <1>1, <1>3, VersionStays
  <1>7. (\A y \in Room : RoomOK(y)') /\ CodesDiffer'
    BY <1>1, <1>3, RoomsStay
  <1>8. \A u \in Worker : ReqOK(u)' /\ ReplyOK(u)'
    BY <1>1, <1>5, OthersStay
  <1>9. \A k \in Key : disk'[k] # "partial"
    BY DEF ApiInv
  <1> QED
    BY <1>2, <1>4, <1>5, <1>6, <1>7, <1>8, <1>9 DEF ApiInv

LEMMA CreateOK ==
  ASSUME ApiInv, NEW w \in Worker, NEW o \in Org,
         HandleCreateEvent(w, o) \/ HandleCreateShow(w, o)
  PROVE  ApiInv'
  <1>1. PICK x \in Event \cup Show :
           owner[x] = None /\ owner' = [owner EXCEPT ![x] = o]
    BY NewIdOK DEF HandleCreateEvent, HandleCreateShow, CreateEvent, CreateShow
  <1>2. /\ UNCHANGED <<orgs, user, sessions, place, code, active, showOf, number, digest,
                       stamp, lock, reply, disk, driver, req>>
        /\ Take(w)
    BY DEF HandleCreateEvent, HandleCreateShow, CreateEvent, CreateShow, Authed,
           roomCols, versionCols
  <1>3. req[w] \in ReqSet /\ req' = [req EXCEPT ![w] = req[w]] /\ req[w].at = "idle"
        /\ left' \in 0..MaxRequests /\ stamp' \in [Record -> Nat]
    BY <1>2, TypeParts, LeftType DEF ApiInv, TypeOK
  <1> QED
    BY <1>1, <1>2, <1>3, PlainRow

LEMMA StoreRunOK ==
  ASSUME ApiInv, NEW w \in Worker, StoreRun(w)
  PROVE  ApiInv'
  <1> DEFINE x == req[w].on
             o == req[w].org
  <1>1. x \in Record /\ o \in Org \cup {NoOrg}
    BY TypeParts DEF ApiInv, ReqOK, StoreRun, ReqSet
  <1>2. req' = [req EXCEPT ![w] = Idle] /\ req'[w] = Idle /\ Idle \in ReqSet
        /\ UNCHANGED <<reply, disk, driver, left>> /\ left' \in 0..MaxRequests
    BY IdleType, TypeParts DEF StoreRun, Quits, ApiInv
  <1>3. UNCHANGED <<orgs, user, sessions, place, code, active, showOf, number, digest, lock>>
    BY DEF StoreRun, CreateRun, roomCols, versionCols
  <1>4. CASE owner[x] = None
    <2>1. MaxRequests - left \in Nat
      BY TypeParts DEF ApiInv
    <2>2. owner' = [owner EXCEPT ![x] = o] /\ stamp' \in [Record -> Nat]
      BY <1>1, <1>4, <2>1 DEF StoreRun, CreateRun, ApiInv, TypeOK
    <2> HIDE DEF x, o
    <2> QED
      BY <1>1, <1>2, <1>3, <1>4, <2>2, PlainRow
  <1>5. CASE owner[x] # None
    <2>1. UNCHANGED <<owner, stamp>>
      BY <1>5 DEF StoreRun, CreateRun
    <2>2. UNCHANGED tables
      BY <1>3, <2>1 DEF tables, roomCols, versionCols
    <2> QED
      BY <1>2, <1>3, <2>2, IdleOK, WorkerMoves
  <1> QED
    BY <1>4, <1>5

LEMMA TryCodeOK ==
  ASSUME ApiInv, NEW w \in Worker, NEW c \in Code, TryCode(w, c)
  PROVE  ApiInv'
  <1>0. PICK q \in ReqSet : q = req[w]
    BY TypeParts DEF ApiInv
  <1>1. /\ q.org \in Org /\ q.on \in Event /\ owner[q.on] = q.org /\ q.at = "code"
        /\ UNCHANGED <<reply, disk, driver, left>> /\ left' \in 0..MaxRequests
    BY <1>0 DEF ApiInv, TypeOK, ReqOK, TryCode
  <1>2. CASE ~ CodeTaken(c)
    <2> DEFINE r == NewId(Room)
    <2>1. /\ r \in Room /\ owner[r] = None
          /\ CreateRoom(q.org, q.on, r, c) /\ Quits(w)
      BY <1>0, <1>2, NewIdOK DEF TryCode
    <2> HIDE DEF r
    <2>2. /\ owner' = [owner EXCEPT ![r] = q.org] /\ place' = [place EXCEPT ![r] = q.on]
          /\ code' = [code EXCEPT ![r] = c]
          /\ UNCHANGED <<orgs, user, sessions, active, showOf, number, digest, stamp, lock>>
          /\ req' = [req EXCEPT ![w] = Idle] /\ Idle \in ReqSet
      BY <2>1, IdleType DEF CreateRoom, Quits, versionCols
    <2>3. /\ owner' \in [Row -> Org \cup {None, NoOrg}] /\ owner'[r] = q.org
          /\ \A y \in Row : y # r => owner'[y] = owner[y]
          /\ Grows /\ r \in Row
      BY <1>1, <2>1, <2>2, RowAdded DEF Row
    <2>4. TypeOK'
      BY <1>1, <2>1, <2>2, <2>3 DEF ApiInv, TypeOK, ReqSet
    <2>5. /\ \A v \in Version : owner'[v] = owner[v]
          /\ \A y \in Event \cup Show : owner'[y] # NoOrg
      BY <2>1, <2>3, PgAssumption DEF ApiInv, ShowOK, Row
    <2>6. \A s \in Show : ShowOK(s)' /\ NextNumber(s)' = NextNumber(s)
      BY <2>2, <2>5, ShowStays
    <2>7. \A v \in Version : VersionOK(v)'
      BY <2>2, <2>3, <2>5, VersionStays
    <2>8. /\ place'[r] = q.on /\ code'[r] = c
          /\ \A y \in Room : y # r => place'[y] = place[y] /\ code'[y] = code[y]
      BY <2>1, <2>2 DEF ApiInv, TypeOK
    <2>9. ASSUME NEW y \in Room PROVE RoomOK(y)'
      <3>1. CASE y = r
        <4>1. owner'[q.on] = q.org
          BY <1>1, <2>1, <2>3, PgAssumption DEF Row
        <4>2. active'[r] = None
          BY <2>1, <2>2 DEF ApiInv, RoomOK
        <4> QED
          BY <1>1, <2>3, <2>8, <3>1, <4>1, <4>2, PgAssumption DEF RoomOK
      <3>2. CASE y # r
        <4>1. RoomOK(y) /\ owner'[y] = owner[y]
          BY <2>3, <3>2 DEF ApiInv, Row
        <4>2. owner[y] # None =>
                /\ owner'[place[y]] = owner[y]
                /\ active[y] # None => owner'[active[y]] = owner[y]
          BY <2>3, <4>1 DEF RoomOK, Grows, Row
        <4> QED
          BY <2>2, <2>8, <3>2, <4>1, <4>2 DEF RoomOK
      <3> QED
        BY <3>1, <3>2
    <2>10. CodesDiffer'
      BY <1>2, <2>8, PgAssumption DEF ApiInv, CodesDiffer, CodeTaken
    <2>11. \A u \in Worker : ReqOK(u)' /\ ReplyOK(u)'
      BY <1>1, <2>2, <2>3, <2>6, OthersStay
    <2> QED
      BY <1>1, <2>4, <2>5, <2>6, <2>7, <2>9, <2>10, <2>11 DEF ApiInv
  <1>3. CASE CodeTaken(c)
    <2>1. UNCHANGED <<tables, lock>>
          /\ IF q.n >= JoinCodeRetries THEN Quits(w)
             ELSE req' = [req EXCEPT ![w].n = @ + 1]
      BY <1>0, <1>3 DEF TryCode
    <2>2. CASE q.n >= JoinCodeRetries
      <3>1. req' = [req EXCEPT ![w] = Idle] /\ req'[w] = Idle /\ Idle \in ReqSet
        BY <2>1, <2>2, IdleType, TypeParts DEF Quits, ApiInv
      <3> QED
        BY <1>1, <2>1, <3>1, IdleOK, WorkerMoves
    <2>3. CASE ~(q.n >= JoinCodeRetries)
      <3>1. PICK m \in Nat : m = q.n + 1
        BY DEF ReqSet
      <3> DEFINE r == [q EXCEPT !.n = m]
      <3>2. r \in ReqSet
        BY <3>1 DEF ReqSet
      <3>3. req' = [req EXCEPT ![w] = r] /\ req'[w] = r
        <4>1. req' = [req EXCEPT ![w] = [req[w] EXCEPT !.n = req[w].n + 1]]
          BY <2>1, <2>3
        <4>2. req' = [req EXCEPT ![w] = r]
          BY <1>0, <3>1, <4>1
        <4> QED
          BY <3>2, <4>2, TypeParts DEF ApiInv
      <3>4. /\ req'[w].at = "code" /\ req'[w].org = q.org /\ req'[w].on = q.on
            /\ owner' = owner
        BY <1>1, <2>1, <3>3 DEF ReqSet, tables
      <3>5. ReqOK(w)'
        BY <1>1, <3>4 DEF ReqOK
      <3> HIDE DEF r
      <3> QED
        BY <1>1, <2>1, <3>2, <3>3, <3>5, WorkerMoves
    <2> QED
      BY <2>2, <2>3
  <1> QED
    BY <1>2, <1>3

LEMMA HandleActivateRoomOK ==
  ASSUME ApiInv, NEW w \in Worker, NEW o \in Org, NEW r \in Room, NEW v \in Version,
         HandleActivateRoom(w, o, r, v)
  PROVE  ApiInv'
  <1>1. /\ owner[r] = o /\ owner[v] = o /\ active' = [active EXCEPT ![r] = v] /\ Take(w)
        /\ UNCHANGED <<orgs, user, sessions, owner, place, code, showOf, number, digest,
                       stamp, lock, req, reply, disk, driver>>
    BY DEF HandleActivateRoom, SetRoomActiveVersion, ShowVersionByID, Authed, versionCols
  <1>2. Grows /\ \A x \in Show : owner'[x] # NoOrg
    BY <1>1 DEF Grows, ApiInv, ShowOK
  <1>3. left' \in 0..MaxRequests /\ req[w].at = "idle"
    BY <1>1, LeftType
  <1>4. TypeOK'
    BY <1>1, <1>3 DEF ApiInv, TypeOK, Row
  <1>5. \A x \in Room : RoomOK(x)'
    BY <1>1, PgAssumption DEF ApiInv, TypeOK, RoomOK
  <1>6. \A s \in Show : ShowOK(s)' /\ NextNumber(s)' = NextNumber(s)
    BY <1>1, <1>2, ShowStays
  <1>7. \A x \in Version : VersionOK(x)'
    BY <1>1, <1>2, VersionStays
  <1>8. \A u \in Worker : ReqOK(u)' /\ ReplyOK(u)'
    BY <1>1, <1>2, <1>6, ReqStays
  <1> QED
    BY <1>1, <1>4, <1>5, <1>6, <1>7, <1>8 DEF ApiInv, CodesDiffer

\* The publication commits: the row of the show is free again, and whoever takes
\* it next counts one more version.
LEMMA PublishInsertsOK ==
  ASSUME ApiInv, NEW w \in Worker, PublishInserts(w)
  PROVE  ApiInv'
  <1>0. PICK q \in ReqSet : q = req[w]
    BY TypeParts DEF ApiInv
  <1>1. /\ q.on \in Show /\ q.org \in Org /\ owner[q.on] = q.org
        /\ q.key \in Digest /\ Whole(q.key) /\ lock[q.on] = w
        /\ q.n = Cardinality(VersionsOf(q.on)) + 1 /\ q.n \in Nat
        /\ Cardinality(VersionsOf(q.on)) \in Nat
    BY <1>0, NextIs DEF ApiInv, ReqOK, PublishInserts
  <1>2. PICK v \in Version : v = NewId(Version) /\ owner[v] = None
    BY NewIdOK DEF PublishInserts
  <1>3. CommitVersion(w, q.org, q.on, v, q.key, q.n) /\ Quits(w)
        /\ UNCHANGED <<reply, disk, driver, left>>
    BY <1>0, <1>2 DEF PublishInserts
  <1>4. /\ owner' = [owner EXCEPT ![v] = q.org] /\ showOf' = [showOf EXCEPT ![v] = q.on]
        /\ number' = [number EXCEPT ![v] = q.n] /\ digest' = [digest EXCEPT ![v] = q.key]
        /\ lock' = [lock EXCEPT ![q.on] = None]
        /\ UNCHANGED <<orgs, user, sessions, place, code, active, stamp>>
        /\ req' = [req EXCEPT ![w] = Idle] /\ Idle \in ReqSet
    <2>1. lock' = [lock EXCEPT ![q.on] = IF lock[q.on] = w THEN None ELSE lock[q.on]]
      BY <1>3 DEF CommitVersion
    <2> QED
      BY <1>1, <1>3, <2>1, IdleType DEF CommitVersion, Quits, roomCols
  <1>5. /\ owner' \in [Row -> Org \cup {None, NoOrg}] /\ owner'[v] = q.org
        /\ \A y \in Row : y # v => owner'[y] = owner[y]
        /\ Grows /\ v \in Row
    BY <1>1, <1>2, <1>3, <1>4, RowAdded DEF Row
  <1>6. TypeOK'
    BY <1>1, <1>2, <1>3, <1>4, <1>5 DEF ApiInv, TypeOK, ReqSet
  <1>7. /\ showOf'[v] = q.on /\ number'[v] = q.n /\ digest'[v] = q.key
        /\ \A u \in Version : u # v => /\ showOf'[u] = showOf[u]
                                       /\ number'[u] = number[u] /\ digest'[u] = digest[u]
    BY <1>2, <1>4 DEF ApiInv, TypeOK
  <1>8. \A x \in Version : VersionOK(x)'
    <2> TAKE x \in Version
    <2>1. CASE x = v
      <3>1. Whole(q.key)'
        BY <1>1, <1>5, WholeStays
      <3>2. owner'[q.on] = q.org
        BY <1>1, <1>2, <1>5, PgAssumption DEF Row
      <3>3. Whole(digest[v])'
        BY <1>7, <3>1
      <3> QED
        BY <1>1, <1>5, <1>7, <2>1, <3>2, <3>3, PgAssumption DEF VersionOK
    <2>2. CASE x # v
      BY <2>2, <1>5, <1>7, VersionStays DEF Row
    <2> QED
      BY <2>1, <2>2
  <1>9. ASSUME NEW s \in Show, s # q.on
        PROVE  VersionsOf(s)' = VersionsOf(s) /\ ShowOK(s)' /\ NextNumber(s)' = NextNumber(s)
    <2>1. VersionsOf(s)' = VersionsOf(s)
      BY <1>2, <1>5, <1>7, <1>9 DEF VersionsOf, Row
    <2>2. \A x \in VersionsOf(s) : number'[x] = number[x]
      BY <1>2, <1>7 DEF VersionsOf
    <2>3. owner'[s] = owner[s]
      BY <1>2, <1>5, PgAssumption DEF Row
    <2>4. {number'[x] : x \in VersionsOf(s)} = {number[x] : x \in VersionsOf(s)}
      BY <2>2
    <2> QED
      BY <2>1, <2>3, <2>4 DEF ApiInv, ShowOK, NextNumber
  <1>10. ShowOK(q.on)'
    <2> DEFINE W == VersionsOf(q.on)
               k == Cardinality(W)
    <2>1. VersionsOf(q.on)' = W \cup {v} /\ v \notin W
      BY <1>1, <1>2, <1>5, <1>7, PgAssumption DEF VersionsOf, Row
    <2>2. IsFiniteSet(W) /\ {number[x] : x \in W} = 1..k
      BY <1>1 DEF ApiInv, ShowOK
    <2>3. IsFiniteSet(W \cup {v}) /\ Cardinality(W \cup {v}) = k + 1
      BY <2>1, <2>2, FS_AddElement
    <2>4. \A x \in W : number'[x] = number[x]
      BY <2>1, <1>7 DEF VersionsOf
    <2>5. {number'[x] : x \in W \cup {v}} = {number[x] : x \in W} \cup {q.n}
      BY <2>4, <1>7
    <2>6. {number'[x] : x \in W \cup {v}} = 1..(k + 1)
      <3>1. (1..k) \cup {k + 1} = 1..(k + 1)
        BY <1>1
      <3> QED
        BY <1>1, <2>2, <2>5, <3>1
    <2>7. owner'[q.on] # NoOrg
      BY <1>1, <1>2, <1>5, PgAssumption DEF Row
    <2> QED
      BY <2>1, <2>3, <2>6, <2>7 DEF ShowOK
  <1>11. /\ \A r \in Room : owner'[r] = owner[r]
         /\ \A e \in Event : owner'[e] # NoOrg
    BY <1>2, <1>5, PgAssumption DEF ApiInv, Row
  <1>12. (\A r \in Room : RoomOK(r)') /\ CodesDiffer'
    BY <1>4, <1>5, <1>11, RoomsStay
  <1>13. \A u \in Worker : ReqOK(u)' /\ ReplyOK(u)'
    <2>1. \A s \in Show : lock[s] # None /\ lock[s] # w =>
             lock'[s] = lock[s] /\ NextNumber(s)' = NextNumber(s)
      BY <1>1, <1>4, <1>9, TypeParts DEF ApiInv
    <2> QED
      BY <1>3, <1>4, <1>5, <2>1, OthersStay
  <1>14. \A s \in Show : ShowOK(s)'
    BY <1>9, <1>10
  <1>15. \A k \in Key : disk'[k] # "partial"
    BY <1>3 DEF ApiInv
  <1> QED
    BY <1>6, <1>8, <1>11, <1>12, <1>13, <1>14, <1>15 DEF ApiInv

LEMMA CrashOK ==
  ASSUME ApiInv, Crash
  PROVE  ApiInv'
  <1>1. /\ UNCHANGED <<orgs, user, sessions, owner, place, code, active, showOf, number,
                       digest, stamp, disk, driver, left>>
        /\ \A w \in Worker : req'[w] = Idle /\ reply'[w] = NoReply
        /\ req' \in [Worker -> ReqSet] /\ reply' \in [Worker -> ReplySet]
        /\ lock' \in [Show -> Worker \cup {None}]
    BY IdleType, TypeParts DEF Crash, Released, tables, roomCols, versionCols, ApiInv
  <1>2. Grows
    BY <1>1 DEF Grows
  <1>3. TypeOK'
    BY <1>1 DEF ApiInv, TypeOK, ReqSet, ReplySet
  <1>4. \A w \in Worker : ReqOK(w)' /\ ReplyOK(w)'
    BY <1>1, IdleType, IdleOK DEF ReplyOK
  <1>5. \A s \in Show : ShowOK(s)'
    BY <1>1, ShowStays DEF ApiInv, ShowOK
  <1>6. \A v \in Version : VersionOK(v)'
    BY <1>1, <1>2, VersionStays
  <1> QED
    BY <1>1, <1>3, <1>4, <1>5, <1>6 DEF ApiInv, RoomOK, CodesDiffer

-----------------------------------------------------------------------------
LEMMA ApiInductive == ApiInv /\ [Next]_apiVars => ApiInv'
  <1> SUFFICES ASSUME ApiInv, [Next]_apiVars PROVE ApiInv'
    OBVIOUS
  <1>1. ASSUME NEW w \in Worker, Accounts(w) PROVE ApiInv'
    BY <1>1, RegisterOK, LoginOK, NewSessionOK DEF Accounts
  <1>2. ASSUME NEW w \in Worker, Rooms(w) PROVE ApiInv'
    BY <1>2, CreateOK, HandleCreateRoomOK, HandleActivateRoomOK, TryCodeOK,
       HandleInternalCreateRunOK, StoreRunOK DEF Rooms
  <1>3. ASSUME NEW w \in Worker, Publishing(w) PROVE ApiInv'
    BY <1>3, CreateOK, HandleUploadAssetOK, HandlePublishOK, FsPutOK, PutsOK,
       PublishLocksOK, PublishNumbersOK, PublishInsertsOK DEF Publishing
  <1>4. ASSUME NEW w \in Worker, Reading(w) PROVE ApiInv'
    BY <1>4, ReadingOK, HandleJoinOK, JoinVersionOK DEF Reading
  <1>5. ASSUME NEW w \in Worker, Fails(w) PROVE ApiInv'
    BY <1>5, FailsOK
  <1>6. CASE UNCHANGED apiVars
    <2>1. UNCHANGED <<orgs, user, sessions, owner, place, code, active, showOf, number,
                      digest, stamp, lock, req, reply, disk, driver, left>>
      BY <1>6 DEF apiVars, tables, roomCols, versionCols
    <2>2. Grows
      BY <2>1 DEF Grows
    <2>3. TypeOK'
      BY <2>1 DEF ApiInv, TypeOK
    <2>4. \A s \in Show : ShowOK(s)' /\ NextNumber(s)' = NextNumber(s)
      BY <2>1, ShowStays DEF ApiInv, ShowOK
    <2>5. \A w \in Worker : ReqOK(w)' /\ ReplyOK(w)'
      BY <2>1, <2>2, <2>4, ReqStays
    <2>6. \A v \in Version : VersionOK(v)'
      BY <2>1, <2>2, VersionStays
    <2> QED
      BY <2>1, <2>3, <2>4, <2>5, <2>6 DEF ApiInv, RoomOK, CodesDiffer
  <1> QED
    BY <1>1, <1>2, <1>3, <1>4, <1>5, <1>6, CrashOK DEF Next

LEMMA ApiInitially == Init => ApiInv
  <1> SUFFICES ASSUME Init PROVE ApiInv
    OBVIOUS
  <1>1. TypeOK
    BY ApiAssumption, IdleType DEF Init, Migrated, TypeOK, ReqSet, ReplySet
  <1>2. \A x \in Row : owner[x] = None
    BY DEF Init, Migrated
  <1>3. \A s \in Show : ShowOK(s)
    <2> TAKE s \in Show
    <2>1. VersionsOf(s) = {}
      BY <1>2 DEF VersionsOf, Row
    <2> QED
      BY <1>2, <2>1, FS_EmptySet, PgAssumption DEF ShowOK, Row
  <1>4. \A w \in Worker : ReqOK(w) /\ ReplyOK(w)
    BY IdleType DEF Init, ReqOK, ReplyOK
  <1>5. \A r \in Room : RoomOK(r)
    BY <1>2, PgAssumption DEF Init, Migrated, RoomOK, Row
  <1>6. \A v \in Version : VersionOK(v)
    BY <1>2, PgAssumption DEF VersionOK, Row
  <1>7. CodesDiffer /\ \A k \in Key : disk[k] # "partial"
    BY DEF Init, Migrated, CodesDiffer
  <1>8. \A e \in Event : owner[e] # NoOrg
    BY <1>2, PgAssumption DEF Row
  <1> QED
    BY <1>1, <1>3, <1>4, <1>5, <1>6, <1>7, <1>8 DEF ApiInv

LEMMA ApiSafe ==
    ApiInv => TypeOK /\ VersionsGapless /\ NumbersReserved /\ PublishedWhole /\ TenantsApart
  <1> SUFFICES ASSUME ApiInv
               PROVE  TypeOK /\ VersionsGapless /\ NumbersReserved /\ PublishedWhole
                      /\ TenantsApart
    OBVIOUS
  <1>1. TypeOK /\ VersionsGapless
    BY DEF ApiInv, ShowOK, VersionsGapless
  <1>2. ASSUME NEW w \in Worker, req[w].at = "insert"
        PROVE  ~ NumberTaken(req[w].on, req[w].n)
    <2>1. req[w].on \in Show /\ req[w].n = NextNumber(req[w].on)
      BY <1>2 DEF ApiInv, ReqOK
    <2> DEFINE k == Cardinality(VersionsOf(req[w].on))
    <2>2. req[w].n = k + 1 /\ k \in Nat
      BY <2>1, NextIs
    <2>3. \A v \in VersionsOf(req[w].on) : number[v] \in 1..k
      BY <2>1 DEF ApiInv, ShowOK
    <2>4. \A v \in VersionsOf(req[w].on) : number[v] # k + 1
      <3> HIDE DEF k
      <3> QED
        BY <2>2, <2>3
    <2> QED
      BY <2>2, <2>4 DEF NumberTaken
  <1>3. PublishedWhole
    BY DEF ApiInv, VersionOK, Whole, PublishedWhole
  <1>4. ASSUME NEW r \in Room, owner[r] # None
        PROVE  /\ owner[place[r]] = owner[r]
               /\ active[r] # None => owner[active[r]] = owner[r]
               /\ \A q \in Room : code[q] = code[r] => q = r
    BY <1>4, PgAssumption DEF ApiInv, RoomOK, CodesDiffer
  <1>5. TenantsApart
    BY <1>4 DEF ApiInv, ReplyOK, VersionOK, TenantsApart
  <1> QED
    BY <1>1, <1>2, <1>3, <1>5 DEF NumbersReserved

LEMMA ApiAlways == Spec => []ApiInv
  BY ApiInitially, ApiInductive, PTL DEF Spec

\* Type correctness of the tables, the blobs and the requests.
THEOREM ApiTypeCorrect == Spec => []TypeOK
  BY ApiAlways, ApiSafe, PTL

\* However many publications of a show are under way, and wherever they fail or the
\* process crashes, its versions are numbered 1, 2, ... as many as there are.
THEOREM NumbersWithoutGap == Spec => []VersionsGapless
  BY ApiAlways, ApiSafe, PTL

\* The number a publication has read is still free when it inserts: the lock on the
\* show's row does what the unique constraint would have to refuse.
THEOREM NumbersKept == Spec => []NumbersReserved
  BY ApiAlways, ApiSafe, PTL

\* A version in the database has its package and all of its audio files whole, in
\* either blob store and across failures and crashes.
THEOREM VersionsWhole == Spec => []PublishedWhole
  BY ApiAlways, ApiSafe, PTL

\* No answer mixes organisations or shows another's rows, no room leads to another's
\* version, and no two rooms share a code.
THEOREM TenantsSeparate == Spec => []TenantsApart
  BY ApiAlways, ApiSafe, PTL
-----------------------------------------------------------------------------
(* The store implements MemStore: each step is one of its critical sections *)
(* or leaves what it keeps, the number after a show's last version included. *)

NextVersions == [s \in Show |-> IF VersionsOf(s) = {} THEN 0 ELSE NextNumber(s)]
Answers == [w \in Worker |-> reply[w].rows]

MemStep == [Mem!Next]_(Mem!memVars)

LEMMA NextVersionsStay ==
  ASSUME \A v \in Version : owner'[v] = owner[v], showOf' = showOf, number' = number
  PROVE  NextVersions' = NextVersions
  <1>1. \A s \in Show : VersionsOf(s)' = VersionsOf(s)
    BY DEF VersionsOf
  <1>2. \A s \in Show : NextNumber(s)' = NextNumber(s)
    BY <1>1 DEF NextNumber
  <1> QED
    BY <1>1, <1>2 DEF NextVersions

LEMMA MemStutters ==
  ASSUME UNCHANGED <<tables, reply>>
  PROVE  MemStep
  <1>1. NextVersions' = NextVersions /\ Answers' = Answers
    BY NextVersionsStay DEF tables, versionCols, Answers
  <1> QED
    BY <1>1 DEF MemStep, Mem!memVars, Mem!rows, NextVersions, Answers, tables, roomCols, versionCols

LEMMA QuietSteps ==
  ASSUME NEW w \in Worker,
         \/ \E m \in Email : Login(w, m)
         \/ \E o \in Org : \/ \E e \in Event : HandleCreateRoom(w, o, e)
                           \/ \E a \in Asset : HandleUploadAsset(w, o, a)
                           \/ \E s \in Show, d \in Digest : HandlePublish(w, o, s, d)
         \/ \E x \in Record, r \in Room \cup {None} : HandleInternalCreateRun(w, x, r)
         \/ FsPut(w) \/ FsRename(w) \/ S3Put(w)
         \/ PublishLocks(w) \/ PublishNumbers(w) \/ Fails(w)
  PROVE  MemStep
  <1>1. UNCHANGED <<tables, reply>>
    BY DEF Login, HandleCreateRoom, HandleUploadAsset, HandlePublish,
           HandleInternalCreateRun, FsPut, FsRename, S3Put, PublishLocks, LockShow,
           PublishNumbers, Fails
  <1> QED
    BY <1>1, MemStutters

\* Accounts and rows that are no version.
LEMMA AccountSteps ==
  ASSUME ApiInv, NEW w \in Worker,
         \/ \E o \in Org, m \in Email : Register(w, o, m)
         \/ NewSession(w)
  PROVE  MemStep
  <1>1. UNCHANGED <<owner, place, code, active, showOf, number, digest, stamp, reply>>
    BY DEF Register, CreateOrgWithUser, NewSession, CreateSession, roomCols, versionCols
  <1>2. NextVersions' = NextVersions /\ Answers' = Answers
    BY <1>1, NextVersionsStay DEF Answers
  <1>3. ASSUME NEW o \in Org, NEW m \in Email, Register(w, o, m), user[m] = None
        PROVE  Mem!CreateOrgWithUser(o, m)
    BY <1>1, <1>2, <1>3
    DEF Register, CreateOrgWithUser, Mem!CreateOrgWithUser, Mem!rows, NextVersions, Answers
  <1>4. ASSUME NEW o \in Org, NEW m \in Email, Register(w, o, m), user[m] # None
        PROVE  UNCHANGED <<tables, reply>>
    BY <1>1, <1>4 DEF Register, CreateOrgWithUser, tables, roomCols, versionCols
  <1>5. ASSUME NewSession(w)
        PROVE  req[w].org \in Org /\ Mem!CreateSession(req[w].org)
    BY <1>1, <1>2, <1>5
    DEF NewSession, CreateSession, ApiInv, ReqOK, Mem!CreateSession, Mem!rows,
        NextVersions, Answers
  <1> QED
    BY <1>3, <1>4, <1>5, MemStutters DEF MemStep, Mem!Next

LEMMA CreateSteps ==
  ASSUME ApiInv, NEW w \in Worker, NEW o \in Org,
         HandleCreateEvent(w, o) \/ HandleCreateShow(w, o)
  PROVE  MemStep
  <1>1. UNCHANGED <<orgs, user, sessions, place, code, active, showOf, number, digest,
                    stamp, reply>>
    BY DEF HandleCreateEvent, CreateEvent, HandleCreateShow, CreateShow, roomCols,
           versionCols
  <1>2. ASSUME NEW x \in Event \cup Show, owner' = [owner EXCEPT ![x] = o]
        PROVE  NextVersions' = NextVersions /\ Answers' = Answers
    <2>1. \A v \in Version : owner'[v] = owner[v]
      BY <1>2, PgAssumption, TypeParts DEF ApiInv, Row
    <2> QED
      BY <1>1, <2>1, NextVersionsStay DEF Answers
  <1>3. ASSUME HandleCreateEvent(w, o)
        PROVE  \E e \in Event : Mem!CreateEvent(o, e)
    <2>1. PICK e \in Event : owner' = [owner EXCEPT ![e] = o]
      BY <1>3, NewIdOK DEF HandleCreateEvent, CreateEvent
    <2> QED
      BY <1>1, <1>2, <2>1 DEF Mem!CreateEvent, NextVersions, Answers
  <1>4. ASSUME HandleCreateShow(w, o)
        PROVE  \E s \in Show : Mem!CreateShow(o, s)
    <2>1. PICK s \in Show : owner' = [owner EXCEPT ![s] = o]
      BY <1>4, NewIdOK DEF HandleCreateShow, CreateShow
    <2> QED
      BY <1>1, <1>2, <2>1 DEF Mem!CreateShow, NextVersions, Answers
  <1> QED
    BY <1>3, <1>4 DEF MemStep, Mem!Next

LEMMA RoomSteps ==
  ASSUME ApiInv, NEW w \in Worker,
         \/ \E c \in Code : TryCode(w, c)
         \/ \E o \in Org, r \in Room, v \in Version : HandleActivateRoom(w, o, r, v)
  PROVE  MemStep
  <1>1. ASSUME NEW c \in Code, TryCode(w, c), ~ CodeTaken(c)
        PROVE  \E o \in Org, e \in Event, r \in Room : Mem!CreateRoom(o, e, r, c)
    <2>1. PICK r \in Room : /\ owner[r] = None
                            /\ CreateRoom(req[w].org, req[w].on, r, c)
                            /\ UNCHANGED reply
      BY <1>1, NewIdOK DEF TryCode
    <2>2. req[w].org \in Org /\ req[w].on \in Event
      BY <1>1 DEF TryCode, ApiInv, ReqOK
    <2>3. \A v \in Version : owner'[v] = owner[v]
      BY <2>1, PgAssumption, TypeParts DEF CreateRoom, ApiInv, Row
    <2>4. NextVersions' = NextVersions /\ Answers' = Answers
      BY <2>1, <2>3, NextVersionsStay DEF CreateRoom, versionCols, Answers
    <2> QED
      BY <1>1, <2>1, <2>2, <2>4
      DEF CreateRoom, CodeTaken, versionCols, Mem!CreateRoom, NextVersions, Answers
  <1>2. ASSUME NEW c \in Code, TryCode(w, c), CodeTaken(c)
        PROVE  MemStep
    BY <1>2, MemStutters DEF TryCode
  <1>3. ASSUME NEW o \in Org, NEW r \in Room, NEW v \in Version,
               HandleActivateRoom(w, o, r, v)
        PROVE  Mem!SetRoomActiveVersion(o, r, v)
    <2>1. NextVersions' = NextVersions /\ Answers' = Answers
      BY <1>3, NextVersionsStay
      DEF HandleActivateRoom, SetRoomActiveVersion, versionCols, Answers
    <2> QED
      BY <1>3, <2>1
      DEF HandleActivateRoom, SetRoomActiveVersion, versionCols, Mem!SetRoomActiveVersion,
          NextVersions, Answers
  <1> QED
    BY <1>1, <1>2, <1>3 DEF MemStep, Mem!Next

LEMMA RecordSteps ==
  ASSUME ApiInv, NEW w \in Worker, StoreRun(w)
  PROVE  MemStep
  <1> DEFINE x == req[w].on
             o == req[w].org
             t == MaxRequests - left
  <1>1. x \in Record /\ o \in Org \cup {NoOrg} /\ t \in Moment
    <2>1. x \in Record /\ o \in Org \cup {NoOrg}
      BY TypeParts DEF StoreRun, ApiInv, ReqOK, ReqSet
    <2>2. t \in 0..MaxRequests
      BY TypeParts DEF ApiInv
    <2> QED
      BY <2>1, <2>2, ApiAssumption
  <1>2. CreateRun(o, x, t) /\ UNCHANGED reply
    BY DEF StoreRun
  <1> HIDE DEF x, o, t
  <1>3. CASE owner[x] = None
    <2>1. \A v \in Version : owner'[v] = owner[v]
      BY <1>1, <1>2, PgAssumption, TypeParts DEF CreateRun, ApiInv, Row
    <2>2. NextVersions' = NextVersions /\ Answers' = Answers
      BY <1>2, <2>1, NextVersionsStay DEF CreateRun, versionCols, Answers
    <2>3. Mem!CreateRun(o, x, t)
      BY <1>2, <1>3, <2>2
      DEF CreateRun, roomCols, versionCols, Mem!CreateRun, NextVersions, Answers
    <2> QED
      BY <1>1, <2>3 DEF MemStep, Mem!Next
  <1>4. CASE owner[x] # None
    BY <1>2, <1>4, MemStutters DEF CreateRun, tables
  <1> QED
    BY <1>3, <1>4

LEMMA PublishSteps ==
  ASSUME ApiInv, NEW w \in Worker, PublishInserts(w)
  PROVE  MemStep
  <1>1. PICK q \in ReqSet : q = req[w]
    BY TypeParts DEF ApiInv
  <1>2. /\ q.on \in Show /\ q.org \in Org /\ owner[q.on] = q.org
        /\ q.key \in Digest /\ q.n = NextNumber(q.on)
    BY <1>1 DEF PublishInserts, ApiInv, ReqOK
  <1>3. PICK v \in Version : /\ owner[v] = None /\ UNCHANGED reply
                             /\ CommitVersion(w, q.org, q.on, v, q.key, q.n)
    BY <1>1, NewIdOK DEF PublishInserts
  <1>4. PICK k \in Nat : /\ k = Cardinality(VersionsOf(q.on))
                         /\ IsFiniteSet(VersionsOf(q.on)) /\ q.n = k + 1
                         /\ {number[u] : u \in VersionsOf(q.on)} = 1..k
    BY <1>2, NextIs DEF ApiInv, ShowOK
  <1>5. VersionsOf(q.on) = {} <=> k = 0
    BY <1>4, FS_EmptySet
  <1>6. /\ owner' = [owner EXCEPT ![v] = q.org]
        /\ showOf' = [showOf EXCEPT ![v] = q.on]
        /\ number' = [number EXCEPT ![v] = q.n]
        /\ digest' = [digest EXCEPT ![v] = q.key]
        /\ UNCHANGED <<orgs, user, sessions, place, code, active, stamp, reply>>
        /\ owner'[v] = q.org /\ showOf'[v] = q.on /\ number'[v] = q.n
        /\ \A u \in Version : u # v => /\ owner'[u] = owner[u]
                                       /\ showOf'[u] = showOf[u]
                                       /\ number'[u] = number[u]
    BY <1>3, TypeParts DEF CommitVersion, roomCols, ApiInv, TypeOK, Row
  <1>7. NextVersions[q.on] = (IF k = 0 THEN 0 ELSE q.n)
    BY <1>2, <1>5 DEF NextVersions
  <1>8. ASSUME NEW s \in Show, s # q.on
        PROVE  NextVersions'[s] = NextVersions[s]
    <2>1. VersionsOf(s)' = VersionsOf(s)
      BY <1>2, <1>3, <1>6, <1>8 DEF VersionsOf
    <2>2. {number'[u] : u \in VersionsOf(s)} = {number[u] : u \in VersionsOf(s)}
      BY <1>3, <1>6 DEF VersionsOf
    <2>3. NextNumber(s)' = NextNumber(s)
      BY <2>1, <2>2 DEF NextNumber
    <2> QED
      BY <2>1, <2>3 DEF NextVersions
  <1>9. NextVersions'[q.on] = q.n + 1
    <2>1. ApiInv'
      BY PublishInsertsOK
    <2>2. VersionsOf(q.on)' = VersionsOf(q.on) \cup {v} /\ v \notin VersionsOf(q.on)
      BY <1>2, <1>3, <1>6, PgAssumption DEF VersionsOf
    <2>3. Cardinality(VersionsOf(q.on)') = k + 1
      BY <1>4, <2>2, FS_AddElement
    <2>4. {number'[u] : u \in VersionsOf(q.on)'} = 1..(k + 1)
      BY <1>2, <2>1, <2>3 DEF ApiInv, ShowOK
    <2>5. NextNumber(q.on)' = q.n + 1
      BY <1>4, <2>4, GreatestOf DEF NextNumber
    <2> QED
      BY <1>2, <2>2, <2>5 DEF NextVersions
  <1>10. NextVersions' = [NextVersions EXCEPT ![q.on] = q.n + 1] /\ Answers' = Answers
    <2>1. \A s \in Show : NextVersions'[s] = [NextVersions EXCEPT ![q.on] = q.n + 1][s]
      BY <1>2, <1>8, <1>9 DEF NextVersions
    <2> QED
      BY <1>6, <2>1 DEF NextVersions, Answers
  <1>11. q.n = (IF NextVersions[q.on] = 0 THEN 1 ELSE NextVersions[q.on])
    BY <1>4, <1>7
  <1>12. Mem!CreateShowVersion(q.org, q.on, v, q.key)
    <2>1. /\ owner[q.on] = q.org
          /\ NextVersions' = [NextVersions EXCEPT ![q.on] =
               (IF NextVersions[q.on] = 0 THEN 1 ELSE NextVersions[q.on]) + 1]
          /\ number' = [number EXCEPT ![v] =
               IF NextVersions[q.on] = 0 THEN 1 ELSE NextVersions[q.on]]
      BY <1>2, <1>6, <1>10, <1>11
    <2> QED
      BY <1>6, <1>10, <2>1 DEF Mem!CreateShowVersion, NextVersions, Answers
  <1> QED
    BY <1>2, <1>12 DEF MemStep, Mem!Next

\* A worker is given rows, or more rows, that one statement of MemStore returns.
LEMMA Told ==
  ASSUME ApiInv, NEW w \in Worker, NEW o, NEW a \in Mem!Reads, NEW rows,
         Tell(w, o, rows), rows = a \/ rows = reply[w].rows \cup a
  PROVE  MemStep
  <1>1. UNCHANGED <<orgs, user, sessions, owner, place, code, active, showOf, number,
                    digest, stamp>>
    BY DEF Tell, tables, roomCols, versionCols
  <1>2. NextVersions' = NextVersions
    BY <1>1, NextVersionsStay
  <1>3. Answers' = [Answers EXCEPT ![w] = rows] /\ Answers[w] = reply[w].rows
    BY TypeParts DEF ApiInv, Tell, Answers
  <1>4. \/ Answers' = [Answers EXCEPT ![w] = a]
        \/ Answers' = [Answers EXCEPT ![w] = Answers[w] \cup a]
    BY <1>3
  <1>5. Mem!Answer(w)
    BY <1>1, <1>2, <1>4 DEF Mem!Answer, Mem!rows, NextVersions, Answers
  <1> QED
    BY <1>5 DEF MemStep, Mem!Next

LEMMA SameCardinality == \A S : Mem!Cardinality(S) = Cardinality(S)
  BY DEF Cardinality, Mem!Cardinality

LEMMA SameReads ==
  ASSUME NEW o \in Org
  PROVE  /\ ListEvents(o) \in Mem!Reads /\ ListShows(o) \in Mem!Reads
         /\ \A e \in Event : EventByID(o, e) \in Mem!Reads /\ ListRooms(o, e) \in Mem!Reads
         /\ \A s \in Show : ListShowVersions(o, s) \in Mem!Reads
         /\ \A v \in Version : ShowVersionByID(o, v) \in Mem!Reads
         /\ \A n \in 1..Cardinality(Record) : ListRuns(o, n) \in Mem!Reads
  <1>1. ListEvents(o) = Mem!ListEvents(o) /\ ListShows(o) = Mem!ListShows(o)
    BY DEF ListEvents, ListShows, Mem!ListEvents, Mem!ListShows
  <1>2. \A e \in Event : EventByID(o, e) = Mem!EventByID(o, e)
                         /\ ListRooms(o, e) = Mem!ListRooms(o, e)
    BY DEF EventByID, ListRooms, Mem!EventByID, Mem!ListRooms
  <1>3. \A s \in Show : ListShowVersions(o, s) = Mem!ListShowVersions(o, s)
    BY DEF ListShowVersions, Mem!ListShowVersions
  <1>4. \A v \in Version : ShowVersionByID(o, v) = Mem!ShowVersionByID(o, v)
    BY DEF ShowVersionByID, Mem!ShowVersionByID
  <1>5. ASSUME NEW n \in 1..Cardinality(Record)
        PROVE  ListRuns(o, n) = Mem!ListRuns(o, n)
    <2> DEFINE Newer(x) == {y \in Record :
                              /\ owner[y] = o
                              /\ (\/ stamp[y] > stamp[x]
                                  \/ stamp[y] = stamp[x] /\ y > x)}
               NewerOfMine(x) == {y \in {z \in Record : owner[z] = o} :
                                    stamp[y] > stamp[x] \/ (stamp[y] = stamp[x] /\ y > x)}
    <2>1. \A x \in Record : Newer(x) = NewerOfMine(x)
      OBVIOUS
    <2>2. \A x : x \in ListRuns(o, n) <=>
                   x \in Record /\ owner[x] = o /\ Cardinality(Newer(x)) < n
      BY Zenon DEF ListRuns
    <2>3. \A x : x \in Mem!ListRuns(o, n) <=>
                   x \in Record /\ owner[x] = o /\ Cardinality(NewerOfMine(x)) < n
      BY SameCardinality, Zenon DEF Mem!ListRuns
    <2> HIDE DEF Newer, NewerOfMine
    <2>4. \A x : x \in ListRuns(o, n) <=> x \in Mem!ListRuns(o, n)
      BY <2>1, <2>2, <2>3
    <2> QED
      BY <2>4
  <1> DEFINE Of(p) == {Mem!ListEvents(p), Mem!ListShows(p)}
                      \cup {Mem!EventByID(p, e) : e \in Event}
                      \cup {Mem!ListRooms(p, e) : e \in Event}
                      \cup {Mem!ListShowVersions(p, s) : s \in Show}
                      \cup {Mem!ShowVersionByID(p, v) : v \in Version}
                      \cup {Mem!ListRuns(p, n) : n \in 1..Mem!Cardinality(Record)}
  <1>6. \A a \in Of(o) : a \in Mem!Reads
    <2>1. Mem!Reads = {Mem!RoomByJoinCode(c) : c \in Code} \cup UNION {Of(p) : p \in Org}
      BY DEF Mem!Reads
    <2> HIDE DEF Of
    <2> QED
      BY <2>1, Zenon
  <1>7. /\ Mem!ListEvents(o) \in Of(o) /\ Mem!ListShows(o) \in Of(o)
        /\ \A e \in Event : Mem!EventByID(o, e) \in Of(o) /\ Mem!ListRooms(o, e) \in Of(o)
        /\ \A s \in Show : Mem!ListShowVersions(o, s) \in Of(o)
        /\ \A v \in Version : Mem!ShowVersionByID(o, v) \in Of(o)
        /\ \A n \in 1..Cardinality(Record) : Mem!ListRuns(o, n) \in Of(o)
    BY SameCardinality, Zenon
  <1> HIDE DEF Of
  <1> QED
    BY <1>1, <1>2, <1>3, <1>4, <1>5, <1>6, <1>7

LEMMA ReadSteps ==
  ASSUME ApiInv, NEW w \in Worker, Reading(w)
  PROVE  MemStep
  <1>1. ASSUME NEW o \in Org, HandleListEvents(w, o) \/ HandleListShows(w, o)
        PROVE  MemStep
    BY <1>1, SameReads, Told DEF HandleListEvents, HandleListShows
  <1>2. ASSUME NEW o \in Org, NEW e \in Event,
               HandleGetEvent(w, o, e) \/ HandleListRooms(w, o, e)
        PROVE  MemStep
    BY <1>2, SameReads, Told DEF HandleGetEvent, HandleListRooms
  <1>3. ASSUME NEW o \in Org, NEW s \in Show, HandleListShowVersions(w, o, s)
        PROVE  MemStep
    BY <1>3, SameReads, Told DEF HandleListShowVersions
  <1>4. ASSUME NEW o \in Org, NEW v \in Version, HandleGetShowVersion(w, o, v)
        PROVE  MemStep
    BY <1>4, SameReads, Told DEF HandleGetShowVersion
  <1>5. ASSUME NEW o \in Org, NEW n \in 1..Cardinality(Record), HandleListRuns(w, o, n)
        PROVE  MemStep
    <2>1. Cardinality(Record) \in Nat
      BY PgAssumption, FS_CardinalityType
    <2>2. PICK k \in 1..Cardinality(Record) : k = IF n < MaxRunsLimit THEN n ELSE MaxRunsLimit
      BY <2>1, ApiAssumption
    <2> QED
      BY <1>5, <2>2, SameReads, Told DEF HandleListRuns
  <1>6. ASSUME NEW c \in Code, HandleJoin(w, c)
        PROVE  MemStep
    <2>1. PICK r \in Room : code[r] = c /\ Tell(w, owner[r], {r})
      BY <1>6 DEF HandleJoin, RoomByJoinCode
    <2>2. c # None
      BY PgAssumption DEF ApiInv, RoomOK
    <2>3. {r} = Mem!RoomByJoinCode(c)
      BY <2>1, <2>2 DEF ApiInv, CodesDiffer, Mem!RoomByJoinCode
    <2>4. {r} \in Mem!Reads
      BY <2>3, Zenon DEF Mem!Reads
    <2> QED
      BY <2>1, <2>4, Told
  <1>7. ASSUME JoinVersion(w)
        PROVE  MemStep
    <2>1. PICK o \in Org, v \in Version : o = req[w].org /\ v = req[w].on
      BY <1>7 DEF JoinVersion, ApiInv, ReqOK
    <2>2. Tell(w, o, reply[w].rows \cup ShowVersionByID(o, v))
      BY <1>7, <2>1 DEF JoinVersion
    <2> QED
      BY <2>1, <2>2, SameReads, Told
  <1> QED
    BY <1>1, <1>2, <1>3, <1>4, <1>5, <1>6, <1>7 DEF Reading

LEMMA RestartSteps ==
  ASSUME Crash
  PROVE  MemStep
  <1>1. UNCHANGED <<orgs, user, sessions, owner, place, code, active, showOf, number,
                    digest, stamp>>
    BY DEF Crash, tables, roomCols, versionCols
  <1>2. NextVersions' = NextVersions
    BY <1>1, NextVersionsStay
  <1>3. Answers' = [w \in Worker |-> {}]
    BY IdleType DEF Crash, Answers
  <1>4. Mem!Restart
    BY <1>1, <1>2, <1>3 DEF Mem!Restart, Mem!rows, NextVersions, Answers
  <1> QED
    BY <1>4 DEF MemStep, Mem!Next

LEMMA MemRefined == ApiInv /\ [Next]_apiVars => MemStep
  <1> SUFFICES ASSUME ApiInv, [Next]_apiVars PROVE MemStep
    OBVIOUS
  <1>1. ASSUME NEW w \in Worker, Accounts(w) PROVE MemStep
    BY <1>1, AccountSteps, QuietSteps DEF Accounts
  <1>2. ASSUME NEW w \in Worker, Rooms(w) PROVE MemStep
    BY <1>2, CreateSteps, RoomSteps, RecordSteps, QuietSteps DEF Rooms
  <1>3. ASSUME NEW w \in Worker, Publishing(w) PROVE MemStep
    BY <1>3, CreateSteps, PublishSteps, QuietSteps DEF Publishing
  <1>4. CASE UNCHANGED apiVars
    BY <1>4, MemStutters DEF apiVars
  <1> QED
    BY <1>1, <1>2, <1>3, <1>4, ReadSteps, QuietSteps, RestartSteps DEF Next

\* The PostgreSQL store, its statements interleaved, failing and crashing as they may,
\* does to its tables and answers what the in-memory store's critical sections do.
THEOREM StoreIsMemStore == Spec => Mem!New /\ ActsAsMemStore
  <1>1. Init => Mem!New
    <2> SUFFICES ASSUME Init PROVE Mem!New
      OBVIOUS
    <2>1. \A s \in Show : VersionsOf(s) = {}
      BY PgAssumption DEF Init, Migrated, VersionsOf, Row
    <2>2. NextVersions = [s \in Show |-> 0] /\ Answers = [w \in Worker |-> {}]
      BY <2>1, IdleType DEF NextVersions, Init, Answers
    <2> QED
      BY <2>2 DEF Init, Migrated, Mem!New, Mem!Row, Row, NextVersions, Answers
  <1>2. ApiInv /\ [Next]_apiVars => [Mem!Next]_(Mem!memVars)
    BY MemRefined DEF MemStep
  <1> QED
    BY <1>1, <1>2, ApiAlways, PTL DEF Spec, ActsAsMemStore
=============================================================================
