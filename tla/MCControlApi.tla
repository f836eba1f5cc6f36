---------------------------- MODULE MCControlApi ----------------------------
(* Two requests at a time, on an empty store or on that of two organisations *)
(* with an event and a show each, of which the first has a room and one      *)
(* version.  Transcription jobs and migrations share no state with the       *)
(* handlers or with each other: a behaviour is one of the part that is named *)
(* and the others stay as they began.                                        *)
EXTENDS ControlApi, Transcription, Migrations

CONSTANTS w1, w2, o1, o2, e1, e2, e3, s1, s2, s3, r1, r2, v1, v2, v3, v4,
          c1, c2, d1, d2, a1, i1, i2, i3

VARIABLE part

Parts == {"handlers", "transcription", "migrations"}

MCWorker == {w1, w2}
MCOrg == {o1, o2}
MCEmail == {"m1", "m2"}
MCEvent == {e1, e2, e3}
MCShow == {s1, s2, s3}
MCRoom == {r1, r2}
MCVersion == {v1, v2, v3, v4}
MCCode == {c1, c2}
MCDigest == {d1, d2}
MCAsset == {a1}
MCNeeds == [d \in MCDigest |-> IF d = d1 THEN {a1} ELSE {}]
MCRecord == {1, 2}
MCMoment == 0..MaxRequests
MCJob == 1..3
MCInstance == {i1, i2, i3}

\* What two registrations, two events, two shows, a room and a publication
\* leave behind.
Seeded ==
    /\ orgs = MCOrg /\ sessions = MCOrg
    /\ user = [m \in Email |-> IF m = "m1" THEN o1 ELSE o2]
    /\ owner = [x \in Row |-> CASE x \in {e1, s1, r1, v1} -> o1
                                [] x \in {e2, s2} -> o2
                                [] OTHER -> None]
    /\ place = [r \in Room |-> IF r = r1 THEN e1 ELSE None]
    /\ code = [r \in Room |-> IF r = r1 THEN c1 ELSE None]
    /\ active = [r \in Room |-> None]
    /\ showOf = [v \in Version |-> IF v = v1 THEN s1 ELSE None]
    /\ number = [v \in Version |-> IF v = v1 THEN 1 ELSE 0]
    /\ digest = [v \in Version |-> IF v = v1 THEN d2 ELSE None]
    /\ stamp = [x \in Record |-> 0]
    /\ lock = [s \in Show |-> None]
    /\ req = [w \in Worker |-> Idle]
    /\ reply = [w \in Worker |-> NoReply]
    /\ disk = [k \in Key |-> IF k = d2 THEN "whole" ELSE "absent"]
    /\ driver \in {"fs", "s3"}
    /\ left = MaxRequests

MCInit ==
    /\ part \in Parts
    /\ part # "handlers" => driver = "fs"
    /\ IF part = "handlers" THEN Init \/ Seeded ELSE Init
    /\ TranscriptionInit /\ MigrationsInit

\* Jobs are alike, and so are organisations: it is enough that jobs are
\* accepted in one order, and that the first is the first organisation's.
InTurn ==
    /\ jobOrg'[1] \in {o1, NoJobOrg}
    /\ \A j \in Job \ {1} : jobOrg'[j] # NoJobOrg => jobOrg'[j - 1] # NoJobOrg

MCNext ==
    /\ \/ part = "handlers" /\ Next /\ UNCHANGED <<jobVars, migrationVars>>
       \/ /\ part = "transcription" /\ TranscriptionNext /\ InTurn
          /\ UNCHANGED <<apiVars, migrationVars>>
       \/ part = "migrations" /\ MigrationsNext /\ UNCHANGED <<apiVars, jobVars>>
    /\ UNCHANGED part

MCSpec ==
    /\ MCInit /\ [][MCNext]_<<apiVars, jobVars, migrationVars, part>>
    /\ Fairness /\ TranscriptionFairness
=============================================================================
