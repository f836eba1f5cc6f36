--------------------------- MODULE Transcription ---------------------------
(***************************************************************************)
(* Lyrics drawn from an audio file by an external command, one job at a    *)
(* time (control-api/internal/api/transcribe.go).  A job is a goroutine;   *)
(* jobs live in memory and end with the process, which is left out: a new  *)
(* process begins as this one does.                                        *)
(***************************************************************************)
EXTENDS Integers, Sequences, FiniteSets

CONSTANTS
    Job, JobOrg,
    GateSize,     \* capacity of trGate: 1
    NoJobOrg      \* the organisation of a job that is not there yet

ASSUME TranscriptionAssumption ==
    /\ GateSize \in Nat \ {0}
    /\ NoJobOrg \notin JobOrg

VARIABLES
    jobOrg,    \* trJobs: the organisation each job was made for
    status,    \* as handleGetTranscription shows it
    step,      \* what the goroutine of the job does next
    gate,      \* how many values are in trGate
    senders,   \* goroutines that wait to send to trGate, in the order they came
    unanswered,   \* jobs whose request has not been answered yet
    told       \* the last answer: to whom, about which job, with what status

jobVars == <<jobOrg, status, step, gate, senders, unanswered, told>>

NoAnswer == <<>>

JobSteps ==
    {"none", "enqueue", "waiting", "begin", "work", "held", "leave", "over"}

TranscriptionTypeOK ==
    /\ jobOrg \in [Job -> JobOrg \cup {NoJobOrg}]
    /\ status \in [Job -> {"none", "running", "queued", "done", "error"}]
    /\ step \in [Job -> JobSteps]
    /\ gate \in 0..GateSize
    /\ senders \in Seq(Job)
    /\ unanswered \subseteq Job
    /\ told = NoAnswer \/ told \in JobOrg \X Job \X
                                {"running", "queued", "done", "error", "torn"}

TranscriptionInit ==
    /\ jobOrg = [j \in Job |-> NoJobOrg]
    /\ status = [j \in Job |-> "none"]
    /\ step = [j \in Job |-> "none"]
    /\ gate = 0
    /\ senders = <<>>
    /\ unanswered = {}
    /\ told = NoAnswer
-----------------------------------------------------------------------------
\* The goroutine of job j goes on at s.
At(j, s) == step' = [step EXCEPT ![j] = s]
Shows(j, st) == status' = [status EXCEPT ![j] = st]

\* handleTranscribeAsset: the reply reads the status after the goroutine has
\* been started, without the mutex, so that a write may be under way and the
\* string be made of the pointer of one status and the length of another.
HandleTranscribeAsset(o, j) ==
    /\ jobOrg[j] = NoJobOrg
    /\ jobOrg' = [jobOrg EXCEPT ![j] = o]
    /\ Shows(j, "running") /\ At(j, "enqueue")
    /\ unanswered' = unanswered \cup {j}
    /\ UNCHANGED <<gate, senders, told>>

TranscribeAccepted(j) ==
    /\ j \in unanswered
    /\ unanswered' = unanswered \ {j}
    /\ \E st \in {status[j]} \cup
               (IF step[j] \in {"enqueue", "begin", "work", "held"} THEN {"torn"} ELSE {}) :
         told' = <<jobOrg[j], j, st>>
    /\ UNCHANGED <<jobOrg, status, step, gate, senders>>

\* Mutant of Enqueue: the gate is not asked.
EnqueueUngated(j) ==
    /\ step[j] = "enqueue"
    /\ Shows(j, "queued") /\ At(j, "begin")
    /\ UNCHANGED <<jobOrg, gate, senders, unanswered, told>>

\* runTranscription, up to the send: it goes through at once, or waits.
Enqueue(j) ==
    /\ step[j] = "enqueue"
    /\ Shows(j, "queued")
    /\ IF gate < GateSize
       THEN gate' = gate + 1 /\ At(j, "begin") /\ UNCHANGED senders
       ELSE senders' = Append(senders, j) /\ At(j, "waiting") /\ UNCHANGED gate
    /\ UNCHANGED <<jobOrg, unanswered, told>>

Begin(j) ==
    /\ step[j] = "begin"
    /\ Shows(j, "running") /\ At(j, "work")
    /\ UNCHANGED <<jobOrg, gate, senders, unanswered, told>>

\* The file is read and the command run, and both end: the command is killed
\* when the timeout is over.
Works(j, st) ==
    /\ step[j] = "work"
    /\ Shows(j, st) /\ At(j, "leave")
    /\ UNCHANGED <<jobOrg, gate, senders, unanswered, told>>

\* The command is over, or killed, but a process it has started keeps its output
\* open: Output has no WaitDelay and reads on.
Lingers(j) ==
    /\ step[j] = "work"
    /\ At(j, "held")
    /\ UNCHANGED <<jobOrg, status, gate, senders, unanswered, told>>

\* That process ends too.
OutputEnds(j, st) ==
    /\ step[j] = "held"
    /\ Shows(j, st) /\ At(j, "leave")
    /\ UNCHANGED <<jobOrg, gate, senders, unanswered, told>>

\* Mutant of Leave: the gate is left without letting anyone through.
LeaveShut(j) ==
    /\ step[j] = "leave"
    /\ At(j, "over")
    /\ gate' = IF senders = <<>> THEN gate - 1 ELSE gate
    /\ UNCHANGED <<jobOrg, status, senders, unanswered, told>>

\* The deferred receive: the first that waits goes through in its place.
Leave(j) ==
    /\ step[j] = "leave"
    /\ IF senders = <<>>
       THEN At(j, "over") /\ gate' = gate - 1 /\ UNCHANGED senders
       ELSE /\ step' = [step EXCEPT ![j] = "over", ![Head(senders)] = "begin"]
            /\ senders' = Tail(senders) /\ UNCHANGED gate
    /\ UNCHANGED <<jobOrg, status, unanswered, told>>

\* Another organisation's job is not there.
HandleGetTranscription(o, j) ==
    /\ jobOrg[j] = o /\ j \notin unanswered
    /\ told' = <<o, j, status[j]>>
    /\ UNCHANGED <<jobOrg, status, step, gate, senders, unanswered>>

\* What the goroutine and its timeout see to.
Runs(j) ==
    \/ Enqueue(j) \/ Begin(j) \/ Lingers(j) \/ Leave(j)
    \/ \E st \in {"done", "error"} : Works(j, st)

TranscriptionNext ==
    \/ \E o \in JobOrg, j \in Job :
        HandleTranscribeAsset(o, j) \/ HandleGetTranscription(o, j)
    \/ \E j \in Job : TranscribeAccepted(j) \/ Runs(j)
    \/ \E j \in Job, st \in {"done", "error"} : OutputEnds(j, st)

\* No one sees to it that a process the command has started ends.
TranscriptionFairness == \A j \in Job : WF_jobVars(Runs(j))

TranscriptionSpec == TranscriptionInit /\ [][TranscriptionNext]_jobVars
-----------------------------------------------------------------------------
\* The command never runs for more jobs at once than the gate lets through, also
\* when one hands its place on; what is told of a job is told to the organisation
\* it was made for, and "done" is not taken back.
Inside == {j \in Job : step[j] \in {"begin", "work", "held", "leave"}}

OneJobAtWork ==
    /\ Cardinality(Inside) <= GateSize
    /\ told # NoAnswer => jobOrg[told[2]] = told[1]
    /\ told # NoAnswer /\ told[3] \in {"done", "error"} => status[told[2]] = told[3]

\* Whatever becomes of the jobs before it, a job that was accepted ends, as long
\* as nothing the commands have started keeps an output open for good.
JobsEndUnlessHeld ==
    (\A i \in Job : []<>(step[i] # "held")) =>
        \A j \in Job : step[j] = "enqueue" ~> status[j] \in {"done", "error"}
=============================================================================
