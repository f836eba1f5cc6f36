--------------------------- MODULE RealtimeClient ---------------------------
(***************************************************************************)
(* The phone's connection to its gateway and its clock-sample rounds       *)
(* (apps/participant/lib/core/realtime_client.dart).  Dart runs one        *)
(* handler at a time; what interleaves is the messages of the socket, its  *)
(* end, close(), and four kinds of timer.                                  *)
(*                                                                         *)
(* A handler is a chain of operators on the client record.  timers holds   *)
(* the live timers, field the handles by which the code can cancel one.    *)
(* Ticks are coarser than the delay of the event loop: a due timer goes    *)
(* off before the clock moves on.                                          *)
(***************************************************************************)
EXTENDS Integers, Sequences

CONSTANTS
    Samples,     \* samplesPerRound
    Pause,       \* samplePause
    Timeout,     \* 2 s for the answer to a ping
    Resync,      \* resyncEvery
    Retry,       \* 5 s after a poor or failed round
    Fresh,       \* 120 s: how long a kept offset counts as fresh
    Rtt,         \* round-trip times a sample may show; negative: it is dropped
    Margin,      \* 10 ms by which a fresh offset must be better to be kept
    Poor,        \* 25 ms above which an accepted round is soon repeated
    MaxAttempt,  \* the cap on _reconnectAttempt
    Delay,       \* the delays each attempt may draw
    MaxTime      \* bound: the clock

ASSUME ClientAssumption ==
    /\ Samples \in Nat \ {0}
    /\ {Pause, Timeout, Resync, Retry, Fresh, MaxTime} \subseteq Nat
    /\ Rtt \subseteq Int
    /\ {Margin, Poor} \subseteq Nat
    /\ MaxAttempt \in Nat \ {0}
    /\ Delay \in [1..MaxAttempt -> SUBSET Nat]

VARIABLES
    now,     \* MonoClock
    client,  \* the fields of RealtimeClient, see Client
    up,      \* the current channel's stream has not ended
    sent     \* what the gateway has not answered yet; it answers in order

vars == <<now, client, up, sent>>

Kind == {"pingTimeout", "nextPing", "resync", "reconnect"}

\* seq tells timers apart that would fall due together.
Timer == [kind: Kind, due: Nat, seq: Nat]

\* null, for a timer, for _awaitingSeq, and the mark of a hello among pings.
NoTimer == [kind |-> "reconnect", due |-> 0, seq |-> 0]
NoSeq == 0
Hello == 0

\* _accepted is {} or a singleton.  roundAt, roundFirst (when the round began,
\* and with which ping) and steady (every round since the last failure or
\* disconnect had an estimate) are histories and constrain nothing.
Client == [closed: BOOLEAN, attempt: 0..MaxAttempt, seq: Nat, awaiting: Nat,
           roundSent: 0..Samples, samples: SUBSET [seq: Nat, rtt: Rtt \cap Nat],
           accepted: SUBSET [rtt: Rtt \cap Nat, at: Nat],
           timers: SUBSET Timer, field: [Kind -> Timer],
           roundAt: Nat, roundFirst: Nat, steady: BOOLEAN]

TypeOK ==
    /\ now \in Nat
    /\ client \in Client
    /\ up \in BOOLEAN
    /\ sent \in Seq(Nat)

\* connect has been called by the show screen.
Init ==
    /\ now = 0
    /\ client = [closed |-> FALSE, attempt |-> 0, seq |-> 0, awaiting |-> NoSeq,
                 roundSent |-> 0, samples |-> {}, accepted |-> {},
                 timers |-> {}, field |-> [k \in Kind |-> NoTimer],
                 roundAt |-> 0, roundFirst |-> 0, steady |-> FALSE]
    /\ up = TRUE
    /\ sent = <<Hello>>

-----------------------------------------------------------------------------
(* The pieces handlers are made of. *)

StartTimer(s, k, d) ==
    LET t == [kind |-> k, due |-> now + d, seq |-> s.seq]
    IN  [s EXCEPT !.timers = @ \cup {t}, !.field = [@ EXCEPT ![k] = t]]

\* _cancelTimers
CancelTimers(s) ==
    [s EXCEPT !.timers = @ \ {s.field[k] : k \in Kind}]

\* Mutant of SentPing: the round does not count its pings.
SentPingUncounted(s) ==
    StartTimer([s EXCEPT !.seq = @ + 1, !.awaiting = s.seq + 1],
               "pingTimeout", Timeout)

\* _sendNextPing, apart from the message itself.
SentPing(s) ==
    StartTimer([s EXCEPT !.seq = @ + 1, !.roundSent = @ + 1,
                         !.awaiting = s.seq + 1],
               "pingTimeout", Timeout)

\* _startSyncRound, up to its ping.
Round(s) ==
    SentPing([s EXCEPT !.samples = {}, !.roundSent = 0,
                       !.roundAt = now, !.roundFirst = s.seq + 1])

\* bestRttMs of the estimate.
Best(s) ==
    CHOOSE b \in {x.rtt : x \in s.samples} : \A x \in s.samples : b <= x.rtt

\* Mutant of Kept: a better offset is kept however old it is.
KeptForever(s, b) == \E a \in s.accepted : b > a.rtt + Margin

\* The quality gate: the offset at hand is fresh and clearly better.
Kept(s, b) == \E a \in s.accepted : now - a.at < Fresh /\ b > a.rtt + Margin

\* The last ping of the round is settled.
RoundOver(s) ==
    IF s.samples = {} THEN StartTimer([s EXCEPT !.steady = FALSE], "resync", Retry)
    ELSE LET b == Best(s)
             t == [s EXCEPT !.steady = TRUE]
         IN  IF Kept(s, b) THEN StartTimer(t, "resync", Retry)
             ELSE StartTimer([t EXCEPT !.accepted = {[rtt |-> b, at |-> now]}],
                             "resync", IF b > Poor THEN Retry ELSE Resync)

\* Mutant of Advanced: one sample too many.
AdvancedOneMore(s) ==
    IF s.roundSent <= Samples THEN StartTimer(s, "nextPing", Pause) ELSE RoundOver(s)

\* _advanceRound
Advanced(s) ==
    IF s.roundSent < Samples THEN StartTimer(s, "nextPing", Pause) ELSE RoundOver(s)

\* Mutant of Settled: the timeout of an answered ping stays armed.
SettledArmed(s) == [s EXCEPT !.awaiting = NoSeq]

\* The awaited answer has come.
Settled(s) ==
    [s EXCEPT !.timers = @ \ {s.field["pingTimeout"]}, !.awaiting = NoSeq]

\* ClockSyncEstimator.add
Sampled(s, q, r) ==
    IF r < 0 THEN s
    ELSE [s EXCEPT !.samples = @ \cup {[seq |-> q, rtt |-> r]}]

-----------------------------------------------------------------------------
(* The socket *)

\* The gateway has joined the phone to its room.
OnWelcome ==
    /\ sent # <<>>
    /\ Head(sent) = Hello
    /\ client' = Round([client EXCEPT !.attempt = 0])
    /\ sent' = Append(Tail(sent), client'.seq)
    /\ UNCHANGED <<now, up>>

\* Mutant of Awaited: every answer counts.
AwaitedAny(q) == client.awaiting # NoSeq

\* The answer belongs to the ping that is waited for.
Awaited(q) == q = client.awaiting

\* _onClockResponse; an answer that comes after its timeout is not looked at.
OnClockResponse(r) ==
    /\ sent # <<>>
    /\ Head(sent) # Hello
    /\ client' = IF Awaited(Head(sent))
                 THEN Advanced(Sampled(Settled(client), Head(sent), r))
                 ELSE client
    /\ sent' = Tail(sent)
    /\ UNCHANGED <<now, up>>

\* The stream of the channel ends or fails, or never came up.
OnDisconnect ==
    /\ up
    /\ LET a == IF client.attempt < MaxAttempt THEN client.attempt + 1
                ELSE MaxAttempt
       IN  \E d \in Delay[a] :
             client' = StartTimer([CancelTimers(client) EXCEPT
                                     !.awaiting = NoSeq, !.attempt = a,
                                     !.steady = FALSE], "reconnect", d)
    /\ up' = FALSE
    /\ sent' = <<>>
    /\ UNCHANGED now

\* close, from dispose: the subscription is cancelled, so no onDone follows.
Close ==
    /\ ~client.closed
    /\ client' = [CancelTimers(client) EXCEPT !.closed = TRUE, !.steady = FALSE]
    /\ up' = FALSE
    /\ sent' = <<>>
    /\ UNCHANGED now

-----------------------------------------------------------------------------
(* The timers *)

Expired(t) == t \in client.timers /\ now >= t.due

Without(t) == [client EXCEPT !.timers = @ \ {t}]

\* No answer in time: the sample is skipped.
OnPingTimeout(t) ==
    /\ Expired(t) /\ t.kind = "pingTimeout"
    /\ client' = IF client.awaiting = NoSeq THEN Without(t)
                 ELSE Advanced([Without(t) EXCEPT !.awaiting = NoSeq])
    /\ UNCHANGED <<now, up, sent>>

\* _nextPing and _resync send a ping, the latter as the first of a new round.
OnPingDue(t) ==
    /\ Expired(t)
    /\ client' = CASE t.kind = "nextPing" -> SentPing(Without(t))
                   [] t.kind = "resync"   -> Round(Without(t))
                   [] OTHER               -> client
    /\ t.kind \in {"nextPing", "resync"}
    /\ sent' = Append(sent, client'.seq)
    /\ UNCHANGED <<now, up>>

\* _reconnect: connect, with a new channel.
OnReconnect(t) ==
    /\ Expired(t) /\ t.kind = "reconnect"
    /\ client' = Without(t)
    /\ up' = TRUE
    /\ sent' = <<Hello>>
    /\ UNCHANGED now

Tick ==
    /\ now < MaxTime
    /\ \A t \in client.timers : now < t.due
    /\ now' = now + 1
    /\ UNCHANGED <<client, up, sent>>

Next ==
    \/ OnWelcome \/ OnDisconnect \/ Close
    \/ \E r \in Rtt : OnClockResponse(r)
    \/ \E t \in client.timers : OnPingTimeout(t) \/ OnPingDue(t) \/ OnReconnect(t)
    \/ Tick

Spec == Init /\ [][Next]_vars

-----------------------------------------------------------------------------
(* Properties *)

\* The client neither stops for good nor does things twice: unless it is closed
\* or waits for the welcome, exactly one timer will take it on, whatever
\* answers, timeouts and disconnects have crossed.
OneTimer ==
    IF client.closed \/ sent = <<Hello>> THEN client.timers = {}
    ELSE \E t \in client.timers : client.timers = {t}

\* An estimate is made of the samples of one round over one connection: the
\* late answer to a ping of an earlier one is never among them.
OwnSamples == \A x \in client.samples : x.seq \in client.roundFirst..client.seq

InRound ==
    /\ ~client.closed
    /\ \/ client.awaiting # NoSeq
       \/ \E t \in client.timers : t.kind = "nextPing"

LongestRound == Samples * Timeout + (Samples - 1) * Pause

\* A round comes to its end in bounded time however many answers are lost.
RoundEnds == InRound => now <= client.roundAt + LongestRound

\* The oldest an offset gets while rounds bring estimates: kept once more just
\* before it is two minutes old, or left alone for a whole period.
OldestOffset ==
    LongestRound + (IF Fresh + Retry > Resync THEN Fresh + Retry ELSE Resync)

\* The gate that protects a good offset does not let it grow old.
OffsetAge ==
    client.steady => \E a \in client.accepted : now <= a.at + OldestOffset
=============================================================================
