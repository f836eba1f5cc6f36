----------------------- MODULE RealtimeClient_proofs -----------------------
(***************************************************************************)
(* Proofs about RealtimeClient, for any periods, delays and qualities of   *)
(* samples: the chain of timers neither breaks nor doubles, rounds end in  *)
(* time and use their own samples only, and the offset does not grow old.  *)
(***************************************************************************)
EXTENDS RealtimeClient, WellFoundedInduction, TLAPS

-----------------------------------------------------------------------------
(* The pieces of the handlers. *)

\* A nonempty set of naturals has a least element.
LEMMA LeastNat ==
  ASSUME NEW T \in SUBSET Nat, T # {}
  PROVE  \E x \in T : \A y \in T : x <= y
  <1>1. PICK x \in T : \A y \in T : <<y, x>> \notin OpToRel(<, Nat)
    BY WFMin, NatLessThanWellFounded, Zenon
  <1>2. \A y \in T : ~(y < x)
    BY <1>1, Zenon DEF OpToRel
  <1> QED
    BY <1>2

LEMMA BestType ==
  ASSUME NEW s \in Client, s.samples # {}
  PROVE  Best(s) \in Rtt \cap Nat
  <1> DEFINE T == {x.rtt : x \in s.samples}
  <1>1. T \subseteq Rtt \cap Nat /\ T # {}
    BY DEF Client
  <1>2. \E b \in T : \A y \in T : b <= y
    BY <1>1, LeastNat
  <1>3. \E b \in T : \A x \in s.samples : b <= x.rtt
    BY <1>2
  <1> QED
    BY <1>1, <1>3 DEF Best

\* One timer is alive, and its field names it.
Runs(s, k) ==
    /\ s.timers = {s.field[k]}
    /\ s.field[k].kind = k
    /\ now <= s.field[k].due

Own(s) == \A x \in s.samples : x.seq \in s.roundFirst..s.seq

\* The most that a round with n pings sent can still take after the last one.
Left(n) == (Samples - n) * (Timeout + Pause)

\* The longest an accepted offset rests before a round begins.
Period == IF Fresh + Retry > Resync THEN Fresh + Retry ELSE Resync

\* A round began in time to renew the offset.
Renewing(s) == s.steady => \E a \in s.accepted : s.roundAt <= a.at + Period

\* The four states of a client between two handlers, apart from the wait for
\* the welcome and the closed one.
Pinging(s) ==
    /\ Runs(s, "pingTimeout")
    /\ s.awaiting # NoSeq /\ s.awaiting = s.seq /\ s.roundFirst <= s.seq
    /\ s.roundSent >= 1
    /\ s.field["pingTimeout"].due + Left(s.roundSent) <= s.roundAt + LongestRound
    /\ Renewing(s)

Pausing(s) ==
    /\ Runs(s, "nextPing")
    /\ s.awaiting = NoSeq /\ s.roundFirst <= s.seq
    /\ s.roundSent < Samples
    /\ s.field["nextPing"].due + Timeout + Left(s.roundSent + 1)
         <= s.roundAt + LongestRound
    /\ Renewing(s)

Resting(s) ==
    /\ Runs(s, "resync")
    /\ s.awaiting = NoSeq
    /\ s.steady => \E a \in s.accepted : s.field["resync"].due <= a.at + Period

Waiting(s) ==
    /\ Runs(s, "reconnect")
    /\ s.awaiting = NoSeq
    /\ ~s.steady

LEMMA LeftFacts ==
  /\ Left(1) + Timeout = LongestRound /\ LongestRound \in Nat
  /\ \A n \in 0..Samples : Left(n) \in Nat
  /\ \A n \in Nat : Left(n) = Left(n + 1) + (Timeout + Pause)
  <1>1. Samples \in Nat /\ Timeout \in Nat /\ Pause \in Nat /\ Samples >= 1
    BY ClientAssumption
  <1>2. Left(1) + Timeout = LongestRound
    BY <1>1 DEF Left, LongestRound
  <1>3. \A n \in 0..Samples : Left(n) \in Nat
    BY <1>1 DEF Left
  <1>4. \A n \in Nat : Left(n) = Left(n + 1) + (Timeout + Pause)
    BY <1>1 DEF Left
  <1>5. LongestRound \in Nat
    BY <1>1, <1>2, <1>3
  <1> QED
    BY <1>2, <1>3, <1>4, <1>5

LEMMA StartTimerFacts ==
  ASSUME NEW s \in Client, s.timers = {}, now \in Nat,
         NEW k \in Kind, NEW d \in Nat
  PROVE  LET t == StartTimer(s, k, d)
         IN  /\ t \in Client
             /\ Runs(t, k)
             /\ t.field[k].due = now + d
             /\ t.closed = s.closed /\ t.attempt = s.attempt
             /\ t.seq = s.seq /\ t.awaiting = s.awaiting
             /\ t.roundSent = s.roundSent /\ t.samples = s.samples
             /\ t.accepted = s.accepted /\ t.roundAt = s.roundAt
             /\ t.roundFirst = s.roundFirst /\ t.steady = s.steady
  <1> DEFINE x == [kind |-> k, due |-> now + d, seq |-> s.seq]
             f == [s.field EXCEPT ![k] = x]
             t == [s EXCEPT !.timers = @ \cup {x}, !.field = f]
  <1>1. x \in Timer /\ x.kind = k /\ x.due = now + d
    BY DEF Timer, Client
  <1>2. f \in [Kind -> Timer] /\ f[k] = x
    BY <1>1 DEF Client
  <1>3. StartTimer(s, k, d) = t
    BY DEF StartTimer
  <1> HIDE DEF x, f
  <1>4. t \in Client /\ t.timers = {x} /\ t.field = f
    BY <1>1, <1>2 DEF Client
  <1>5. /\ t.closed = s.closed /\ t.attempt = s.attempt
        /\ t.seq = s.seq /\ t.awaiting = s.awaiting
        /\ t.roundSent = s.roundSent /\ t.samples = s.samples
        /\ t.accepted = s.accepted /\ t.roundAt = s.roundAt
        /\ t.roundFirst = s.roundFirst /\ t.steady = s.steady
    BY DEF Client
  <1> HIDE DEF t
  <1> QED
    BY <1>1, <1>2, <1>3, <1>4, <1>5 DEF Runs

LEMMA SentPingFacts ==
  ASSUME NEW s \in Client, s.timers = {}, now \in Nat, Own(s),
         s.roundSent < Samples, s.roundFirst <= s.seq + 1, Renewing(s),
         now + Timeout + Left(s.roundSent + 1) <= s.roundAt + LongestRound
  PROVE  /\ SentPing(s) \in Client
         /\ Pinging(SentPing(s))
         /\ Own(SentPing(s))
         /\ SentPing(s).closed = s.closed
         /\ SentPing(s).seq = s.seq + 1
  <1> DEFINE u == [s EXCEPT !.seq = @ + 1, !.roundSent = @ + 1, !.awaiting = s.seq + 1]
  <1>0. s.roundSent + 1 \in 0..Samples /\ s.seq + 1 \in Nat
    <2>1. s.roundSent \in 0..Samples /\ s.seq \in Nat
      BY DEF Client
    <2>2. Samples \in Nat
      BY ClientAssumption
    <2> QED
      BY <2>1, <2>2
  <1>1. /\ u \in Client /\ u.timers = {} /\ u.closed = s.closed
        /\ u.seq = s.seq + 1 /\ u.awaiting = s.seq + 1
        /\ u.roundSent = s.roundSent + 1 /\ u.samples = s.samples
        /\ u.accepted = s.accepted /\ u.roundAt = s.roundAt
        /\ u.roundFirst = s.roundFirst /\ u.steady = s.steady
    BY <1>0 DEF Client
  <1>2. SentPing(s) = StartTimer(u, "pingTimeout", Timeout)
    BY DEF SentPing
  <1> HIDE DEF u
  <1>3. s.seq \in Nat /\ s.roundSent \in Nat /\ s.roundFirst \in Nat
        /\ \A x \in s.samples : x.seq \in Nat
    BY DEF Client
  <1> DEFINE t == StartTimer(u, "pingTimeout", Timeout)
  <1>4. /\ t \in Client /\ Runs(t, "pingTimeout")
        /\ t.field["pingTimeout"].due = now + Timeout
        /\ t.closed = u.closed /\ t.seq = u.seq /\ t.awaiting = u.awaiting
        /\ t.roundSent = u.roundSent /\ t.samples = u.samples
        /\ t.accepted = u.accepted /\ t.roundAt = u.roundAt
        /\ t.roundFirst = u.roundFirst /\ t.steady = u.steady
    <2>1. Timeout \in Nat /\ "pingTimeout" \in Kind
      BY ClientAssumption DEF Kind
    <2> QED
      BY <1>1, <2>1, StartTimerFacts
  <1> HIDE DEF t
  <1>5. Own(t) /\ Renewing(t)
    BY <1>1, <1>3, <1>4 DEF Own, Renewing
  <1>6. t.awaiting # NoSeq /\ t.awaiting = t.seq /\ t.roundFirst <= t.seq
        /\ t.roundSent >= 1
    BY <1>1, <1>3, <1>4 DEF NoSeq
  <1>7. Pinging(t)
    BY <1>1, <1>4, <1>5, <1>6 DEF Pinging
  <1> QED
    BY <1>1, <1>2, <1>4, <1>5, <1>7 DEF t

LEMMA RoundFacts ==
  ASSUME NEW s \in Client, s.timers = {}, now \in Nat,
         s.steady => \E a \in s.accepted : now <= a.at + Period
  PROVE  /\ Round(s) \in Client
         /\ Pinging(Round(s))
         /\ Own(Round(s))
         /\ Round(s).closed = s.closed
         /\ Round(s).seq = s.seq + 1
  <1> DEFINE u == [s EXCEPT !.samples = {}, !.roundSent = 0,
                            !.roundAt = now, !.roundFirst = s.seq + 1]
  <1>1. /\ u \in Client /\ u.timers = {} /\ u.closed = s.closed
        /\ u.seq = s.seq /\ u.samples = {} /\ u.roundSent = 0
        /\ u.accepted = s.accepted /\ u.steady = s.steady
        /\ u.roundAt = now /\ u.roundFirst = s.seq + 1
    <2>1. 0 \in 0..Samples /\ s.seq + 1 \in Nat
      BY ClientAssumption DEF Client
    <2> QED
      BY <2>1 DEF Client
  <1>2. Round(s) = SentPing(u)
    BY DEF Round
  <1> HIDE DEF u
  <1>3. Own(u) /\ Renewing(u)
    BY <1>1 DEF Own, Renewing
  <1>4. /\ Timeout \in Nat /\ Samples \in Nat \ {0} /\ s.seq \in Nat
        /\ LongestRound \in Nat
    BY ClientAssumption, LeftFacts DEF Client
  <1>6. Left(1) \in Nat
    BY <1>4, LeftFacts
  <1>5. /\ u.roundSent < Samples
        /\ u.roundFirst <= u.seq + 1
        /\ now + Timeout + Left(u.roundSent + 1) <= u.roundAt + LongestRound
    BY <1>1, <1>4, <1>6, LeftFacts
  <1> QED
    BY <1>1, <1>2, <1>3, <1>5, SentPingFacts

LEMMA RoundOverFacts ==
  ASSUME NEW s \in Client, s.timers = {}, now \in Nat, Own(s),
         s.awaiting = NoSeq
  PROVE  /\ RoundOver(s) \in Client
         /\ Resting(RoundOver(s))
         /\ Own(RoundOver(s))
         /\ RoundOver(s).closed = s.closed
  <1>1. /\ Retry \in Nat /\ Resync \in Nat /\ Fresh \in Nat
        /\ Period \in Nat /\ Fresh + Retry <= Period /\ Resync <= Period
    BY ClientAssumption DEF Period
  <1>2. "resync" \in Kind
    BY DEF Kind
  \* What is common to the three ways out: u is s with another offset.
  <1>3. ASSUME NEW u \in Client, u.timers = {}, u.samples = s.samples,
               u.roundFirst = s.roundFirst, u.seq = s.seq,
               u.awaiting = s.awaiting, u.closed = s.closed,
               NEW d \in Nat,
               u.steady => \E a \in u.accepted : now + d <= a.at + Period
        PROVE  LET t == StartTimer(u, "resync", d)
               IN  t \in Client /\ Resting(t) /\ Own(t) /\ t.closed = s.closed
    <2> DEFINE t == StartTimer(u, "resync", d)
    <2>1. /\ t \in Client /\ Runs(t, "resync")
          /\ t.field["resync"].due = now + d
          /\ t.closed = u.closed /\ t.seq = u.seq /\ t.awaiting = u.awaiting
          /\ t.samples = u.samples /\ t.accepted = u.accepted
          /\ t.roundFirst = u.roundFirst /\ t.steady = u.steady
      BY <1>2, <1>3, StartTimerFacts
    <2> HIDE DEF t
    <2>2. Own(t)
      BY <1>3, <2>1 DEF Own
    <2>3. Resting(t)
      BY <1>3, <2>1 DEF Resting
    <2> QED
      BY <1>3, <2>1, <2>2, <2>3 DEF t
  <1>4. CASE s.samples = {}
    <2> DEFINE u == [s EXCEPT !.steady = FALSE]
    <2>1. /\ u \in Client /\ u.timers = {} /\ u.samples = s.samples
          /\ u.roundFirst = s.roundFirst /\ u.seq = s.seq
          /\ u.awaiting = s.awaiting /\ u.closed = s.closed /\ ~u.steady
      BY DEF Client
    <2>2. RoundOver(s) = StartTimer(u, "resync", Retry)
      BY <1>4 DEF RoundOver
    <2> HIDE DEF u
    <2> QED
      BY <1>1, <1>3, <2>1, <2>2
  <1>5. CASE s.samples # {} /\ Kept(s, Best(s))
    <2> DEFINE u == [s EXCEPT !.steady = TRUE]
    <2>1. /\ u \in Client /\ u.timers = {} /\ u.samples = s.samples
          /\ u.roundFirst = s.roundFirst /\ u.seq = s.seq
          /\ u.awaiting = s.awaiting /\ u.closed = s.closed
          /\ u.accepted = s.accepted
      BY DEF Client
    <2>2. RoundOver(s) = StartTimer(u, "resync", Retry)
      BY <1>5 DEF RoundOver
    <2> HIDE DEF u
    <2>3. PICK a \in s.accepted : now - a.at < Fresh
      BY <1>5 DEF Kept
    <2>4. a.at \in Nat
      BY DEF Client
    <2>5. now + Retry <= a.at + Period
      BY <1>1, <2>3, <2>4
    <2> QED
      BY <1>1, <1>3, <2>1, <2>2, <2>5
  <1>6. CASE s.samples # {} /\ ~Kept(s, Best(s))
    <2> DEFINE x == [rtt |-> Best(s), at |-> now]
               d == IF Best(s) > Poor THEN Retry ELSE Resync
               u == [s EXCEPT !.steady = TRUE, !.accepted = {x}]
    <2>1. x \in [rtt: Rtt \cap Nat, at: Nat] /\ x.at = now
      BY <1>6, BestType
    <2>2. d \in Nat /\ d <= Period
      BY <1>1
    <2>3. RoundOver(s) = StartTimer(u, "resync", d)
      BY <1>6 DEF RoundOver
    <2> HIDE DEF x, d
    <2>4. /\ u \in Client /\ u.timers = {} /\ u.samples = s.samples
          /\ u.roundFirst = s.roundFirst /\ u.seq = s.seq
          /\ u.awaiting = s.awaiting /\ u.closed = s.closed
          /\ u.accepted = {x}
      BY <2>1 DEF Client
    <2> HIDE DEF u
    <2>5. \E a \in u.accepted : now + d <= a.at + Period
      BY <1>1, <2>1, <2>2, <2>4
    <2> QED
      BY <1>3, <2>2, <2>3, <2>4, <2>5
  <1> QED
    BY <1>4, <1>5, <1>6

LEMMA AdvancedFacts ==
  ASSUME NEW s \in Client, s.timers = {}, now \in Nat, Own(s), Renewing(s),
         s.awaiting = NoSeq, s.roundFirst <= s.seq, s.roundSent >= 1,
         now + Left(s.roundSent) <= s.roundAt + LongestRound
  PROVE  /\ Advanced(s) \in Client
         /\ Pausing(Advanced(s)) \/ Resting(Advanced(s))
         /\ Own(Advanced(s))
         /\ Advanced(s).closed = s.closed
  <1>1. CASE s.roundSent < Samples
    <2> DEFINE t == StartTimer(s, "nextPing", Pause)
    <2>1. Pause \in Nat /\ Timeout \in Nat /\ Samples \in Nat /\ "nextPing" \in Kind
      BY ClientAssumption DEF Kind
    <2>2. /\ t \in Client /\ Runs(t, "nextPing")
          /\ t.field["nextPing"].due = now + Pause
          /\ t.closed = s.closed /\ t.seq = s.seq /\ t.awaiting = s.awaiting
          /\ t.roundSent = s.roundSent /\ t.samples = s.samples
          /\ t.accepted = s.accepted /\ t.roundAt = s.roundAt
          /\ t.roundFirst = s.roundFirst /\ t.steady = s.steady
      BY <2>1, StartTimerFacts
    <2>3. Advanced(s) = t
      BY <1>1 DEF Advanced
    <2> HIDE DEF t
    <2>4. Own(t) /\ Renewing(t)
      BY <2>2 DEF Own, Renewing
    <2>5. s.roundSent \in 0..Samples /\ s.roundAt \in Nat
      BY DEF Client
    <2>6. Left(s.roundSent) = Left(s.roundSent + 1) + (Timeout + Pause)
      BY <2>1, <2>5, LeftFacts
    <2>7. Left(s.roundSent + 1) \in Nat /\ LongestRound \in Nat
      BY <1>1, <2>1, <2>5, LeftFacts
    <2>8. now + Pause + Timeout + Left(s.roundSent + 1) <= s.roundAt + LongestRound
      BY <2>1, <2>5, <2>6, <2>7
    <2>9. Pausing(t)
      BY <1>1, <2>2, <2>4, <2>8 DEF Pausing
    <2> QED
      BY <2>2, <2>3, <2>4, <2>9
  <1>2. CASE ~(s.roundSent < Samples)
    BY <1>2, RoundOverFacts DEF Advanced
  <1> QED
    BY <1>1, <1>2

LEMMA CancelTimersFacts ==
  ASSUME NEW s \in Client, NEW k \in Kind, s.timers \subseteq {s.field[k]}
  PROVE  /\ CancelTimers(s) = [s EXCEPT !.timers = {}]
         /\ [s EXCEPT !.timers = {}] \in Client
  <1>1. s.timers \ {s.field[j] : j \in Kind} = {}
    OBVIOUS
  <1> QED
    BY <1>1 DEF CancelTimers, Client

-----------------------------------------------------------------------------
(* The invariant. *)

Over ==
    /\ client.closed /\ client.timers = {}
    /\ ~up /\ sent = <<>> /\ ~client.steady

Greeting ==
    /\ ~client.closed /\ client.timers = {}
    /\ up /\ sent = <<Hello>>
    /\ client.awaiting = NoSeq /\ ~client.steady

\* What is on the way to the gateway once the client has been welcomed.
Welcomed == \A i \in 1..Len(sent) : sent[i] # Hello

Connected ==
    /\ ~client.closed /\ up /\ Welcomed
    /\ Pinging(client) \/ Pausing(client) \/ Resting(client)

Disconnected ==
    /\ ~client.closed /\ ~up /\ sent = <<>>
    /\ Waiting(client)

IInv ==
    /\ TypeOK
    /\ Own(client)
    /\ Over \/ Greeting \/ Connected \/ Disconnected

LEMMA InitInv == Init => IInv
  <1> SUFFICES ASSUME Init PROVE IInv
    OBVIOUS
  <1>1. NoTimer \in Timer
    BY DEF NoTimer, Timer, Kind
  <1>2. 0 \in 0..MaxAttempt /\ 0 \in 0..Samples
    BY ClientAssumption
  <1>3. client \in Client
    BY <1>1, <1>2 DEF Init, Client, NoSeq
  <1>4. sent \in Seq(Nat)
    BY DEF Init, Hello
  <1>5. TypeOK
    BY <1>3, <1>4 DEF Init, TypeOK
  <1>6. Own(client) /\ Greeting
    BY DEF Init, Own, Greeting
  <1> QED
    BY <1>5, <1>6 DEF IInv

\* Appending a ping keeps the queue free of hellos.
LEMMA AppendPing ==
  ASSUME NEW q \in Seq(Nat), NEW n \in Nat, n # Hello,
         \A i \in 1..Len(q) : q[i] # Hello
  PROVE  /\ Append(q, n) \in Seq(Nat)
         /\ \A i \in 1..Len(Append(q, n)) : Append(q, n)[i] # Hello
  OBVIOUS

LEMMA TailPing ==
  ASSUME NEW q \in Seq(Nat), q # <<>>,
         \A i \in 1..Len(q) : q[i] # Hello
  PROVE  /\ Tail(q) \in Seq(Nat) /\ Head(q) \in Nat /\ Head(q) # Hello
         /\ \A i \in 1..Len(Tail(q)) : Tail(q)[i] # Hello
  OBVIOUS

LEMMA WelcomeStep == IInv /\ OnWelcome => IInv'
  <1> SUFFICES ASSUME IInv, OnWelcome PROVE IInv'
    OBVIOUS
  <1>1. TypeOK /\ now \in Nat /\ client \in Client /\ sent \in Seq(Nat)
    BY DEF IInv, TypeOK
  <1>2. Greeting
    <2>1. ~Over /\ ~Disconnected
      BY DEF OnWelcome, Over, Disconnected
    <2>2. ~Connected
      BY <1>1, TailPing DEF OnWelcome, Connected, Welcomed
    <2> QED
      BY <2>1, <2>2 DEF IInv
  <1> DEFINE u == [client EXCEPT !.attempt = 0]
  <1>3. /\ u \in Client /\ u.timers = {} /\ ~u.steady
        /\ u.closed = client.closed /\ u.seq = client.seq
    <2>1. 0 \in 0..MaxAttempt
      BY ClientAssumption
    <2> QED
      BY <1>1, <1>2, <2>1 DEF Greeting, Client
  <1>4. client' = Round(u)
    BY DEF OnWelcome
  <1> HIDE DEF u
  <1>5. /\ client' \in Client
        /\ Pinging(client')
        /\ Own(client')
        /\ client'.closed = u.closed
        /\ client'.seq = u.seq + 1
    BY <1>1, <1>3, <1>4, RoundFacts
  <1>6. now' = now /\ up' = up
    BY DEF OnWelcome
  <1>7. client.seq \in Nat
    BY <1>1 DEF Client
  <1>8. sent' = <<client'.seq>>
    BY <1>2 DEF OnWelcome, Greeting
  <1>9. sent' \in Seq(Nat) /\ Welcomed'
    BY <1>3, <1>5, <1>7, <1>8 DEF Welcomed, Hello
  <1> QED
    BY <1>1, <1>2, <1>3, <1>5, <1>6, <1>9
    DEF IInv, TypeOK, Greeting, Connected, Pinging, Runs, Own, Renewing

\* The end of a ping, answered or not: u is the client without its timer.
LEMMA EndOfPing ==
  ASSUME NEW s \in Client, now \in Nat, Own(s), Pinging(s),
         NEW u \in Client, u.timers = {}, u.awaiting = NoSeq, Own(u),
         u.closed = s.closed, u.seq = s.seq, u.roundSent = s.roundSent,
         u.accepted = s.accepted, u.roundAt = s.roundAt,
         u.roundFirst = s.roundFirst, u.steady = s.steady
  PROVE  /\ Advanced(u) \in Client
         /\ Pausing(Advanced(u)) \/ Resting(Advanced(u))
         /\ Own(Advanced(u))
         /\ Advanced(u).closed = s.closed
  <1>1. Renewing(u) /\ u.roundFirst <= u.seq /\ u.roundSent >= 1
    BY DEF Pinging, Renewing
  <1>2. /\ s.field["pingTimeout"].due \in Nat
        /\ s.roundSent \in 0..Samples
        /\ s.roundAt \in Nat
    BY DEF Client, Kind, Timer
  <1>3. Left(s.roundSent) \in Nat /\ LongestRound \in Nat
    BY <1>2, LeftFacts
  <1>4. now + Left(u.roundSent) <= u.roundAt + LongestRound
    BY <1>2, <1>3 DEF Pinging, Runs
  <1> QED
    BY <1>1, <1>4, AdvancedFacts

LEMMA ResponseStep ==
  ASSUME IInv, NEW r \in Rtt, OnClockResponse(r)
  PROVE  IInv'
  <1>1. /\ now \in Nat /\ client \in Client /\ sent \in Seq(Nat)
        /\ up \in BOOLEAN /\ sent # <<>> /\ Own(client)
    BY DEF IInv, TypeOK, OnClockResponse
  <1>2. Connected
    <2>1. ~Over /\ ~Disconnected
      BY <1>1 DEF Over, Disconnected
    <2>2. ~Greeting
      BY DEF OnClockResponse, Greeting
    <2> QED
      BY <2>1, <2>2 DEF IInv
  <1>3. /\ sent' \in Seq(Nat) /\ Welcomed' /\ Head(sent) \in Nat
        /\ Head(sent) # Hello
    BY <1>1, <1>2, TailPing DEF Connected, Welcomed, OnClockResponse
  <1>4. now' = now /\ up' = up
    BY DEF OnClockResponse
  <1>5. CASE ~Awaited(Head(sent))
    <2>1. client' = client
      BY <1>5 DEF OnClockResponse
    <2> QED
      BY <1>1, <1>2, <1>3, <1>4, <2>1
      DEF IInv, TypeOK, Connected, Pinging, Pausing, Resting, Runs, Own, Renewing
  <1>6. CASE Awaited(Head(sent))
    <2> DEFINE q == Head(sent)
               x == [seq |-> q, rtt |-> r]
               u == Settled(client)
               w == Sampled(u, q, r)
    <2>1. Pinging(client) /\ q = client.seq
      BY <1>2, <1>3, <1>6
      DEF Awaited, Connected, Pausing, Resting, Pinging, NoSeq, Hello
    <2>2. /\ u \in Client /\ u.timers = {} /\ u.awaiting = NoSeq
          /\ u.closed = client.closed /\ u.seq = client.seq
          /\ u.roundSent = client.roundSent /\ u.accepted = client.accepted
          /\ u.roundAt = client.roundAt /\ u.roundFirst = client.roundFirst
          /\ u.steady = client.steady /\ u.samples = client.samples
      BY <1>1, <2>1 DEF Settled, Pinging, Runs, Client, NoSeq
    <2> HIDE DEF u
    <2>3. client.seq \in client.roundFirst..client.seq
      BY <1>1, <2>1 DEF Pinging, Client
    <2>4. /\ w \in Client /\ w.timers = {} /\ w.awaiting = NoSeq
          /\ w.closed = client.closed /\ w.seq = client.seq
          /\ w.roundSent = client.roundSent /\ w.accepted = client.accepted
          /\ w.roundAt = client.roundAt /\ w.roundFirst = client.roundFirst
          /\ w.steady = client.steady
          /\ w.samples \subseteq client.samples \cup {x}
      <3>1. CASE r < 0
        BY <2>2, <3>1 DEF Sampled
      <3>2. CASE ~(r < 0)
        <4>1. x \in [seq: Nat, rtt: Rtt \cap Nat]
          BY <1>3, <3>2, ClientAssumption
        <4>2. w = [u EXCEPT !.samples = @ \cup {x}]
          BY <3>2 DEF Sampled
        <4> HIDE DEF x, w
        <4> QED
          BY <2>2, <4>1, <4>2 DEF Client
      <3> QED
        BY <3>1, <3>2
    <2>5. Own(w)
      BY <1>1, <2>1, <2>3, <2>4 DEF Own
    <2>6. client' = Advanced(w)
      BY <1>6 DEF OnClockResponse, u
    <2> HIDE DEF w
    <2>7. /\ client' \in Client
          /\ Pausing(client') \/ Resting(client')
          /\ Own(client')
          /\ client'.closed = client.closed
      BY <1>1, <2>1, <2>4, <2>5, <2>6, EndOfPing
    <2> QED
      BY <1>1, <1>2, <1>3, <1>4, <2>7
      DEF IInv, TypeOK, Connected, Pausing, Resting, Runs, Own, Renewing
  <1> QED
    BY <1>5, <1>6

\* The timer of a client that runs is the one its field names.
LEMMA TheTimer ==
  ASSUME IInv, NEW t \in client.timers
  PROVE  /\ Connected \/ Disconnected
         /\ client.timers = {client.field[t.kind]} /\ t = client.field[t.kind]
         /\ t.kind = "pingTimeout" => Connected /\ Pinging(client)
         /\ t.kind = "nextPing" => Connected /\ Pausing(client)
         /\ t.kind = "resync" => Connected /\ Resting(client)
         /\ t.kind = "reconnect" => Disconnected
  BY DEF IInv, Over, Greeting, Connected, Disconnected, Pinging, Pausing,
         Resting, Waiting, Runs

LEMMA WithoutFacts ==
  ASSUME NEW t \in client.timers, client \in Client, client.timers = {t}
  PROVE  /\ Without(t) = [client EXCEPT !.timers = {}]
         /\ Without(t) \in Client
  BY DEF Without, Client

LEMMA NoPing == <<>> \in Seq(Nat)
  OBVIOUS

LEMMA DisconnectStep == IInv /\ OnDisconnect => IInv'
  <1> SUFFICES ASSUME IInv, OnDisconnect PROVE IInv'
    OBVIOUS
  <1>1. now \in Nat /\ client \in Client /\ Own(client) /\ ~client.closed
    BY DEF IInv, TypeOK, OnDisconnect, Over, Greeting, Connected, Disconnected
  <1>2. \E k \in Kind : client.timers \subseteq {client.field[k]}
    BY DEF IInv, OnDisconnect, Over, Greeting, Connected, Disconnected,
           Pinging, Pausing, Resting, Runs, Kind
  <1> DEFINE a == IF client.attempt < MaxAttempt THEN client.attempt + 1
                  ELSE MaxAttempt
             c == [client EXCEPT !.timers = {}]
             u == [CancelTimers(client) EXCEPT !.awaiting = NoSeq, !.attempt = a,
                                               !.steady = FALSE]
  <1>3. CancelTimers(client) = c /\ c \in Client
    BY <1>1, <1>2, CancelTimersFacts
  <1>4. a \in 1..MaxAttempt /\ a \in 0..MaxAttempt
    <2>1. client.attempt \in 0..MaxAttempt
      BY <1>1 DEF Client
    <2> QED
      BY <2>1, ClientAssumption
  <1>5. PICK d \in Delay[a] : client' = StartTimer(u, "reconnect", d)
    BY DEF OnDisconnect
  <1>6. now' = now /\ up' = FALSE /\ sent' = <<>>
    BY DEF OnDisconnect
  <1>7. d \in Nat
    BY <1>4, <1>5, ClientAssumption
  <1> HIDE DEF a
  <1>8. /\ u \in Client /\ u.timers = {} /\ u.awaiting = NoSeq /\ ~u.steady
        /\ u.closed = client.closed /\ u.seq = client.seq
        /\ u.samples = client.samples /\ u.roundFirst = client.roundFirst
    BY <1>1, <1>3, <1>4 DEF Client, NoSeq
  <1> HIDE DEF u
  <1>9. /\ client' \in Client /\ Runs(client', "reconnect")
        /\ client'.awaiting = NoSeq /\ ~client'.steady /\ ~client'.closed
        /\ client'.seq = client.seq /\ client'.samples = client.samples
        /\ client'.roundFirst = client.roundFirst
    <2>1. "reconnect" \in Kind
      BY DEF Kind
    <2> QED
      BY <1>1, <1>5, <1>7, <1>8, <2>1, StartTimerFacts
  <1>10. Own(client)'
    BY <1>1, <1>9 DEF Own
  <1>11. TypeOK'
    BY <1>1, <1>6, <1>9, NoPing DEF TypeOK
  <1>12. Disconnected'
    BY <1>6, <1>9 DEF Disconnected, Waiting, Runs
  <1> QED
    BY <1>10, <1>11, <1>12 DEF IInv

LEMMA CloseStep == IInv /\ Close => IInv'
  <1> SUFFICES ASSUME IInv, Close PROVE IInv'
    OBVIOUS
  <1>1. now \in Nat /\ client \in Client /\ Own(client)
    BY DEF IInv, TypeOK
  <1>2. \E k \in Kind : client.timers \subseteq {client.field[k]}
    BY DEF IInv, Close, Over, Greeting, Connected, Disconnected, Pinging,
           Pausing, Resting, Waiting, Runs, Kind
  <1> DEFINE c == [client EXCEPT !.timers = {}]
  <1>3. CancelTimers(client) = c /\ c \in Client
    BY <1>1, <1>2, CancelTimersFacts
  <1>4. client' = [c EXCEPT !.closed = TRUE, !.steady = FALSE]
    BY <1>3 DEF Close
  <1>5. now' = now /\ up' = FALSE /\ sent' = <<>>
    BY DEF Close
  <1>6. /\ client' \in Client /\ client'.closed /\ ~client'.steady
        /\ client'.timers = {} /\ client'.samples = client.samples
        /\ client'.seq = client.seq /\ client'.roundFirst = client.roundFirst
    BY <1>1, <1>4 DEF Client
  <1> HIDE DEF c
  <1>7. Own(client)'
    BY <1>1, <1>6 DEF Own
  <1>8. TypeOK' /\ Over'
    BY <1>1, <1>5, <1>6, NoPing DEF TypeOK, Over
  <1> QED
    BY <1>7, <1>8 DEF IInv

LEMMA TimeoutStep ==
  ASSUME IInv, NEW t \in client.timers, OnPingTimeout(t)
  PROVE  IInv'
  <1>1. /\ now \in Nat /\ client \in Client /\ sent \in Seq(Nat)
        /\ up \in BOOLEAN /\ Own(client)
    BY DEF IInv, TypeOK
  <1>2. Connected /\ Pinging(client) /\ client.timers = {t}
    BY TheTimer DEF OnPingTimeout
  <1>3. now' = now /\ up' = up /\ sent' = sent
    BY DEF OnPingTimeout
  <1> DEFINE u == [Without(t) EXCEPT !.awaiting = NoSeq]
  <1>4. client' = Advanced(u)
    BY <1>2 DEF OnPingTimeout, Pinging
  <1>5. /\ u \in Client /\ u.timers = {} /\ u.awaiting = NoSeq
        /\ u.closed = client.closed /\ u.seq = client.seq
        /\ u.roundSent = client.roundSent /\ u.accepted = client.accepted
        /\ u.roundAt = client.roundAt /\ u.roundFirst = client.roundFirst
        /\ u.steady = client.steady /\ u.samples = client.samples
    BY <1>1, <1>2, WithoutFacts DEF Client, NoSeq
  <1> HIDE DEF u
  <1>6. Own(u)
    BY <1>1, <1>5 DEF Own
  <1>7. /\ client' \in Client
        /\ Pausing(client') \/ Resting(client')
        /\ Own(client')
        /\ client'.closed = client.closed
    BY <1>1, <1>2, <1>4, <1>5, <1>6, EndOfPing
  <1> QED
    BY <1>1, <1>2, <1>3, <1>7
    DEF IInv, TypeOK, Connected, Welcomed, Pausing, Resting, Runs, Own, Renewing

LEMMA PingDueStep ==
  ASSUME IInv, NEW t \in client.timers, OnPingDue(t)
  PROVE  IInv'
  <1>1. /\ now \in Nat /\ client \in Client /\ sent \in Seq(Nat)
        /\ up \in BOOLEAN /\ Own(client)
    BY DEF IInv, TypeOK
  <1>2. /\ t.kind \in {"nextPing", "resync"} /\ now >= t.due
        /\ now' = now /\ up' = up /\ sent' = Append(sent, client'.seq)
    BY DEF OnPingDue, Expired
  <1>3. /\ Connected /\ client.timers = {t} /\ t = client.field[t.kind]
        /\ now <= t.due
    BY <1>2, TheTimer DEF Pausing, Resting, Runs
  <1> DEFINE u == Without(t)
  <1>4. /\ u \in Client /\ u.timers = {} /\ u.awaiting = client.awaiting
        /\ u.closed = client.closed /\ u.seq = client.seq
        /\ u.roundSent = client.roundSent /\ u.accepted = client.accepted
        /\ u.roundAt = client.roundAt /\ u.roundFirst = client.roundFirst
        /\ u.steady = client.steady /\ u.samples = client.samples
    BY <1>1, <1>3, WithoutFacts DEF Client
  <1>5. t.due \in Nat /\ client.seq \in Nat
    BY <1>1 DEF Client, Timer
  <1>6. /\ client' \in Client /\ Pinging(client') /\ Own(client')
        /\ client'.closed = client.closed /\ client'.seq = client.seq + 1
    <2>1. CASE t.kind = "nextPing"
      <3>1. client' = SentPing(u)
        BY <2>1 DEF OnPingDue
      <3>2. Pausing(client)
        BY <2>1, TheTimer
      <3> HIDE DEF u
      <3>3. u.roundSent < Samples /\ Own(u) /\ Renewing(u)
        BY <1>1, <1>4, <3>2 DEF Pausing, Own, Renewing
      <3>4. u.roundFirst <= u.seq + 1
        <4>1. client.roundFirst \in Nat /\ client.roundFirst <= client.seq
          BY <1>1, <3>2 DEF Client, Pausing
        <4> QED
          BY <1>4, <1>5, <4>1
      <3>5. now + Timeout + Left(u.roundSent + 1) <= u.roundAt + LongestRound
        <4>1. client.roundSent \in 0..Samples /\ client.roundAt \in Nat
          BY <1>1 DEF Client
        <4>2. client.roundSent < Samples
          BY <3>2 DEF Pausing
        <4>3. Timeout \in Nat /\ Samples \in Nat /\ LongestRound \in Nat
          BY ClientAssumption, LeftFacts
        <4>4. client.roundSent + 1 \in 0..Samples
          BY <4>1, <4>2, <4>3
        <4>5. Left(client.roundSent + 1) \in Nat
          BY <4>4, LeftFacts
        <4>6. t.due + Timeout + Left(client.roundSent + 1)
                <= client.roundAt + LongestRound
          BY <1>3, <2>1, <3>2 DEF Pausing
        <4> QED
          BY <1>1, <1>3, <1>4, <1>5, <4>1, <4>3, <4>5, <4>6
      <3> QED
        BY <1>1, <1>4, <3>1, <3>3, <3>4, <3>5, SentPingFacts
    <2>2. CASE t.kind = "resync"
      <3>1. client' = Round(u)
        BY <2>2 DEF OnPingDue
      <3>2. Resting(client)
        BY <2>2, TheTimer
      <3> HIDE DEF u
      <3>3. u.steady => \E a \in u.accepted : now <= a.at + Period
        <4> SUFFICES ASSUME client.steady
                     PROVE  \E a \in client.accepted : now <= a.at + Period
          BY <1>4
        <4>1. PICK a \in client.accepted : t.due <= a.at + Period
          BY <1>3, <2>2, <3>2 DEF Resting
        <4>2. a.at \in Nat
          BY <1>1 DEF Client
        <4>3. Period \in Nat
          BY ClientAssumption DEF Period
        <4>4. now <= a.at + Period
          BY <1>1, <1>3, <1>5, <4>1, <4>2, <4>3
        <4> QED
          BY <4>4
      <3> QED
        BY <1>1, <1>4, <3>1, <3>3, RoundFacts
    <2> QED
      BY <1>2, <2>1, <2>2
  <1>7. sent' \in Seq(Nat) /\ Welcomed'
    <2>1. client'.seq \in Nat /\ client'.seq # Hello
      BY <1>5, <1>6 DEF Hello
    <2>2. \A i \in 1..Len(sent) : sent[i] # Hello
      BY <1>3 DEF Connected, Welcomed
    <2> QED
      BY <1>1, <1>2, <2>1, <2>2, AppendPing DEF Welcomed
  <1> QED
    BY <1>1, <1>2, <1>3, <1>6, <1>7
    DEF IInv, TypeOK, Connected, Pinging, Runs, Own, Renewing

LEMMA ReconnectStep ==
  ASSUME IInv, NEW t \in client.timers, OnReconnect(t)
  PROVE  IInv'
  <1>1. now \in Nat /\ client \in Client /\ Own(client)
    BY DEF IInv, TypeOK
  <1>2. /\ t.kind = "reconnect" /\ client' = Without(t)
        /\ now' = now /\ up' = TRUE /\ sent' = <<Hello>>
    BY DEF OnReconnect
  <1>3. Disconnected /\ client.timers = {t}
    BY <1>2, TheTimer
  <1>4. client' = [client EXCEPT !.timers = {}] /\ client' \in Client
    BY <1>1, <1>2, <1>3, WithoutFacts
  <1>5. /\ client'.timers = {} /\ client'.closed = client.closed
        /\ client'.awaiting = client.awaiting /\ client'.steady = client.steady
        /\ client'.samples = client.samples /\ client'.seq = client.seq
        /\ client'.roundFirst = client.roundFirst
    BY <1>1, <1>4 DEF Client
  <1>6. sent' \in Seq(Nat)
    BY <1>2 DEF Hello
  <1> QED
    BY <1>1, <1>2, <1>3, <1>4, <1>5, <1>6
    DEF IInv, TypeOK, Own, Greeting, Disconnected, Waiting

LEMMA TickStep == IInv /\ Tick => IInv'
  <1> SUFFICES ASSUME IInv, Tick PROVE IInv'
    OBVIOUS
  <1>1. now \in Nat /\ now' = now + 1 /\ now' \in Nat
        /\ client' = client /\ up' = up /\ sent' = sent
    BY DEF Tick, IInv, TypeOK
  <1>2. \A t \in client.timers : now + 1 <= t.due
    BY <1>1 DEF Tick, IInv, TypeOK, Client, Timer
  <1>3. ASSUME NEW k \in Kind, Runs(client, k) PROVE Runs(client, k)'
    BY <1>1, <1>2, <1>3 DEF Runs
  <1>4. /\ Pinging(client) => Pinging(client)'
        /\ Pausing(client) => Pausing(client)'
        /\ Resting(client) => Resting(client)'
        /\ Waiting(client) => Waiting(client)'
    BY <1>1, <1>3 DEF Pinging, Pausing, Resting, Waiting, Renewing, Kind
  <1> QED
    BY <1>1, <1>4
    DEF IInv, TypeOK, Own, Over, Greeting, Connected, Welcomed, Disconnected

LEMMA StutterStep == IInv /\ UNCHANGED vars => IInv'
  BY DEF vars, IInv, TypeOK, Own, Over, Greeting, Connected, Welcomed,
         Disconnected, Pinging, Pausing, Resting, Waiting, Runs, Renewing

LEMMA NextInv == IInv /\ [Next]_vars => IInv'
  <1> SUFFICES ASSUME IInv, [Next]_vars PROVE IInv'
    OBVIOUS
  <1>1. CASE OnWelcome
    BY <1>1, WelcomeStep
  <1>2. CASE OnDisconnect
    BY <1>2, DisconnectStep
  <1>3. CASE Close
    BY <1>3, CloseStep
  <1>4. ASSUME NEW r \in Rtt, OnClockResponse(r) PROVE IInv'
    BY <1>4, ResponseStep
  <1>5. ASSUME NEW t \in client.timers, OnPingTimeout(t) PROVE IInv'
    BY <1>5, TimeoutStep
  <1>6. ASSUME NEW t \in client.timers, OnPingDue(t) PROVE IInv'
    BY <1>6, PingDueStep
  <1>7. ASSUME NEW t \in client.timers, OnReconnect(t) PROVE IInv'
    BY <1>7, ReconnectStep
  <1>8. CASE Tick
    BY <1>8, TickStep
  <1>9. CASE UNCHANGED vars
    BY <1>9, StutterStep
  <1> QED
    BY <1>1, <1>2, <1>3, <1>4, <1>5, <1>6, <1>7, <1>8, <1>9 DEF Next

LEMMA InvRoundEnds == IInv => RoundEnds
  <1> SUFFICES ASSUME IInv, InRound PROVE now <= client.roundAt + LongestRound
    BY DEF RoundEnds
  <1>1. /\ now \in Nat /\ client \in Client /\ LongestRound \in Nat
        /\ client.roundAt \in Nat /\ client.roundSent \in 0..Samples
        /\ client.field["pingTimeout"].due \in Nat
        /\ client.field["nextPing"].due \in Nat
    BY LeftFacts DEF IInv, TypeOK, Client, Kind, Timer
  <1>2. Pinging(client) \/ Pausing(client)
    BY DEF InRound, IInv, Over, Greeting, Connected, Disconnected, Resting,
           Waiting, Runs
  <1>3. CASE Pinging(client)
    <2>1. Left(client.roundSent) \in Nat
      BY <1>1, LeftFacts
    <2> QED
      BY <1>1, <1>3, <2>1 DEF Pinging, Runs
  <1>4. CASE Pausing(client)
    <2>1. Samples \in Nat /\ Timeout \in Nat
      BY ClientAssumption
    <2>2. Left(client.roundSent + 1) \in Nat
      BY <1>1, <1>4, <2>1, LeftFacts DEF Pausing
    <2> QED
      BY <1>1, <1>4, <2>1, <2>2 DEF Pausing, Runs
  <1> QED
    BY <1>2, <1>3, <1>4

-----------------------------------------------------------------------------
(* The theorems. *)

\* A client is closed, waits for the welcome, is in one of the three phases of
\* its rounds or waits to reconnect, and its timer is the one of that phase.
THEOREM ClientInvariant == Spec => []IInv
  BY InitInv, NextInv, PTL DEF Spec

\* The fields of the client keep their types: no sequence number, count of
\* pings or attempt leaves its range.
THEOREM ClientTypeCorrect == Spec => []TypeOK
  <1>1. IInv => TypeOK
    BY DEF IInv
  <1> QED
    BY <1>1, ClientInvariant, PTL

\* Whatever answers, timeouts, disconnects and close() have crossed, a client
\* that is neither closed nor waiting for its welcome has exactly one timer.
THEOREM OneTimerRuns == Spec => []OneTimer
  <1>1. IInv => OneTimer
    <2> SUFFICES ASSUME IInv PROVE OneTimer
      OBVIOUS
    <2>1. CASE Over
      BY <2>1 DEF Over, OneTimer
    <2>2. CASE Greeting
      BY <2>2 DEF Greeting, OneTimer
    <2>3. CASE Connected
      <3>1. sent # <<Hello>>
        BY <2>3 DEF Connected, Welcomed
      <3>2. \E k \in Kind : client.timers = {client.field[k]}
        BY <2>3 DEF Connected, Pinging, Pausing, Resting, Runs, Kind
      <3> QED
        BY <2>3, <3>1, <3>2 DEF Connected, OneTimer
    <2>4. CASE Disconnected
      <3>1. sent # <<Hello>>
        BY <2>4 DEF Disconnected
      <3>2. client.timers = {client.field["reconnect"]}
        BY <2>4 DEF Disconnected, Waiting, Runs
      <3> QED
        BY <2>4, <3>1, <3>2 DEF Disconnected, OneTimer
    <2> QED
      BY <2>1, <2>2, <2>3, <2>4 DEF IInv
  <1> QED
    BY <1>1, ClientInvariant, PTL

\* The estimator is fed with the answers to the pings of its own round only,
\* however late those of earlier rounds come in.
THEOREM RoundsUseOwnSamples == Spec => []OwnSamples
  <1>1. IInv => OwnSamples
    BY DEF IInv, Own, OwnSamples
  <1> QED
    BY <1>1, ClientInvariant, PTL

\* A round takes no longer than all its pings timing out, with the pauses
\* between them.
THEOREM RoundsEnd == Spec => []RoundEnds
  BY ClientInvariant, InvRoundEnds, PTL

\* While rounds bring estimates, the offset in use is never older than the
\* longest rest between two rounds and the longest round.
THEOREM OffsetStaysYoung == Spec => []OffsetAge
  <1>1. IInv => OffsetAge
    <2> SUFFICES ASSUME IInv, client.steady
                 PROVE  \E a \in client.accepted : now <= a.at + OldestOffset
      BY DEF OffsetAge
    <2>1. /\ now \in Nat /\ client.roundAt \in Nat
          /\ client.field["resync"].due \in Nat
          /\ \A a \in client.accepted : a.at \in Nat
      BY DEF IInv, TypeOK, Client, Kind, Timer
    <2>2. Period \in Nat /\ LongestRound \in Nat
      <3>1. Fresh \in Nat /\ Retry \in Nat /\ Resync \in Nat
        BY ClientAssumption
      <3>2. Period \in Nat
        BY <3>1 DEF Period
      <3> QED
        BY <3>2, LeftFacts
    <2>3. OldestOffset = LongestRound + Period
      BY DEF OldestOffset, Period
    <2>4. Connected
      BY DEF IInv, Over, Greeting, Disconnected, Waiting
    <2>5. CASE Resting(client)
      <3>1. PICK a \in client.accepted :
                client.field["resync"].due <= a.at + Period
        BY <2>5 DEF Resting
      <3>2. now <= client.field["resync"].due
        BY <2>5 DEF Resting, Runs
      <3> QED
        BY <2>1, <2>2, <2>3, <3>1, <3>2
    <2>6. CASE Pinging(client) \/ Pausing(client)
      <3>1. PICK a \in client.accepted : client.roundAt <= a.at + Period
        BY <2>6 DEF Pinging, Pausing, Renewing
      <3>2. InRound
        BY <2>4, <2>6 DEF InRound, Connected, Pinging, Pausing, Runs
      <3>3. now <= client.roundAt + LongestRound
        BY <3>2, InvRoundEnds DEF RoundEnds
      <3> QED
        BY <2>1, <2>2, <2>3, <3>1, <3>3
    <2> QED
      BY <2>4, <2>5, <2>6 DEF Connected
  <1> QED
    BY <1>1, ClientInvariant, PTL
=============================================================================
