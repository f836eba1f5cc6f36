-------------------------- MODULE CueFanout_proofs --------------------------
(***************************************************************************)
(* Proofs about CueFanout, for any number of nodes, runs, repeats and any  *)
(* timing TombstoneAssumption allows: types, and that a run stopped by     *)
(* name stays out of the memory of every node that has seen the stop.      *)
(***************************************************************************)
EXTENDS CueFanout, TLAPS

\* The latest moment a repeat of r can be cast, and be observed.
LastCast(r) == issued[r].at + (Repeats - 1) * Interval + Lag
LastSeen(r) == LastCast(r) + Lag

\* A pending repeat is not overdue by more than Lag.
Timely == \A r \in Run : /\ issued[r].at <= now
                         /\ Pending(r) => now <= Due(r) + Lag

\* Nor is a delivery; and what is delivered belongs to an issued run.
InFlight ==
    \A f \in flights :
        /\ f.at <= now
        /\ now <= f.at + Lag
        /\ f.frame.kind \in {"cue", "stop"}
        /\ f.frame.kind = "cue" => f.frame.run \in Run
        /\ f.frame.run \in Run =>
             /\ Issued(f.frame.run)
             /\ issued[f.frame.run].at <= f.at
             /\ f.frame.kind = "cue" => f.at <= LastCast(f.frame.run)

\* A tombstone was set after its run was issued.  When it is gone again, every
\* repeat of the run has been observed.
Stoned ==
    \A n \in Node, r \in Run : <<"stop", r>> \in seen[n] =>
        /\ Issued(r)
        /\ issued[r].at <= now
        /\ r \notin Held(store[n])
        /\ IF store[n].stopped[r] = Never THEN now > LastSeen(r)
           ELSE issued[r].at <= store[n].stopped[r]

IInv == TypeOK /\ Timely /\ InFlight /\ Stoned

-----------------------------------------------------------------------------
(* The memory. *)

LEMMA ObserveCueFacts ==
  ASSUME NEW st \in Store, NEW s \in Scope, NEW r \in Run, NEW t \in Nat
  PROVE  /\ ObserveCue(st, s, r, t) \in Store
         /\ ObserveCue(st, s, r, t).stopped = st.stopped
         /\ Held(ObserveCue(st, s, r, t)) \subseteq Held(st) \cup {r}
         /\ Dead(st, r, t) => ObserveCue(st, s, r, t) = st
  <1>1. CASE Dead(st, r, t)
    BY <1>1 DEF ObserveCue
  <1>2. CASE ~Dead(st, r, t)
    <2> DEFINE e == [run |-> r, at |-> t]
               new == [st EXCEPT !.runs[s] = e]
    <2>1. e \in Entry /\ e.run = r
      BY DEF Entry
    <2>2. new \in Store /\ new.stopped = st.stopped
      BY <2>1 DEF Store
    <2>3. \A q \in Scope : new.runs[q] = IF q = s THEN e ELSE st.runs[q]
      BY DEF Store
    <2>4. Held(new) \subseteq Held(st) \cup {r}
      BY <2>1, <2>3 DEF Held
    <2>5. ObserveCue(st, s, r, t) = new
      BY <1>2 DEF ObserveCue
    <2> QED
      BY <1>2, <2>2, <2>4, <2>5
  <1> QED
    BY <1>1, <1>2

LEMMA StonesFacts ==
  ASSUME NEW st \in Store, NEW r \in Run \cup {NoRun}, NEW t \in Nat
  PROVE  /\ Stones(st, r, t) \in [Run -> Nat \cup {Never}]
         /\ r \in Run => Stones(st, r, t)[r] = t
         /\ \A x \in Run : x # r =>
               \/ Stones(st, r, t)[x] = st.stopped[x]
               \/ Stones(st, r, t)[x] = Never /\ st.stopped[x] # Never
                  /\ t - st.stopped[x] > StopTombstone
  <1>1. CASE r = NoRun
    BY <1>1, StoreAssumption DEF Stones, Store
  <1>2. CASE r \in Run
    <2> DEFINE set == [st.stopped EXCEPT ![r] = t]
    <2>1. set \in [Run -> Nat \cup {Never}] /\ set[r] = t
      BY <1>2 DEF Store
    <2>2. \A x \in Run : x # r => set[x] = st.stopped[x]
      BY <1>2 DEF Store
    <2>3. Stones(st, r, t) = [x \in Run |-> IF set[x] # Never /\ t - set[x] > StopTombstone
                                            THEN Never ELSE set[x]]
      BY <1>2, StoreAssumption DEF Stones
    <2>4. ~(t - set[r] > StopTombstone)
      BY <2>1, StoreAssumption
    <2> HIDE DEF set
    <2>5. Stones(st, r, t) \in [Run -> Nat \cup {Never}]
      BY <2>1, <2>3
    <2>6. Stones(st, r, t)[r] = t
      BY <1>2, <2>1, <2>3, <2>4
    <2>7. \A x \in Run : x # r =>
               \/ Stones(st, r, t)[x] = st.stopped[x]
               \/ Stones(st, r, t)[x] = Never /\ st.stopped[x] # Never
                  /\ t - st.stopped[x] > StopTombstone
      BY <2>2, <2>3
    <2> QED
      BY <2>5, <2>6, <2>7
  <1> QED
    BY <1>1, <1>2

LEMMA ObserveStopFacts ==
  ASSUME NEW st \in Store, NEW s \in Scope, NEW r \in Run \cup {NoRun}, NEW t \in Nat
  PROVE  /\ ObserveStop(st, s, r, t) \in Store
         /\ ObserveStop(st, s, r, t).stopped = Stones(st, r, t)
         /\ Held(ObserveStop(st, s, r, t)) \subseteq Held(st) \ {r}
  <1> DEFINE new == ObserveStop(st, s, r, t)
  <1>1. NoEntry \in Entry /\ NoEntry.run = NoRun
    BY DEF NoEntry, Entry
  <1>2. new \in Store /\ new.stopped = Stones(st, r, t)
    BY <1>1, StonesFacts DEF ObserveStop, Store
  <1>3. \A q \in Scope : new.runs[q] = IF Ends(s, r, q, st.runs[q].run)
                                       THEN NoEntry ELSE st.runs[q]
    BY DEF ObserveStop
  <1>4. \A q \in Scope : new.runs[q].run \in {NoRun, st.runs[q].run} /\
                         (r # NoRun => new.runs[q].run # r)
    BY <1>1, <1>3 DEF Ends
  <1> QED
    BY <1>2, <1>4 DEF Held

-----------------------------------------------------------------------------
(* Type correctness. *)

LEMMA StoreInit == EmptyStore \in Store /\ Held(EmptyStore) = {}
  BY DEF EmptyStore, Store, NoEntry, Entry, Held

LEMMA TypeInit == Init => TypeOK
  BY StoreInit, FanoutAssumption DEF Init, TypeOK, Issue, Scope

\* What a delivery does to the memory of its node.
LEMMA ObserveType ==
  ASSUME TypeOK, InFlight, NEW f \in flights, NEW t \in f.at..now
  PROVE  /\ t \in Nat
         /\ f.node \in Node
         /\ f.frame.run \in Run \cup {NoRun}
         /\ f.frame.scope \in Scope
         /\ f.frame.kind = "cue" =>
               Observe(store[f.node], f.frame, t)
                 = ObserveCue(store[f.node], f.frame.scope, f.frame.run, t)
         /\ f.frame.kind = "stop" =>
               Observe(store[f.node], f.frame, t)
                 = ObserveStop(store[f.node], f.frame.scope, f.frame.run, t)
         /\ Observe(store[f.node], f.frame, t) \in Store
  <1>1. f \in Flight /\ now \in Nat
    BY DEF TypeOK
  <1>2. t \in Nat /\ f.node \in Node /\ f.frame.run \in Run \cup {NoRun}
        /\ f.frame.scope \in Scope /\ store[f.node] \in Store
    BY <1>1 DEF Flight, Frame, TypeOK
  <1>3. f.frame.kind \in {"cue", "stop"} /\ (f.frame.kind = "cue" => f.frame.run \in Run)
    BY DEF InFlight
  <1>4. CASE f.frame.kind = "cue"
    <2>1. Observe(store[f.node], f.frame, t)
            = ObserveCue(store[f.node], f.frame.scope, f.frame.run, t)
      BY <1>4 DEF Observe
    <2> QED
      BY <1>2, <1>3, <1>4, <2>1, ObserveCueFacts
  <1>5. CASE f.frame.kind = "stop"
    <2>1. Observe(store[f.node], f.frame, t)
            = ObserveStop(store[f.node], f.frame.scope, f.frame.run, t)
      BY <1>5 DEF Observe
    <2> QED
      BY <1>2, <1>5, <2>1, ObserveStopFacts
  <1> QED
    BY <1>3, <1>4, <1>5

LEMMA DeliveriesType ==
  ASSUME TypeOK, NEW f \in Frame, NEW seq \in Nat
  PROVE  Deliveries(f, seq) \subseteq Flight
  BY DEF TypeOK, Deliveries, Flight

LEMMA TypeStep == IInv /\ [Next]_vars => TypeOK'
  <1> SUFFICES ASSUME TypeOK, InFlight, [Next]_vars PROVE TypeOK'
    BY DEF IInv
  <1>1. CASE UNCHANGED vars
    BY <1>1 DEF TypeOK, vars, history
  <1>2. ASSUME NEW r \in Run, NEW n \in Node, NEW s \in Scope, IssueCue(n, r, s)
        PROVE  TypeOK'
    <2>1. [node |-> n, scope |-> s, at |-> now, fired |-> 0] \in Issue
      BY FanoutAssumption DEF TypeOK, Issue
    <2> QED
      BY <1>2, <2>1 DEF TypeOK, IssueCue, history
  <1>3. ASSUME NEW r \in Run, FireRepeat(r) PROVE TypeOK'
    <2>1. CueFrame(r) \in Frame
      BY DEF TypeOK, CueFrame, Frame, Issue
    <2>2. issued[r].fired + 1 \in 0..Repeats /\ issued[r].fired \in Nat
      BY <1>3, FanoutAssumption DEF TypeOK, FireRepeat, Pending, Issue
    <2>3. issued' \in [Run -> Issue]
      BY <1>3, <2>2 DEF TypeOK, FireRepeat, Issue
    <2>4. flights' \subseteq Flight
      BY <1>3, <2>1, <2>2, DeliveriesType DEF TypeOK, FireRepeat
    <2> QED
      BY <1>3, <2>3, <2>4 DEF TypeOK, FireRepeat, history
  <1>4. ASSUME NEW r \in Run \cup {NoRun}, NEW s \in Scope, CastStop(r, s) PROVE TypeOK'
    <2>1. [kind |-> "stop", run |-> r, scope |-> s] \in Frame
      BY DEF Frame
    <2> QED
      BY <1>4, <2>1, DeliveriesType DEF TypeOK, CastStop, history
  <1>5. ASSUME NEW f \in flights, ObserveFrame(f) PROVE TypeOK'
    <2>1. PICK t \in f.at..now :
            store' = [store EXCEPT ![f.node] = Observe(@, f.frame, t)]
      BY <1>5 DEF ObserveFrame
    <2>2. store' \in [Node -> Store]
      BY <2>1, ObserveType DEF TypeOK
    <2>3. <<f.frame.kind, f.frame.run>> \in {"cue", "stop"} \X (Run \cup {NoRun})
      BY <2>1, ObserveType DEF InFlight
    <2>4. seen' \in [Node -> SUBSET ({"cue", "stop"} \X (Run \cup {NoRun}))]
      BY <1>5, <2>3 DEF TypeOK, ObserveFrame
    <2>5. Held(store[f.node]) \subseteq Run
      BY <2>1, ObserveType DEF TypeOK, Held, Store, Entry
    <2>6. dropped' \in [Node -> SUBSET Run]
      BY <1>5, <2>5 DEF TypeOK, ObserveFrame
    <2> QED
      BY <1>5, <2>2, <2>4, <2>6 DEF TypeOK, ObserveFrame
  <1>6. ASSUME NEW f \in flights, Lose(f) PROVE TypeOK'
    BY <1>6 DEF TypeOK, Lose, history
  <1>7. ASSUME NEW n \in Node, Restart(n) PROVE TypeOK'
    <2>1. issued' \in [Run -> Issue]
      BY <1>7, FanoutAssumption DEF TypeOK, Restart, Issue
    <2> QED
      BY <1>7, <2>1, StoreInit DEF TypeOK, Restart
  <1>8. ASSUME Tick PROVE TypeOK'
    BY <1>8 DEF TypeOK, Tick, history
  <1> QED
    BY <1>1, <1>2, <1>3, <1>4, <1>5, <1>6, <1>7, <1>8 DEF Next

-----------------------------------------------------------------------------
(* The clock. *)

\* The last repeat is due (Repeats - 1) intervals after the cue.
LEMMA RepeatTimes ==
  ASSUME NEW k \in 0..(Repeats - 1)
  PROVE  /\ k * Interval \in Nat
         /\ (Repeats - 1) * Interval \in Nat
         /\ k * Interval <= (Repeats - 1) * Interval
         /\ (k + 1) * Interval = k * Interval + Interval
  <1>1. k \in Nat /\ Repeats - 1 \in Nat /\ Repeats - 1 - k \in Nat /\ Interval \in Nat
    BY FanoutAssumption
  <1>2. \A i, j \in Nat : i * j \in Nat /\ (i + 1) * j = i * j + j
    OBVIOUS
  <1>3. (Repeats - 1 - k) * Interval = (Repeats - 1) * Interval - k * Interval
    BY <1>1
  <1> QED
    BY <1>1, <1>2, <1>3

LEMMA TimelyInit == Init => Timely
  BY FanoutAssumption DEF Init, Timely, Pending, Issued

\* A repeat that is pending is cast no later than LastCast.
LEMMA RepeatInTime ==
  ASSUME TypeOK, Timely, NEW r \in Run, Pending(r)
  PROVE  /\ issued[r].at \in Nat
         /\ issued[r].fired \in 0..(Repeats - 1)
         /\ now <= LastCast(r)
  <1>1. issued[r].at \in Nat /\ issued[r].fired \in 0..(Repeats - 1)
    BY FanoutAssumption DEF TypeOK, Issue, Pending
  <1>2. now <= issued[r].at + issued[r].fired * Interval + Lag
    BY DEF Timely, Due
  <1>3. now \in Nat /\ Lag \in Nat
    BY FanoutAssumption DEF TypeOK
  <1> DEFINE a == issued[r].at
             x == issued[r].fired * Interval
             y == (Repeats - 1) * Interval
  <1>4. x \in Nat /\ y \in Nat /\ x <= y
    BY <1>1, RepeatTimes
  <1>5. a \in Nat /\ now <= a + x + Lag
    BY <1>1, <1>2
  <1> HIDE DEF a, x, y
  <1>6. now <= a + y + Lag
    BY <1>3, <1>4, <1>5
  <1> QED
    BY <1>1, <1>6 DEF LastCast, a, y

\* What a run was issued with never changes, and time does not go back.
LEMMA IssuedStable ==
  ASSUME TypeOK, [Next]_vars
  PROVE  /\ now' \in Nat /\ now <= now'
         /\ \A r \in Run : Issued(r) => /\ Issued(r)'
                                        /\ issued'[r].at = issued[r].at
  <1> USE DEF Issued
  <1>1. CASE UNCHANGED vars
    BY <1>1 DEF TypeOK, vars
  <1>2. ASSUME NEW r \in Run, NEW n \in Node, NEW s \in Scope, IssueCue(n, r, s)
        PROVE  /\ now' \in Nat /\ now <= now'
               /\ \A q \in Run : Issued(q) => /\ Issued(q)'
                                              /\ issued'[q].at = issued[q].at
    BY <1>2 DEF TypeOK, IssueCue
  <1>3. ASSUME NEW r \in Run, FireRepeat(r)
        PROVE  /\ now' \in Nat /\ now <= now'
               /\ \A q \in Run : Issued(q) => /\ Issued(q)'
                                              /\ issued'[q].at = issued[q].at
    BY <1>3 DEF TypeOK, FireRepeat, Issue
  <1>4. ASSUME NEW r \in Run \cup {NoRun}, NEW s \in Scope, CastStop(r, s)
        PROVE  UNCHANGED <<now, issued>>
    BY <1>4 DEF CastStop
  <1>5. ASSUME NEW f \in flights, ObserveFrame(f) \/ Lose(f)
        PROVE  UNCHANGED <<now, issued>>
    BY <1>5 DEF ObserveFrame, Lose
  <1>6. ASSUME NEW n \in Node, Restart(n)
        PROVE  /\ now' \in Nat /\ now <= now'
               /\ \A q \in Run : Issued(q) => /\ Issued(q)'
                                              /\ issued'[q].at = issued[q].at
    BY <1>6 DEF TypeOK, Restart, Issue
  <1>7. ASSUME Tick
        PROVE  now' \in Nat /\ now <= now' /\ issued' = issued
    BY <1>7 DEF TypeOK, Tick
  <1>8. now \in Nat
    BY DEF TypeOK
  <1> QED
    BY <1>1, <1>2, <1>3, <1>4, <1>5, <1>6, <1>7, <1>8 DEF Next

LEMMA TimelyStep == IInv /\ [Next]_vars => Timely'
  <1> SUFFICES ASSUME TypeOK, Timely, [Next]_vars PROVE Timely'
    BY DEF IInv
  <1> USE DEF Timely, Pending, Issued, Due
  <1>1. CASE UNCHANGED vars
    BY <1>1 DEF vars
  <1>2. ASSUME NEW r \in Run, NEW n \in Node, NEW s \in Scope, IssueCue(n, r, s)
        PROVE  Timely'
    <2>1. issued'[r].at = now /\ issued'[r].fired = 0 /\ now' = now
      BY <1>2 DEF TypeOK, IssueCue
    <2>2. \A q \in Run \ {r} : issued'[q] = issued[q]
      BY <1>2 DEF TypeOK, IssueCue
    <2>3. now <= now + 0 * Interval + Lag
      BY FanoutAssumption DEF TypeOK
    <2>4. now <= now
      BY DEF TypeOK
    <2> QED
      BY <2>1, <2>2, <2>3, <2>4
  <1>3. ASSUME NEW r \in Run, FireRepeat(r) PROVE Timely'
    <2>1. issued[r].at \in Nat /\ issued[r].fired \in 0..(Repeats - 1) /\ Pending(r)
      BY <1>3, RepeatInTime DEF FireRepeat
    <2>2. issued'[r].at = issued[r].at /\ issued'[r].fired = issued[r].fired + 1 /\ now' = now
      BY <1>3 DEF TypeOK, FireRepeat, Issue
    <2>3. \A q \in Run \ {r} : issued'[q] = issued[q]
      BY <1>3 DEF TypeOK, FireRepeat
    <2> DEFINE x == issued[r].fired * Interval
               y == (issued[r].fired + 1) * Interval
               a == issued[r].at
    <2>4. x \in Nat /\ y = x + Interval /\ Interval \in Nat /\ Lag \in Nat /\ now \in Nat
      BY <2>1, RepeatTimes, FanoutAssumption DEF TypeOK
    <2>5. now <= a + x + Lag /\ a \in Nat
      BY <2>1
    <2>6. now <= a + y + Lag
      <3> HIDE DEF x, y, a
      <3> QED BY <2>4, <2>5
    <2> QED
      BY <2>2, <2>3, <2>6
  <1>4. ASSUME NEW r \in Run \cup {NoRun}, NEW s \in Scope, CastStop(r, s) PROVE Timely'
    BY <1>4 DEF CastStop
  <1>5. ASSUME NEW f \in flights, ObserveFrame(f) \/ Lose(f) PROVE Timely'
    BY <1>5 DEF ObserveFrame, Lose
  <1>6. ASSUME NEW n \in Node, Restart(n) PROVE Timely'
    <2>1. \A q \in Run : /\ issued'[q].at = issued[q].at
                         /\ issued'[q] = issued[q] \/ issued'[q].fired = Repeats
      BY <1>6 DEF TypeOK, Restart, Issue
    <2>2. now' = now /\ ~(Repeats < Repeats)
      BY <1>6, FanoutAssumption DEF Restart
    <2> QED
      BY <2>1, <2>2
  <1>7. ASSUME Tick PROVE Timely'
    <2>1. now' = now + 1 /\ now \in Nat /\ issued' = issued
      BY <1>7 DEF Tick, TypeOK
    <2>2. \A q \in Run : issued[q].at \in Nat
      BY DEF TypeOK, Issue
    <2>3. \A q \in Run : issued[q].at <= now + 1
      BY <2>1, <2>2
    <2>4. ASSUME NEW q \in Run, Pending(q) PROVE now + 1 <= Due(q) + Lag
      <3>1. issued[q].at \in Nat /\ issued[q].fired \in 0..(Repeats - 1)
        BY <2>4, RepeatInTime
      <3>2. issued[q].fired * Interval \in Nat
        BY <3>1, RepeatTimes
      <3>3. now < Due(q) + Lag
        BY <1>7, <2>4 DEF Tick
      <3> DEFINE d == Due(q) + Lag
      <3>4. d \in Nat
        BY <3>1, <3>2, FanoutAssumption
      <3> HIDE DEF d
      <3>5. now < d => now + 1 <= d
        BY <2>1, <3>4
      <3> QED
        BY <3>3, <3>5 DEF d
    <2> QED
      BY <2>1, <2>3, <2>4
  <1> QED
    BY <1>1, <1>2, <1>3, <1>4, <1>5, <1>6, <1>7 DEF Next

-----------------------------------------------------------------------------
(* Deliveries. *)

\* InFlight of one delivery.
FlightOK(f) ==
    /\ f.at <= now
    /\ now <= f.at + Lag
    /\ f.frame.kind \in {"cue", "stop"}
    /\ f.frame.kind = "cue" => f.frame.run \in Run
    /\ f.frame.run \in Run =>
         /\ Issued(f.frame.run)
         /\ issued[f.frame.run].at <= f.at
         /\ f.frame.kind = "cue" => f.at <= LastCast(f.frame.run)

\* A delivery that stays on its way stays in time, unless the clock moves.
LEMMA FlightStays ==
  ASSUME TypeOK, [Next]_vars, now' = now, NEW f, FlightOK(f)
  PROVE  FlightOK(f)'
  BY IssuedStable DEF FlightOK, LastCast

\* What is cast now is in time.
LEMMA FlightCast ==
  ASSUME TypeOK, NEW fr \in Frame, NEW seq, NEW f \in Deliveries(fr, seq)
  PROVE  f.at = now /\ f.frame = fr /\ f.at <= now /\ now <= f.at + Lag
  <1>1. f.at = now /\ f.frame = fr
    BY DEF Deliveries
  <1> QED
    BY <1>1, FanoutAssumption DEF TypeOK

LEMMA InFlightStep == IInv /\ [Next]_vars => InFlight'
  <1> SUFFICES ASSUME TypeOK, Timely, InFlight, [Next]_vars PROVE InFlight'
    BY DEF IInv
  <1>0. \A f \in flights : FlightOK(f)
    BY DEF InFlight, FlightOK
  <1>s. (\A f \in flights' : FlightOK(f)') => InFlight'
    BY DEF InFlight, FlightOK
  <1>k. ASSUME now' = now, flights' \subseteq flights PROVE InFlight'
    BY <1>0, <1>s, <1>k, FlightStays
  <1>1. CASE UNCHANGED vars
    BY <1>1, <1>k DEF vars
  <1>2. ASSUME NEW r \in Run, NEW n \in Node, NEW s \in Scope, IssueCue(n, r, s)
        PROVE  InFlight'
    BY <1>2, <1>k DEF IssueCue
  <1>3. ASSUME NEW r \in Run, FireRepeat(r) PROVE InFlight'
    <2>1. now' = now /\ Pending(r) /\ now <= LastCast(r)
      BY <1>3, RepeatInTime DEF FireRepeat
    <2>2. CueFrame(r) \in Frame /\ CueFrame(r).run = r /\ CueFrame(r).kind = "cue"
      BY DEF TypeOK, CueFrame, Frame, Issue
    <2>3. ASSUME NEW f \in Deliveries(CueFrame(r), issued[r].fired)
          PROVE  FlightOK(f)
      <3>1. f.at = now /\ f.frame = CueFrame(r) /\ f.at <= now /\ now <= f.at + Lag
        BY <2>2, FlightCast
      <3> QED
        BY <2>1, <2>2, <3>1 DEF FlightOK, Timely, Pending
    <2>4. \A f \in flights' : FlightOK(f)
      BY <1>0, <1>3, <2>3 DEF FireRepeat
    <2> QED
      BY <1>s, <2>1, <2>4, FlightStays
  <1>4. ASSUME NEW r \in Run \cup {NoRun}, NEW s \in Scope, CastStop(r, s) PROVE InFlight'
    <2> DEFINE fr == [kind |-> "stop", run |-> r, scope |-> s]
    <2>1. now' = now /\ (r \in Run => Issued(r)) /\ fr \in Frame
      BY <1>4 DEF CastStop, Frame
    <2>2. ASSUME NEW f \in Deliveries(fr, stops) PROVE FlightOK(f)
      <3>1. f.at = now /\ f.frame = fr /\ f.at <= now /\ now <= f.at + Lag
        BY <2>1, FlightCast
      <3> QED
        BY <2>1, <3>1 DEF FlightOK, Timely
    <2>3. \A f \in flights' : FlightOK(f)
      BY <1>0, <1>4, <2>2 DEF CastStop
    <2> QED
      BY <1>s, <2>1, <2>3, FlightStays
  <1>5. ASSUME NEW f \in flights, ObserveFrame(f) \/ Lose(f) PROVE InFlight'
    BY <1>5, <1>k DEF ObserveFrame, Lose
  <1>6. ASSUME NEW n \in Node, Restart(n) PROVE InFlight'
    BY <1>6, <1>k DEF Restart
  <1>7. ASSUME Tick PROVE InFlight'
    <2>1. now' = now + 1 /\ now \in Nat /\ issued' = issued /\ flights' = flights
      BY <1>7 DEF Tick, TypeOK
    <2>2. ASSUME NEW f \in flights PROVE FlightOK(f)'
      <3>1. f.at \in Nat /\ now < f.at + Lag /\ Lag \in Nat
        BY <1>7, FanoutAssumption DEF Tick, TypeOK, Flight
      <3>2. now + 1 <= f.at + Lag /\ f.at <= now + 1
        BY <1>0, <2>1, <3>1 DEF FlightOK
      <3> QED
        BY <1>0, <2>1, <3>2 DEF FlightOK, Issued, LastCast
    <2> QED
      BY <1>s, <2>1, <2>2
  <1> QED
    BY <1>1, <1>2, <1>3, <1>4, <1>5, <1>6, <1>7 DEF Next

-----------------------------------------------------------------------------
(* Tombstones. *)

\* The clauses of Stoned for a node n that has seen the stop of run r.
Buried(n, r) ==
    /\ Issued(r)
    /\ issued[r].at <= now
    /\ r \notin Held(store[n])
    /\ IF store[n].stopped[r] = Never THEN now > LastSeen(r)
       ELSE issued[r].at <= store[n].stopped[r]

\* A memory that does not change keeps the run buried as time passes.
LEMMA BuriedStays ==
  ASSUME TypeOK, [Next]_vars, NEW n \in Node, NEW r \in Run,
         Buried(n, r), store'[n] = store[n]
  PROVE  Buried(n, r)'
  <1>1. now \in Nat /\ now' \in Nat /\ now <= now'
        /\ Issued(r)' /\ issued'[r].at = issued[r].at
    BY IssuedStable DEF TypeOK, Buried
  <1>2. issued[r].at \in Nat
    BY DEF TypeOK, Issue
  <1>3. issued'[r].at <= now'
    BY <1>1, <1>2 DEF Buried
  <1>4. LastSeen(r) \in Int /\ LastSeen(r)' = LastSeen(r)
    <2>1. 0 \in 0..(Repeats - 1) /\ (Repeats - 1) * Interval \in Nat
      BY RepeatTimes, FanoutAssumption
    <2> QED
      BY <1>1, <1>2, <2>1, FanoutAssumption DEF LastSeen, LastCast
  <1>5. now > LastSeen(r) => now' > LastSeen(r)'
    BY <1>1, <1>4
  <1> QED
    BY <1>1, <1>3, <1>5 DEF Buried

\* The deadlines of a run, without the product.
LEMMA Deadlines ==
  ASSUME TypeOK, NEW r \in Run
  PROVE  \E d \in Nat : /\ LastCast(r) = issued[r].at + d + Lag
                        /\ LastSeen(r) = issued[r].at + d + 2 * Lag
                        /\ d + 2 * Lag <= StopTombstone
                        /\ issued[r].at \in Nat
  <1>1. 0 \in 0..(Repeats - 1) /\ (Repeats - 1) * Interval \in Nat
    BY RepeatTimes, FanoutAssumption
  <1>2. issued[r].at \in Nat /\ Lag \in Nat
    BY FanoutAssumption DEF TypeOK, Issue
  <1> DEFINE d == (Repeats - 1) * Interval
  <1>3. d \in Nat /\ d + 2 * Lag <= StopTombstone
    BY <1>1, TombstoneAssumption
  <1>4. LastCast(r) = issued[r].at + d + Lag /\ LastSeen(r) = LastCast(r) + Lag
    BY DEF LastCast, LastSeen
  <1> HIDE DEF d
  <1>5. LastSeen(r) = issued[r].at + d + 2 * Lag
    BY <1>2, <1>3, <1>4
  <1> QED
    BY <1>2, <1>3, <1>4, <1>5

\* A repeat that arrives after the stop finds the tombstone.
LEMMA RepeatFindsStone ==
  ASSUME TypeOK, InFlight, NEW f \in flights, f.frame.kind = "cue",
         NEW t \in f.at..now, Buried(f.node, f.frame.run)
  PROVE  Dead(store[f.node], f.frame.run, t)
  <1> DEFINE n == f.node
             r == f.frame.run
             s == store[n].stopped[r]
  <1>1. n \in Node /\ r \in Run /\ f.at \in Nat /\ t \in Nat /\ t <= now /\ now \in Nat
    BY ObserveType DEF InFlight, TypeOK, Flight
  <1>2. now <= f.at + Lag /\ f.at <= LastCast(r)
    BY <1>1 DEF InFlight
  <1>3. PICK d \in Nat : /\ LastCast(r) = issued[r].at + d + Lag
                         /\ LastSeen(r) = issued[r].at + d + 2 * Lag
                         /\ d + 2 * Lag <= StopTombstone
                         /\ issued[r].at \in Nat
    BY <1>1, Deadlines
  <1>4. now <= LastSeen(r)
    BY <1>1, <1>2, <1>3, FanoutAssumption
  <1>5. s # Never
    BY <1>1, <1>3, <1>4, FanoutAssumption DEF Buried
  <1>6. s \in Nat /\ issued[r].at <= s
    BY <1>1, <1>5 DEF Buried, TypeOK, Store
  <1>7. t - s <= StopTombstone
    BY <1>1, <1>3, <1>4, <1>6, FanoutAssumption, StoreAssumption
  <1> QED
    BY <1>5, <1>7 DEF Dead

\* A delivery leaves every stopped run of its node buried.
LEMMA StonedObserve ==
  ASSUME IInv, NEW f \in flights, ObserveFrame(f),
         NEW r \in Run, <<"stop", r>> \in seen'[f.node]
  PROVE  Buried(f.node, r)'
  <1> USE DEF IInv
  <1> DEFINE n == f.node
             q == f.frame.run
             sc == f.frame.scope
             st == store[n]
  <1>1. PICK t \in f.at..now : store' = [store EXCEPT ![n] = Observe(@, f.frame, t)]
    BY DEF ObserveFrame
  <1>2. n \in Node /\ q \in Run \cup {NoRun} /\ sc \in Scope /\ t \in Nat
        /\ st \in Store /\ f.at \in Nat /\ now \in Nat /\ f.at <= t /\ t <= now
    BY ObserveType DEF TypeOK, Flight
  <1>3. store'[n] = Observe(st, f.frame, t) /\ now' = now /\ issued' = issued
    BY <1>1, <1>2 DEF TypeOK, ObserveFrame
  <1>4. seen'[n] = seen[n] \cup {<<f.frame.kind, q>>}
    BY <1>2 DEF TypeOK, ObserveFrame
  <1>5. <<"stop", r>> \in seen[n] => Buried(n, r)
    BY <1>2 DEF Stoned, Buried
  <1>6. f.frame.kind \in {"cue", "stop"} /\ (f.frame.kind = "cue" => q \in Run)
    BY DEF InFlight
  <1>7. LastSeen(r)' = LastSeen(r) /\ (Issued(r)' <=> Issued(r))
    BY <1>3 DEF LastSeen, LastCast, Issued
  <1>8. CASE f.frame.kind = "cue"
    <2>1. Buried(n, r)
      BY <1>4, <1>5, <1>8
    <2> DEFINE new == ObserveCue(st, sc, q, t)
    <2>2. store'[n] = new /\ q \in Run
      BY <1>3, <1>6, <1>8, ObserveType
    <2>3. new.stopped = st.stopped /\ Held(new) \subseteq Held(st) \cup {q}
          /\ (Dead(st, q, t) => new = st)
      BY <1>2, <2>2, ObserveCueFacts
    <2>4. r \notin Held(new)
      <3>1. CASE r = q
        BY <1>8, <2>1, <2>3, <3>1, RepeatFindsStone DEF Buried
      <3>2. CASE r # q
        BY <2>1, <2>3, <3>2 DEF Buried
      <3> QED
        BY <3>1, <3>2
    <2> QED
      BY <1>3, <1>7, <2>1, <2>2, <2>3, <2>4 DEF Buried
  <1>9. CASE f.frame.kind = "stop"
    <2> DEFINE new == ObserveStop(st, sc, q, t)
    <2>1. store'[n] = new
      BY <1>3, <1>9, ObserveType
    <2>2. new.stopped = Stones(st, q, t) /\ Held(new) \subseteq Held(st) \ {q}
      <3> HIDE DEF n, q, sc, st
      <3> QED BY <1>2, ObserveStopFacts
    <2>3. CASE r = q
      <3>1. Issued(r) /\ issued[r].at <= f.at /\ issued[r].at \in Nat
        BY <2>3 DEF InFlight, TypeOK, Issue
      <3>2. new.stopped[r] = t /\ t # Never /\ issued[r].at <= t /\ issued[r].at <= now
        BY <1>2, <2>2, <2>3, <3>1, StonesFacts DEF Never
      <3>3. r \notin Held(new)
        BY <2>2, <2>3
      <3> QED
        BY <1>3, <1>7, <2>1, <3>1, <3>2, <3>3 DEF Buried
    <2>4. CASE r # q
      <3>1. Buried(n, r)
        BY <1>4, <1>5, <2>4
      <3>2. r \notin Held(new)
        BY <2>2, <3>1 DEF Buried
      <3>3. \/ new.stopped[r] = st.stopped[r]
            \/ new.stopped[r] = Never /\ st.stopped[r] # Never
               /\ t - st.stopped[r] > StopTombstone
        <4> HIDE DEF n, q, sc, st, new
        <4>1. \/ Stones(st, q, t)[r] = st.stopped[r]
              \/ Stones(st, q, t)[r] = Never /\ st.stopped[r] # Never
                 /\ t - st.stopped[r] > StopTombstone
          BY <1>2, <2>4, StonesFacts
        <4> QED
          BY <2>2, <4>1
      <3>4. CASE new.stopped[r] = st.stopped[r]
        BY <1>3, <1>7, <2>1, <3>1, <3>2, <3>4 DEF Buried
      <3>5. CASE new.stopped[r] = Never /\ st.stopped[r] # Never
                 /\ t - st.stopped[r] > StopTombstone
        <4>1. PICK d \in Nat : /\ LastSeen(r) = issued[r].at + d + 2 * Lag
                               /\ d + 2 * Lag <= StopTombstone
                               /\ issued[r].at \in Nat
          BY Deadlines
        <4>2. st.stopped[r] \in Nat /\ issued[r].at <= st.stopped[r]
          BY <1>2, <3>1, <3>5 DEF Buried, Store
        <4>3. now > LastSeen(r)
          BY <1>2, <3>5, <4>1, <4>2, StoreAssumption, FanoutAssumption
        <4> QED
          BY <1>3, <1>7, <2>1, <3>1, <3>2, <3>5, <4>3 DEF Buried
      <3> QED
        BY <3>3, <3>4, <3>5
    <2> QED
      BY <2>3, <2>4
  <1> QED
    BY <1>6, <1>8, <1>9

LEMMA StonedStep == IInv /\ [Next]_vars => Stoned'
  <1> SUFFICES ASSUME IInv, [Next]_vars, NEW n \in Node, NEW r \in Run,
                      <<"stop", r>> \in seen'[n]
               PROVE  Buried(n, r)'
    BY DEF Stoned, Buried
  <1>1. <<"stop", r>> \in seen[n] => Buried(n, r)
    BY DEF IInv, Stoned, Buried
  <1>2. TypeOK
    BY DEF IInv
  <1>3. CASE seen' = seen /\ store' = store
    BY <1>1, <1>2, <1>3, BuriedStays
  <1>4. ASSUME NEW f \in flights, ObserveFrame(f) PROVE Buried(n, r)'
    <2>1. CASE n = f.node
      BY <1>4, <2>1, StonedObserve
    <2>2. CASE n # f.node
      <3>1. store'[n] = store[n] /\ seen'[n] = seen[n]
        BY <1>2, <1>4, <2>2 DEF ObserveFrame, TypeOK
      <3> QED
        BY <1>1, <1>2, <3>1, BuriedStays
    <2> QED
      BY <2>1, <2>2
  <1>5. ASSUME NEW m \in Node, Restart(m) PROVE Buried(n, r)'
    <2>1. n # m /\ store'[n] = store[n] /\ seen'[n] = seen[n]
      BY <1>2, <1>5 DEF Restart, TypeOK
    <2> QED
      BY <1>1, <1>2, <2>1, BuriedStays
  <1> QED
    BY <1>3, <1>4, <1>5
       DEF Next, vars, history, IssueCue, FireRepeat, CastStop, Lose, Tick

-----------------------------------------------------------------------------
(* The theorems. *)

\* The strengthening of StopSticks: the repeats of a cue keep to their times,
\* deliveries are fresh and of issued runs, and the tombstone of a stopped run
\* is no older than the run.
THEOREM FanoutInvariant == Spec => []IInv
  <1>1. Init => IInv
    <2>1. Init => InFlight /\ Stoned
      BY DEF Init, InFlight, Stoned
    <2> QED
      BY <2>1, TypeInit, TimelyInit DEF IInv
  <1>2. IInv /\ [Next]_vars => IInv'
    BY TypeStep, TimelyStep, InFlightStep, StonedStep DEF IInv
  <1> QED
    BY <1>1, <1>2, PTL DEF Spec

\* The state of broadcastCueWithRepeats, the bus and the memories keeps its
\* types.
THEOREM FanoutTypeCorrect == Spec => []TypeOK
  <1>1. IInv => TypeOK
    BY DEF IInv
  <1> QED
    BY <1>1, FanoutInvariant, PTL

\* lastrun.go's tombstones work: with every repeat cast and delivered within
\* Lag, and StopTombstone no shorter than TombstoneAssumption says, a run that
\* a node has seen stopped by name never comes back into its memory.
THEOREM StopsStick == Spec => []StopSticks
  <1>1. IInv => StopSticks
    BY DEF IInv, Stoned, StopSticks
  <1> QED
    BY <1>1, FanoutInvariant, PTL
=============================================================================
