------------------------------ MODULE Presence ------------------------------
(***************************************************************************)
(* Which gateway processes the presence endpoint of each one counts        *)
(* (gateway/internal/server/presence.go, gateway/internal/fanout/          *)
(* presence.go).  A process that is started again has a new node id, so    *)
(* that it is another process here.  How many clients a process reports is *)
(* left out: what it counts is the last report of each id it has.          *)
(***************************************************************************)
EXTENDS Clock

CONSTANTS
    Proc,              \* processes, all those of a node's restarts included
    PresenceInterval,
    PresenceStale,
    MaxDelay,          \* how long the bus takes for a report it does not lose
    Losses             \* reports lost in a row that peers are to bear

\* NewTicker takes no interval of 0.
ASSUME PresenceAssumption ==
    /\ {PresenceInterval, PresenceStale, MaxDelay, Losses} \subseteq Nat
    /\ PresenceInterval > 0
    /\ (Losses + 1) * PresenceInterval + MaxDelay <= PresenceStale

VARIABLES
    life,    \* of each process
    died,    \* when it ended
    due,     \* when its ticker fires next
    peers,   \* receivedAt of the last report of each peer, 0 if there is none
    wire,    \* reports on their way
    missed   \* history: the reports lost since the last one that came

presenceVars == <<nowMs, life, died, due, peers, wire, missed>>

Up == {p \in Proc : life[p] = "up"}
Never == [q \in Proc |-> 0]

PresenceTypeOK ==
    /\ nowMs \in Nat \ {0}
    /\ life \in [Proc -> {"new", "up", "dead"}]
    /\ died \in [Proc -> Nat] /\ due \in [Proc -> Nat]
    /\ peers \in [Proc -> [Proc -> Nat]]
    /\ wire \subseteq [from : Proc, to : Proc, by : Nat]
    /\ missed \in [Proc -> [Proc -> Nat]]

PresenceInit ==
    /\ ClockInit
    /\ life = [p \in Proc |-> "new"]
    /\ died = Never /\ due = Never
    /\ peers = [p \in Proc |-> Never]
    /\ wire = {}
    /\ missed = [p \in Proc |-> [q \in Proc |-> Losses + 1]]
-----------------------------------------------------------------------------
\* PublishPresence: to every subscriber, the publisher among them.
Reports(p, subscribers) ==
    wire' = wire \cup [from : {p}, to : subscribers, by : {nowMs + MaxDelay}]

\* StartPresence: subscribe, publish at once, set the ticker.
StartPresence(p) ==
    /\ life[p] = "new"
    /\ life' = [life EXCEPT ![p] = "up"]
    /\ Reports(p, Up \cup {p})
    /\ due' = [due EXCEPT ![p] = nowMs + PresenceInterval]
    /\ UNCHANGED <<nowMs, died, peers, missed>>

\* Mutant of Stale: a report of exactly that age is not counted any more.
StaleEarly(received) == nowMs - received >= PresenceStale

Stale(received) == nowMs - received > PresenceStale

Pruned(p) == [q \in Proc |-> IF Stale(peers[p][q]) THEN 0 ELSE peers[p][q]]

\* The ticker: publish, then prunePeers.
PresenceTicks(p) ==
    /\ life[p] = "up" /\ due[p] = nowMs
    /\ Reports(p, Up)
    /\ peers' = [peers EXCEPT ![p] = Pruned(p)]
    /\ due' = [due EXCEPT ![p] = nowMs + PresenceInterval]
    /\ UNCHANGED <<nowMs, life, died, missed>>

\* The subscription's handler; a process does not take its own report.
OnReport(m) ==
    /\ m \in wire /\ life[m.to] = "up"
    /\ wire' = wire \ {m}
    /\ IF m.from = m.to THEN UNCHANGED <<peers, missed>>
       ELSE /\ peers' = [peers EXCEPT ![m.to][m.from] = nowMs]
            /\ missed' = [missed EXCEPT ![m.to][m.from] = 0]
    /\ UNCHANGED <<nowMs, life, died, due>>

\* Lost on the bus, or unreadable.
LoseReport(m) ==
    /\ m \in wire
    /\ wire' = wire \ {m}
    /\ missed' = [missed EXCEPT ![m.to][m.from] = IF @ > Losses THEN @ ELSE @ + 1]
    /\ UNCHANGED <<nowMs, life, died, due, peers>>

Die(p) ==
    /\ life[p] = "up"
    /\ life' = [life EXCEPT ![p] = "dead"]
    /\ died' = [died EXCEPT ![p] = nowMs]
    /\ wire' = {m \in wire : m.to # p}
    /\ UNCHANGED <<nowMs, due, peers, missed>>

\* Tickers fire and reports arrive, or are lost, in time.
PresenceTick ==
    /\ \A p \in Up : due[p] > nowMs
    /\ \A m \in wire : m.by > nowMs
    /\ ClockTick
    /\ UNCHANGED <<life, died, due, peers, wire, missed>>

PresenceNext ==
    \/ \E p \in Proc : StartPresence(p) \/ PresenceTicks(p) \/ Die(p)
    \/ \E m \in wire : OnReport(m) \/ LoseReport(m)
    \/ PresenceTick

PresenceSpec == PresenceInit /\ [][PresenceNext]_presenceVars
-----------------------------------------------------------------------------
\* handlePresence: itself, and the peers whose report is fresh.
Counted(p) ==
    {p} \cup {q \in Proc : peers[p][q] # 0 /\ ~Stale(peers[p][q])}

\* A process that has ended is counted by nobody once presenceStale and the
\* delay of its last report are over, and is kept no longer than one more turn
\* of the ticker.
DeadAreForgotten ==
    \A p \in Up, q \in Proc :
        life[q] = "dead" =>
            /\ nowMs > died[q] + MaxDelay + PresenceStale => q \notin Counted(p)
            /\ nowMs > died[q] + MaxDelay + PresenceStale + PresenceInterval =>
                   peers[p][q] = 0

\* A process that is up is counted by all that have heard of it, however its
\* reports are delayed, and although some are lost.
LivingAreCounted ==
    \A p, q \in Up : missed[p][q] <= Losses => q \in Counted(p)

PresenceHonest == DeadAreForgotten /\ LivingAreCounted
=============================================================================
