# Tekses: models, checks and proofs

Tekses turns the phones of an audience into one synchronised display. A
moderator publishes a show package, opens a room for an event and issues *cues*;
gateways broadcast each cue to the phones in the room with a fire moment a few
seconds ahead, and every phone, having estimated the server clock, fires the
cue's effect at that moment. STOP, BLACKOUT and HOLD interrupt, an ultrasonic
beacon carries cues where the network does not, and a phone that joins late is
sent the run that is under way.

This directory holds TLA+ modules of the parts whose correctness depends on the
order of events, the TLC configurations that check them on small instances, and
TLAPS proofs of what matters most for instances of any size.

- [1. The system](#1-the-system): its components, their state, and where they are hard
- [2. The modules](#2-the-modules): how each corresponds to the code
- [3. The runs](#3-the-runs): what TLC checks, with which bounds and fairness
- [4. The proofs](#4-the-proofs): what is proved and along which argument
- [5. Disagreements between code and documentation](#5-disagreements-between-code-and-documentation)
- [6. Not modelled](#6-not-modelled)
- [7. The plan](#7-the-plan)

Run a model with `tlc -workers 2 -config MCHub.cfg MCHub`, and the proofs of a
module with `tlapm Hub_proofs.tla`.

## 1. The system

Paths are relative to the repository. "G" is a goroutine of the gateway, "H" a
handler of the phone's single event loop.

| component | state | operations | correct when |
|---|---|---|---|
| **Hub** `services/gateway/internal/hub` | registered clients, members of each room, each client's room and socket | Register, JoinRoom, Unregister, Broadcast, BroadcastRoom (one G per target), ping G | both tables agree; no socket is left open; a broadcast reaches the clients it was for, once, or drops them; one dead phone costs nobody else the cue |
| **WebSocket handler** `server.go` handleWS | per connection: the read loop, the room a hello resolved to | hello (resolve the code, join, welcome, replay), clock ping, teardown | a phone is in one room; it misses no run between broadcast and replay |
| **Cue fanout** `server.go` handleCue, handleIntervention; `fanout` | timers of the repeats, frames on the bus | cue with three repeats 250 ms apart, intervention, local or NATS delivery, a G per frame | a lost repeat is made up for; a stopped run stays stopped |
| **Late-join memory** `lastrun.go` | last cue per scope, tombstones of stopped runs | observe, forRoom | offers the run that is under way, and none that was stopped |
| **Presence and clock statistics** `presence.go`, `clockstats.go` | last report of every peer, ping samples | publish, receive, expire | counts every phone once; forgets dead nodes |
| **Sessions and runs** `server.go` session cache, run ring; `runsink` | tokens the control API has vouched for, with their ends; last 50 runs | check a token, look up, ask, remember, sweep; append, post | a session that was ended stops working within the bound; telemetry takes the static token only |
| **Control API** `control-api/internal` | organisations, users, sessions, events, shows, versions, rooms, runs | register, login, create, publish, activate a room, join, record a run, lists | version numbers have no gap, join codes lead to one room; a version names a whole package; tenants see their own rows; the statements of PostgreSQL do what the in-memory store does |
| **Blob store** `packages/blob` | packages and media by key | put, get | readers see whole objects |
| **Migrations** `store/pg/migrate.go` | schema, its record | check, apply, record, commit | once and in order, whoever starts at the same time |
| **Transcription** `api/transcribe.go` | jobs by organisation, a gate | start, wait, run, poll | one command at a time; every job ends; an end is not taken back |
| **Show screen** `apps/participant/lib/ui/show_screen.dart`, `cue_arbiter`, `cue_scheduler` | active cue, armed timer, ticker, frame shown, locked runs, the cue that waits for the clock | onCue, onEstimate, onIntervention, beacon detection, timers, dispose | one effect at a time; a stopped run does not start again; no light without an effect |
| **Torch** `core/torch_service.dart` | state, call under way, stored request | init, set, off, completion | the torch ends up as last asked |
| **Realtime client, clock** `core/realtime_client.dart`, `core/clock_sync.dart`, `packages/clocksync` | socket, back-off, sample round, kept offset | connect, reconnect, sample round, quality gate | rounds end; an old or poor offset is not kept |
| **Beacon** `packages/beacon`, `core/ultrasonic*.dart` | listener phase, decoder window | start, stop, decode | a damaged frame is never taken for another |
| **Manifest, timeline** `packages/manifest`, `core/timeline_engine.dart`, `core/spatial_effect.dart` | none (pure functions) | validate, sample an effect | at most 3 flashes a second; samples within the cue |
| **Moderator panel, browser client, tools** | user interface, test tools | | inputs of the above |

### How they interact

- A cue: panel → `handleCue` (a run id, a fire moment) → three timers → bus →
  on *every* node one goroutine per frame → `BroadcastSink`: first the
  memory's `observe`, then the hub's broadcast → one goroutine per phone.
- A phone: connect → registered in the default room → hello → join code
  resolved at the control API → `JoinRoom` → welcome → `forRoom` → replay. Its
  read loop, its ping goroutine, and every broadcast that fails to write to it
  may unregister it at any moment.
- On the phone the socket, the clock estimate, the microphone, timers and the
  torch's platform calls each call back into the show screen. Dart runs one
  handler at a time; their order is free.
- Control API and gateways share a database, a blob store and HTTP calls;
  gateways share the NATS bus.

### Where it is hard

The list with lines is `hazards` in `PROJECT.json`. The heart of it: the two
tables of the hub under concurrent Unregister and JoinRoom; a joining phone
between broadcast and memory; repeats that arrive after the STOP of their run,
against tombstones that expire; frames that overtake each other because each is
handled in its own goroutine; restarts that lose memory and timers; and on the
phone everything that can happen between the arming of a timer and its firing.

## 2. The modules

| module | models | composed of |
|---|---|---|
| `RoomCast` | the hub's promise: one room per client, an audience fixed at one instant and paid in full | |
| `Hub` | `hub.go` and the goroutines that use it; implements `RoomCast` | |
| `LastRun` | `lastrun.go` as operators on a value | |
| `CueFanout` | cue, repeats, STOP, bus, memory on several nodes, loss, restart, time | extends `LastRun` |
| `LateJoin` | `BroadcastSink` and the tail of a hello on one node | extends `Hub`, instantiates `LastRun` |
| `Torch` | `torch_service.dart` as operators on a value | |
| `Phone` | the show screen, arbiter and scheduler | extends `Torch` |
| `RealtimeClient` | the phone's connection and clock-sample rounds | |
| `ClockSync` | the offset estimator between two clocks and a network | |
| `MemStore` | the in-memory store: what the control API's store promises | |
| `PgStore` | the PostgreSQL store, statement by statement | |
| `ControlApi` | the handlers of the control API and its blob store; implements `MemStore` | extends `PgStore` |
| `Migrations` | processes that start on one database | |
| `Transcription` | transcription jobs and their gate | |
| `Clock` | a monotonic clock | |
| `Sessions` | who may use the console: static token, panel sessions, their cache | extends `Clock` |
| `Presence` | reports of gateway processes to each other | extends `Clock` |
| `ClockStats` | round-trip samples and what the endpoint tells of them | extends `Clock` |
| `Venue` | plans, seat references, places | |
| `Effect`, `Manifest` | spatial effects; validation of a manifest and what a seat sees of it | `Manifest` extends `Effect` |
| `Beacon` | framing, CRC, search and correction of an ultrasonic burst | |
| `MC*` | small instances of the above | |
| `*_proofs` | theorems about the above | |

**Hub.** `clients` and `rooms` are the two maps under `Hub.mu`, `room` and
`conn` the fields of a `Client`, `handler` where the read loop of `handleWS`
stands, `casts` the broadcasts under way. Every critical section of the mutex is
one action, and every write to and close of a socket outside it another.
`Unregister` is two: the tables change under the lock (`hub.go:194-199`), and
the goroutine that found the client registered closes its socket afterwards
(`CloseSocket`, `hub.go:201`). `closes` has the goroutines that are between the
two; a broadcast that took its snapshot before can write to the client
meanwhile. Only a failed write and the critical section of the `Unregister` that
follows it are one action: after the write no other write to the socket
succeeds, and nothing else looks at that, so that what others do in between they
could as well do before. A phone that reconnects is another element of `Client`, as it is another
`*Client` in the code. A peer that has gone (`"broken"`) can still be written to
for a while: the kernel buffers. `PingFails` may happen to a healthy client, as a
write that is stuck for `writeTimeout` does. Frames carry no contents here.

**RoomCast.** What the rest of the gateway may rely on. A client that has left
is `Gone` at once and can be written to until its link is `Cut`, by the
broadcasts that had it in their audience and by no later one. A broadcast may
end when nobody in its audience is owed the frame.

**LastRun.** `Observe` and `ForRoom` are the two critical sections of the
memory. The clock reading is an argument, because the code takes it *before* the
lock. A tombstone is a time or `Never`; the sweep of stale ones is part of the
stop that triggers it. An entry keeps run and time: of the frame nothing else is
looked at. `"other"` frames (HOLD, SKIP, show_activated) leave the memory alone.

**CueFanout.** A frame in flight to a node is a record; `ObserveFrame` takes any
of them, which is the goroutine per frame, with any clock reading since it was
cast. `FireRepeat` is a timer of `broadcastCueWithRepeats`. `Lag` bounds how
late a due timer starts and how long a delivery takes; `Tick` respects it. The
comment on `stopTombstoneMs` relies on such a bound without stating it:
`TombstoneAssumption` does. With the values of the code, (3 - 1) · 250 ms +
2 · Lag <= 10 s, it allows a Lag of up to 4.75 s. `Restart` loses the
node's memory, the frames it had not handled and the timers of its own cues.

**LateJoin.** The hub, whose broadcasts now carry frames. The sink is two
steps, `SinkObserves` and `SinkBroadcasts`; the tail of a hello is
`HandlerLooksUp` and `HandlerReplays` after the hub's `Resolved`. The histories
`offered`, `skipped`, `looked` and `visited` remember what a phone was written,
what a lookup passed over, for which room it was, and where the phone has been.

**Torch and Phone.** A handler is one action and is a chain of operators named
after the functions it calls, `CueAccepted` = `_stopEffect`, cancel, `schedule`
and so on. `fires` and `tickers` are the timers alive in the Dart runtime, the
fields `pendingFire` and `effectTicker` the handles by which the code can cancel
one: that the second always names all of the first is something to prove, not to
assume. What an effect shows at a moment is any `Frame`; its end is
`now - fireLocal >= Length`. `TorchDone` is the platform's answer, which may be
an error.

**RealtimeClient.** `client` holds the fields of the class, `sent` what the
gateway has been sent and has not answered: a TCP connection answers in order.
Handlers are chains of operators again; `timers` and `field` are, as in `Phone`,
the timers alive and the handles of the code. The client never needs `_closed`
or `_awaitingSeq` to guard against a timer of its own past, and `OneTimer` says
why. A sample is its sequence number and a round-trip time, which is all the
quality gate looks at; a negative one stands for a sample the estimator drops.
A timer that is due goes off before the clock moves on, since an event loop is
late by milliseconds and a tick is about two seconds. `roundAt`, `roundFirst`
and `steady` are histories that the properties speak about.

**MemStore, PgStore, ControlApi.** The repository has two stores behind one
interface. In `memstore.go` every method is a critical section, so `MemStore`
is the abstract specification; `PgStore` has the statements of `pg.go`, and
`CreateShowVersion` in three of them (`LockShow`, `NextNumber`,
`CommitVersion`), because others come between. The tables are functions on ids;
`owner` is the `org_id` column of every table at once, and `None` where there is
no row yet. `ControlApi` adds what a handler remembers between its steps (`req`)
and the rows it has answered with (`reply`): `TryCode` is one turn of the loop
over join codes, `HandleJoin` and `JoinVersion` are the two reads of a phone's
request, `HandlePublish`, the `Put` of the blob, `PublishLocks`,
`PublishNumbers` and `PublishInserts` are a publication. `Fails` ends a handler
anywhere, which rolls its transaction back; `Crash` ends all of them, and what
the file system had under a temporary name is not seen again. `driver` is the
configured blob store: on the file system a key that exists is left alone, on S3
the object is replaced. Reads of rows that never change once they are there are
merged with the step that follows. `Mem` maps the number of the next version,
which PostgreSQL computes and the in-memory store keeps.

**Migrations, Transcription.** A migration's statements and its record become
visible with the commit; the primary key of `schema_migrations` makes the second
insert wait, and fail when the first has committed. A job is a goroutine: `gate`
and `senders` are the buffered channel with the goroutines that wait to send, in
order. The answer to the request reads the status without the mutex while the
goroutine may be writing it; `"torn"` stands for what such a read may return.
The command ends, is killed at its timeout, or leaves something behind that it
has started and that keeps its output open: then the job is `"held"`
(`Lingers`), because `Output` has no `WaitDelay` and reads on, until that ends
too (`OutputEnds`). An orphan that has closed its output may still compute beside
the next job; `OneJobAtWork` is about jobs, not about processes.

**Sessions, Presence, ClockStats.** `validPanelSession` reads the clock, then
the cache, asks, and remembers: four steps, so that a session can end between
any two. What ends a session is external: nothing in the repository does, and
the cache time is for when something will. A process of `Presence` that is started again is another one, as it has
another node id; `wire` holds reports on their way, each to be delivered, lost
or out of order. The samples of `ClockStats` are two atomics per client, stored
and loaded one after the other.

**ClockSync.** `Exchange` is a request and a reply between two clocks whose
difference `theta` the phone does not know; either way may take its own time. A
clock may step by any amount, forward or back, between two exchanges
(`ClockStep`) or within one (`ExchangeAcross`): what was sampled before stays, a
step within an exchange shows in its round trip, and the sample is dropped when
that is negative only, so that a short step forward passes for a fast exchange
and one back for a slow one. `thetas` is a history of the offsets of a round.
`Half` truncates towards zero as Go does. `Median` works on ranks instead of sorting.

**Venue, Effect, Manifest.** Pure functions, applied to inputs chosen one at a
time. Positions and widths are integers (eighths), angles eighths of a turn, so
that sine and cosine stay integers on the chosen circles; a colour is one of its
channels. `Manifest` then lets one seat look at one effect for longer than a
second and remembers in `onsets` when its light has turned to which colour: the
limit of the code, a period of 334 ms, is a rule about periods, and the property
is about flashes. The sum of the seats of a plan is an `int` and wraps at
`IntLimit`, so a plan of very many seats may pass validation, as it does in the
code; `SeatsSurvive` holds for its seats too.

**Beacon.** A recording is a sequence of peaks. The first peak of a burst has the
payload, the score of its chirp and the places at which each reading hears it
wrongly; its echoes (`Echoes`) are peaks of the same burst, half a chirp or more
apart, from which a reading is damaged. After a detection the search goes on past
the burst (`PastBurst`), after a failure half a chirp further, at the next peak.
Bursts are further apart than their echoes last. The register of the CRC is a set of bit places
and `Xor` the symmetric difference. The decoder's order is kept: strongest chirp
from here on, readings as they are, then one and two of the weakest symbols of
the near reading flipped.

### Abstractions

Frames and cues keep what the control flow looks at. Strings, JSON and binary
encoding, logging and telemetry are left out. Clocks are naturals. The join code
is the room it resolves to; its failure is a `Return`. Moments on the phone are
read after the offset has been applied, so a change of the estimate between the
acceptance of a cue and its firing is not seen: neither is it by the code, which
computes the local moment once.

## 3. The runs

| run | states | question |
|---|---|---|
| `hub` (`MCHub.cfg`) | 220 060 | Do the tables agree, are sockets closed, are broadcasts complete, is `RoomCast` implemented; do broadcasts end and dead clients leave? In behaviours of the bus: is a cue seen by every node although all its repeats but one are lost? |
| `fanout_tombstones` (`MCCueFanout.cfg`) | 2 266 396 | Does a run stopped by name stay out of the memory in every order of repeats and stop, across a restart? |
| `late_join` (`MCLateJoin.cfg`) | 1 794 082 | Does a joining phone miss a run, or get one that is not for it? |
| `phone` (`MCPhone.cfg`) | 365 088 | One effect at a time, none of a stopped run, no light without an effect, and every effect ends? |
| `control` (`MCControlApi.cfg`) | 172 539 | Do concurrent requests, failures and a crash keep version numbers without gap, packages whole, tenants apart; do the PostgreSQL statements implement the in-memory store; does every request end? In behaviours of their own: transcription jobs and migrations. |
| `parts` (`MCParts.cfg`) | 2 738 454 | The components that share no state with another: sessions, presence, round-trip statistics, clock estimates, venue, effects, beacon, and the phone's realtime client. |
| `fanout_blanket_stop`, `fanout_agreement`, `phone_torch`, `phone_hold`, `phone_waiting`, `phone_beacon` | | What a comment or document says and the code does not do, see section 5 |

Components that have nothing in common share a run where that keeps the
questions clear: the variable `part` of the MC module says which of them a
behaviour is of, and the others stay as they began.

Every property has a mutant in `PROJECT.json`: a plausible mistake in one
definition, written in the module just before it, under which TLC finds the
property violated. Deadlock is not checked: the bounded models come to rest.

### What the properties say

- `MembershipInv`: a client is in the member set of exactly the room its field
  names, if it is registered, and in none otherwise. It would fail if
  `JoinRoom` did not look whether a ping has unregistered the client meanwhile.
- `SocketInv`: the socket of a registered client is neither closed nor about to
  be; that of a client that is out of the tables is closed, or exactly one of the
  goroutines that raced to unregister it still has to close it.
- `CastComplete`, `CastEnds`: a broadcast that has returned has reached each
  client it was for, or that client is gone; and it does return.
- `KeepsPromise`: `RoomCast` under the mapping in `Hub`.
- `DeadClientLeaves`: a client whose peer is gone leaves the tables, its
  read loop ends, and its socket is closed.
- `StopSticks`: once a node has observed a stop of a named run, the run is never
  in its memory again.
- `CueSurvivesLoss`: every node sees every cue that was issued.
- `NoMissedRun`: a client that has joined and looked up has been offered every
  run the memory keeps in its reach, or will be by a broadcast under way, or its
  lookup saw the run and preferred another. `OnlyOwnRooms`: and no run of a room
  it never was in.
- `PlaysLatest`, `StopIsFinal`, `DarkWhenIdle`, `EffectEnds`: every live timer
  belongs to the cue accepted last; a run locked at STOP or BLACKOUT does not
  start again; a screen without an effect is black and has asked for the torch
  to be off; an effect that runs comes to its end.
- `OneTimer`: the realtime client has exactly one live timer unless it is closed
  or waits for the welcome. With none it would stop for good, with two it would
  run two rounds at once.
- `OwnSamples`: no answer to a ping of an earlier round enters an estimate.
- `RoundEnds`: a round lasts at most `LongestRound`, however many answers are
  lost: with the code's values 20.4 s.
- `OffsetAge`: while rounds bring estimates, the gate that keeps a better, older
  offset does not let it grow older than `OldestOffset`: 145.4 s.
- `VersionsGapless`, `NumbersReserved`: a show's versions are 1, 2, ... as many
  as there are; and the lock on the show's row, not the unique constraint, is
  what keeps two publications apart.
- `PublishedWhole`: a version in the table has its package, and every audio file
  that names, complete under its final name, whatever fails and whenever the process ends. A
  crash of the operating system is another matter: `blob.go` does not sync.
- `TenantsApart`: an answer has rows of the asking organisation only, a room
  leads to its own organisation's event and version, and a code to one room.
- `ActsAsMemStore`: the refinement. It breaks if a transaction is forgotten, an
  insert is not idempotent where the in-memory store is, or an order differs.
- `RequestEnds`: nobody waits for ever for the row of a show or for a free code.
- `JobsEndUnlessHeld`: nor at the gate of the transcriptions, provided that no
  process which a command has left behind keeps its output open for good. That
  the timeout alone sees to it is not so: end of section 5.
- `OneJobAtWork`: no more jobs inside than the gate has places, also when one
  hands its place on; an organisation is told of its own jobs, and an end that
  was told stays.
- `AppliedOnceInOrder`: migrations are applied once and in the order of their
  names, with their record, and a process that serves has all of them.
- `AdmitsOnlyCurrent`: whoever is let in without the static token has a session
  that lasts or ended less than `sessionCacheTTL` before the request; telemetry
  is never opened by a session.
- `PresenceHonest`: a process that lives is counted although `Losses` reports in
  a row are lost, and one that has died is forgotten after `presenceStale` and
  the delay of its last report.
- `ClockStatsHonest`: the groups and the buckets add up, the percentiles lie in
  buckets that are not empty, and a fresh sample is one, although samples change
  between the reads.
- `OffsetWithinHalfRtt`: the estimate is beyond the offsets that the clocks have
  had during the round, on either side, by at most half of what a chosen exchange
  took, and two roundings. Without a step that is the distance from the offset;
  with one, the estimate may lie anywhere between old and new.
- `SeatsSurvive`: a seat comes back from its ticket as it was, is found if it is
  there, and its place is within the venue on every axis.
- `ShowSafe`: an accepted effect turns no seat to one colour more than
  `MaxFlashHz` times in any second, and no two sequences of a program overlap.
- `DetectedAsSent`: damage of up to three symbols, those that the decoder flips
  counted, is not taken for another payload (`DamageDetected`); no burst is
  detected twice, and detections are in the order of time (`InOrderOfTime`).

### Bounds, and why they are enough

- *hub*: two clients, two rooms, one broadcast. The races are between the
  goroutines of one client, and between two targets of one broadcast. Two
  broadcasts share nothing but `Unregister`, which `PingFails` also performs at
  any moment, and `late_join` has two. The bus part: two nodes, three repeats, two
  losses, all but one. The proofs have no bound.
- *fanout_tombstones*: one node, because a memory is touched by its own node
  only; two runs and two stops, so that the sweep of one run's tombstone happens
  at the stop of the other; the tombstone is exactly as long as the assumption
  demands (4 ticks) and the clock runs to 6, so tombstones do expire and are
  swept while repeats are in flight. One restart.
- *late_join*: one phone, because phones meet only in the hub; two rooms and two
  runs, one for a room and one for all, so that one can hide the other; two
  frames, so that two sinks overlap.
- *phone*: two cues and two beacon detections, effects of two ticks, five ticks
  in all: an effect can be replaced while armed, while playing and while held,
  and end on its own.
- *control*: two requests at once, which is what a race needs, and three in all,
  so that one finds what two have left; two organisations, two blobs, two codes
  with one retry, so that a code can be taken once and twice; the store is empty
  or has an event and a show for each of the two, a room and a first version. Ids are
  handed out in one order, which loses nothing, since no step looks at an id but
  `ListRuns`, whose order is over both.
- *control*, jobs: three jobs and one place, so that one waits behind another.
  Migrations: three files and three processes.
- *parts*, sessions: a cache time of one tick, three ticks, a cache that sweeps at
  its first entry. Presence: two processes, one loss in a row, the least
  `PresenceStale` the assumption allows. Round trips: two clients, one bucket
  bound between their samples and stale ones. Clock estimates: three samples,
  latencies inside and outside the band, both signs of the offset, and steps
  between them at any moment, longer and shorter than the round trip. Venue: grids
  and arcs of zero, three and eight eighths of a turn, block names with dashes
  and empty parts, and a plan whose seats overflow `IntLimit`. Effects: one of each kind, with periods at, below and above
  the limit; time runs two seconds. Beacon: two bursts and three peaks, so that one
  burst has an echo, with damage of none to three symbols and a far reading that
  is right or hears three wrongly.
- *parts*, realtime client: two samples a round, so that a round has a first and
  a last ping; a tick is the ping's timeout; `Retry` < `Resync` < `Fresh` as in
  the code, and 10 ticks let an offset be kept, go stale and be replaced. Samples
  may be broken, good, poor but within the margin of the good one, or poorer.

Counters that are only bounds (`MaxTime`, `MaxStops`, `MaxLosses`, `MaxCrashes`)
are named so and cut behaviours short.

### Fairness

- `HubFairness`: a goroutine that can run does; a write ends within
  `writeTimeout`, the deadline set before every write; a read on a dead or
  closed socket returns an error, after `readTimeout` at the latest, the
  deadline that every pong and every message renews; closing a socket does not
  wait for the peer. Nothing makes a phone connect, say hello or leave.
- `CueFanout!Fairness`: timers go off, started goroutines run. The bus is not
  assumed to deliver: `Lose` is bounded, not fair.
- `Phone!Fairness`: timers go off, platform calls end. Messages, beacons and
  clock estimates need not come.
- `ControlApi!Fairness`: a handler whose next step can be taken takes it: the
  pool, the disk and the database answer, or an error does. No request need
  come. `TranscriptionFairness`: goroutines run and the command ends or is
  killed at its timeout, with or without something left behind; whether that
  ends nobody sees to, and `OutputEnds` is not fair. A channel serves its senders
  in the order they came.
- The components of `parts` need none: their properties are bounds on time or on
  what a step may do.

## 4. The proofs

All theorems hold for every value of the constants that satisfies the named
assumptions of the modules (`RoomAssumption`, `StoreAssumption`,
`FanoutAssumption`, `TombstoneAssumption`, `LateJoinAssumption`,
`PhoneAssumption`, `NoCueAssumption`, `ClientAssumption`, `PgAssumption`,
`ApiAssumption`, `SessionsAssumption`, `MigrationsAssumption`,
`TranscriptionAssumption`, `ClockAssumption`, `ClockSyncAssumption`, `PresenceAssumption`,
`ClockStatsAssumption`, `VenueAssumption`, `PlanAssumption`, `RefAssumption`,
`ManifestAssumption`, `ShowAssumption`, `BeaconAssumption`,
`PayloadAssumption`). These demand types, that the special values differ from
the ordinary ones, that ids of different tables differ, that the members of a
gateway are finitely many, and three relations between times: the timing bound
of the tombstones, that `Losses` reports in a row and the delay of the next fit
into the stale time (`presence.go` reports every 5 s and forgets after 15 s),
and that a flash every `MinEffectPeriod` keeps the limit, as 3 · 334 ms
does with a second.

**Hub_proofs.** `HubInvariant` proves `HubInv` inductive: types; `Fresh`, which
says that a client whose handler has not started has no socket and is not
registered; `Placement`, that a registered one has been placed in a room;
`MembershipInv`; `SocketInv`; and `CastsOK`, by which each target of a broadcast
is still to be written to, has been reached, or is registered no longer, and
none of them can register again. The properties alone are not inductive: that a
fresh `Connect` keeps the tables in step needs `Fresh`, and that a target which
left stays gone, or whose socket a broadcast has to close is still to be dealt
with by it, needs the last parts of `CastsOK`. `CastComplete` is `CastsOK`
with nothing left to write. `HubKeepsPromise` maps every action to an action of
`RoomCast` or a stutter; the interesting ones are a write to a client that has
left (`Reach` asks for its link and not for its presence), and `CastCloses`, which
cuts the link and may end the broadcast. `SocketsClosed` rests on `DropsSocket`
and `ClosesSocket`: the first goroutine in the critical section finds the client
registered and is the only one that does.

**CueFanout_proofs.** `StopsStick`. The invariant carries the timing: `Timely`
(no pending repeat is overdue by more than `Lag`), `InFlight` (no delivery is
either, each belongs to an issued run, and a repeat is cast no later than the
last one of its run may be), and `Stoned` (a run whose stop a node has observed
is not held there; its tombstone is no older than its cue, and when the tombstone
has been swept the moment by which its last repeat must have been observed is
past). A repeat may be observed with a clock reading older than the tombstone or
newer; `TombstoneAssumption` says that none is so much newer that the tombstone
no longer counts, and that a sweep comes after the last of them.

**LateJoin_proofs.** `NobodyMissesARun`, `NobodyGetsAnothersRun`. To the hub's
invariant it adds that a broadcast under way has been observed first, that the
entry of a scope was issued to that scope, and what the fields of a handler say
about the room of its client. The two steps that matter are `SinkObserves`,
which puts a run into the memory while its broadcast is still to take its
snapshot, and `SinkBroadcasts`, whose snapshot contains every client that looked
up before, because it had joined before it looked up.

**Phone_proofs.** `OneEffect`, `StoppedForGood`, `IdleIsDark`. The invariant
adds `Reachable` to them: every live timer is one that the code can still cancel
through its fields, and the armed timer and the ticker are never alive together.
`PlaysLatest` and `DarkWhenIdle` speak of a mounted screen: `dispose` leaves the
armed timer alive, which then fires into a screen that ignores it.

**RealtimeClient_proofs.** `OneTimerRuns`, `RoundsUseOwnSamples`, `RoundsEnd`,
`OffsetStaysYoung`. The invariant says that between two handlers a client is
closed (`Over`), waits for its welcome (`Greeting`) or to reconnect
(`Disconnected`), or is in one of three phases of a connection: `Pinging`,
`Pausing` or `Resting`. Each phase fixes the one timer that is alive and bounds
when it falls due: `Left(n)` is what a round with `n` pings sent may still take,
and what the timer's moment adds to it stays within `LongestRound`; `Renewing`
says that the round began at most a `Period` after the offset was accepted. Each
piece a handler is made of has a lemma, so that a step of the proof follows the
chain of the handler. `LeastNat` is needed because the best round-trip time is a
CHOOSE.

**ControlApi_proofs.** `ApiInv` carries, besides the types, what each row says
of others (`RoomOK`, `VersionOK`, `ShowOK`) and what each handler knows at the
step it has come to (`ReqOK`). It is `ReqOK` that makes the properties
inductive: from `"number"` on the request holds the lock of its show, at
`"insert"` it has the next number, from `"lock"` on its package is whole, and its
audio files were when it began to write. `Grows` is the argument by which a step
of one request keeps what another one knows: rows are only added and blobs only
completed. `NextIs` turns the CHOOSE of `NextNumber` into the number of versions
plus one. From it follow `NumbersWithoutGap`, `NumbersKept`, `VersionsWhole` and
`TenantsSeparate`. `StoreIsMemStore` is the refinement: it starts as `MemStore`
does; a step that leaves tables and answers alone is a stutter (`QuietSteps`),
the insert of a version is `CreateShowVersion` because its number is the one
`MemStore` would give (`PublishSteps`), and each read is a set of rows that
`MemStore` returns too (`SameReads`); a phone's join needs that codes differ.

**Services_proofs.** Five small systems. `SessionsHonoured`: what a request was
vouched for and what an entry of the cache promises both end within the cache
time after the session (`RequestOK`, `EntryOK`). `MigrationsOnce`: what is
recorded is a first part of the list, and every process has passed no file that
is not recorded. `JobsTakeTurns`: the values in the gate are the jobs inside,
and who waits in the queue is waiting and is there once.
`PresenceIsHonest`: reports are sent in order, but arrive in any. The invariant
bounds the age of what each process knows of a peer that lives: by the interval
for every report that was lost in a row since, and the delay of those under way;
for one that is gone, by its end and the longest delay. `StatsAreHonest` is
about reads without a lock: whatever a sample is when it is read, it falls into
one bucket, so the buckets add up, and the percentile is the bound of a bucket
that is not empty because a rank lies between two partial sums.

**Packages_proofs.** The shared packages. `EstimateIsNear` needs no bound on
delays and none on steps of the clocks: the offset of one sample is beyond the
offsets at its two ends by at most half its round trip (`OneExchange`), a round
that sees another offset only widens what is allowed (`NearWider`), all chosen samples are within the band of the best, and both
elements a median is made of are offsets of chosen samples, so that their
half-sum is between them (`RankedOK`, `MedianOK`).

`SeatsComeBack`: a ticket is read from the right, row and seat after the last
dashes, so a dash in a block's name does no harm (`ReadFromRight`). That every
seat is within the venue is harder, since the code takes the bounding box from a
few sample seats of an arc: between two multiples of a quarter turn sine and
cosine are monotone, and the samples hold the ends and the multiples between
(`CosBetween`, `ArcSpan`, `ArcBounded`).

`ShowsAreSafe`: turns to one colour at one seat are at least `MinEffectPeriod`
apart (`TurnsApart`), for each kind of effect by its own argument: phases of one
cycle, columns a wave passes, frames of a bitmap. `FlashCount` then counts the
turns of a window. Sequences follow each other because validation demands it
(`ItemsFollow`).

`DetectionsAreAsSent`. The invariant says that detections point at peaks of
bursts that rise from one to the next, that no peak from where the search goes
on is of one of them, and that every one is what was sent (`AsSent`). The second half is a theorem about the code's CRC. The register is
linear in the data (`RegisterLinear`), so what is left of it when a damaged
burst is checked depends on the damage only (`Syndrome`, `SyndromeLinear`). One
symbol leaves a power of x modulo the polynomial (`OneSymbol`); the table `Term`
lists the first forty powers. They differ, so no two symbols leave the same, and
each has an odd number of places, since 1 + x divides the polynomial, so two
cannot add up to a third: damage that leaves nothing is of more than three
symbols (`SmallDamage`). `EncodedBits` shows that what is encoded leaves nothing
and is read back with its countdown in whole steps, and `FlippedTwice` that a
chase is damage too.

**Only model-checked**: the liveness properties (`CastEnds`, `DeadClientLeaves`,
`CueSurvivesLoss`, `EffectEnds`, `RequestEnds`, `JobsEndUnlessHeld`), since they rest on
fairness and ENABLED. Every other property of a passing run is a theorem. No
module with theorems uses a RECURSIVE operator: where the code loops, `Beacon`
has recursive functions, whose values are proved for the lengths that occur
(`CrcOfBytes`, `TakenPushed`).

## 5. Disagreements between code and documentation

Each has a run that TLC ends with a counterexample.

1. **A STOP without a run id leaves no tombstone** (`fanout_blanket_stop`). It
   drops the entries of its scope (`lastrun.go:93`), and the next repeat of the
   cue stores the run again: a phone that joins then is sent a stopped run.
   `lastrun.go:42-44` says repeats after a STOP do not write the run back.
2. **Two memories need not agree** (`fanout_agreement`). Every node sees every
   frame, but `fanout.go:100` handles each in its own goroutine, so two cues can
   be observed in two orders. `server.go:210` says the memory is consistent
   between nodes by itself.
3. **A torch request is lost** (`phone_torch`). `set` compares with the state
   before the call under way (`torch_service.dart:28`): `off` while the torch is
   being switched on is dropped, although the class promises to store it.
4. **HOLD does not hold what is armed** (`phone_hold`). A cue armed before the
   HOLD fires during it, and its first frame may switch the torch on.
5. **STOP misses the cue that waits for the clock** (`phone_waiting`).
   `_cueAwaitingSync` survives `_onIntervention` and is played at the first
   estimate.
6. **A beacon may become two runs** (`phone_beacon`). The run id is the fire
   moment rounded to a second, the countdown is known to 100 ms: repeats around
   a half second get two ids, and after a STOP the second one is played.

More was seen while modelling and has no run, because nothing in the repository
promises otherwise or because the promise is about a part that is not modelled:
repeats of an older cue overwrite a newer one in the memory (`lastrun.go:69`); a
replay may be written after the STOP of its run (`server.go:488`); the comment at
`server.go:275` speaks of a logout, but no handler of the control API ends a
session; the status in the answer to a transcription request is read without the
mutex (`transcribe.go:86`); and what the flash limit does not reach: the light
at a cue's own start, cues of a lane that follow each other faster than the limit,
and colours that change with the lines of a lyric.

One more disagreement follows from `Transcription` at once and has no run of its
own. `docs/dagitim.md:97` says that the timeout limits a transcription, but the
context kills the command only, and `Output` then waits until the last process
the command has started closes the pipe (`transcribe.go:130`;
`deploy/transcribe-whisper.sh` starts several). One that hangs holds the only
place of the gate, and every later job stays queued: the step is `Lingers`, and
nothing makes `OutputEnds` follow. `JobsEndUnlessHeld` says that a job fails to
end in no other way.

## 6. Not modelled

- Signal processing (Goertzel filters, correlation, modulation) and audio:
  numeric work on samples, out of TLC's reach. Of the beacon, framing and search
  are modelled, and what the ear hears is an input.
- Wire codecs: a frame is what it says. Their round trip is covered by the
  repository's golden vectors, as is the agreement of the Dart ports of
  estimator, effects, venue and decoder with the Go code.
- S3, NATS and PostgreSQL themselves: modelled by what the code relies on.
- User interface of the panel, the browser client, load generator, deployment.
- On the phone: audio playback, package download, wake lock, the safe mode, the
  microphone's life cycle, and the timeline engine.
- HOLD and SKIP in the fanout: they do not touch the memory (`"other"`).
- On the gateway: the ring of the last runs and the posting of a record, an append
  under a mutex and one HTTP call whose failure is logged.
- In the control API: passwords, the form of requests, reading blobs back.

The components and their status are in `PROJECT.json`.

## 7. The plan

Done, with proofs: `RoomCast`, `Hub`, `LastRun`, `CueFanout`, `LateJoin`,
`Torch`, `Phone`, `RealtimeClient`, `MemStore`, `PgStore`, `ControlApi`,
`Migrations`, `Transcription`, `Sessions`, `ClockSync`, `Presence`, `ClockStats`,
`Venue`, `Effect`, `Manifest`, `Beacon`. Next:

1. `Show`: one gateway with two phones, composing `LateJoin` and the arbiter,
   for the order of replays, repeats and stops that neither shows alone: the
   hazards without a property are about it.
2. `Timeline`: the engine that picks the cue of a lane at a moment, and the flash
   limit across the seams of cues.
