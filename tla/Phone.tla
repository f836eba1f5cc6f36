------------------------------- MODULE Phone -------------------------------
(***************************************************************************)
(* The show screen of a phone (apps/participant/lib/ui/show_screen.dart)   *)
(* with the cue arbiter, the cue scheduler and the torch it drives.  Dart  *)
(* runs one event handler at a time, so every handler is one action; the   *)
(* interleaving is that of socket messages, timers, beacon detections and  *)
(* completed platform calls.                                               *)
(*                                                                         *)
(* A handler is a chain of operators on the screen record.  Moments are    *)
(* read on the phone's monotonic clock: the offset has been applied.       *)
(***************************************************************************)
EXTENDS Integers, Torch

CONSTANTS
    Run,         \* run ids of cues that come over the socket
    FireAt,      \* when each of them fires
    Length,      \* how long an effect lasts: durationMs
    BeaconFire,  \* the moments the detections of one beacon resolve to: its
                 \* countdown is rounded to 100 ms, so repeats differ a little
    Second,      \* 1000 ms, the grain of a synthetic run id
    Window,      \* 2000 ms around the fire moment of the active cue
    Picture,     \* what the screen can show: colour and lyric
    Black,       \* the dark screen
    NoCue,       \* null
    MaxTime      \* bound: the clock

ASSUME PhoneAssumption ==
    /\ FireAt \in [Run -> Nat]
    /\ Length \in Nat \ {0}
    /\ BeaconFire \subseteq Nat
    /\ Second \in Nat \ {0}
    /\ Window \in Nat
    /\ Black \in Picture
    /\ MaxTime \in Nat

VARIABLES
    now,       \* MonoClock
    synced,    \* _estimate is not null
    awaiting,  \* _cueAwaitingSync
    locked,    \* the runs the arbiter is locked to
    screen,    \* the fields of the show screen, see Screen
    mounted,   \* the screen has not been left
    accepted,  \* history: the cues the arbiter has accepted
    ended,     \* history: the runs locked when a STOP or BLACKOUT came
    missed     \* history: the runs waiting for the clock when one came

vars == <<now, synced, awaiting, locked, screen, mounted, accepted, ended, missed>>

\* The synthetic run id of a beacon detection: its fire moment to the second.
BeaconRun(f) == <<"beacon", (f + Second \div 2) \div Second>>

CueOf(r) == [run |-> r, fire |-> FireAt[r]]

BeaconCue(f) == [run |-> BeaconRun(f), fire |-> f]

Cue == {CueOf(r) : r \in Run} \cup {BeaconCue(f) : f \in BeaconFire}

ASSUME NoCueAssumption == NoCue \notin Cue

Frame == [picture: Picture, torch: BOOLEAN]

\* fires and tickers are the live timers; pendingFire and effectTicker the
\* fields by which the code can cancel one.
Screen == [active: Cue \cup {NoCue}, fireLocal: Nat, held: BOOLEAN,
           fires: SUBSET Cue, pendingFire: Cue \cup {NoCue},
           tickers: SUBSET Cue, effectTicker: Cue \cup {NoCue},
           shown: Frame, torch: Torch]

Dark == [picture |-> Black, torch |-> FALSE]

TypeOK ==
    /\ now \in Nat
    /\ synced \in BOOLEAN
    /\ awaiting \in Cue \cup {NoCue}
    /\ locked \subseteq {c.run : c \in Cue}
    /\ screen \in Screen
    /\ mounted \in BOOLEAN
    /\ accepted \subseteq Cue
    /\ ended \subseteq locked
    /\ missed \subseteq Run

Init ==
    /\ now = 0
    /\ synced = FALSE
    /\ awaiting = NoCue
    /\ locked = {}
    /\ screen = [active |-> NoCue, fireLocal |-> 0, held |-> FALSE,
                 fires |-> {}, pendingFire |-> NoCue,
                 tickers |-> {}, effectTicker |-> NoCue,
                 shown |-> Dark, torch |-> NewTorch]
    /\ mounted = TRUE
    /\ accepted = {}
    /\ ended = {}
    /\ missed = {}

-----------------------------------------------------------------------------
(* The pieces handlers are made of. *)

\* Mutant of CancelFire: the timer stays armed.
FireNotCancelled(s) == s

\* _pendingFire?.cancel(): nothing happens when that timer has gone off.
CancelFire(s) == [s EXCEPT !.fires = @ \ {s.pendingFire}]

\* Mutant of StopEffect: the torch is not told.
StopEffectLit(s, toBlack) ==
    [s EXCEPT !.tickers = @ \ {s.effectTicker}, !.effectTicker = NoCue,
              !.shown = IF toBlack THEN Dark ELSE [@ EXCEPT !.torch = FALSE]]

\* _stopEffect; it darkens the torch, and the screen when asked to.
StopEffect(s, toBlack) ==
    [s EXCEPT !.tickers = @ \ {s.effectTicker}, !.effectTicker = NoCue,
              !.shown = IF toBlack THEN Dark ELSE [@ EXCEPT !.torch = FALSE],
              !.torch = SetTorch(@, FALSE)]

\* Mutant of ApplyFrame: the end of the effect is not looked for.
ApplyFrameForever(s, f) ==
    IF f = s.shown THEN s
    ELSE [s EXCEPT !.shown = f, !.torch = SetTorch(@, f.torch)]

\* _applyFrame: stop at the end of the effect, else show frame f, which is
\* whatever the engine or the payload says for this moment.
ApplyFrame(s, f) ==
    IF now - s.fireLocal >= Length THEN StopEffect(s, TRUE)
    ELSE IF f = s.shown THEN s
    ELSE [s EXCEPT !.shown = f, !.torch = SetTorch(@, f.torch)]

\* _startEffect: the first frame, then a ticker.
StartEffect(s, c, f) ==
    [ApplyFrame(s, f) EXCEPT !.tickers = @ \cup {c}, !.effectTicker = c]

\* CueScheduler.schedule: at once when the moment has passed, else by a timer.
Schedule(s, c, f) ==
    IF c.fire <= now THEN [StartEffect(s, c, f) EXCEPT !.pendingFire = NoCue]
    ELSE [s EXCEPT !.fires = @ \cup {c}, !.pendingFire = c]

\* _onCueAccepted: whatever ran before gives way.
CueAccepted(s, c, f) ==
    Schedule([StopEffect(CancelFire(s), TRUE) EXCEPT
                !.held = FALSE, !.active = c, !.fireLocal = c.fire], c, f)

\* Mutant of Offer: locked runs are let through.
OfferAgain(c) ==
    /\ locked' = locked \cup {c.run}
    /\ accepted' = accepted \cup {c}
    /\ \E f \in Frame : screen' = CueAccepted(screen, c, f)

\* CueArbiter.offer: the first candidate of a run wins.
Offer(c) ==
    IF c.run \in locked THEN UNCHANGED <<locked, screen, accepted>>
    ELSE /\ locked' = locked \cup {c.run}
         /\ accepted' = accepted \cup {c}
         /\ \E f \in Frame : screen' = CueAccepted(screen, c, f)

-----------------------------------------------------------------------------
(* Messages from the gateway *)

\* onCue: a live repeat or a late-join replay; before the first clock estimate
\* it waits, and the last one to come is the one that waits.
OnCue(r) ==
    /\ mounted
    /\ IF synced THEN Offer(CueOf(r)) /\ UNCHANGED awaiting
       ELSE awaiting' = CueOf(r) /\ UNCHANGED <<locked, screen, accepted>>
    /\ UNCHANGED <<now, synced, mounted, ended, missed>>

\* onEstimate: the cue that waited for the clock is offered now.
OnEstimate ==
    /\ mounted
    /\ synced' = TRUE
    /\ awaiting' = NoCue
    /\ IF awaiting = NoCue THEN UNCHANGED <<locked, screen, accepted>>
       ELSE Offer(awaiting)
    /\ UNCHANGED <<now, mounted, ended, missed>>

\* Mutant of OnStop: the arbiter forgets its locks.
OnStopUnlocks ==
    /\ mounted
    /\ screen' = [StopEffect(CancelFire(screen), TRUE) EXCEPT !.active = NoCue]
    /\ locked' = {}
    /\ ended' = ended \cup locked
    /\ missed' = missed \cup {r \in Run : awaiting = CueOf(r)}
    /\ UNCHANGED <<now, synced, awaiting, mounted, accepted>>

\* _onIntervention, STOP or BLACKOUT; the run id it carries is not looked at.
OnStop ==
    /\ mounted
    /\ screen' = [StopEffect(CancelFire(screen), TRUE) EXCEPT !.active = NoCue]
    /\ ended' = ended \cup locked
    /\ missed' = missed \cup {r \in Run : awaiting = CueOf(r)}
    /\ UNCHANGED <<now, synced, awaiting, locked, mounted, accepted>>

\* _onIntervention, HOLD: the screen keeps its last frame, the torch goes out.
OnHold ==
    /\ mounted
    /\ screen' = [screen EXCEPT !.held = TRUE, !.torch = SetTorch(@, FALSE)]
    /\ UNCHANGED <<now, synced, awaiting, locked, mounted, accepted, ended, missed>>

-----------------------------------------------------------------------------
(* The other events of the phone *)

Apart(a, b) == IF a > b THEN a - b ELSE b - a

\* _onBeaconDetected, for a beacon whose cue the manifest knows: a detection
\* close to the active cue is taken for a copy of it.
OnBeacon(f) ==
    /\ mounted
    /\ IF screen.active # NoCue /\ Apart(f, screen.fireLocal) < Window
         THEN UNCHANGED <<locked, screen, accepted>>
         ELSE Offer(BeaconCue(f))
    /\ UNCHANGED <<now, synced, awaiting, mounted, ended, missed>>

\* The timer of a scheduled cue goes off; a screen that was left ignores it.
Fire(c) ==
    /\ c \in screen.fires
    /\ now >= c.fire
    /\ LET s == [screen EXCEPT !.fires = @ \ {c}]
       IN  IF mounted THEN \E f \in Frame : screen' = StartEffect(s, c, f)
           ELSE screen' = s
    /\ UNCHANGED <<now, synced, awaiting, locked, mounted, accepted, ended, missed>>

\* The 16 ms ticker of an effect.
EffectTick(c) ==
    /\ c \in screen.tickers
    /\ ~screen.held
    /\ \E f \in Frame : screen' = ApplyFrame(screen, f)
    /\ UNCHANGED <<now, synced, awaiting, locked, mounted, accepted, ended, missed>>

\* TorchService.init has its answer.
TorchFound(yes) ==
    /\ ~screen.torch.available
    /\ screen' = [screen EXCEPT !.torch = Available(@, yes)]
    /\ UNCHANGED <<now, synced, awaiting, locked, mounted, accepted, ended, missed>>

\* The platform has switched the torch, or has failed to.
TorchDone(ok) ==
    /\ screen.torch.busy
    /\ screen' = [screen EXCEPT !.torch = Completed(@, ok)]
    /\ UNCHANGED <<now, synced, awaiting, locked, mounted, accepted, ended, missed>>

\* dispose: the socket and the microphone are closed, the armed timer is not.
Leave ==
    /\ mounted
    /\ mounted' = FALSE
    /\ screen' = [StopEffect(screen, FALSE) EXCEPT !.torch = SetTorch(@, FALSE)]
    /\ UNCHANGED <<now, synced, awaiting, locked, accepted, ended, missed>>

Tick ==
    /\ now < MaxTime
    /\ now' = now + 1
    /\ UNCHANGED <<synced, awaiting, locked, screen, mounted, accepted, ended, missed>>

Next ==
    \/ \E r \in Run : OnCue(r)
    \/ OnEstimate \/ OnStop \/ OnHold
    \/ \E f \in BeaconFire : OnBeacon(f)
    \/ \E c \in screen.fires : Fire(c)
    \/ \E c \in screen.tickers : EffectTick(c)
    \/ \E b \in BOOLEAN : TorchFound(b) \/ TorchDone(b)
    \/ Leave
    \/ Tick

Spec == Init /\ [][Next]_vars

\* Timers go off and platform calls end.
Fairness ==
    /\ WF_vars(Tick)
    /\ WF_vars(\E c \in screen.fires : Fire(c))
    /\ WF_vars(\E c \in screen.tickers : EffectTick(c))
    /\ WF_vars(\E b \in BOOLEAN : TorchDone(b))

FairSpec == Spec /\ Fairness

-----------------------------------------------------------------------------
(* Properties *)

Live == screen.fires \cup screen.tickers

\* Two effects never fight over one screen, and a stopped phone has none: every
\* live timer, forgotten ones included, belongs to the cue accepted last.
PlaysLatest == mounted => Live \subseteq ({screen.active} \ {NoCue})

\* A run the phone was playing or waiting to fire when STOP came never starts
\* again, however many repeats, replays and beacons of it still arrive.
StopIsFinal == \A c \in Live : c.run \notin ended

\* No light without an effect that will put it out: once the last ticker is
\* gone the screen is black and the last word to the torch was "off".
DarkWhenIdle ==
    (mounted /\ screen.tickers = {}) => (screen.shown = Dark /\ ~screen.torch.wanted)

\* An effect ends by itself, or is held for the operator to decide.
EffectEnds == screen.tickers # {} ~> (screen.tickers = {} \/ screen.held)

\* Said of TorchService: the requested state is remembered while a call is under
\* way.  When a call has succeeded and nothing is left to do, the torch is as
\* it was last asked to be.
TorchObeys ==
    [][TorchDone(TRUE) /\ ~screen'.torch.busy
         => screen'.torch.isOn = screen'.torch.wanted]_vars

\* Said of HOLD: the torch is put out for safety.  Nothing asks for light while
\* the screen is held.
HoldIsDark == screen.held => ~screen.torch.wanted

\* Said of STOP: it ends the run.  A cue that was waiting for the clock when it
\* came is not played afterwards.
StopReachesWaiting == \A c \in Live : c.run \notin missed

\* Said of beacon repeats: they resolve to one second, and so to one run id.
BeaconIsOneRun ==
    \A c, d \in accepted : c.run \notin Run /\ d.run \notin Run => c.run = d.run
=============================================================================
