---------------------------- MODULE Phone_proofs ----------------------------
(***************************************************************************)
(* Proofs about Phone, for any cues, moments, beacons and pictures: types, *)
(* that the live timers are the ones the screen can still cancel and       *)
(* belong to the cue accepted last, that a stopped run is stopped for      *)
(* good, and that an idle screen is dark.                                  *)
(***************************************************************************)
EXTENDS Phone, TLAPS

\* The fields by which timers are cancelled name every live timer, and an
\* effect is over before the next one is armed.
Reachable(s) ==
    /\ s.fires \subseteq {s.pendingFire} \ {NoCue}
    /\ s.tickers \subseteq {s.effectTicker} \ {NoCue}
    /\ s.fires = {} \/ s.tickers = {}

Idle(s) == s.tickers = {} => (s.shown = Dark /\ ~s.torch.wanted)

LiveOf(s) == s.fires \cup s.tickers

PhoneInv ==
    /\ TypeOK
    /\ Reachable(screen)
    /\ PlaysLatest
    /\ StopIsFinal
    /\ DarkWhenIdle

-----------------------------------------------------------------------------
(* The torch. *)

LEMMA TorchType ==
  /\ NewTorch \in Torch
  /\ ~NewTorch.wanted
  BY DEF NewTorch, Torch

LEMMA RequestType ==
  ASSUME NEW t \in Torch, NEW on \in BOOLEAN
  PROVE  Request(t, on) \in Torch /\ Request(t, on).wanted = t.wanted
  BY DEF Request, Torch

LEMMA SetTorchType ==
  ASSUME NEW t \in Torch, NEW on \in BOOLEAN
  PROVE  SetTorch(t, on) \in Torch /\ SetTorch(t, on).wanted = on
  <1>1. [t EXCEPT !.wanted = on] \in Torch /\ [t EXCEPT !.wanted = on].wanted = on
    BY DEF Torch
  <1> QED
    BY <1>1, RequestType DEF SetTorch

LEMMA CompletedType ==
  ASSUME NEW t \in Torch, NEW ok \in BOOLEAN
  PROVE  Completed(t, ok) \in Torch /\ Completed(t, ok).wanted = t.wanted
  <1> DEFINE on == IF ok THEN t.op ELSE t.isOn
             end == [t EXCEPT !.isOn = on, !.busy = FALSE, !.pending = {}]
  <1>1. Completed(t, ok) = IF t.pending \subseteq {end.isOn} THEN end
                           ELSE Request(end, ~end.isOn)
    BY DEF Completed
  <1>2. on \in BOOLEAN
    BY DEF Torch
  <1> HIDE DEF on
  <1>3. end \in Torch /\ end.wanted = t.wanted
    BY <1>2 DEF Torch
  <1>4. (~end.isOn) \in BOOLEAN
    OBVIOUS
  <1> HIDE DEF end
  <1> QED
    BY <1>1, <1>3, <1>4, RequestType

-----------------------------------------------------------------------------
(* The pieces of the handlers. *)

LEMMA CancelFireFacts ==
  ASSUME NEW s \in Screen, Reachable(s)
  PROVE  /\ CancelFire(s) \in Screen
         /\ CancelFire(s).fires = {}
         /\ CancelFire(s).tickers = s.tickers
         /\ Reachable(CancelFire(s))
  BY DEF CancelFire, Screen, Reachable

LEMMA StopEffectFacts ==
  ASSUME NEW s \in Screen, Reachable(s), NEW b \in BOOLEAN
  PROVE  /\ StopEffect(s, b) \in Screen
         /\ StopEffect(s, b).fires = s.fires
         /\ StopEffect(s, b).tickers = {}
         /\ StopEffect(s, b).active = s.active
         /\ Reachable(StopEffect(s, b))
         /\ ~StopEffect(s, b).torch.wanted
         /\ b => StopEffect(s, b).shown = Dark
  <1> DEFINE lit == IF b THEN Dark ELSE [s.shown EXCEPT !.torch = FALSE]
             out == SetTorch(s.torch, FALSE)
             new == [s EXCEPT !.tickers = @ \ {s.effectTicker},
                              !.effectTicker = NoCue,
                              !.shown = lit, !.torch = out]
  <1>1. lit \in Frame
    BY PhoneAssumption DEF Screen, Frame, Dark
  <1>2. out \in Torch /\ ~out.wanted
    BY SetTorchType DEF Screen
  <1>3. StopEffect(s, b) = new
    BY DEF StopEffect
  <1>4. b => lit = Dark
    OBVIOUS
  <1> HIDE DEF lit, out
  <1>5. new \in Screen /\ new.fires = s.fires /\ new.tickers = s.tickers \ {s.effectTicker}
        /\ new.active = s.active /\ new.pendingFire = s.pendingFire
        /\ new.shown = lit /\ new.torch = out
    BY <1>1, <1>2 DEF Screen
  <1>6. new.tickers = {}
    BY <1>5 DEF Reachable
  <1> HIDE DEF new
  <1> QED
    BY <1>2, <1>3, <1>4, <1>5, <1>6 DEF Reachable

LEMMA ApplyFrameFacts ==
  ASSUME NEW s \in Screen, Reachable(s), NEW f \in Frame
  PROVE  /\ ApplyFrame(s, f) \in Screen
         /\ ApplyFrame(s, f).fires = s.fires
         /\ ApplyFrame(s, f).active = s.active
         /\ Reachable(ApplyFrame(s, f))
         /\ \/ ApplyFrame(s, f).tickers = s.tickers
            \/ /\ ApplyFrame(s, f).tickers = {}
               /\ ~ApplyFrame(s, f).torch.wanted
               /\ ApplyFrame(s, f).shown = Dark
  <1>1. CASE now - s.fireLocal >= Length
    BY <1>1, StopEffectFacts DEF ApplyFrame
  <1>2. CASE ~(now - s.fireLocal >= Length) /\ f = s.shown
    BY <1>2 DEF ApplyFrame
  <1>3. CASE ~(now - s.fireLocal >= Length) /\ f # s.shown
    <2> DEFINE lit == SetTorch(s.torch, f.torch)
               new == [s EXCEPT !.shown = f, !.torch = lit]
    <2>1. lit \in Torch
      BY SetTorchType DEF Screen, Frame
    <2>2. ApplyFrame(s, f) = new
      BY <1>3 DEF ApplyFrame
    <2> HIDE DEF lit
    <2>3. new \in Screen /\ new.fires = s.fires /\ new.tickers = s.tickers
          /\ new.active = s.active /\ new.pendingFire = s.pendingFire
          /\ new.effectTicker = s.effectTicker
      BY <2>1 DEF Screen
    <2> HIDE DEF new
    <2> QED
      BY <2>2, <2>3 DEF Reachable
  <1> QED
    BY <1>1, <1>2, <1>3

\* An effect starts on a screen that has no other.
LEMMA StartEffectFacts ==
  ASSUME NEW s \in Screen, Reachable(s), s.fires = {}, s.tickers = {},
         NEW c \in Cue, NEW f \in Frame
  PROVE  /\ StartEffect(s, c, f) \in Screen
         /\ StartEffect(s, c, f).fires = {}
         /\ StartEffect(s, c, f).tickers = {c}
         /\ StartEffect(s, c, f).active = s.active
         /\ Reachable(StartEffect(s, c, f))
  <1> DEFINE a == ApplyFrame(s, f)
             new == [a EXCEPT !.tickers = @ \cup {c}, !.effectTicker = c]
  <1>1. a \in Screen /\ a.fires = {} /\ a.tickers = {} /\ a.active = s.active
    BY ApplyFrameFacts
  <1>2. StartEffect(s, c, f) = new
    BY DEF StartEffect
  <1> HIDE DEF a
  <1>3. new \in Screen /\ new.fires = {} /\ new.tickers = {c}
        /\ new.active = s.active /\ new.effectTicker = c
    BY <1>1 DEF Screen
  <1> HIDE DEF new
  <1> QED
    BY <1>2, <1>3, NoCueAssumption DEF Reachable

\* After a cue is accepted its timer or its effect is the only live one.
LEMMA CueAcceptedFacts ==
  ASSUME NEW s \in Screen, Reachable(s), NEW c \in Cue, NEW f \in Frame
  PROVE  /\ CueAccepted(s, c, f) \in Screen
         /\ LiveOf(CueAccepted(s, c, f)) = {c}
         /\ CueAccepted(s, c, f).active = c
         /\ Reachable(CueAccepted(s, c, f))
         /\ Idle(CueAccepted(s, c, f))
  <1> DEFINE u == StopEffect(CancelFire(s), TRUE)
             v == [u EXCEPT !.held = FALSE, !.active = c, !.fireLocal = c.fire]
             now0 == [StartEffect(v, c, f) EXCEPT !.pendingFire = NoCue]
             later == [v EXCEPT !.fires = @ \cup {c}, !.pendingFire = c]
  <1>1. u \in Screen /\ u.fires = {} /\ u.tickers = {} /\ u.shown = Dark
        /\ ~u.torch.wanted /\ Reachable(u)
    BY CancelFireFacts, StopEffectFacts
  <1>2. c.fire \in Nat
    BY PhoneAssumption DEF Cue, CueOf, BeaconCue
  <1>3. CueAccepted(s, c, f) = IF c.fire <= now THEN now0 ELSE later
    BY DEF CueAccepted, Schedule
  <1> HIDE DEF u
  <1>4. v \in Screen /\ v.fires = {} /\ v.tickers = {} /\ v.active = c
        /\ v.shown = Dark /\ ~v.torch.wanted
    BY <1>1, <1>2 DEF Screen
  <1>5. Reachable(v)
    BY <1>4 DEF Reachable
  <1> HIDE DEF v
  <1>6. now0 \in Screen /\ LiveOf(now0) = {c} /\ now0.active = c
        /\ Reachable(now0) /\ Idle(now0)
    <2> DEFINE w == StartEffect(v, c, f)
    <2>1. w \in Screen /\ w.fires = {} /\ w.tickers = {c} /\ w.active = c /\ Reachable(w)
      BY <1>4, <1>5, StartEffectFacts
    <2> HIDE DEF w
    <2>2. now0 = [w EXCEPT !.pendingFire = NoCue]
      BY DEF w
    <2>3. now0 \in Screen /\ now0.fires = {} /\ now0.tickers = {c} /\ now0.active = c
          /\ now0.effectTicker = w.effectTicker
      BY <2>1, <2>2 DEF Screen
    <2> HIDE DEF now0
    <2> QED
      BY <2>1, <2>3 DEF Reachable, Idle, LiveOf
  <1>7. later \in Screen /\ LiveOf(later) = {c} /\ later.active = c
        /\ Reachable(later) /\ Idle(later)
    <2>1. later \in Screen /\ later.fires = {c} /\ later.tickers = {} /\ later.active = c
          /\ later.pendingFire = c /\ later.shown = Dark /\ ~later.torch.wanted
      BY <1>4 DEF Screen
    <2> HIDE DEF later
    <2> QED
      BY <2>1, NoCueAssumption DEF Reachable, Idle, LiveOf
  <1> QED
    BY <1>3, <1>6, <1>7

-----------------------------------------------------------------------------
(* The handlers. *)

\* The parts of PhoneInv that look at the screen.
ScreenOK ==
    /\ screen \in Screen
    /\ Reachable(screen)
    /\ mounted => LiveOf(screen) \subseteq {screen.active} \ {NoCue}
    /\ \A c \in LiveOf(screen) : c.run \notin ended
    /\ mounted => Idle(screen)

LEMMA InvParts == PhoneInv <=> TypeOK /\ ScreenOK
  BY DEF PhoneInv, ScreenOK, TypeOK, PlaysLatest, StopIsFinal, DarkWhenIdle,
         Live, LiveOf, Idle

LEMMA PhoneInit == Init => PhoneInv
  <1> SUFFICES ASSUME Init PROVE PhoneInv
    OBVIOUS
  <1>1. screen \in Screen
    BY TorchType, PhoneAssumption DEF Init, Screen, Frame, Dark
  <1>2. screen.fires = {} /\ screen.tickers = {} /\ screen.shown = Dark
        /\ ~screen.torch.wanted
    BY TorchType DEF Init
  <1>3. TypeOK
    BY <1>1 DEF Init, TypeOK
  <1>4. ScreenOK
    BY <1>1, <1>2 DEF ScreenOK, Reachable, LiveOf, Idle
  <1> QED
    BY <1>3, <1>4, InvParts

\* What the arbiter lets through, or not.
LEMMA OfferFacts ==
  ASSUME PhoneInv, NEW c \in Cue, Offer(c), ended' = ended, mounted, mounted'
  PROVE  /\ ScreenOK'
         /\ locked' \subseteq {d.run : d \in Cue}
         /\ locked \subseteq locked'
         /\ accepted' \subseteq Cue
  <1>1. CASE c.run \in locked
    BY <1>1, InvParts DEF Offer, ScreenOK, TypeOK, LiveOf, Idle
  <1>2. CASE c.run \notin locked
    <2>1. PICK f \in Frame : screen' = CueAccepted(screen, c, f)
      BY <1>2 DEF Offer
    <2>2. screen \in Screen /\ Reachable(screen)
      BY DEF PhoneInv, TypeOK
    <2>3. /\ screen' \in Screen
          /\ LiveOf(screen') = {c}
          /\ screen'.active = c
          /\ Reachable(screen')
          /\ Idle(screen')
      BY <2>1, <2>2, CueAcceptedFacts
    <2>4. c.run \notin ended'
      BY <1>2 DEF PhoneInv, TypeOK
    <2>5. ScreenOK'
      BY <2>3, <2>4, NoCueAssumption DEF ScreenOK, Reachable, LiveOf, Idle
    <2> QED
      BY <1>2, <2>5 DEF Offer, PhoneInv, TypeOK
  <1> QED
    BY <1>1, <1>2

\* A change of the torch alone, that does not ask for light.
LEMMA TorchChange ==
  ASSUME ScreenOK, NEW t \in Torch, t.wanted => screen.torch.wanted,
         screen' = [screen EXCEPT !.torch = t], UNCHANGED <<mounted, ended>>
  PROVE  ScreenOK'
  <1>1. screen' \in Screen /\ screen'.fires = screen.fires
        /\ screen'.tickers = screen.tickers /\ screen'.active = screen.active
        /\ screen'.pendingFire = screen.pendingFire
        /\ screen'.effectTicker = screen.effectTicker
        /\ screen'.shown = screen.shown /\ screen'.torch = t
    BY DEF ScreenOK, Screen
  <1> QED
    BY <1>1 DEF ScreenOK, Reachable, LiveOf, Idle

LEMMA PhoneStep == PhoneInv /\ [Next]_vars => PhoneInv'
  <1> SUFFICES ASSUME PhoneInv, [Next]_vars PROVE TypeOK' /\ ScreenOK'
    BY InvParts, PTL
  <1>a. TypeOK /\ ScreenOK /\ screen \in Screen /\ Reachable(screen)
    BY InvParts DEF ScreenOK
  <1>b. \A r \in Run : CueOf(r) \in Cue
    BY DEF Cue
  <1>c. \A f \in BeaconFire : BeaconCue(f) \in Cue
    BY DEF Cue
  <1>1. CASE UNCHANGED vars
    BY <1>1, <1>a DEF vars, TypeOK, ScreenOK, Reachable, LiveOf, Idle
  <1>2. ASSUME NEW r \in Run, OnCue(r) PROVE TypeOK' /\ ScreenOK'
    <2>1. CASE synced
      <3>1. Offer(CueOf(r)) /\ UNCHANGED <<now, synced, awaiting, mounted, ended, missed>>
            /\ mounted
        BY <1>2, <2>1 DEF OnCue
      <3> QED
        BY <1>a, <1>b, <3>1, OfferFacts DEF TypeOK, ScreenOK
    <2>2. CASE ~synced
      BY <1>2, <1>a, <1>b, <2>2
         DEF OnCue, TypeOK, ScreenOK, Reachable, LiveOf, Idle
    <2> QED
      BY <2>1, <2>2
  <1>3. ASSUME OnEstimate PROVE TypeOK' /\ ScreenOK'
    <2>1. CASE awaiting = NoCue
      BY <1>3, <1>a, <2>1 DEF OnEstimate, TypeOK, ScreenOK, Reachable, LiveOf, Idle
    <2>2. CASE awaiting # NoCue
      <3>1. Offer(awaiting) /\ UNCHANGED <<now, mounted, ended, missed>> /\ mounted
            /\ awaiting' = NoCue /\ synced' = TRUE /\ awaiting \in Cue
        BY <1>3, <1>a, <2>2 DEF OnEstimate, TypeOK
      <3> QED
        BY <1>a, <3>1, OfferFacts DEF TypeOK, ScreenOK
    <2> QED
      BY <2>1, <2>2
  <1>4. ASSUME OnStop PROVE TypeOK' /\ ScreenOK'
    <2> DEFINE u == StopEffect(CancelFire(screen), TRUE)
    <2>1. u \in Screen /\ u.fires = {} /\ u.tickers = {} /\ u.shown = Dark
          /\ ~u.torch.wanted /\ Reachable(u)
      BY <1>a, CancelFireFacts, StopEffectFacts
    <2>2. screen' = [u EXCEPT !.active = NoCue]
      BY <1>4 DEF OnStop
    <2> HIDE DEF u
    <2>3. screen' \in Screen /\ screen'.fires = {} /\ screen'.tickers = {}
          /\ screen'.shown = Dark /\ ~screen'.torch.wanted
      BY <2>1, <2>2 DEF Screen
    <2>4. ScreenOK'
      BY <2>3 DEF ScreenOK, Reachable, LiveOf, Idle
    <2>5. missed' \subseteq Run /\ ended' \subseteq locked'
      BY <1>4, <1>a DEF OnStop, TypeOK
    <2> QED
      BY <1>4, <1>a, <2>3, <2>4, <2>5 DEF OnStop, TypeOK
  <1>5. ASSUME OnHold PROVE TypeOK' /\ ScreenOK'
    <2> DEFINE t == SetTorch(screen.torch, FALSE)
    <2>1. t \in Torch /\ ~t.wanted
      BY <1>a, SetTorchType DEF Screen
    <2>2. screen' = [screen EXCEPT !.held = TRUE, !.torch = t]
      BY <1>5 DEF OnHold
    <2> HIDE DEF t
    <2>3. screen' \in Screen /\ screen'.fires = screen.fires
          /\ screen'.tickers = screen.tickers /\ screen'.active = screen.active
          /\ screen'.pendingFire = screen.pendingFire
          /\ screen'.effectTicker = screen.effectTicker
          /\ screen'.shown = screen.shown /\ screen'.torch = t
      BY <1>a, <2>1, <2>2 DEF Screen
    <2>4. UNCHANGED <<now, synced, awaiting, locked, mounted, accepted, ended, missed>>
      BY <1>5 DEF OnHold
    <2>5. ScreenOK'
      BY <1>a, <2>1, <2>3, <2>4 DEF ScreenOK, Reachable, LiveOf, Idle
    <2> QED
      BY <1>a, <2>3, <2>4, <2>5 DEF TypeOK
  <1>6. ASSUME NEW f \in BeaconFire, OnBeacon(f) PROVE TypeOK' /\ ScreenOK'
    <2>1. UNCHANGED <<now, synced, awaiting, mounted, ended, missed>> /\ mounted
      BY <1>6 DEF OnBeacon
    <2>2. CASE UNCHANGED <<locked, screen, accepted>>
      BY <1>a, <2>1, <2>2 DEF TypeOK, ScreenOK, Reachable, LiveOf, Idle
    <2>3. CASE Offer(BeaconCue(f))
      BY <1>a, <1>c, <2>1, <2>3, OfferFacts DEF TypeOK, ScreenOK
    <2> QED
      BY <1>6, <2>2, <2>3 DEF OnBeacon
  <1>7. ASSUME NEW c \in screen.fires, Fire(c) PROVE TypeOK' /\ ScreenOK'
    <2> DEFINE s == [screen EXCEPT !.fires = @ \ {c}]
    <2>1. screen.fires = {c} /\ screen.tickers = {} /\ c \in Cue /\ c # NoCue
      BY <1>a, NoCueAssumption DEF Reachable, Screen
    <2>2. s \in Screen /\ s.fires = {} /\ s.tickers = {} /\ s.active = screen.active
          /\ s.shown = screen.shown /\ s.torch = screen.torch
      BY <1>a, <2>1 DEF Screen
    <2>3. Reachable(s)
      BY <2>2 DEF Reachable
    <2>4. IF mounted THEN \E f \in Frame : screen' = StartEffect(s, c, f)
          ELSE screen' = s
      BY <1>7 DEF Fire
    <2> HIDE DEF s
    <2>5. UNCHANGED <<now, synced, awaiting, locked, mounted, accepted, ended, missed>>
      BY <1>7 DEF Fire
    <2>6. c.run \notin ended /\ (mounted => screen.active = c)
      BY <1>a, <2>1 DEF ScreenOK, LiveOf
    <2>7. CASE mounted
      <3>1. PICK f \in Frame : screen' = StartEffect(s, c, f)
        BY <2>4, <2>7
      <3>2. screen' \in Screen /\ screen'.fires = {} /\ screen'.tickers = {c}
            /\ screen'.active = s.active /\ Reachable(screen')
        BY <2>1, <2>2, <2>3, <3>1, StartEffectFacts
      <3>3. ScreenOK'
        BY <2>1, <2>2, <2>5, <2>6, <2>7, <3>2 DEF ScreenOK, Reachable, LiveOf, Idle
      <3> QED
        BY <1>a, <2>5, <3>2, <3>3 DEF TypeOK
    <2>8. CASE ~mounted
      BY <1>a, <2>2, <2>3, <2>4, <2>5, <2>8 DEF TypeOK, ScreenOK, Reachable, LiveOf, Idle
    <2> QED
      BY <2>7, <2>8
  <1>8. ASSUME NEW c \in screen.tickers, EffectTick(c) PROVE TypeOK' /\ ScreenOK'
    <2>1. PICK f \in Frame : screen' = ApplyFrame(screen, f)
      BY <1>8 DEF EffectTick
    <2>2. /\ screen' \in Screen
          /\ screen'.fires = screen.fires
          /\ screen'.active = screen.active
          /\ Reachable(screen')
          /\ \/ screen'.tickers = screen.tickers
             \/ /\ screen'.tickers = {}
                /\ ~screen'.torch.wanted
                /\ screen'.shown = Dark
      BY <1>a, <2>1, ApplyFrameFacts
    <2>3. UNCHANGED <<now, synced, awaiting, locked, mounted, accepted, ended, missed>>
      BY <1>8 DEF EffectTick
    <2>4. ScreenOK'
      BY <1>8, <1>a, <2>2, <2>3 DEF ScreenOK, Reachable, LiveOf, Idle
    <2> QED
      BY <1>a, <2>2, <2>3, <2>4 DEF TypeOK
  <1>9. ASSUME NEW b \in BOOLEAN, TorchFound(b) \/ TorchDone(b) PROVE TypeOK' /\ ScreenOK'
    <2>1. UNCHANGED <<now, synced, awaiting, locked, mounted, accepted, ended, missed>>
      BY <1>9 DEF TorchFound, TorchDone
    <2>2. PICK t \in Torch : /\ t.wanted = screen.torch.wanted
                             /\ screen' = [screen EXCEPT !.torch = t]
      <3>1. screen.torch \in Torch
        BY <1>a DEF Screen
      <3>2. Available(screen.torch, b) \in Torch
            /\ Available(screen.torch, b).wanted = screen.torch.wanted
        BY <3>1 DEF Available, Torch
      <3> QED
        BY <1>9, <3>1, <3>2, CompletedType DEF TorchFound, TorchDone
    <2>3. ScreenOK'
      BY <1>a, <2>1, <2>2, TorchChange
    <2> QED
      BY <1>a, <2>1, <2>3 DEF TypeOK, ScreenOK
  <1>10. ASSUME Leave PROVE TypeOK' /\ ScreenOK'
    <2> DEFINE u == StopEffect(screen, FALSE)
               t == SetTorch(u.torch, FALSE)
    <2>1. u \in Screen /\ u.fires = screen.fires /\ u.tickers = {} /\ Reachable(u)
      BY <1>a, StopEffectFacts
    <2>2. screen' = [u EXCEPT !.torch = t]
      BY <1>10 DEF Leave
    <2>3. t \in Torch
      BY <2>1, SetTorchType DEF Screen
    <2> HIDE DEF u, t
    <2>4. screen' \in Screen /\ screen'.fires = screen.fires /\ screen'.tickers = {}
          /\ screen'.pendingFire = u.pendingFire
      BY <2>1, <2>2, <2>3 DEF Screen
    <2>5. ScreenOK'
      BY <1>10, <1>a, <2>1, <2>4 DEF Leave, ScreenOK, Reachable, LiveOf, Idle
    <2> QED
      BY <1>10, <1>a, <2>4, <2>5 DEF Leave, TypeOK
  <1>11. ASSUME Tick PROVE TypeOK' /\ ScreenOK'
    BY <1>11, <1>a DEF Tick, TypeOK, ScreenOK, Reachable, LiveOf, Idle
  <1> QED
    BY <1>1, <1>2, <1>3, <1>4, <1>5, <1>6, <1>7, <1>8, <1>9, <1>10, <1>11 DEF Next

-----------------------------------------------------------------------------
(* The theorems. *)

\* The strengthening the properties need: no live timer has escaped the fields
\* by which the screen cancels it.
THEOREM PhoneInvariant == Spec => []PhoneInv
  <1> QED
    BY PhoneInit, PhoneStep, PTL DEF Spec

\* The fields of the show screen and of TorchService keep their types.
THEOREM PhoneTypeCorrect == Spec => []TypeOK
  <1>1. PhoneInv => TypeOK
    BY DEF PhoneInv
  <1> QED
    BY <1>1, PhoneInvariant, PTL

\* _onCueAccepted and _onIntervention leave no timer behind: whatever is armed
\* or running belongs to the cue accepted last.
THEOREM OneEffect == Spec => []PlaysLatest
  <1>1. PhoneInv => PlaysLatest
    BY DEF PhoneInv
  <1> QED
    BY <1>1, PhoneInvariant, PTL

\* A run that was locked when STOP or BLACKOUT came never starts again.
THEOREM StoppedForGood == Spec => []StopIsFinal
  <1>1. PhoneInv => StopIsFinal
    BY DEF PhoneInv
  <1> QED
    BY <1>1, PhoneInvariant, PTL

\* A screen without a running effect is black and has asked for darkness.
THEOREM IdleIsDark == Spec => []DarkWhenIdle
  <1>1. PhoneInv => DarkWhenIdle
    BY DEF PhoneInv
  <1> QED
    BY <1>1, PhoneInvariant, PTL
=============================================================================
