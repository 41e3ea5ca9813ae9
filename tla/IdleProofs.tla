----------------------------- MODULE IdleProofs -----------------------------
(* Theorems about Idle, for all durations. *)
EXTENDS Idle, TLAPS

USE DurationsNatural, SwitchesBoolean

\* Where an input that woke the display can be, and what keeps it from the view.
Absorbing ==
    queued = "waking" =>
        \/ pc = "reset" /\ (blanked \/ grace = Grace)
        \/ pc = "run" /\ grace = Grace
        \/ pc \in {"activate", "get", "timer", "standby", "view"} /\ (grace > 0 \/ frame.blanked)

\* No wait of the main loop is as long as the grace period, so none leaks.
AbsorbInv == MaxElapsed < Grace => Absorbing /\ ~leaked

Inv == TypeOK /\ AbsorbInv /\ PendingNeverBlanks

LEMMA InvInit == Init => Inv
<1> SUFFICES ASSUME Init PROVE Inv
  OBVIOUS
<1>1. /\ pending \in BOOLEAN /\ leaked \in BOOLEAN /\ blanked \in BOOLEAN
      /\ taken \in BOOLEAN /\ throttled \in BOOLEAN
  BY DEF Init
<1>2. srvThrottle \in 0..ServerThrottle /\ frame \in [dt : 0..MaxElapsed, blanked : BOOLEAN]
  BY DEF Init
<1>3. TypeOK
  BY <1>1, <1>2 DEF Init, TypeOK
<1>4. AbsorbInv /\ PendingNeverBlanks
  BY DEF Init, AbsorbInv, Absorbing, PendingNeverBlanks
<1> QED BY <1>3, <1>4 DEF Inv

LEMMA LessBounded ==
    ASSUME NEW n \in Nat, NEW t \in 0..n, NEW dt \in Nat
    PROVE  Less(t, dt) \in 0..n /\ (t = n /\ dt < n => Less(t, dt) > 0)
BY DEF Less

\* Client.Activate changes nothing but the server.
LEMMA ActivateTyped ==
    ASSUME TypeOK, NEW ok \in BOOLEAN, Activate(ok)
    PROVE  /\ srvThrottle' \in 0..ServerThrottle
           /\ srvVisible' \in BOOLEAN /\ bridgeUp' \in BOOLEAN /\ reliable' \in BOOLEAN /\ taken' \in BOOLEAN
BY DEF TypeOK, Activate, srv

LEMMA InputStep == Inv /\ (Input \/ InputActivates \/ ResetReturns) => Inv'
<1> SUFFICES ASSUME Inv, Input \/ InputActivates \/ ResetReturns PROVE Inv'
  OBVIOUS
<1> USE DEF Inv
<1>1. CASE Input
  <2>1. TypeOK'
    <3>1. queued' \in {"none", "input", "waking"} /\ grace' \in 0..Grace
      BY <1>1 DEF Input, Reset, TypeOK
    <3>2. idleT' \in 0..BlankTimeout
      BY <1>1 DEF Input, Reset
    <3>3. blanked' \in BOOLEAN
      BY <1>1 DEF Input, Reset
    <3> QED BY <1>1, <3>1, <3>2, <3>3 DEF Input, TypeOK, srv
  <2>2. AbsorbInv' /\ PendingNeverBlanks'
    BY <1>1 DEF Input, Reset, TypeOK, AbsorbInv, Absorbing, PendingNeverBlanks
  <2> QED BY <2>1, <2>2
<1>2. CASE InputActivates
  <2>1. TypeOK'
    BY <1>2 DEF InputActivates, TypeOK, srv
  <2>2. AbsorbInv' /\ PendingNeverBlanks'
    BY <1>2 DEF InputActivates, TypeOK, AbsorbInv, Absorbing, PendingNeverBlanks
  <2> QED BY <2>1, <2>2
<1>3. CASE ResetReturns
  <2>1. TypeOK'
    <3>1. grace' \in 0..Grace /\ idleT' \in 0..BlankTimeout
      BY <1>3 DEF ResetReturns, Reset, TypeOK
    <3>3. blanked' \in BOOLEAN
      BY <1>3 DEF ResetReturns, Reset
    <3>2. /\ srvThrottle' \in 0..ServerThrottle
          /\ srvVisible' \in BOOLEAN /\ bridgeUp' \in BOOLEAN /\ reliable' \in BOOLEAN /\ taken' \in BOOLEAN
      BY <1>3, ActivateTyped DEF ResetReturns
    <3> QED BY <1>3, <3>1, <3>2, <3>3 DEF ResetReturns, TypeOK
  <2>2. AbsorbInv' /\ PendingNeverBlanks'
    BY <1>3 DEF ResetReturns, Reset, TypeOK, AbsorbInv, Absorbing, PendingNeverBlanks
  <2> QED BY <2>1, <2>2
<1> QED BY <1>1, <1>2, <1>3

LEMMA FrameStep == Inv /\ Frame => Inv'
<1> SUFFICES ASSUME Inv, Frame PROVE Inv'
  OBVIOUS
<1> USE DEF Inv
<1>1. /\ Less(grace, elapsed) \in 0..Grace /\ Less(throttle, elapsed) \in 0..Throttle
      /\ grace = Grace /\ elapsed < Grace => Less(grace, elapsed) > 0
  <2>1. /\ elapsed \in Nat /\ grace \in 0..Grace /\ throttle \in 0..Throttle
        /\ Grace \in Nat /\ Throttle \in Nat
    BY DEF TypeOK
  <2> QED BY <2>1, LessBounded
<1>2. TypeOK'
  BY <1>1 DEF Frame, TypeOK, srv
<1>3. AbsorbInv'
  BY <1>1 DEF Frame, TypeOK, AbsorbInv, Absorbing
<1>4. PendingNeverBlanks'
  BY DEF Frame, PendingNeverBlanks
<1> QED BY <1>2, <1>3, <1>4

LEMMA UpdateStep == Inv /\ (RetryActivate \/ GetState \/ Timer \/ StandbyReturns \/ View) => Inv'
<1> SUFFICES ASSUME Inv, RetryActivate \/ GetState \/ Timer \/ StandbyReturns \/ View PROVE Inv'
  OBVIOUS
<1> USE DEF Inv
<1>1. CASE RetryActivate
  <2>1. PICK ok \in BOOLEAN : /\ Activate(ok) /\ pending' = (pending /\ ~ok)
                              /\ throttled' = (throttled \/ (ok /\ srvThrottle > 0))
    BY <1>1 DEF RetryActivate
  <2>2. pending' \in BOOLEAN /\ (pending' => pending) /\ throttled' \in BOOLEAN
    BY <2>1 DEF TypeOK
  <2>3. TypeOK'
    BY <1>1, <2>1, <2>2, ActivateTyped DEF RetryActivate, TypeOK
  <2>4. AbsorbInv' /\ PendingNeverBlanks'
    BY <1>1, <2>2 DEF RetryActivate, TypeOK, AbsorbInv, Absorbing, PendingNeverBlanks
  <2> QED BY <2>3, <2>4
<1>2. CASE GetState
  <2>1. /\ pending' \in BOOLEAN /\ (pending' => pending) /\ blanked' \in BOOLEAN
        /\ blanked' /\ pending' => blanked /\ idleT' = idleT
    <3>1. CASE UNCHANGED timers
      BY <3>1 DEF TypeOK, timers
    <3>2. CASE /\ pending' = (pending /\ ~srvVisible)
               /\ IF srvVisible /\ visible # "true" /\ blanked
                  THEN blanked' = FALSE /\ idleT' = 0
                  ELSE /\ blanked' = (blanked \/ (~srvVisible /\ ~pending))
                       /\ UNCHANGED idleT
      BY <3>2 DEF TypeOK
    <3> QED BY <1>2, <3>1, <3>2 DEF GetState
  <2>2. TypeOK'
    BY <1>2, <2>1 DEF GetState, TypeOK, timers, srv
  <2>3. AbsorbInv' /\ PendingNeverBlanks'
    BY <1>2, <2>1 DEF GetState, TypeOK, AbsorbInv, Absorbing, PendingNeverBlanks, timers
  <2> QED BY <2>2, <2>3
<1>3. CASE Timer
  <2>1. TypeOK'
    <3>1. frame.dt \in 0..MaxElapsed
      BY DEF TypeOK
    <3>2. idleT' \in 0..BlankTimeout
      BY <1>3, <3>1 DEF Timer, TypeOK
    <3>3. blanked' \in BOOLEAN /\ pc' \in {"standby", "view"}
      BY <1>3 DEF Timer, TypeOK
    <3> QED BY <1>3, <3>2, <3>3 DEF Timer, TypeOK, srv
  <2>2. AbsorbInv' /\ PendingNeverBlanks'
    BY <1>3 DEF Timer, TypeOK, AbsorbInv, Absorbing, PendingNeverBlanks
  <2> QED BY <2>1, <2>2
<1>4. CASE StandbyReturns
  BY <1>4 DEF StandbyReturns, TypeOK, AbsorbInv, Absorbing, PendingNeverBlanks, timers, srv
<1>5. CASE View
  <2>1. AbsorbInv' /\ PendingNeverBlanks'
    BY <1>5 DEF View, TypeOK, AbsorbInv, Absorbing, PendingNeverBlanks, timers
  <2>2. TypeOK'
    <3>1. leaked' \in BOOLEAN
      BY <1>5 DEF View, TypeOK
    <3> QED BY <1>5, <3>1 DEF View, TypeOK, timers, srv
  <2> QED BY <2>1, <2>2
<1> QED BY <1>1, <1>2, <1>3, <1>4, <1>5

LEMMA EnvironmentStep ==
    Inv /\ (Tick \/ BridgePushes \/ BridgeStartsOrEnds \/ ServerTurns \/ ServerRestarts \/ UNCHANGED vars) => Inv'
<1> SUFFICES ASSUME Inv, Tick \/ BridgePushes \/ BridgeStartsOrEnds \/ ServerTurns \/ ServerRestarts \/ UNCHANGED vars
             PROVE  Inv'
  OBVIOUS
<1> USE DEF Inv
<1>1. UNCHANGED <<pc, frame, timers, queued, leaked, throttled>>
  BY DEF Tick, BridgePushes, BridgeStartsOrEnds, ServerTurns, ServerRestarts, vars, ui
<1>2. AbsorbInv' /\ PendingNeverBlanks'
  BY <1>1 DEF AbsorbInv, Absorbing, PendingNeverBlanks, timers
<1>3. elapsed' \in 0..MaxElapsed /\ srvThrottle' \in 0..ServerThrottle
  <2>1. Less(srvThrottle, 1) \in 0..ServerThrottle
    BY LessBounded DEF TypeOK
  <2> QED BY <2>1 DEF TypeOK, Tick, BridgePushes, BridgeStartsOrEnds, ServerTurns, ServerRestarts, vars, ui, srv
<1>4. srvVisible' \in BOOLEAN /\ bridgeUp' \in BOOLEAN /\ reliable' \in BOOLEAN /\ taken' \in BOOLEAN
  BY DEF TypeOK, Tick, BridgePushes, BridgeStartsOrEnds, ServerTurns, ServerRestarts, vars, srv
<1>5. TypeOK'
  BY <1>1, <1>3, <1>4 DEF TypeOK, timers
<1> QED BY <1>2, <1>5

LEMMA InvAlways == Spec => []Inv
<1>1. Inv /\ [Next]_vars => Inv'
  BY InputStep, FrameStep, UpdateStep, EnvironmentStep DEF Next, Loop
<1> QED BY <1>1, InvInit, PTL DEF Spec

\* The variables keep their types.
THEOREM TypeCorrect == Spec => []TypeOK
BY InvAlways, PTL DEF Inv

\* While every frame is shorter than the grace period, the input that wakes the
\* display never reaches the view.
THEOREM AbsorbedAlways == Spec => []AbsorbedInQuickFrames
<1>1. Inv => AbsorbedInQuickFrames
  BY DEF Inv, AbsorbInv, AbsorbedInQuickFrames, WakingInputAbsorbed
<1> QED BY <1>1, InvAlways, PTL

\* The zeroed state of the bridge never blanks the display while the startup
\* activate is pending.
THEOREM PendingNeverBlanksAlways == Spec => []PendingNeverBlanks
BY InvAlways, PTL DEF Inv
=============================================================================
