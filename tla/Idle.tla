-------------------------------- MODULE Idle --------------------------------
(***************************************************************************)
(* The idle manager of the launcher UI and the requests it makes of the    *)
(* server (ui/lib/idle.lua, the callbacks of ui/main.lua that call it, and *)
(* Client.Activate of server/internal/cec/cec.go).                         *)
(*                                                                         *)
(* The UI has one thread: LOVE handles the input events, then calls        *)
(* love.update with the time since the last frame.  Its HTTP calls block,  *)
(* so the time they take is part of the dt of the next frame.  The server, *)
(* the bridge and the TV go on meanwhile.                                  *)
(***************************************************************************)
EXTENDS Integers

CONSTANTS
    CecMode,         \* blank_mode = "cec" (else "wlopm")
    ActivateOnStart, \* cec_activate_on_start of the UI
    ServerActivates, \* cec.activate_on_start of the server
    BlankTimeout,    \* _blank_timeout; 0 = disabled
    Throttle,        \* _cec_throttle
    PollInterval,    \* _cec_poll_interval
    Grace,           \* WAKE_GRACE_DURATION
    ServerThrottle,  \* activateThrottle
    MaxElapsed       \* bound: time between two frames, blocking calls included

ASSUME DurationsNatural ==
    /\ BlankTimeout \in Nat /\ Throttle \in Nat /\ ServerThrottle \in Nat
    /\ PollInterval \in Nat \ {0} /\ Grace \in Nat \ {0} /\ MaxElapsed \in Nat \ {0}
ASSUME SwitchesBoolean ==
    /\ CecMode \in BOOLEAN /\ ActivateOnStart \in BOOLEAN
    /\ ServerActivates \in BOOLEAN

VARIABLES
    pc,        \* where the UI thread is
    frame,     \* of the frame being computed: dt, and blanked at its beginning
    elapsed,   \* time since the last frame
    idleT, blanked, grace, throttle, pollT, visible, pending, \* locals of idle.lua
    queued,    \* input waiting in lib.input for the next frame
    srvThrottle,  \* what is left of activateThrottle since lastActivate
    srvVisible,   \* tv_on and is_active_source of the server's copy
    bridgeUp,     \* the bridge listens on its socket
    reliable,     \* the server listens and answers within the client's timeout
    \* History.
    leaked,       \* an input that woke the display was given to the view
    taken,        \* the bridge has been sent an activate
    throttled     \* a retry was answered 200 and nothing was sent for it

timers == <<idleT, blanked, grace, throttle, pollT, visible, pending>>
ui == <<pc, frame, elapsed, timers, queued, leaked, throttled>>
srv == <<srvThrottle, srvVisible, bridgeUp, reliable, taken>>
vars == <<ui, srv>>

\* Mutant of Less: without math.max.
LessUnclamped(t, dt) == t - dt

\* math.max(0, t - dt)
Less(t, dt) == IF t > dt THEN t - dt ELSE 0

Init ==
    /\ pc = "run"
    /\ frame = [dt |-> 0, blanked |-> FALSE]
    /\ elapsed = 0
    /\ idleT = 0 /\ blanked = FALSE /\ grace = 0 /\ throttle = 0
    /\ pollT = PollInterval
    /\ visible = "nil"
    /\ pending = (CecMode /\ ActivateOnStart)
    /\ queued = "none"
    /\ srvVisible \in BOOLEAN /\ bridgeUp \in BOOLEAN /\ reliable \in BOOLEAN
    /\ srvThrottle \in IF ServerActivates THEN 0..ServerThrottle ELSE {0}
    /\ taken \in {FALSE, ServerActivates}
    /\ leaked = FALSE /\ throttled = FALSE

-----------------------------------------------------------------------------
(* POST /api/cec/activate, and what it answers.                            *)

\* Client.Activate: the time is noted before the command is sent, and a throttled
\* call is answered with 200.  A call may time out before or after the server acts.
Activate(ok) ==
    \/ /\ srvThrottle > 0
       /\ ok \/ ~reliable
       /\ UNCHANGED srv
    \/ /\ srvThrottle = 0
       /\ ok = bridgeUp \/ (~reliable /\ ~ok)
       /\ srvThrottle' = ServerThrottle
       /\ taken' = (taken \/ bridgeUp)
       /\ UNCHANGED <<srvVisible, bridgeUp, reliable>>
    \/ ~reliable /\ ~ok /\ UNCHANGED srv

-----------------------------------------------------------------------------
(* Input callbacks of main.lua: lib.input queues the event, then M.reset.  *)

\* Mutant of Reset: a wake starts no grace period.
ResetUngraced ==
    /\ blanked' = FALSE
    /\ grace' = grace
    /\ idleT' = 0

\* M.reset after its call.
Reset ==
    /\ blanked' = FALSE
    /\ grace' = IF blanked THEN Grace ELSE grace
    /\ idleT' = 0

Activates == CecMode /\ visible # "true" /\ throttle = 0

\* Input at a time when M.reset makes no call.
Input ==
    /\ pc = "run"
    /\ ~Activates
    /\ queued' = IF blanked THEN "waking" ELSE IF queued = "none" THEN "input" ELSE queued
    /\ Reset
    /\ UNCHANGED <<pc, frame, elapsed, throttle, pollT, visible, pending, leaked, throttled, srv>>

\* M.reset up to its call, whose answer is ignored.
InputActivates ==
    /\ pc = "run"
    /\ Activates
    /\ queued' = IF blanked THEN "waking" ELSE IF queued = "none" THEN "input" ELSE queued
    /\ throttle' = Throttle
    /\ pc' = "reset"
    /\ UNCHANGED <<frame, elapsed, idleT, blanked, grace, pollT, visible, pending, leaked, throttled, srv>>

\* The call of M.reset, and the rest of it.
ResetReturns ==
    /\ pc = "reset"
    /\ pc' = "run"
    /\ \E ok \in BOOLEAN : Activate(ok)
    /\ Reset
    /\ UNCHANGED <<frame, elapsed, throttle, pollT, visible, pending, queued, leaked, throttled>>

-----------------------------------------------------------------------------
(* love.update and M.update.                                               *)

\* The timers, and whether this frame polls.
Frame ==
    /\ pc = "run"
    /\ elapsed > 0
    /\ frame' = [dt |-> elapsed, blanked |-> blanked]
    /\ elapsed' = 0
    /\ grace' = Less(grace, elapsed)
    /\ throttle' = Less(throttle, elapsed)
    /\ IF CecMode /\ pollT + elapsed >= PollInterval
       THEN pollT' = 0 /\ pc' = IF pending THEN "activate" ELSE "get"
       ELSE pollT' = (IF CecMode THEN pollT + elapsed ELSE pollT) /\ pc' = "timer"
    /\ UNCHANGED <<idleT, blanked, visible, pending, queued, leaked, throttled, srv>>

\* Mutant of RetryActivate: one try, whatever its answer.
RetryOnce ==
    /\ pc = "activate"
    /\ pc' = "get"
    /\ pending' = FALSE
    /\ \E ok \in BOOLEAN : Activate(ok) /\ throttled' = (throttled \/ (ok /\ srvThrottle > 0))
    /\ UNCHANGED <<frame, elapsed, idleT, blanked, grace, throttle, pollT, visible, queued, leaked>>

\* The retry of the activate at startup, which goes on to the GET.
RetryActivate ==
    /\ pc = "activate"
    /\ pc' = "get"
    /\ \E ok \in BOOLEAN :
        /\ Activate(ok)
        /\ pending' = (pending /\ ~ok)
        /\ throttled' = (throttled \/ (ok /\ srvThrottle > 0))
    /\ UNCHANGED <<frame, elapsed, idleT, blanked, grace, throttle, pollT, visible, queued, leaked>>

\* Mutant of GetState: the display is blanked although the activate is pending.
GetStateHasty ==
    /\ pc = "get"
    /\ pc' = "timer"
    /\ \/ ~reliable /\ UNCHANGED timers
       \/ /\ visible' = IF srvVisible THEN "true" ELSE "false"
          /\ pending' = (pending /\ ~srvVisible)
          /\ IF srvVisible /\ visible # "true" /\ blanked
             THEN blanked' = FALSE /\ idleT' = 0
             ELSE blanked' = (blanked \/ ~srvVisible) /\ UNCHANGED idleT
          /\ UNCHANGED <<grace, throttle, pollT>>
    /\ UNCHANGED <<frame, elapsed, queued, leaked, throttled, srv>>

\* Mutant of GetState: visibility that comes back wakes nothing.
GetStateNoWake ==
    /\ pc = "get"
    /\ pc' = "timer"
    /\ \/ ~reliable /\ UNCHANGED timers
       \/ /\ visible' = IF srvVisible THEN "true" ELSE "false"
          /\ pending' = (pending /\ ~srvVisible)
          /\ blanked' = (blanked \/ (~srvVisible /\ ~pending))
          /\ UNCHANGED <<idleT, grace, throttle, pollT>>
    /\ UNCHANGED <<frame, elapsed, queued, leaked, throttled, srv>>

\* GET /api/cec/state: it wakes the display when visibility comes back, and
\* blanks it when the TV does not show the host PC.
GetState ==
    /\ pc = "get"
    /\ pc' = "timer"
    /\ \/ ~reliable /\ UNCHANGED timers
       \/ /\ visible' = IF srvVisible THEN "true" ELSE "false"
          /\ pending' = (pending /\ ~srvVisible)
          /\ IF srvVisible /\ visible # "true" /\ blanked
             THEN blanked' = FALSE /\ idleT' = 0
             ELSE /\ blanked' = (blanked \/ (~srvVisible /\ ~pending))
                  /\ UNCHANGED idleT
          /\ UNCHANGED <<grace, throttle, pollT>>
    /\ UNCHANGED <<frame, elapsed, queued, leaked, throttled, srv>>

\* The inactivity timer, which is not read beyond BlankTimeout.
Timer ==
    LET t == IF idleT + frame.dt < BlankTimeout THEN idleT + frame.dt ELSE BlankTimeout
    IN  /\ pc = "timer"
        /\ idleT' = t
        /\ IF BlankTimeout > 0 /\ ~blanked /\ t = BlankTimeout
           THEN blanked' = TRUE /\ pc' = (IF CecMode THEN "standby" ELSE "view")
           ELSE pc' = "view" /\ UNCHANGED blanked
        /\ UNCHANGED <<frame, elapsed, grace, throttle, pollT, visible, pending, queued, leaked, throttled, srv>>

\* POST /api/cec/standby.  What the TV does comes back as a change of srvVisible.
StandbyReturns ==
    /\ pc = "standby"
    /\ pc' = "view"
    /\ UNCHANGED <<frame, elapsed, timers, queued, leaked, throttled, srv>>

\* The rest of love.update: the view sees the input unless the frame began
\* blanked or the grace period lasts.
View ==
    /\ pc = "view"
    /\ pc' = "run"
    /\ queued' = "none"
    /\ leaked' = (leaked \/ (queued = "waking" /\ ~frame.blanked /\ grace = 0))
    /\ UNCHANGED <<frame, elapsed, timers, throttled, srv>>

-----------------------------------------------------------------------------
(* Time and the environment.                                               *)

Tick ==
    /\ elapsed < MaxElapsed
    /\ elapsed' = elapsed + 1
    /\ srvThrottle' = Less(srvThrottle, 1)
    /\ UNCHANGED <<pc, frame, timers, queued, srvVisible, bridgeUp, reliable, leaked, taken, throttled>>

\* The bridge pushes its state.
BridgePushes == srvVisible' = ~srvVisible /\ UNCHANGED <<ui, srvThrottle, bridgeUp, reliable, taken>>

BridgeStartsOrEnds ==
    bridgeUp' = ~bridgeUp /\ UNCHANGED <<ui, srvThrottle, srvVisible, reliable, taken>>

\* The server ends or becomes slow, or is quick again.
ServerTurns == reliable' = ~reliable /\ UNCHANGED <<ui, srvThrottle, srvVisible, bridgeUp, taken>>

\* A server that has ended starts again: cec.New, and the activate of main.
ServerRestarts ==
    /\ ~reliable
    /\ srvThrottle' = IF ServerActivates THEN ServerThrottle ELSE 0
    /\ taken' = (taken \/ (ServerActivates /\ bridgeUp))
    /\ srvVisible' \in BOOLEAN
    /\ UNCHANGED <<ui, bridgeUp, reliable>>

Loop == Frame \/ RetryActivate \/ GetState \/ Timer \/ StandbyReturns \/ View \/ ResetReturns

Next ==
    \/ Loop \/ Input \/ InputActivates \/ Tick
    \/ BridgePushes \/ BridgeStartsOrEnds \/ ServerTurns \/ ServerRestarts

Spec == Init /\ [][Next]_vars

\* The main loop goes on and time passes.  Input and pushes may never come.
FairSpec == Spec /\ WF_vars(Loop) /\ WF_vars(Tick)

-----------------------------------------------------------------------------
TypeOK ==
    /\ pc \in {"run", "reset", "activate", "get", "timer", "standby", "view"}
    /\ frame \in [dt : 0..MaxElapsed, blanked : BOOLEAN]
    /\ elapsed \in 0..MaxElapsed
    /\ idleT \in 0..BlankTimeout
    /\ blanked \in BOOLEAN
    /\ grace \in 0..Grace /\ throttle \in 0..Throttle /\ pollT \in 0..PollInterval
    /\ visible \in {"nil", "true", "false"}
    /\ pending \in BOOLEAN
    /\ queued \in {"none", "input", "waking"}
    /\ srvThrottle \in 0..ServerThrottle
    /\ srvVisible \in BOOLEAN /\ bridgeUp \in BOOLEAN /\ reliable \in BOOLEAN
    /\ leaked \in BOOLEAN /\ taken \in BOOLEAN /\ throttled \in BOOLEAN

\* "The waking keypress is not forwarded to the UI": it waits in the input queue
\* until the next frame, which must still be within the grace period.
WakingInputAbsorbed == ~leaked

\* As long as no frame takes as long as the grace period, the waking input is
\* absorbed.
AbsorbedInQuickFrames == MaxElapsed < Grace => WakingInputAbsorbed

\* While the startup activate is pending the zeroed state of the bridge does not
\* blank the display; a display that is blank then has seen no input for the
\* whole timeout.
PendingNeverBlanks == pending /\ blanked => BlankTimeout > 0 /\ idleT = BlankTimeout

\* The bridge has been sent the command, or the TV shows the host PC anyway.
Activated == taken \/ visible = "true"

\* "The launcher retries activate every poll cycle until the socket responds
\* successfully" (cec/README.md:45): once the bridge and the server stay up, the
\* bridge is sent the command some time.
RetriesUntilDone == CecMode /\ ActivateOnStart /\ <>[](bridgeUp /\ reliable) => <>Activated

\* The retries do so, in spite of failing calls and restarts on both sides, unless
\* one falls into the server's throttle, which answers it as if it had been sent.
RetriesUnlessThrottled ==
    CecMode /\ ActivateOnStart /\ []~throttled /\ <>[](bridgeUp /\ reliable) => <>Activated

\* When the TV shows the host PC again and keeps doing so, a display that was
\* known to be away wakes without any input.
ExternalWake ==
    [](visible = "false" /\ blanked /\ [](srvVisible /\ reliable) => <>~blanked)
=============================================================================
