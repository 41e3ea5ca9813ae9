------------------------------ MODULE Manager ------------------------------
(***************************************************************************)
(* process.Manager: the owner of the one process the server manages, which *)
(* is either the launcher UI or one app                                    *)
(* (server/internal/process/manager.go).                                   *)
(*                                                                         *)
(* The goroutines that run the Manager's methods are threads: one for each *)
(* HTTP handler that may be inside LaunchApp or Stop, the main goroutine   *)
(* in Start, and the watch goroutine of each session.  When launchUI gives *)
(* up in a thread, the thread goes on as the goroutine that sleeps two     *)
(* seconds and tries again.  A step is the code between two points where   *)
(* m.mu is taken or released or where the operating system answers, so the *)
(* mutex is held between steps exactly by a thread in "exec" or "probe".   *)
(*                                                                         *)
(* Sessions is a pool: an id is used again when the process group is gone  *)
(* and no goroutine refers to it.  When all are in use the fork fails.     *)
(***************************************************************************)
EXTENDS Naturals, FiniteSets

CONSTANTS
    Apps,         \* the apps of apps.json
    UI,           \* the launcher UI, the other program the slot can hold
    None,         \* nil
    Handlers,     \* HTTP handler goroutines
    Main,         \* the goroutine that calls Manager.Start
    Sessions,     \* process.Session values, each with its watch goroutine
    MaxRetries,   \* seatRetryMax
    NoArgv,       \* programs whose argv cannot be built (UIArgv, AppArgv)
    NoExec,       \* programs whose exec always fails
    StopMayFail   \* whether Session.Stop can return with the group alive

Programs == Apps \cup {UI}
Threads == Handlers \cup Sessions \cup {Main}
States == {"starting", "ui_running", "launching", "app_running", "stopping"}

ASSUME ProgramsDistinct == UI \notin Apps /\ None \notin Programs
ASSUME ThreadsDistinct ==
    /\ Handlers \cap Sessions = {}
    /\ Main \notin Handlers \cup Sessions
    /\ None \notin Threads
ASSUME RetriesNatural == MaxRetries \in Nat
ASSUME FailuresKnown == NoArgv \subseteq Programs /\ NoExec \subseteq Programs
ASSUME StopMayFailBoolean == StopMayFail \in BOOLEAN

VARIABLES
    state,      \* m.state
    current,    \* m.current
    app,        \* m.app
    announced,  \* CurrentApp of the last StatePayload published
    thread,     \* where each goroutine is
    life,       \* each process group: its leader runs, only other members do, or none
    prog,       \* the program each session was started with
    raced       \* history: LaunchApp went ahead on an empty slot that watch refills

vars == <<state, current, app, announced, thread, life, prog, raced>>

-----------------------------------------------------------------------------
(* Where a goroutine is, what it is starting, the session it waits for, and *)
(* the attempt startWithRetry is at.                                        *)

At(pc, what, s, n) == [pc |-> pc, goal |-> what, sess |-> s, attempt |-> n]

Ended == At("free", UI, None, 0)

Held(t) == thread[t].pc \in {"exec", "probe"}
MuFree == \A t \in Threads : ~Held(t)

\* Threads that are about to fill the slot.
Active == {"start", "exec", "probe", "backoff", "kill"}
Drivers == {t \in Threads : thread[t].pc \in Active \cup {"sleep"}}

\* Mutant of SetState: the event is not published.
SetStateSilent(s, a) == state' = s /\ UNCHANGED announced

\* setState: the assignment and the event are one.
SetState(s, a) == state' = s /\ announced' = a

\* launchUI up to startWithRetry, in thread t with mu held.  Without an argv
\* the state stays "starting" and the goroutine returns.
EnterUI(t) ==
    IF UI \in NoArgv
    THEN SetState("starting", None) /\ thread' = [thread EXCEPT ![t] = Ended]
    ELSE UNCHANGED <<state, announced>>
         /\ thread' = [thread EXCEPT ![t] = At("exec", UI, None, 0)]

\* Mutant of Fail: the state is not set to "starting".
FailKeepsState(t) ==
    /\ UNCHANGED <<state, announced>>
    /\ thread' = [thread EXCEPT ![t] = IF thread[t].goal = UI THEN At("sleep", UI, None, 0)
                                       ELSE At("exec", UI, None, 0)]

\* Mutant of Fail: LaunchApp returns its error without going back to the UI.
FailNoFallback(t) ==
    /\ SetState("starting", None)
    /\ thread' = [thread EXCEPT ![t] = IF thread[t].goal = UI THEN At("sleep", UI, None, 0)
                                       ELSE Ended]

\* startWithRetry returned an error.  launchUI leaves a goroutine behind that
\* tries again in two seconds; LaunchApp goes on to launchUI under the lock.
Fail(t) ==
    /\ SetState("starting", None)
    /\ thread' = [thread EXCEPT ![t] =
                    IF thread[t].goal = UI THEN At("sleep", UI, None, 0)
                    ELSE IF UI \in NoArgv THEN Ended
                    ELSE At("exec", UI, None, 0)]

Init ==
    /\ state = "starting"
    /\ current = None
    /\ app = None
    /\ announced = None
    /\ thread = [t \in Threads |-> IF t = Main THEN At("start", UI, None, 0) ELSE Ended]
    /\ life = [s \in Sessions |-> "dead"]
    /\ prog = [s \in Sessions |-> UI]
    /\ raced = FALSE

-----------------------------------------------------------------------------
(* Steps that take the mutex.                                              *)

\* Mutant of Detach: the session is taken out of the slot only after the unlock.
DetachLate(t, next) ==
    /\ thread' = [thread EXCEPT ![t] = At("kill", next, current, 0)]
    /\ UNCHANGED <<current, app>>

\* Mutant of Detach: m.app is left.
DetachKeepsApp(t, next) ==
    /\ thread' = [thread EXCEPT ![t] = At("kill", next, current, 0)]
    /\ current' = None
    /\ UNCHANGED app

\* stopCurrent up to the unlock: the slot is emptied before Session.Stop runs.
Detach(t, next) ==
    /\ thread' = [thread EXCEPT ![t] = At("kill", next, current, 0)]
    /\ current' = None
    /\ app' = None

\* Mutant of Rejected: a launch is accepted while Stop is at work.
RejectedNotStopping == state \in {"launching", "starting"}

\* What LaunchApp refuses: ErrBusy.
Rejected == state \in {"launching", "stopping", "starting"}

\* LaunchApp up to stopCurrent's unlock, or up to the first exec when the slot
\* is empty and there is nothing to stop.
LaunchApp(h, a) ==
    /\ thread[h] = Ended
    /\ MuFree
    /\ ~Rejected
    /\ a \notin NoArgv
    /\ SetState("launching", None)
    /\ \/ current # None /\ Detach(h, a)
       \/ /\ current = None
          /\ thread' = [thread EXCEPT ![h] = At("exec", a, None, 0)]
          /\ UNCHANGED <<current, app>>
    /\ raced' = (raced \/ (current = None /\ state \in {"ui_running", "app_running"}))
    /\ UNCHANGED <<life, prog>>

\* Stop returns at once when there is no current session.
StopHasEffect == current # None

Stop(h) ==
    /\ thread[h] = Ended
    /\ MuFree
    /\ StopHasEffect
    /\ SetState("stopping", None)
    /\ Detach(h, UI)
    /\ UNCHANGED <<life, prog, raced>>

\* The thread takes mu (in Start, or again after Session.Stop) and goes on to
\* start the program it is there for.
Relock(t) ==
    /\ thread[t].pc = "start"
    /\ MuFree
    /\ \/ thread[t].goal = UI /\ EnterUI(t)
       \/ /\ thread[t].goal # UI
          /\ thread' = [thread EXCEPT ![t].pc = "exec"]
          /\ UNCHANGED <<state, announced>>
    /\ UNCHANGED <<current, app, life, prog, raced>>

\* Mutant of AfterBackoff: attempts are not counted.
AfterBackoffUncounted(t) ==
    /\ thread[t].pc = "backoff"
    /\ MuFree
    /\ thread' = [thread EXCEPT ![t].pc = "exec"]
    /\ UNCHANGED <<state, announced, current, app, life, prog, raced>>

\* The state in which startWithRetry goes on after its backoff.
StillStarting == state \in {"launching", "starting"}

AfterBackoff(t) ==
    /\ thread[t].pc = "backoff"
    /\ MuFree
    /\ \/ ~StillStarting /\ Fail(t)
       \/ /\ StillStarting
          /\ thread' = [thread EXCEPT ![t].pc = "exec", ![t].attempt = @ + 1]
          /\ UNCHANGED <<state, announced>>
    /\ UNCHANGED <<current, app, life, prog, raced>>

\* The goroutine launchUI left behind, two seconds later.
Wake(t) ==
    /\ thread[t].pc = "sleep"
    /\ MuFree
    /\ \/ state = "starting" /\ EnterUI(t)
       \/ /\ state # "starting"
          /\ thread' = [thread EXCEPT ![t] = Ended]
          /\ UNCHANGED <<state, announced>>
    /\ UNCHANGED <<current, app, life, prog, raced>>

\* watch: the leader of session s has exited.  m.state is left as it was.
Watch(s) ==
    /\ thread[s].pc = "watch"
    /\ life[s] # "running"
    /\ MuFree
    /\ \/ current = s /\ Detach(s, UI)
       \/ /\ current # s
          /\ thread' = [thread EXCEPT ![s] = Ended]
          /\ UNCHANGED <<current, app>>
    /\ UNCHANGED <<state, announced, life, prog, raced>>

-----------------------------------------------------------------------------
(* Steps of the thread that holds the mutex, in startWithRetry.            *)

Fresh(s) ==
    /\ life[s] = "dead"
    /\ thread[s] = Ended
    /\ \A t \in Threads : thread[t].sess # s

\* Start(argv) succeeds and the probe of seatRetryWindow begins.
Exec(t) ==
    /\ thread[t].pc = "exec"
    /\ thread[t].goal \notin NoExec
    /\ \E s \in Sessions :
        /\ Fresh(s)
        /\ thread' = [thread EXCEPT ![t].pc = "probe", ![t].sess = s]
        /\ life' = [life EXCEPT ![s] = "running"]
        /\ prog' = [prog EXCEPT ![s] = thread[t].goal]
    /\ UNCHANGED <<state, current, app, announced, raced>>

\* A hard exec error, or a fork with no process group left.
ExecFails(t) ==
    /\ thread[t].pc = "exec"
    /\ thread[t].goal \in NoExec \/ ~\E s \in Sessions : Fresh(s)
    /\ Fail(t)
    /\ UNCHANGED <<current, app, life, prog, raced>>

\* Mutant of ProbeSurvives: no goroutine watches the new session.
ProbeSurvivesUnwatched(t) ==
    LET what == thread[t].goal
        shown == IF what = UI THEN None ELSE what
    IN  /\ thread[t].pc = "probe"
        /\ current' = thread[t].sess
        /\ app' = shown
        /\ SetState(IF what = UI THEN "ui_running" ELSE "app_running", shown)
        /\ thread' = [thread EXCEPT ![t] = Ended]
        /\ UNCHANGED <<life, prog, raced>>

\* Mutant of ProbeSurvives: the state of an app is kept for the UI.
ProbeSurvivesUISilent(t) ==
    LET s == thread[t].sess
        what == thread[t].goal
        shown == IF what = UI THEN None ELSE what
    IN  /\ thread[t].pc = "probe"
        /\ current' = s
        /\ app' = shown
        /\ IF what = UI THEN UNCHANGED <<state, announced>> ELSE SetState("app_running", shown)
        /\ thread' = [thread EXCEPT ![t] = Ended, ![s] = At("watch", UI, None, 0)]
        /\ UNCHANGED <<life, prog, raced>>

\* The window passes with the process running: it becomes the current one and
\* its watch goroutine starts.  The leader may have exited at that very moment.
ProbeSurvives(t) ==
    LET s == thread[t].sess
        what == thread[t].goal
        shown == IF what = UI THEN None ELSE what
    IN  /\ thread[t].pc = "probe"
        /\ current' = s
        /\ app' = shown
        /\ SetState(IF what = UI THEN "ui_running" ELSE "app_running", shown)
        /\ thread' = [thread EXCEPT ![t] = Ended, ![s] = At("watch", UI, None, 0)]
        /\ UNCHANGED <<life, prog, raced>>

\* Mutant of ProbeExits: one attempt too many.
ProbeExitsLate(t) ==
    /\ thread[t].pc = "probe"
    /\ life[thread[t].sess] # "running"
    /\ \/ thread[t].attempt = MaxRetries + 1 /\ Fail(t)
       \/ /\ thread[t].attempt # MaxRetries + 1
          /\ thread' = [thread EXCEPT ![t].pc = "backoff", ![t].sess = None]
          /\ UNCHANGED <<state, announced>>
    /\ UNCHANGED <<current, app, life, prog, raced>>

\* The leader exits within the window: wait for the seat, mutex released, or
\* give up after the last attempt.  Nothing signals the rest of its group.
ProbeExits(t) ==
    /\ thread[t].pc = "probe"
    /\ life[thread[t].sess] # "running"
    /\ \/ thread[t].attempt = MaxRetries /\ Fail(t)
       \/ /\ thread[t].attempt # MaxRetries
          /\ thread' = [thread EXCEPT ![t].pc = "backoff", ![t].sess = None]
          /\ UNCHANGED <<state, announced>>
    /\ UNCHANGED <<current, app, life, prog, raced>>

-----------------------------------------------------------------------------
(* Session.Stop, with the mutex released, and the processes themselves.    *)

\* Mutant of StopReturns: it gives up on a group that outlives the timeout.
StopReturnsEarly(t) ==
    /\ thread[t].pc = "kill"
    /\ thread' = [thread EXCEPT ![t].pc = "start", ![t].sess = None]
    /\ \E l \in {life[thread[t].sess], "dead"} : life' = [life EXCEPT ![thread[t].sess] = l]
    /\ UNCHANGED <<state, current, app, announced, prog, raced>>

\* Session.Stop returns: the group is gone, or it failed and was only logged.
StopReturns(t) ==
    /\ thread[t].pc = "kill"
    /\ thread' = [thread EXCEPT ![t].pc = "start", ![t].sess = None]
    /\ \/ life' = [life EXCEPT ![thread[t].sess] = "dead"]
       \/ StopMayFail /\ UNCHANGED life
    /\ UNCHANGED <<state, current, app, announced, prog, raced>>

LeaderExits(s) ==
    /\ life[s] = "running"
    /\ \E rest \in {"orphans", "dead"} : life' = [life EXCEPT ![s] = rest]
    /\ UNCHANGED <<state, current, app, announced, thread, prog, raced>>

OrphansExit(s) ==
    /\ life[s] = "orphans"
    /\ life' = [life EXCEPT ![s] = "dead"]
    /\ UNCHANGED <<state, current, app, announced, thread, prog, raced>>

-----------------------------------------------------------------------------
Locking(t) == Relock(t) \/ AfterBackoff(t) \/ Wake(t)
Starting(t) == Exec(t) \/ ExecFails(t) \/ ProbeSurvives(t) \/ ProbeExits(t)

Next ==
    \/ \E h \in Handlers : Stop(h) \/ \E a \in Apps : LaunchApp(h, a)
    \/ \E t \in Threads : Locking(t) \/ Starting(t) \/ StopReturns(t)
    \/ \E s \in Sessions : Watch(s) \/ LeaderExits(s) \/ OrphansExit(s)

Spec == Init /\ [][Next]_vars

(* Go's mutex hands itself to a goroutine that has waited for a            *)
(* millisecond, so a goroutine that waits for mu gets it however often     *)
(* others take it.  Timers fire and Session.Stop is bounded by its two     *)
(* timeouts.  Nothing is assumed of the requests or of the processes.      *)
Fairness ==
    /\ \A t \in Threads : SF_vars(Locking(t)) /\ WF_vars(Starting(t) \/ StopReturns(t))
    /\ \A s \in Sessions : SF_vars(Watch(s))

FairSpec == Spec /\ Fairness

-----------------------------------------------------------------------------
(* Safety.                                                                 *)

ThreadState ==
    [pc : Active \cup {"free", "sleep", "watch"}, goal : Programs,
     sess : Sessions \cup {None}, attempt : 0..MaxRetries]

\* The variables have the types manager.go declares, a goroutine refers to a
\* session exactly while it probes it or stops it, and startWithRetry backs off
\* only with attempts left.
TypeOK ==
    /\ state \in States
    /\ current \in Sessions \cup {None}
    /\ app \in Apps \cup {None}
    /\ announced \in Apps \cup {None}
    /\ thread \in [Threads -> ThreadState]
    /\ life \in [Sessions -> {"running", "orphans", "dead"}]
    /\ prog \in [Sessions -> Programs]
    /\ raced \in BOOLEAN
    /\ \A t \in Threads :
        /\ thread[t].sess \in Sessions <=> thread[t].pc \in {"probe", "kill"}
        /\ thread[t].pc = "backoff" => thread[t].attempt < MaxRetries

\* The server never ends up without a process and without a goroutine that will
\* start one ("no process and no recovery path", the comment in LaunchApp).  It
\* holds whatever the requests and the processes do, as long as the path of the
\* UI binary is valid; a goroutine asleep counts only while its re-check of the
\* state will let it go on.
NeverStranded ==
    UI \notin NoArgv /\ current = None =>
        \E t \in Threads : \/ thread[t].pc \in Active
                           \/ thread[t].pc = "sleep" /\ state = "starting"

\* The current session has its watch goroutine waiting, so its exit is noticed:
\* no other goroutine took the pointer out of the slot and put it back.
CurrentIsWatched == current # None => thread[current].pc = "watch"

\* A session is stopped by one goroutine at a time, and never while it is the
\* current one: stopCurrent and watch clear the slot before they unlock.
KillersApart ==
    \A t \in Threads : thread[t].pc = "kill" =>
        /\ thread[t].sess # current
        /\ \A u \in Threads \ {t} : thread[u].sess # thread[t].sess

\* m.app names the program the current session runs, also when two goroutines
\* fill the slot one over the other.
AppMatchesProcess ==
    app = IF current = None \/ prog[current] = UI THEN None ELSE prog[current]

(* The rest holds until LaunchApp is accepted while the slot is refilled.  *)

\* One goroutine at most is on its way to fill the slot, and none while the slot
\* is taken.
OneDriver ==
    ~raced => \A t \in Drivers : current = None /\ Drivers = {t}

\* m.state tells what the slot holds.
StateMatchesSlot ==
    ~raced /\ current # None =>
        state = IF prog[current] = UI THEN "ui_running" ELSE "app_running"

\* When every stop succeeds no leader outlives the slot's interest in it: it is
\* current, or a goroutine probes or stops it.  With OneDriver it follows that
\* there is one leader process at a time.
NoStrayLeader ==
    ~raced /\ ~StopMayFail =>
        \A s \in Sessions : life[s] = "running" =>
            s = current \/ \E t \in Drivers : thread[t].sess = s

\* Outside the window in which the slot is refilled after an exit, the last
\* event told the subscribers of the app that Status() reports.
LastEventIsCurrent ==
    ~raced /\ announced # app => \E t \in Sessions : thread[t].pc \in Active

\* The manager implements the slot of ProcessSlot.
Slot == INSTANCE ProcessSlot WITH
    UIUnusable <- UI \in NoArgv,
    occupant <- IF current = None THEN None ELSE prog[current],
    wanted <- IF Drivers = {} THEN None ELSE thread[CHOOSE t \in Drivers : TRUE].goal,
    torn <- raced

RefinesSlot == Slot!SlotSpec

-----------------------------------------------------------------------------
(* Liveness, under FairSpec.                                               *)

\* A transitional state ends: LaunchApp and Stop do not leave the manager in
\* "launching" or "stopping", in which every launch is refused.
BusyEnds == state \in {"launching", "stopping"} ~> state \notin {"launching", "stopping"}

\* A session whose leader has exited does not stay the current one.
ExitIsNoticed ==
    \A s \in Sessions : current = s /\ life[s] # "running" ~> current # s

\* An empty slot is filled, or a program is tried again and again: the manager
\* never stops trying.
KeepsTrying == []<>(current # None \/ \E t \in Threads : thread[t].pc = "exec")

-----------------------------------------------------------------------------
(* What comments and documents say and the code does not do.               *)

\* The server "owns a single process slot": at most one session's leader runs
\* when every stop succeeds.
SingleSlot ==
    \A s1, s2 \in Sessions : life[s1] = "running" /\ life[s2] = "running" => s1 = s2

\* "Another goroutine may have mutated state while we slept (e.g. Stop() was
\* called). Abort the retry loop in that case": Stop has an effect while the
\* goroutine of a launch sleeps in its retry loop.
StopReachesLaunch ==
    \A h \in Handlers :
        thread[h].pc = "backoff" /\ thread[h].goal \in Apps => StopHasEffect
=============================================================================
