--------------------------- MODULE ManagerProofs ---------------------------
(***************************************************************************)
(* Theorems about Manager, for any number of apps, handlers and sessions.  *)
(***************************************************************************)
EXTENDS Manager, TLAPS

USE ProgramsDistinct, ThreadsDistinct, RetriesNatural, FailuresKnown, StopMayFailBoolean

\* The last conjunct of TypeOK.
Refers ==
    \A t \in Threads :
        /\ thread[t].sess \in Sessions <=> thread[t].pc \in {"probe", "kill"}
        /\ thread[t].pc = "backoff" => thread[t].attempt < MaxRetries

\* Init establishes the types.
LEMMA TypeInit == Init => TypeOK
<1> SUFFICES ASSUME Init PROVE TypeOK
  OBVIOUS
<1>1. Main \in Threads /\ Sessions \subseteq Threads
  BY DEF Threads
<1>2. thread \in [Threads -> ThreadState] /\ Refers
  BY <1>1, SMTT(30) DEF Init, Refers, ThreadState, Programs, At, Ended, Active
<1> QED BY <1>1, <1>2 DEF Init, TypeOK, Refers, States, Programs

\* What Fail leaves in the thread, the state and the event is well typed.
LEMMA FailType ==
    ASSUME TypeOK, NEW t \in Threads, thread[t].pc \in Active, Fail(t)
    PROVE  /\ state' \in States
           /\ announced' \in Apps \cup {None}
           /\ thread' \in [Threads -> ThreadState]
           /\ Refers'
BY SMTT(30) DEF Fail, TypeOK, Refers, States, Threads, ThreadState, Programs, At, Ended, Active, SetState

LEMMA EnterType ==
    ASSUME TypeOK, NEW t \in Threads, EnterUI(t)
    PROVE  /\ state' \in States
           /\ announced' \in Apps \cup {None}
           /\ thread' \in [Threads -> ThreadState]
           /\ Refers'
BY SMTT(30) DEF EnterUI, TypeOK, Refers, States, Threads, ThreadState, Programs, At, Ended, Active, SetState

LEMMA DetachType ==
    ASSUME TypeOK, NEW t \in Threads, NEW p \in Programs, current # None, Detach(t, p)
    PROVE  /\ current' \in Sessions \cup {None}
           /\ app' \in Apps \cup {None}
           /\ thread' \in [Threads -> ThreadState]
           /\ Refers'
BY SMTT(30) DEF Detach, TypeOK, Refers, States, Threads, ThreadState, Programs, At, Ended, Active

\* Every step preserves the types.
LEMMA TypeStep == TypeOK /\ [Next]_vars => TypeOK'
<1> SUFFICES ASSUME TypeOK, [Next]_vars PROVE TypeOK'
  OBVIOUS
<1> USE DEF TypeOK, Refers
<1>1. ASSUME NEW h \in Handlers, Stop(h) PROVE TypeOK'
  <2>1. h \in Threads BY DEF Threads
  <2> QED BY <1>1, <2>1, DetachType DEF Stop, SetState, States, StopHasEffect, Programs
<1>2. ASSUME NEW h \in Handlers, NEW a \in Apps, LaunchApp(h, a) PROVE TypeOK'
  <2>1. h \in Threads BY DEF Threads
  <2>2. CASE current # None /\ Detach(h, a)
    BY <1>2, <2>1, <2>2, DetachType DEF LaunchApp, SetState, States, Programs
  <2>3. CASE current = None /\ UNCHANGED <<current, app>>
             /\ thread' = [thread EXCEPT ![h] = At("exec", a, None, 0)]
    BY <1>2, <2>1, <2>3, SMTT(30) DEF LaunchApp, SetState, States, Programs, ThreadState, At, Active, Threads
  <2> QED BY <1>2, <2>2, <2>3 DEF LaunchApp
<1>3. ASSUME NEW t \in Threads, Relock(t) PROVE TypeOK'
  <2>1. CASE EnterUI(t) BY <1>3, <2>1, EnterType DEF Relock
  <2>2. CASE ~EnterUI(t)
    BY <1>3, <2>2, SMTT(30) DEF Relock, ThreadState, Active, Threads
  <2> QED BY <2>1, <2>2
<1>4. ASSUME NEW t \in Threads, AfterBackoff(t) PROVE TypeOK'
  <2>1. CASE Fail(t) BY <1>4, <2>1, FailType DEF AfterBackoff, Active
  <2>2. CASE ~Fail(t)
    BY <1>4, <2>2, SMTT(30) DEF AfterBackoff, ThreadState, Active, Threads
  <2> QED BY <2>1, <2>2
<1>5. ASSUME NEW t \in Threads, Wake(t) PROVE TypeOK'
  <2>1. CASE EnterUI(t) BY <1>5, <2>1, EnterType DEF Wake
  <2>2. CASE ~EnterUI(t)
    BY <1>5, <2>2, SMTT(30) DEF Wake, ThreadState, Active, Threads, Ended, At, Programs
  <2> QED BY <2>1, <2>2
<1>6. ASSUME NEW t \in Threads, Exec(t) PROVE TypeOK'
  BY <1>6, SMTT(30) DEF Exec, Fresh, ThreadState, Active, Threads
<1>7. ASSUME NEW t \in Threads, ExecFails(t) PROVE TypeOK'
  BY <1>7, FailType DEF ExecFails, Active
<1>8. ASSUME NEW t \in Threads, ProbeSurvives(t) PROVE TypeOK'
  BY <1>8, SMTT(30) DEF ProbeSurvives, SetState, States, ThreadState, Active, Threads, Ended, At, Programs
<1>9. ASSUME NEW t \in Threads, ProbeExits(t) PROVE TypeOK'
  <2>1. CASE Fail(t) BY <1>9, <2>1, FailType DEF ProbeExits, Active
  <2>2. CASE ~Fail(t)
    BY <1>9, <2>2, SMTT(30) DEF ProbeExits, ThreadState, Active, Threads
  <2> QED BY <2>1, <2>2
<1>10. ASSUME NEW t \in Threads, StopReturns(t) PROVE TypeOK'
  BY <1>10, SMTT(30) DEF StopReturns, ThreadState, Active, Threads
<1>11. ASSUME NEW s \in Sessions, Watch(s) PROVE TypeOK'
  <2>1. s \in Threads BY DEF Threads
  <2>2. CASE current = s /\ Detach(s, UI)
    BY <1>11, <2>1, <2>2, DetachType DEF Watch, Programs
  <2>3. CASE current # s
    BY <1>11, <2>1, <2>3, SMTT(30) DEF Watch, ThreadState, Active, Threads, Ended, At, Programs
  <2> QED BY <1>11, <2>2, <2>3 DEF Watch
<1>12. ASSUME NEW s \in Sessions, LeaderExits(s) \/ OrphansExit(s) PROVE TypeOK'
  BY <1>12 DEF LeaderExits, OrphansExit
<1>13. CASE UNCHANGED vars BY <1>13 DEF vars
<1> QED
  BY <1>1, <1>2, <1>3, <1>4, <1>5, <1>6, <1>7, <1>8, <1>9, <1>10, <1>11, <1>12, <1>13
  DEF Next, Locking, Starting

THEOREM TypeCorrect == Spec => []TypeOK
BY TypeInit, TypeStep, PTL DEF Spec

-----------------------------------------------------------------------------
(* What holds whatever the requests and the processes do.                  *)

\* A session that a goroutine probes or stops is not the current one, and no
\* other goroutine refers to it.
RefsApart ==
    \A t \in Threads : thread[t].sess # None =>
        /\ thread[t].sess # current
        /\ \A u \in Threads \ {t} : thread[u].sess # thread[t].sess

\* A probe waits for a session of the program it is starting.
ProbesGoal == \A t \in Threads : thread[t].pc = "probe" => prog[thread[t].sess] = thread[t].goal

LEMMA EndedFields ==
    Ended.pc = "free" /\ Ended.sess = None /\ Ended.goal = UI
BY DEF Ended, At

LEMMA SafeInit ==
    Init => CurrentIsWatched /\ RefsApart /\ ProbesGoal /\ AppMatchesProcess /\ NeverStranded
<1> SUFFICES ASSUME Init
             PROVE  CurrentIsWatched /\ RefsApart /\ ProbesGoal /\ AppMatchesProcess
                    /\ NeverStranded
  OBVIOUS
<1>1. Main \in Threads BY DEF Threads
<1>2. /\ thread[Main].pc = "start"
      /\ \A t \in Threads : thread[t].sess = None /\ thread[t].pc # "probe"
  BY <1>1 DEF Init, At, Ended
<1> QED
  BY <1>1, <1>2 DEF Init, CurrentIsWatched, RefsApart, ProbesGoal, AppMatchesProcess, NeverStranded, Active

\* The current session keeps its watch goroutine.
LEMMA WatchedStep == TypeOK /\ CurrentIsWatched /\ [Next]_vars => CurrentIsWatched'
<1> SUFFICES ASSUME TypeOK, CurrentIsWatched, [Next]_vars PROVE CurrentIsWatched'
  OBVIOUS
<1> USE DEF CurrentIsWatched
<1>0. Sessions \subseteq Threads /\ Handlers \subseteq Threads BY DEF Threads
<1>t. /\ current \in Sessions \cup {None}
      /\ thread \in [Threads -> ThreadState]
      /\ \A t \in Threads : thread[t].pc = "probe" => thread[t].sess \in Sessions
  BY DEF TypeOK
\* A step that keeps the slot and moves one goroutine that does not watch.
<1>m. ASSUME NEW t \in Threads, thread[t].pc # "watch" \/ t # current, current' = current,
             NEW r, thread' = [thread EXCEPT ![t] = r]
      PROVE  CurrentIsWatched'
  BY <1>0, <1>t, <1>m
<1>1. ASSUME NEW h \in Handlers, Stop(h) PROVE CurrentIsWatched'
  BY <1>1 DEF Stop, Detach
<1>2. ASSUME NEW h \in Handlers, NEW a \in Apps, LaunchApp(h, a) PROVE CurrentIsWatched'
  BY <1>2 DEF LaunchApp, Detach
<1>3. ASSUME NEW t \in Threads, Relock(t) PROVE CurrentIsWatched'
  BY <1>3, <1>m, <1>0, <1>t DEF Relock, EnterUI
<1>4. ASSUME NEW t \in Threads, AfterBackoff(t) PROVE CurrentIsWatched'
  BY <1>4, <1>m, <1>0, <1>t DEF AfterBackoff, Fail
<1>5. ASSUME NEW t \in Threads, Wake(t) PROVE CurrentIsWatched'
  BY <1>5, <1>m, <1>0, <1>t DEF Wake, EnterUI
<1>6. ASSUME NEW t \in Threads, Exec(t) PROVE CurrentIsWatched'
  BY <1>6, <1>m, <1>0, <1>t DEF Exec
<1>7. ASSUME NEW t \in Threads, ExecFails(t) PROVE CurrentIsWatched'
  BY <1>7, <1>m, <1>0, <1>t DEF ExecFails, Fail
<1>8. ASSUME NEW t \in Threads, ProbeSurvives(t) PROVE CurrentIsWatched'
  BY <1>8, <1>0, <1>t DEF ProbeSurvives, At
<1>9. ASSUME NEW t \in Threads, ProbeExits(t) PROVE CurrentIsWatched'
  BY <1>9, <1>m, <1>0, <1>t DEF ProbeExits, Fail
<1>10. ASSUME NEW t \in Threads, StopReturns(t) PROVE CurrentIsWatched'
  BY <1>10, <1>m, <1>0, <1>t DEF StopReturns
<1>11. ASSUME NEW s \in Sessions, Watch(s) PROVE CurrentIsWatched'
  BY <1>11, <1>m, <1>0, <1>t DEF Watch, Detach
<1>12. ASSUME NEW s \in Sessions, LeaderExits(s) \/ OrphansExit(s) PROVE CurrentIsWatched'
  BY <1>12 DEF LeaderExits, OrphansExit
<1>13. CASE UNCHANGED vars BY <1>13 DEF vars
<1> QED
  BY <1>1, <1>2, <1>3, <1>4, <1>5, <1>6, <1>7, <1>8, <1>9, <1>10, <1>11, <1>12, <1>13
  DEF Next, Locking, Starting

\* No two goroutines come to refer to one session.
LEMMA RefsStep ==
    TypeOK /\ CurrentIsWatched /\ RefsApart /\ [Next]_vars => RefsApart'
<1> SUFFICES ASSUME TypeOK, CurrentIsWatched, RefsApart, [Next]_vars PROVE RefsApart'
  OBVIOUS
<1> USE DEF RefsApart
<1>0. Sessions \subseteq Threads /\ Handlers \subseteq Threads /\ None \notin Sessions
  BY DEF Threads
<1>t. /\ current \in Sessions \cup {None}
      /\ thread \in [Threads -> ThreadState]
      /\ \A t \in Threads : thread[t].pc = "probe" => thread[t].sess \in Sessions
      /\ \A t \in Threads : thread[t].sess \in Sessions \cup {None}
  BY DEF TypeOK, ThreadState
\* A step that moves one goroutine, which does not come to refer to a session.
<1>m. ASSUME NEW t \in Threads, NEW r, r.sess = None \/ r.sess = thread[t].sess, current' = current,
             thread' = [thread EXCEPT ![t] = r]
      PROVE  RefsApart'
  BY <1>0, <1>t, <1>m
<1>d. ASSUME NEW t \in Threads, NEW p, current # None, Detach(t, p) PROVE RefsApart'
  BY <1>0, <1>t, <1>d DEF Detach, At
<1>f. ASSUME NEW t \in Threads, current' = current, Fail(t) PROVE RefsApart'
  BY <1>0, <1>t, <1>f, <1>m, EndedFields DEF Fail, At
<1>e. ASSUME NEW t \in Threads, current' = current, EnterUI(t) PROVE RefsApart'
  BY <1>0, <1>t, <1>e, <1>m, EndedFields DEF EnterUI, At
<1>1. ASSUME NEW h \in Handlers, Stop(h) PROVE RefsApart'
  BY <1>1, <1>d, <1>0 DEF Stop, StopHasEffect
<1>2. ASSUME NEW h \in Handlers, NEW a \in Apps, LaunchApp(h, a) PROVE RefsApart'
  BY <1>2, <1>d, <1>m, <1>0 DEF LaunchApp, At
<1>3. ASSUME NEW t \in Threads, Relock(t) PROVE RefsApart'
  BY <1>3, <1>m, <1>e, <1>t DEF Relock, ThreadState
<1>4. ASSUME NEW t \in Threads, AfterBackoff(t) PROVE RefsApart'
  BY <1>4, <1>m, <1>f, <1>t DEF AfterBackoff, ThreadState
<1>5. ASSUME NEW t \in Threads, Wake(t) PROVE RefsApart'
  BY <1>5, <1>m, <1>e, EndedFields DEF Wake
<1>6. ASSUME NEW t \in Threads, Exec(t) PROVE RefsApart'
  <2>1. PICK s \in Sessions : Fresh(s) /\ thread' = [thread EXCEPT ![t].pc = "probe", ![t].sess = s]
    BY <1>6 DEF Exec
  <2>2. current # s
    BY <2>1, EndedFields, <1>0 DEF Fresh, CurrentIsWatched
  <2>3. thread'[t].sess = s /\ \A u \in Threads \ {t} : thread'[u] = thread[u]
    BY <2>1, <1>t DEF ThreadState
  <2> QED BY <1>6, <2>1, <2>2, <2>3, <1>0, <1>t DEF Exec, Fresh
<1>7. ASSUME NEW t \in Threads, ExecFails(t) PROVE RefsApart'
  BY <1>7, <1>f DEF ExecFails
<1>8. ASSUME NEW t \in Threads, ProbeSurvives(t) PROVE RefsApart'
  BY <1>8, <1>0, <1>t DEF ProbeSurvives, At, Ended
<1>9. ASSUME NEW t \in Threads, ProbeExits(t) PROVE RefsApart'
  BY <1>9, <1>m, <1>f, <1>t DEF ProbeExits, ThreadState
<1>10. ASSUME NEW t \in Threads, StopReturns(t) PROVE RefsApart'
  BY <1>10, <1>m, <1>t DEF StopReturns, ThreadState
<1>11. ASSUME NEW s \in Sessions, Watch(s) PROVE RefsApart'
  BY <1>11, <1>m, <1>d, <1>0, EndedFields DEF Watch
<1>12. ASSUME NEW s \in Sessions, LeaderExits(s) \/ OrphansExit(s) PROVE RefsApart'
  BY <1>12 DEF LeaderExits, OrphansExit
<1>13. CASE UNCHANGED vars BY <1>13 DEF vars
<1> QED
  BY <1>1, <1>2, <1>3, <1>4, <1>5, <1>6, <1>7, <1>8, <1>9, <1>10, <1>11, <1>12, <1>13
  DEF Next, Locking, Starting

\* A probe keeps its session's program: a session id is reused only when free.
LEMMA ProbeStep == TypeOK /\ ProbesGoal /\ [Next]_vars => ProbesGoal'
<1> SUFFICES ASSUME TypeOK, ProbesGoal, [Next]_vars PROVE ProbesGoal'
  OBVIOUS
<1> USE DEF ProbesGoal
<1>0. Sessions \subseteq Threads /\ Handlers \subseteq Threads
  BY DEF Threads
<1>t. /\ prog \in [Sessions -> Programs]
      /\ thread \in [Threads -> ThreadState]
      /\ \A t \in Threads : thread[t].pc = "probe" => thread[t].sess \in Sessions
  BY DEF TypeOK
\* A step that moves one goroutine, which does not begin a probe.
<1>m. ASSUME NEW t \in Threads, NEW r, r.pc # "probe", prog' = prog,
             thread' = [thread EXCEPT ![t] = r]
      PROVE  ProbesGoal'
  BY <1>t, <1>m
<1>f. ASSUME NEW t \in Threads, prog' = prog, Fail(t) PROVE ProbesGoal'
  BY <1>f, <1>m, EndedFields DEF Fail, At
<1>e. ASSUME NEW t \in Threads, prog' = prog, EnterUI(t) PROVE ProbesGoal'
  BY <1>e, <1>m, EndedFields DEF EnterUI, At
<1>1. ASSUME NEW h \in Handlers, Stop(h) PROVE ProbesGoal'
  BY <1>1, <1>0, <1>m DEF Stop, Detach, At
<1>2. ASSUME NEW h \in Handlers, NEW a \in Apps, LaunchApp(h, a) PROVE ProbesGoal'
  BY <1>2, <1>0, <1>m DEF LaunchApp, Detach, At
<1>3. ASSUME NEW t \in Threads, Relock(t) PROVE ProbesGoal'
  BY <1>3, <1>e, <1>m, <1>t DEF Relock, ThreadState
<1>4. ASSUME NEW t \in Threads, AfterBackoff(t) PROVE ProbesGoal'
  BY <1>4, <1>f, <1>m, <1>t DEF AfterBackoff, ThreadState
<1>5. ASSUME NEW t \in Threads, Wake(t) PROVE ProbesGoal'
  BY <1>5, <1>e, <1>m, EndedFields DEF Wake
<1>6. ASSUME NEW t \in Threads, Exec(t) PROVE ProbesGoal'
  <2>1. PICK s \in Sessions :
          /\ Fresh(s)
          /\ thread' = [thread EXCEPT ![t].pc = "probe", ![t].sess = s]
          /\ prog' = [prog EXCEPT ![s] = thread[t].goal]
    BY <1>6 DEF Exec
  <2>2. thread'[t].sess = s /\ thread'[t].goal = thread[t].goal
    BY <2>1, <1>t DEF ThreadState
  <2>3. \A u \in Threads \ {t} : thread'[u] = thread[u] /\ thread[u].sess # s
    BY <2>1, <1>t DEF Fresh
  <2> QED BY <2>1, <2>2, <2>3, <1>t
<1>7. ASSUME NEW t \in Threads, ExecFails(t) PROVE ProbesGoal'
  BY <1>7, <1>f DEF ExecFails
<1>8. ASSUME NEW t \in Threads, ProbeSurvives(t) PROVE ProbesGoal'
  BY <1>8, <1>0, <1>t, EndedFields DEF ProbeSurvives, At
<1>9. ASSUME NEW t \in Threads, ProbeExits(t) PROVE ProbesGoal'
  BY <1>9, <1>f, <1>m, <1>t DEF ProbeExits, ThreadState
<1>10. ASSUME NEW t \in Threads, StopReturns(t) PROVE ProbesGoal'
  BY <1>10, <1>m, <1>t DEF StopReturns, ThreadState
<1>11. ASSUME NEW s \in Sessions, Watch(s) PROVE ProbesGoal'
  BY <1>11, <1>0, <1>m, EndedFields DEF Watch, Detach, At
<1>12. ASSUME NEW s \in Sessions, LeaderExits(s) \/ OrphansExit(s) PROVE ProbesGoal'
  BY <1>12 DEF LeaderExits, OrphansExit
<1>13. CASE UNCHANGED vars BY <1>13 DEF vars
<1> QED
  BY <1>1, <1>2, <1>3, <1>4, <1>5, <1>6, <1>7, <1>8, <1>9, <1>10, <1>11, <1>12, <1>13
  DEF Next, Locking, Starting

\* The app is the program of the current session.
LEMMA AppStep ==
    TypeOK /\ CurrentIsWatched /\ ProbesGoal /\ AppMatchesProcess /\ [Next]_vars
        => AppMatchesProcess'
<1> SUFFICES ASSUME TypeOK, CurrentIsWatched, ProbesGoal, AppMatchesProcess, [Next]_vars
             PROVE  AppMatchesProcess'
  OBVIOUS
<1> USE DEF AppMatchesProcess
<1>0. Sessions \subseteq Threads /\ Handlers \subseteq Threads /\ None \notin Sessions
  BY DEF Threads
<1>t. /\ current \in Sessions \cup {None}
      /\ prog \in [Sessions -> Programs]
      /\ \A t \in Threads : thread[t].pc = "probe" => thread[t].sess \in Sessions
  BY DEF TypeOK
<1>1. ASSUME NEW h \in Handlers, Stop(h) PROVE AppMatchesProcess'
  BY <1>1 DEF Stop, Detach
<1>2. ASSUME NEW h \in Handlers, NEW a \in Apps, LaunchApp(h, a) PROVE AppMatchesProcess'
  BY <1>2 DEF LaunchApp, Detach
<1>3. ASSUME NEW t \in Threads, Locking(t) PROVE AppMatchesProcess'
  BY <1>3 DEF Locking, Relock, AfterBackoff, Wake
<1>6. ASSUME NEW t \in Threads, Exec(t) PROVE AppMatchesProcess'
  <2>1. PICK s \in Sessions : Fresh(s) /\ prog' = [prog EXCEPT ![s] = thread[t].goal]
    BY <1>6 DEF Exec
  <2>2. current # s
    BY <2>1, EndedFields, <1>0 DEF Fresh, CurrentIsWatched
  <2> QED BY <1>6, <2>1, <2>2, <1>t DEF Exec
<1>7. ASSUME NEW t \in Threads, ExecFails(t) \/ ProbeExits(t) PROVE AppMatchesProcess'
  BY <1>7 DEF ExecFails, ProbeExits
<1>8. ASSUME NEW t \in Threads, ProbeSurvives(t) PROVE AppMatchesProcess'
  BY <1>8, <1>0, <1>t DEF ProbeSurvives, ProbesGoal
<1>10. ASSUME NEW t \in Threads, StopReturns(t) PROVE AppMatchesProcess'
  BY <1>10 DEF StopReturns
<1>11. ASSUME NEW s \in Sessions, Watch(s) PROVE AppMatchesProcess'
  BY <1>11 DEF Watch, Detach
<1>12. ASSUME NEW s \in Sessions, LeaderExits(s) \/ OrphansExit(s) PROVE AppMatchesProcess'
  BY <1>12 DEF LeaderExits, OrphansExit
<1>13. CASE UNCHANGED vars BY <1>13 DEF vars
<1> QED
  BY <1>1, <1>2, <1>3, <1>6, <1>7, <1>8, <1>10, <1>11, <1>12, <1>13
  DEF Next, Starting

\* A goroutine that will fill the slot.
Waiting ==
    \E t \in Threads : \/ thread[t].pc \in Active
                       \/ thread[t].pc = "sleep" /\ state = "starting"

\* An empty slot has a goroutine that will fill it.
LEMMA StrandedStep ==
    TypeOK /\ NeverStranded /\ [Next]_vars => NeverStranded'
<1> SUFFICES ASSUME TypeOK, NeverStranded, [Next]_vars, UI \notin NoArgv, current' = None
             PROVE  Waiting'
  BY DEF NeverStranded, Waiting
<1>0. Sessions \subseteq Threads /\ Handlers \subseteq Threads /\ None \notin Sessions
  BY DEF Threads
<1>t. /\ current \in Sessions \cup {None}
      /\ thread \in [Threads -> ThreadState]
      /\ \A t \in Threads : thread[t].pc = "probe" => thread[t].sess \in Sessions
  BY DEF TypeOK
<1>w. current = None => Waiting
  BY DEF NeverStranded, Waiting
<1> USE DEF Active
\* A step whose goroutine becomes, or remains, one that will fill the slot.
<1>m. ASSUME NEW t \in Threads, NEW r, thread' = [thread EXCEPT ![t] = r],
             r.pc \in Active \/ (r.pc = "sleep" /\ state' = "starting")
      PROVE  Waiting'
  BY <1>m, <1>t DEF Waiting
<1>f. ASSUME NEW t \in Threads, Fail(t) PROVE Waiting'
  BY <1>f, <1>t DEF Fail, At, SetState, Waiting
<1>e. ASSUME NEW t \in Threads, EnterUI(t) PROVE Waiting'
  BY <1>e, <1>m DEF EnterUI, At
<1>1. ASSUME NEW h \in Handlers, Stop(h) PROVE Waiting'
  BY <1>1, <1>0, <1>m DEF Stop, Detach, At
<1>2. ASSUME NEW h \in Handlers, NEW a \in Apps, LaunchApp(h, a) PROVE Waiting'
  BY <1>2, <1>0, <1>m DEF LaunchApp, Detach, At
<1>3. ASSUME NEW t \in Threads, Relock(t) PROVE Waiting'
  BY <1>3, <1>e, <1>m, <1>t DEF Relock, ThreadState
<1>4. ASSUME NEW t \in Threads, AfterBackoff(t) PROVE Waiting'
  BY <1>4, <1>f, <1>m, <1>t DEF AfterBackoff, ThreadState
<1>5. ASSUME NEW t \in Threads, Wake(t) PROVE Waiting'
  <2>1. CASE EnterUI(t) BY <2>1, <1>e
  <2>2. CASE state # "starting" /\ state' = state /\ thread' = [thread EXCEPT ![t] = Ended]
    <3>1. PICK u \in Threads : thread[u].pc \in Active
      BY <2>2, <1>5, <1>w DEF Wake, Waiting
    <3>2. u # t BY <3>1, <1>5 DEF Wake
    <3> QED BY <3>1, <3>2, <2>2, <1>t DEF Waiting
  <2> QED BY <1>5, <2>1, <2>2 DEF Wake
<1>6. ASSUME NEW t \in Threads, Exec(t) PROVE Waiting'
  BY <1>6, <1>t, SMT DEF Exec, ThreadState, Waiting
<1>7. ASSUME NEW t \in Threads, ExecFails(t) PROVE Waiting'
  BY <1>7, <1>f DEF ExecFails
<1>8. ASSUME NEW t \in Threads, ProbeSurvives(t) PROVE Waiting'
  BY <1>8, <1>0, <1>t DEF ProbeSurvives
<1>9. ASSUME NEW t \in Threads, ProbeExits(t) PROVE Waiting'
  <2>1. CASE Fail(t) BY <2>1, <1>f
  <2>2. CASE thread' = [thread EXCEPT ![t].pc = "backoff", ![t].sess = None]
    BY <2>2, <1>t DEF ThreadState, Waiting
  <2> QED BY <1>9, <2>1, <2>2 DEF ProbeExits
<1>10. ASSUME NEW t \in Threads, StopReturns(t) PROVE Waiting'
  BY <1>10, <1>t DEF StopReturns, ThreadState, Waiting
<1>11. ASSUME NEW s \in Sessions, Watch(s) PROVE Waiting'
  <2>1. CASE Detach(s, UI) BY <2>1, <1>0, <1>m DEF Detach, At
  <2>2. CASE current # s /\ current' = current /\ state' = state
             /\ thread' = [thread EXCEPT ![s] = Ended]
    <3>1. PICK u \in Threads :
            \/ thread[u].pc \in Active
            \/ thread[u].pc = "sleep" /\ state = "starting"
      BY <2>2, <1>w DEF Waiting
    <3>2. u # s BY <3>1, <1>11 DEF Watch
    <3> QED BY <3>1, <3>2, <2>2, <1>t DEF Waiting
  <2> QED BY <1>11, <2>1, <2>2 DEF Watch
<1>12. ASSUME NEW s \in Sessions, LeaderExits(s) \/ OrphansExit(s) PROVE Waiting'
  BY <1>12, <1>w DEF LeaderExits, OrphansExit, Waiting
<1>13. CASE UNCHANGED vars BY <1>13, <1>w DEF vars, Waiting
<1>14. Waiting'
  BY <1>1, <1>2, <1>3, <1>4, <1>5, <1>6, <1>7, <1>8, <1>9, <1>10, <1>11, <1>12, <1>13
  DEF Next, Locking, Starting
<1> QED BY <1>14

\* The inductive invariant for the properties that need no condition.
Inv == TypeOK /\ CurrentIsWatched /\ RefsApart /\ ProbesGoal /\ AppMatchesProcess /\ NeverStranded

LEMMA InvAlways == Spec => []Inv
<1>1. Init => Inv
  BY TypeInit, SafeInit DEF Inv
<1>2. Inv /\ [Next]_vars => Inv'
  BY TypeStep, WatchedStep, RefsStep, ProbeStep, AppStep, StrandedStep DEF Inv
<1> QED BY <1>1, <1>2, PTL DEF Spec

\* The server is never left without a process and without a goroutine that will
\* start one, whatever is requested, whatever exits and whatever fails.
THEOREM NeverStrandedAlways == Spec => []NeverStranded
<1>1. Inv => NeverStranded BY DEF Inv
<1> QED BY <1>1, InvAlways, PTL

\* The current session always has its watch goroutine.
THEOREM CurrentWatchedAlways == Spec => []CurrentIsWatched
<1>1. Inv => CurrentIsWatched BY DEF Inv
<1> QED BY <1>1, InvAlways, PTL

\* No session is stopped by two goroutines or while it is current.
THEOREM KillersApartAlways == Spec => []KillersApart
<1>1. Inv => KillersApart
  BY DEF Inv, TypeOK, RefsApart, KillersApart, Threads
<1> QED BY <1>1, InvAlways, PTL

\* m.app always names the program of the current session.
THEOREM AppMatchesAlways == Spec => []AppMatchesProcess
<1>1. Inv => AppMatchesProcess BY DEF Inv
<1> QED BY <1>1, InvAlways, PTL

-----------------------------------------------------------------------------
(* Up to the first launch that is accepted while watch refills the slot,   *)
(* and the refinement of ProcessSlot.                                      *)

DriverPcs == Active \cup {"sleep"}

\* One goroutine at most is on its way to fill the slot, without the condition.
Alone == \A t \in Drivers : current = None /\ Drivers = {t}

\* The three conclusions about the state, the leaders and the last event.
StateTells ==
    current # None => state = IF prog[current] = UI THEN "ui_running" ELSE "app_running"
LeadersKept ==
    ~StopMayFail => \A s \in Sessions : life[s] = "running" =>
        s = current \/ \E t \in Drivers : thread[t].sess = s
EventTells ==
    announced # app => \E t \in Sessions : thread[t].pc \in Active

Calm == Alone /\ StateTells /\ LeadersKept /\ EventTells

\* What a step of the only driver t leaves when t stays on its way, with the record r.
LEMMA MoveDrivers ==
    ASSUME TypeOK, Drivers = {}, NEW t \in Threads, NEW r, r.pc \in DriverPcs,
           thread' = [thread EXCEPT ![t] = r]
    PROVE  Drivers' = {t}
BY DEF TypeOK, Drivers, DriverPcs

LEMMA KeepDrivers ==
    ASSUME TypeOK, NEW t \in Threads, Drivers = {t}, NEW r, r.pc \in DriverPcs,
           thread' = [thread EXCEPT ![t] = r]
    PROVE  Drivers' = {t}
BY DEF TypeOK, Drivers, DriverPcs

LEMMA EndDrivers ==
    ASSUME TypeOK, NEW t \in Threads, Drivers = {t}, NEW r, r.pc \notin DriverPcs,
           thread' = [thread EXCEPT ![t] = r]
    PROVE  Drivers' = {}
BY DEF TypeOK, Drivers, DriverPcs

LEMMA NoDrivers ==
    ASSUME Alone, current # None PROVE Drivers = {}
BY DEF Alone

\* The refinement mapping, named: Slot substitutes these expressions.
Occupant == IF current = None THEN None ELSE prog[current]
Wanted == IF Drivers = {} THEN None ELSE thread[CHOOSE t \in Drivers : TRUE].goal

LEMMA WantedOf ==
    /\ Drivers = {} => Wanted = None
    /\ \A t \in Threads : Drivers = {t} => Wanted = thread[t].goal
BY DEF Wanted

LEMMA WantedOfNext ==
    /\ Drivers' = {} => Wanted' = None
    /\ \A t \in Threads : Drivers' = {t} => Wanted' = thread'[t].goal
BY DEF Wanted

\* A step of the abstract slot, or a stutter, in the words of the mapping.
SlotStep ==
    \/ Occupant = None /\ Wanted # None /\ Occupant' = Wanted /\ Wanted' = None
    \/ Wanted \in Apps /\ Wanted' = UI /\ Occupant' = Occupant
    \/ UI \in NoArgv /\ Occupant = None /\ Wanted' = None /\ Occupant' = Occupant
    \/ Occupant # None /\ Occupant' = None /\ \E p \in Programs : Wanted' = p
    \/ Occupant' = Occupant /\ Wanted' = Wanted

\* Taking the current session out of the slot.
LEMMA DetachCalm ==
    ASSUME Inv, Calm, NEW t \in Threads, NEW p \in Programs, current # None,
           thread[t].sess = None, Detach(t, p), UNCHANGED <<life, prog>>,
           (t \in Sessions) \/ announced' = None
    PROVE  Calm' /\ SlotStep
<1>t. /\ current \in Sessions /\ prog \in [Sessions -> Programs]
      /\ thread \in [Threads -> ThreadState]
      /\ None \notin Programs
  BY DEF Inv, TypeOK
<1>1. Drivers = {} BY NoDrivers DEF Calm
<1>2. /\ thread' = [thread EXCEPT ![t] = At("kill", p, current, 0)]
      /\ current' = None /\ app' = None
  BY DEF Detach
<1>3. Drivers' = {t}
  BY <1>1, <1>2, MoveDrivers DEF Inv, DriverPcs, Active, At
<1>4. /\ thread'[t].pc = "kill" /\ thread'[t].goal = p /\ thread'[t].sess = current
  BY <1>2, <1>t DEF At
<1>5. Alone' BY <1>2, <1>3 DEF Alone
<1>6. StateTells' BY <1>2 DEF StateTells
<1>7. LeadersKept' BY <1>1, <1>3, <1>4 DEF Calm, LeadersKept
<1>8. EventTells' BY <1>2, <1>4 DEF EventTells, Active
<1>9. SlotStep
  BY <1>2, <1>3, <1>4, <1>t, WantedOfNext DEF SlotStep, Occupant
<1> QED BY <1>5, <1>6, <1>7, <1>8, <1>9 DEF Calm

\* The only goroutine on its way to the slot, and what Inv says of it.
LEMMA DriverFacts ==
    ASSUME Inv, Calm, NEW t \in Drivers
    PROVE  /\ t \in Threads /\ thread[t].pc \in DriverPcs
           /\ current = None /\ app = None /\ Drivers = {t}
           /\ thread \in [Threads -> ThreadState]
           /\ prog \in [Sessions -> Programs]
           /\ thread[t].goal \in Programs
           /\ Occupant = None /\ Wanted = thread[t].goal
           /\ Sessions \subseteq Threads /\ None \notin Sessions
<1>1. t \in Threads /\ thread[t].pc \in DriverPcs
  BY DEF Drivers, DriverPcs
<1>2. current = None /\ Drivers = {t}
  BY DEF Calm, Alone
<1>3. app = None
  BY <1>2 DEF Inv, AppMatchesProcess
<1>4. /\ thread \in [Threads -> ThreadState] /\ prog \in [Sessions -> Programs]
      /\ thread[t].goal \in Programs
  BY <1>1 DEF Inv, TypeOK, ThreadState
<1>5. Occupant = None /\ Wanted = thread[t].goal
  BY <1>1, <1>2, WantedOf DEF Occupant
<1> QED BY <1>1, <1>2, <1>3, <1>4, <1>5 DEF Threads

\* A step of the driver t that leaves the slot empty and the processes alone.
LEMMA DriverCalm ==
    ASSUME Inv, Calm, NEW t \in Drivers, NEW r,
           thread' = [thread EXCEPT ![t] = r], r.pc \in DriverPcs,
           UNCHANGED <<current, app, life, prog>>,
           \/ thread[t].sess \notin Sessions
           \/ life[thread[t].sess] # "running"
           \/ r.sess = thread[t].sess,
           \/ announced' = None
           \/ announced' = announced /\ (thread[t].pc \in Active => r.pc \in Active),
           \/ r.goal = thread[t].goal
           \/ thread[t].goal \in Apps /\ r.goal = UI
    PROVE  Calm' /\ SlotStep
<1>t. /\ t \in Threads /\ current = None /\ app = None /\ Drivers = {t}
      /\ thread \in [Threads -> ThreadState]
      /\ Occupant = None /\ Wanted = thread[t].goal
      /\ Sessions \subseteq Threads /\ None \notin Sessions
  BY DriverFacts
<1>1. Drivers' = {t} BY <1>t, KeepDrivers DEF Inv
<1>2. thread'[t] = r /\ \A u \in Threads \ {t} : thread'[u] = thread[u]
  BY <1>t
<1>3. Alone' BY <1>1, <1>t DEF Alone
<1>4. StateTells' BY <1>t DEF StateTells
<1>5. LeadersKept'
  BY <1>1, <1>2, <1>t DEF Calm, LeadersKept
<1>6. EventTells'
  <2>1. CASE announced' = None BY <2>1, <1>t DEF EventTells
  <2>2. CASE announced' = announced /\ (thread[t].pc \in Active => r.pc \in Active)
    BY <2>2, <1>t, <1>2 DEF Calm, EventTells
  <2> QED BY <2>1, <2>2
<1>7. SlotStep
  BY <1>1, <1>2, <1>t, WantedOfNext DEF SlotStep, Occupant
<1> QED BY <1>3, <1>4, <1>5, <1>6, <1>7 DEF Calm

\* The driver t ends without filling the slot: only without a UI to start.
LEMMA GiveUpCalm ==
    ASSUME Inv, Calm, NEW t \in Drivers, UI \in NoArgv,
           thread' = [thread EXCEPT ![t] = Ended], announced' = None,
           UNCHANGED <<current, app, life, prog>>,
           thread[t].sess \notin Sessions \/ life[thread[t].sess] # "running"
    PROVE  Calm' /\ SlotStep
<1>t. /\ t \in Threads /\ current = None /\ app = None /\ Drivers = {t}
      /\ thread \in [Threads -> ThreadState]
      /\ Occupant = None
      /\ None \notin Sessions
  BY DriverFacts
<1>1. Drivers' = {}
  BY <1>t, EndDrivers, EndedFields DEF Inv, DriverPcs, Active
<1>3. Alone' BY <1>1 DEF Alone
<1>4. StateTells' BY <1>t DEF StateTells
<1>5. LeadersKept' BY <1>1, <1>t DEF Calm, LeadersKept
<1>6. EventTells' BY <1>t DEF EventTells
<1>7. SlotStep BY <1>1, <1>t, WantedOfNext DEF SlotStep, Occupant
<1> QED BY <1>3, <1>4, <1>5, <1>6, <1>7 DEF Calm

LEMMA FailCalm ==
    ASSUME Inv, Calm, NEW t \in Drivers, Fail(t), UNCHANGED <<current, app, life, prog>>,
           thread[t].sess \notin Sessions \/ life[thread[t].sess] # "running"
    PROVE  Calm' /\ SlotStep
<1>t. t \in Threads /\ thread[t].goal \in Programs
  BY DriverFacts
<1>1. announced' = None BY DEF Fail, SetState
<1>2. CASE thread[t].goal = UI
  <2> DEFINE r == At("sleep", UI, None, 0)
  <2>1. thread' = [thread EXCEPT ![t] = r] BY <1>2 DEF Fail
  <2>2. r.pc \in DriverPcs /\ r.goal = thread[t].goal BY <1>2 DEF At, DriverPcs
  <2> HIDE DEF r
  <2> QED BY <2>1, <2>2, <1>1, DriverCalm
<1>3. CASE thread[t].goal # UI /\ UI \in NoArgv
  BY <1>1, <1>3, GiveUpCalm DEF Fail
<1>4. CASE thread[t].goal # UI /\ UI \notin NoArgv
  <2> DEFINE r == At("exec", UI, None, 0)
  <2>1. thread' = [thread EXCEPT ![t] = r] BY <1>4 DEF Fail
  <2>2. r.pc \in DriverPcs /\ r.goal = UI BY DEF At, DriverPcs, Active
  <2>3. thread[t].goal \in Apps BY <1>t, <1>4 DEF Programs
  <2> HIDE DEF r
  <2> QED BY <2>1, <2>2, <2>3, <1>1, DriverCalm
<1> QED BY <1>2, <1>3, <1>4

LEMMA EnterCalm ==
    ASSUME Inv, Calm, NEW t \in Drivers, EnterUI(t), thread[t].sess \notin Sessions,
           UNCHANGED <<current, app, life, prog>>
    PROVE  Calm' /\ SlotStep
<1>1. CASE UI \in NoArgv
  BY <1>1, GiveUpCalm DEF EnterUI, SetState
<1>2. CASE UI \notin NoArgv
  <2> DEFINE r == At("exec", UI, None, 0)
  <2>1. thread' = [thread EXCEPT ![t] = r] /\ announced' = announced
    BY <1>2 DEF EnterUI
  <2>2. r.pc \in DriverPcs /\ r.pc \in Active /\ r.goal = UI
    BY DEF At, DriverPcs, Active
  <2>3. thread[t].goal = UI \/ thread[t].goal \in Apps
    BY DriverFacts DEF Programs
  <2> HIDE DEF r
  <2> QED BY <2>1, <2>2, <2>3, DriverCalm
<1> QED BY <1>1, <1>2

-----------------------------------------------------------------------------
(* One lemma for the step of the manager as a whole.                       *)

LEMMA CalmStep ==
    ASSUME Inv, raced \/ Calm, [Next]_vars, ~raced'
    PROVE  ~raced /\ Calm' /\ SlotStep
<1>0. Sessions \subseteq Threads /\ Handlers \subseteq Threads /\ None \notin Sessions
  BY DEF Threads
<1>t. /\ current \in Sessions \cup {None} /\ prog \in [Sessions -> Programs]
      /\ thread \in [Threads -> ThreadState]
      /\ \A t \in Threads :
          thread[t].sess \in Sessions <=> thread[t].pc \in {"probe", "kill"}
      /\ state \in States
      /\ life \in [Sessions -> {"running", "orphans", "dead"}]
  BY DEF Inv, TypeOK
<1>s. \A t \in Threads : thread[t].sess \in Sessions \cup {None}
  BY <1>t DEF ThreadState
\* The history variable is never reset.
<1>r. ~raced
  BY DEF Next, vars, Locking, Starting, Stop, LaunchApp, Relock, AfterBackoff, Wake, Exec,
         ExecFails, ProbeSurvives, ProbeExits, StopReturns, Watch, LeaderExits, OrphansExit
<1>c. Calm BY <1>r
<1>p. UI \in Programs /\ Apps \subseteq Programs BY DEF Programs
\* A step of the processes, or none: the goroutines and the slot do not move.
<1>q. ASSUME UNCHANGED <<state, current, app, announced, thread, prog>>,
             \A s \in Sessions : life'[s] = "running" => life[s] = "running"
      PROVE  Calm' /\ SlotStep
  BY <1>q, <1>c DEF Calm, Alone, Drivers, StateTells, LeadersKept, EventTells, SlotStep,
                    Occupant, Wanted
<1>1. ASSUME NEW h \in Handlers, Stop(h) PROVE Calm' /\ SlotStep
  BY <1>1, <1>0, <1>c, <1>p, EndedFields, DetachCalm DEF Stop, StopHasEffect, SetState
<1>2. ASSUME NEW h \in Handlers, NEW a \in Apps, LaunchApp(h, a) PROVE Calm' /\ SlotStep
  <2>1. state \in {"ui_running", "app_running"}
    BY <1>2, <1>t DEF LaunchApp, Rejected, States
  <2>2. current # None BY <1>2, <2>1 DEF LaunchApp
  <2> QED BY <1>2, <2>2, <1>0, <1>c, <1>p, EndedFields, DetachCalm DEF LaunchApp, SetState
<1>3. ASSUME NEW t \in Threads, Relock(t) PROVE Calm' /\ SlotStep
  <2>1. t \in Drivers /\ thread[t].sess \notin Sessions
    BY <1>3, <1>t DEF Relock, Drivers, Active
  <2>2. CASE thread[t].goal = UI /\ EnterUI(t)
    BY <2>1, <2>2, <1>3, <1>c, EnterCalm DEF Relock
  <2>3. CASE thread' = [thread EXCEPT ![t].pc = "exec"] /\ announced' = announced
    <3> DEFINE r == [thread[t] EXCEPT !.pc = "exec"]
    <3>1. thread' = [thread EXCEPT ![t] = r] BY <2>3
    <3>2. r.pc \in DriverPcs /\ r.pc \in Active /\ r.goal = thread[t].goal
      BY <1>t DEF DriverPcs, Active, ThreadState
    <3> HIDE DEF r
    <3> QED BY <2>1, <2>3, <3>1, <3>2, <1>3, <1>c, DriverCalm DEF Relock
  <2> QED BY <1>3, <2>2, <2>3 DEF Relock
<1>4. ASSUME NEW t \in Threads, AfterBackoff(t) PROVE Calm' /\ SlotStep
  <2>1. t \in Drivers /\ thread[t].sess \notin Sessions
    BY <1>4, <1>t DEF AfterBackoff, Drivers, Active
  <2>2. CASE Fail(t)
    BY <2>1, <2>2, <1>4, <1>c, FailCalm DEF AfterBackoff
  <2>3. CASE thread' = [thread EXCEPT ![t].pc = "exec", ![t].attempt = @ + 1]
             /\ announced' = announced
    <3> DEFINE r == [thread[t] EXCEPT !.pc = "exec", !.attempt = thread[t].attempt + 1]
    <3>1. thread' = [thread EXCEPT ![t] = r] BY <2>3, <1>t DEF ThreadState
    <3>2. r.pc \in DriverPcs /\ r.pc \in Active /\ r.goal = thread[t].goal
      BY <1>t DEF DriverPcs, Active, ThreadState
    <3> HIDE DEF r
    <3> QED BY <2>1, <2>3, <3>1, <3>2, <1>4, <1>c, DriverCalm DEF AfterBackoff
  <2> QED BY <1>4, <2>2, <2>3 DEF AfterBackoff
<1>5. ASSUME NEW t \in Threads, Wake(t) PROVE Calm' /\ SlotStep
  <2>1. t \in Drivers /\ thread[t].sess \notin Sessions
    BY <1>5, <1>t DEF Wake, Drivers
  <2>2. CASE EnterUI(t)
    BY <2>1, <2>2, <1>5, <1>c, EnterCalm DEF Wake
  <2>3. CASE /\ state # "starting" /\ announced' = announced
             /\ thread' = [thread EXCEPT ![t] = Ended]
    \* t would be the only goroutine on its way, so NeverStranded leaves NoArgv only.
    <3>1. current = None /\ Drivers = {t}
      BY <2>1, <1>c, DriverFacts
    <3>2. \A u \in Threads : thread[u].pc \notin Active
      BY <3>1, <1>5 DEF Wake, Drivers, Active
    <3>3. UI \in NoArgv
      BY <3>1, <3>2, <2>3, <1>5 DEF Inv, NeverStranded, Wake, Drivers
    <3>4. announced = None
      BY <3>2, <1>0, <1>c, <2>1, DriverFacts DEF Calm, EventTells
    <3> QED BY <2>1, <2>3, <3>3, <3>4, <1>5, <1>c, GiveUpCalm DEF Wake
  <2> QED BY <1>5, <2>2, <2>3 DEF Wake
<1>6. ASSUME NEW t \in Threads, Exec(t) PROVE Calm' /\ SlotStep
  <2>1. PICK s \in Sessions :
          /\ Fresh(s)
          /\ thread' = [thread EXCEPT ![t].pc = "probe", ![t].sess = s]
          /\ life' = [life EXCEPT ![s] = "running"]
          /\ prog' = [prog EXCEPT ![s] = thread[t].goal]
    BY <1>6 DEF Exec
  <2>2. t \in Drivers /\ thread[t].pc \in Active /\ thread[t].sess \notin Sessions
    BY <1>6, <1>t DEF Exec, Drivers, Active
  <2>3. current = None /\ Drivers = {t} /\ Occupant = None /\ Wanted = thread[t].goal
    BY <2>2, <1>c, DriverFacts
  <2> DEFINE r == [thread[t] EXCEPT !.pc = "probe", !.sess = s]
  <2>4. thread' = [thread EXCEPT ![t] = r] BY <2>1, <1>t DEF ThreadState
  <2>5. r.pc = "probe" /\ r.pc \in DriverPcs /\ r.pc \in Active
        /\ r.goal = thread[t].goal /\ r.sess = s
    BY <1>t DEF DriverPcs, Active, ThreadState
  <2> HIDE DEF r
  <2>6. Drivers' = {t} BY <2>3, <2>4, <2>5, KeepDrivers DEF Inv
  <2>7. thread'[t] = r /\ \A u \in Threads \ {t} : thread'[u] = thread[u]
    BY <2>4, <1>t
  <2>8. UNCHANGED <<state, current, app, announced>> BY <1>6 DEF Exec
  <2>9. Alone' /\ StateTells' BY <2>3, <2>6, <2>8 DEF Alone, StateTells
  <2>10. LeadersKept'
    BY <2>1, <2>2, <2>3, <2>5, <2>6, <2>7, <2>8, <1>c, <1>t, <1>0 DEF Calm, LeadersKept
  <2>11. EventTells' BY <2>5, <2>7, <2>8, <1>c, <1>0, <1>t DEF Calm, EventTells
  <2>12. SlotStep
    BY <2>3, <2>5, <2>6, <2>7, <2>8, WantedOfNext DEF SlotStep, Occupant
  <2> QED BY <2>9, <2>10, <2>11, <2>12 DEF Calm
<1>7. ASSUME NEW t \in Threads, ExecFails(t) PROVE Calm' /\ SlotStep
  <2>1. t \in Drivers /\ thread[t].sess \notin Sessions
    BY <1>7, <1>t DEF ExecFails, Drivers, Active
  <2> QED BY <2>1, <1>7, <1>c, FailCalm DEF ExecFails
<1>8. ASSUME NEW t \in Threads, ProbeSurvives(t) PROVE Calm' /\ SlotStep
  <2> DEFINE s == thread[t].sess
  <2>1. t \in Drivers /\ s \in Sessions
    BY <1>8, <1>t DEF ProbeSurvives, Drivers, Active
  <2>2. /\ current = None /\ Drivers = {t} /\ Occupant = None /\ Wanted = thread[t].goal
        /\ thread[t].goal \in Programs
    BY <2>1, <1>c, DriverFacts
  <2>3. prog[s] = thread[t].goal
    BY <1>8 DEF ProbeSurvives, Inv, ProbesGoal
  <2>4. /\ current' = s /\ life' = life /\ prog' = prog
        /\ announced' = app'
        /\ state' = IF thread[t].goal = UI THEN "ui_running" ELSE "app_running"
        /\ thread' = [thread EXCEPT ![t] = Ended, ![s] = At("watch", UI, None, 0)]
    BY <1>8 DEF ProbeSurvives, SetState
  <2>5. \A u \in Threads : thread'[u].pc \in DriverPcs => u # t /\ thread[u].pc \in DriverPcs
    BY <2>4, <2>1, <1>0, <1>t, EndedFields DEF At, DriverPcs, Active
  <2>6. Drivers' = {}
    BY <2>2, <2>5 DEF Drivers, DriverPcs
  <2>7. Alone' /\ EventTells' BY <2>4, <2>6 DEF Alone, EventTells
  <2>8. StateTells' BY <2>3, <2>4 DEF StateTells
  <2>9. LeadersKept' BY <2>2, <2>4, <1>c, <1>0 DEF Calm, LeadersKept
  <2>10. SlotStep
    BY <2>1, <2>2, <2>3, <2>4, <2>6, <1>0, WantedOfNext DEF SlotStep, Occupant
  <2> QED BY <2>7, <2>8, <2>9, <2>10 DEF Calm
<1>9. ASSUME NEW t \in Threads, ProbeExits(t) PROVE Calm' /\ SlotStep
  <2>1. t \in Drivers /\ life[thread[t].sess] # "running"
    BY <1>9 DEF ProbeExits, Drivers, Active
  <2>2. CASE Fail(t)
    BY <2>1, <2>2, <1>9, <1>c, FailCalm DEF ProbeExits
  <2>3. CASE thread' = [thread EXCEPT ![t].pc = "backoff", ![t].sess = None]
             /\ announced' = announced
    <3> DEFINE r == [thread[t] EXCEPT !.pc = "backoff", !.sess = None]
    <3>1. thread' = [thread EXCEPT ![t] = r] BY <2>3, <1>t DEF ThreadState
    <3>2. r.pc \in DriverPcs /\ r.pc \in Active /\ r.goal = thread[t].goal
      BY <1>t DEF DriverPcs, Active, ThreadState
    <3> HIDE DEF r
    <3> QED BY <2>1, <2>3, <3>1, <3>2, <1>9, <1>c, DriverCalm DEF ProbeExits
  <2> QED BY <1>9, <2>2, <2>3 DEF ProbeExits
<1>10. ASSUME NEW t \in Threads, StopReturns(t) PROVE Calm' /\ SlotStep
  <2> DEFINE s == thread[t].sess
             r == [thread[t] EXCEPT !.pc = "start", !.sess = None]
  <2>1. t \in Drivers /\ s \in Sessions
    BY <1>10, <1>t DEF StopReturns, Drivers, Active
  <2>2. current = None /\ Drivers = {t} /\ Occupant = None /\ Wanted = thread[t].goal
    BY <2>1, <1>c, DriverFacts
  <2>3. thread' = [thread EXCEPT ![t] = r] BY <1>10, <1>t DEF StopReturns, ThreadState
  <2>4. r.pc \in DriverPcs /\ r.pc \in Active /\ r.goal = thread[t].goal
    BY <1>t DEF DriverPcs, Active, ThreadState
  <2> HIDE DEF r
  <2>5. Drivers' = {t} BY <2>2, <2>3, <2>4, KeepDrivers DEF Inv
  <2>6. thread'[t] = r /\ \A u \in Threads \ {t} : thread'[u] = thread[u]
    BY <2>3, <1>t
  <2>7. UNCHANGED <<state, current, app, announced, prog>> BY <1>10 DEF StopReturns
  <2>8. StopMayFail \/ life' = [life EXCEPT ![s] = "dead"] BY <1>10 DEF StopReturns
  <2>9. Alone' /\ StateTells' BY <2>2, <2>5, <2>7 DEF Alone, StateTells
  <2>10. LeadersKept'
    BY <2>1, <2>2, <2>7, <2>8, <1>c, <1>t, <1>0 DEF Calm, LeadersKept
  <2>11. EventTells' BY <2>4, <2>6, <2>7, <1>c, <1>0, <1>t DEF Calm, EventTells
  <2>12. SlotStep
    BY <2>2, <2>4, <2>5, <2>6, <2>7, WantedOfNext DEF SlotStep, Occupant
  <2> QED BY <2>9, <2>10, <2>11, <2>12 DEF Calm
<1>11. ASSUME NEW s \in Sessions, Watch(s) PROVE Calm' /\ SlotStep
  <2>1. s \in Threads /\ thread[s].sess = None
    BY <1>11, <1>0, <1>t, <1>s DEF Watch
  <2>2. CASE current = s /\ Detach(s, UI)
    BY <2>1, <2>2, <1>11, <1>0, <1>c, <1>p, DetachCalm DEF Watch
  <2>3. CASE thread' = [thread EXCEPT ![s] = Ended] /\ UNCHANGED <<current, app>>
    <3>1. \A t \in Threads : thread'[t] = IF t = s THEN Ended ELSE thread[t]
      BY <2>1, <2>3, <1>t
    <3>2. s \notin Drivers /\ thread[s].pc \notin Active
      BY <1>11 DEF Watch, Drivers, Active
    <3>3. Drivers' = Drivers
      BY <3>1, <3>2, EndedFields DEF Drivers, Active
    <3>4. UNCHANGED <<state, current, app, announced, life, prog>>
      BY <2>3, <1>11 DEF Watch
    <3>5. Alone' /\ StateTells' BY <3>3, <3>4, <1>c DEF Calm, Alone, StateTells
    <3>6. LeadersKept'
      BY <2>1, <3>1, <3>2, <3>3, <3>4, <1>c DEF Calm, LeadersKept, Drivers
    <3>7. EventTells' BY <3>1, <3>2, <3>4, <1>0, <1>c DEF Calm, EventTells
    <3>8. Wanted' = Wanted
      <4>1. CASE Drivers = {} BY <4>1, <3>3 DEF Wanted
      <4>2. CASE Drivers # {}
        <5>1. PICK t \in Drivers : Drivers = {t} BY <4>2, <1>c DEF Calm, Alone
        <5>2. t \in Threads /\ t # s BY <5>1, <3>2 DEF Drivers
        <5> QED BY <5>1, <5>2, <3>1, <3>3, WantedOf, WantedOfNext
      <4> QED BY <4>1, <4>2
    <3> QED BY <3>4, <3>5, <3>6, <3>7, <3>8 DEF Calm, SlotStep, Occupant
  <2> QED BY <1>11, <2>2, <2>3 DEF Watch
<1>12. ASSUME NEW s \in Sessions, LeaderExits(s) \/ OrphansExit(s) PROVE Calm' /\ SlotStep
  BY <1>12, <1>q, <1>t DEF LeaderExits, OrphansExit
<1>13. CASE UNCHANGED vars BY <1>13, <1>q DEF vars
<1> QED
  BY <1>r, <1>1, <1>2, <1>3, <1>4, <1>5, <1>6, <1>7, <1>8, <1>9, <1>10, <1>11, <1>12, <1>13
  DEF Next, Locking, Starting

-----------------------------------------------------------------------------
LEMMA CalmInit == Init => Calm
<1> SUFFICES ASSUME Init PROVE Calm
  OBVIOUS
<1>1. Drivers = {Main}
  BY DEF Init, Drivers, Active, At, Ended, Threads
<1> QED BY <1>1 DEF Init, Calm, Alone, StateTells, LeadersKept, EventTells

LEMMA CalmAlways == Spec => [](Inv /\ (raced \/ Calm))
<1>1. Init => Inv /\ (raced \/ Calm)
  BY TypeInit, SafeInit, CalmInit DEF Inv
<1>2. Inv /\ (raced \/ Calm) /\ [Next]_vars => (Inv /\ (raced \/ Calm))'
  BY TypeStep, WatchedStep, RefsStep, ProbeStep, AppStep, StrandedStep, CalmStep DEF Inv
<1> QED BY <1>1, <1>2, PTL DEF Spec

\* One goroutine at most is on its way to fill the slot.
THEOREM OneDriverAlways == Spec => []OneDriver
<1>1. raced \/ Calm => OneDriver BY DEF OneDriver, Calm, Alone
<1> QED BY <1>1, CalmAlways, PTL

\* m.state tells what the slot holds.
THEOREM StateMatchesAlways == Spec => []StateMatchesSlot
<1>1. raced \/ Calm => StateMatchesSlot BY DEF StateMatchesSlot, Calm, StateTells
<1> QED BY <1>1, CalmAlways, PTL

\* When every stop succeeds, a leader that runs belongs to the slot.
THEOREM NoStrayAlways == Spec => []NoStrayLeader
<1>1. raced \/ Calm => NoStrayLeader BY DEF NoStrayLeader, Calm, LeadersKept
<1> QED BY <1>1, CalmAlways, PTL

\* Two leaders never run at the same time, until a launch is accepted while the
\* slot is refilled and as long as every stop succeeds: what SingleSlot says
\* holds up to there.
THEOREM OneLeaderAlways == ~StopMayFail => (Spec => [](~raced => SingleSlot))
<1> SUFFICES ASSUME ~StopMayFail PROVE Spec => [](~raced => SingleSlot)
  OBVIOUS
<1>1. Inv /\ (raced \/ Calm) => (~raced => SingleSlot)
  <2> SUFFICES ASSUME Inv, Calm, NEW s1 \in Sessions, NEW s2 \in Sessions,
                      life[s1] = "running", life[s2] = "running"
               PROVE  s1 = s2
    BY DEF SingleSlot
  <2>1. CASE current = None
    <3>1. PICK t \in Drivers : thread[t].sess = s1
      BY <2>1 DEF Calm, LeadersKept, Threads
    <3>2. PICK u \in Drivers : thread[u].sess = s2
      BY <2>1 DEF Calm, LeadersKept, Threads
    <3> QED BY <3>1, <3>2 DEF Calm, Alone
  <2>2. CASE current # None
    BY <2>2, NoDrivers DEF Calm, LeadersKept
  <2> QED BY <2>1, <2>2
<1> QED BY <1>1, CalmAlways, PTL

\* Outside the refill after an exit the last event told of the current app.
THEOREM LastEventAlways == Spec => []LastEventIsCurrent
<1>1. raced \/ Calm => LastEventIsCurrent BY DEF LastEventIsCurrent, Calm, EventTells
<1> QED BY <1>1, CalmAlways, PTL

\* The manager implements the abstract slot.
THEOREM Refinement == Spec => RefinesSlot
<1>1. Init => Slot!SlotInit
  <2> SUFFICES ASSUME Init PROVE Slot!SlotInit
    OBVIOUS
  <2>1. Drivers = {Main} /\ Main \in Threads /\ thread[Main].goal = UI
    BY DEF Init, Drivers, Active, At, Ended, Threads
  <2>2. Wanted = UI BY <2>1, WantedOf
  <2> QED BY <2>2 DEF Init, Slot!SlotInit, Wanted
<1>2. Inv /\ (raced \/ Calm) /\ [Next]_vars => [Slot!SlotNext]_Slot!slotVars
  <2> SUFFICES ASSUME Inv, raced \/ Calm, [Next]_vars
               PROVE  [Slot!SlotNext]_Slot!slotVars
    OBVIOUS
  <2>1. CASE raced'
    BY <2>1, TypeStep DEF Slot!SlotNext, Slot!Torn, Inv, TypeOK
  <2>2. CASE ~raced'
    <3>1. ~raced /\ SlotStep BY <2>2, CalmStep
    <3>2. raced = FALSE /\ raced' = FALSE
      BY <2>2, <3>1, TypeStep DEF Inv, TypeOK
    <3>3. CASE Occupant' = Occupant /\ Wanted' = Wanted
      BY <3>2, <3>3 DEF Slot!slotVars, Occupant, Wanted
    <3>4. CASE ~(Occupant' = Occupant /\ Wanted' = Wanted)
      BY <3>1, <3>2, <3>4 DEF SlotStep, Occupant, Wanted, Slot!SlotNext, Slot!Kept, Slot!Fill,
        Slot!FallBack, Slot!Abandon, Slot!Vacate, Slot!Programs, Programs
    <3> QED BY <3>3, <3>4
  <2> QED BY <2>1, <2>2
<1> QED BY <1>1, <1>2, CalmAlways, PTL DEF Spec, RefinesSlot, Slot!SlotSpec
=============================================================================
