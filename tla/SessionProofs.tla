--------------------------- MODULE SessionProofs ---------------------------
(* Theorems about Session, for any number of processes and any timeouts. *)
EXTENDS Session, TLAPS

USE LeaderInGroup, PollsPositive

\* After SIGKILL no process is left that could die of it, fork or be stopped.
BeyondKill ==
    (stop = "kill" \/ result = "error") /\ (\A p \in Unkillable : proc[p] = "unborn") => Alive = {}

\* Stop has returned exactly when there is a result.
ResultKnown == result # "none" <=> stop = "returned"

Inv == TypeOK /\ NilMeansGone /\ BeyondKill /\ ResultKnown

LEMMA InvInit == Init => Inv
<1> SUFFICES ASSUME Init PROVE Inv
  OBVIOUS
<1>1. TypeOK
  <2>1. proc \in [Procs -> {"unborn", "alive", "zombie", "gone"}] BY DEF Init
  <2>2. polls \in 0..(TermPolls + KillPolls) BY DEF Init
  <2> QED BY <2>1, <2>2 DEF Init, TypeOK
<1>2. NilMeansGone /\ BeyondKill /\ ResultKnown
  BY DEF Init, NilMeansGone, BeyondKill, ResultKnown
<1> QED BY <1>1, <1>2 DEF Inv

\* Exits and reaping only shrink the group.
LEMMA ExitShrinks ==
    ASSUME TypeOK, NEW dying \in SUBSET Alive, Exit(dying)
    PROVE  /\ proc' \in [Procs -> {"unborn", "alive", "zombie", "gone"}]
           /\ Alive' = Alive \ dying
           /\ Members' = Members
BY DEF TypeOK, Exit, Alive, Members

LEMMA InvStep == Inv /\ [Next]_vars => Inv'
<1> SUFFICES ASSUME Inv, [Next]_vars PROVE Inv'
  OBVIOUS
<1> USE DEF Inv, TypeOK, NilMeansGone, BeyondKill, ResultKnown, GroupGone
<1>1. CASE StopBegins
  <2>1. CASE GroupGone /\ Return("nil") /\ UNCHANGED <<proc, polls>>
    BY <1>1, <2>1 DEF StopBegins, Return, Members, Alive
  <2>2. ASSUME NEW dying \in SUBSET (Alive \ Unkillable), Exit(dying),
               stop' = "term", polls' = TermPolls, UNCHANGED result
        PROVE  Inv'
    BY <1>1, <2>2, ExitShrinks DEF StopBegins
  <2>3. CASE ~GroupGone /\ Members \subseteq Foreign /\ Return("error") /\ UNCHANGED <<proc, polls>>
    BY <1>1, <2>3 DEF StopBegins, Return, Members, Alive
  <2> QED BY <1>1, <2>1, <2>2, <2>3 DEF StopBegins
<1>2. CASE TermPoll
  <2>1. UNCHANGED proc /\ Alive' = Alive /\ Members' = Members
    BY <1>2 DEF TermPoll, Members, Alive
  <2>2. TypeOK'
    BY <1>2, <2>1 DEF TermPoll, Return
  <2>3. NilMeansGone' /\ BeyondKill' /\ ResultKnown'
    BY <1>2, <2>1 DEF TermPoll, Return
  <2> QED BY <2>2, <2>3
<1>3. CASE Escalate
  <2>1. /\ proc' \in [Procs -> {"unborn", "alive", "zombie", "gone"}]
        /\ Alive' \subseteq Unkillable \cap Alive /\ Members' = Members
    BY <1>3, ExitShrinks DEF Escalate
  <2>2. \A q \in Unkillable : proc'[q] = proc[q]
    BY <1>3, LeaderInGroup DEF Escalate, Exit
  <2>3. Alive' = {} \/ \E q \in Unkillable : proc'[q] # "unborn"
    BY <2>1, <2>2 DEF Alive
  <2>4. TypeOK'
    BY <1>3, <2>1 DEF Escalate
  <2>5. NilMeansGone' /\ BeyondKill' /\ ResultKnown'
    BY <1>3, <2>1, <2>3 DEF Escalate
  <2> QED BY <2>4, <2>5
<1>4. CASE KillPoll
  BY <1>4 DEF KillPoll, Return, Members, Alive
<1>5. CASE WaitReturns
  BY <1>5 DEF WaitReturns, Members, Alive
<1>6. ASSUME NEW p \in Procs, Fork(p) PROVE Inv'
  <2>1. TypeOK'
    BY <1>6 DEF Fork
  <2>2. NilMeansGone' /\ ResultKnown'
    BY <1>6 DEF Fork, Members, Alive
  <2>3. BeyondKill'
    <3>1. Alive # {} /\ (\A q \in Unkillable : proc'[q] = "unborn" => proc[q] = "unborn")
      BY <1>6 DEF Fork
    <3> QED BY <1>6, <3>1 DEF Fork
  <2> QED BY <2>1, <2>2, <2>3
<1>7. ASSUME NEW p \in Procs, ExitByItself(p) PROVE Inv'
  <2>1. /\ proc' \in [Procs -> {"unborn", "alive", "zombie", "gone"}]
        /\ Alive' \subseteq Alive /\ Members' = Members
    BY <1>7, ExitShrinks DEF ExitByItself, Alive
  <2>2. \A q \in Unkillable : proc'[q] = "unborn" => proc[q] = "unborn"
    BY <1>7, LeaderInGroup DEF ExitByItself, Exit
  <2> QED BY <1>7, <2>1, <2>2 DEF ExitByItself
<1>8. ASSUME NEW p \in Procs, Reap(p) PROVE Inv'
  BY <1>8 DEF Reap, Members, Alive
<1>9. CASE UNCHANGED vars
  BY <1>9 DEF vars, Members, Alive
<1> QED BY <1>1, <1>2, <1>3, <1>4, <1>5, <1>6, <1>7, <1>8, <1>9 DEF Next, Stopping

LEMMA InvAlways == Spec => []Inv
BY InvInit, InvStep, PTL DEF Spec

\* The variables keep their types: Stop polls no more often than its two waits allow.
THEOREM TypeCorrect == Spec => []TypeOK
<1>1. Inv => TypeOK BY DEF Inv
<1> QED BY <1>1, InvAlways, PTL

\* After Stop returned nil the whole group is gone, whatever it forked meanwhile.
THEOREM NilMeansGoneAlways == Spec => []NilMeansGone
<1>1. Inv => NilMeansGone BY DEF Inv
<1> QED BY <1>1, InvAlways, PTL

\* When Stop gives up, nothing that SIGKILL could end is alive.
THEOREM BeyondKillAlways == Spec => []ErrorMeansBeyondKill
<1>1. Inv => ErrorMeansBeyondKill BY DEF Inv, BeyondKill, ErrorMeansBeyondKill
<1> QED BY <1>1, InvAlways, PTL
=============================================================================
