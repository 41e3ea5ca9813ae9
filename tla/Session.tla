------------------------------ MODULE Session ------------------------------
(***************************************************************************)
(* process.Session: one process group, the goroutine that waits for its    *)
(* leader, and Session.Stop (server/internal/process/session.go).          *)
(*                                                                         *)
(* A process of the group is alive, or has exited and waits to be reaped   *)
(* (zombie; it still counts for kill -0), or is gone.  The leader is       *)
(* reaped by cmd.Wait in the wait goroutine, which then closes done; the   *)
(* others by their own parents or by init, if those ever do.  Time is      *)
(* counted in polls of Stop, which are pollInterval apart.                 *)
(***************************************************************************)
EXTENDS Naturals

CONSTANTS
    Procs,      \* the processes that may be in the group
    Leader,     \* the one the server started
    Unkillable, \* processes on which not even SIGKILL has an effect (stuck in the kernel)
    Foreign,    \* those among them for a lack of permission (set-user-ID programs)
    TermPolls,  \* polls before stopTimeout elapses
    KillPolls   \* polls before killTimeout elapses

ASSUME LeaderInGroup ==
    Leader \in Procs /\ Foreign \subseteq Unkillable /\ Unkillable \subseteq Procs
ASSUME PollsPositive == TermPolls \in Nat \ {0} /\ KillPolls \in Nat \ {0}

VARIABLES
    proc,    \* each process: not yet forked, alive, zombie, gone
    done,    \* whether s.done is closed
    stop,    \* where Stop is: idle, term (polling), kill (polling), returned
    polls,   \* polls left before the deadline
    result   \* what Stop returned

vars == <<proc, done, stop, polls, result>>

Alive == {p \in Procs : proc[p] = "alive"}
Members == {p \in Procs : proc[p] \in {"alive", "zombie"}}

\* kill(-pgid, 0) = ESRCH
GroupGone == Members = {}

\* The processes in dying exit.
Exit(dying) == proc' = [p \in Procs |-> IF p \in dying THEN "zombie" ELSE proc[p]]

Init ==
    /\ proc = [p \in Procs |-> IF p = Leader THEN "alive" ELSE "unborn"]
    /\ done = FALSE
    /\ stop = "idle"
    /\ polls = 0
    /\ result = "none"

-----------------------------------------------------------------------------
(* The processes.                                                          *)

Fork(p) ==
    /\ Alive # {}
    /\ proc[p] = "unborn"
    /\ proc' = [proc EXCEPT ![p] = "alive"]
    /\ UNCHANGED <<done, stop, polls, result>>

ExitByItself(p) ==
    /\ proc[p] = "alive"
    /\ Exit({p})
    /\ UNCHANGED <<done, stop, polls, result>>

\* A process other than the leader is reaped, by its parent or by init.
Reap(p) ==
    /\ p # Leader
    /\ proc[p] = "zombie"
    /\ proc' = [proc EXCEPT ![p] = "gone"]
    /\ UNCHANGED <<done, stop, polls, result>>

\* cmd.Wait returns in the wait goroutine, which stores the exit error and
\* closes done under s.mu.
WaitReturns ==
    /\ proc[Leader] = "zombie"
    /\ proc' = [proc EXCEPT ![Leader] = "gone"]
    /\ done' = TRUE
    /\ UNCHANGED <<stop, polls, result>>

-----------------------------------------------------------------------------
(* Session.Stop.  manager.go calls it at most once for a session.          *)

Return(r) == stop' = "returned" /\ result' = r

\* SIGTERM to the group: ESRCH is success, EPERM (no member may be signalled) an
\* error at once, and the members signalled choose whether to die of it.
StopBegins ==
    /\ stop = "idle"
    /\ \/ GroupGone /\ Return("nil") /\ UNCHANGED <<proc, polls>>
       \/ ~GroupGone /\ Members \subseteq Foreign /\ Return("error") /\ UNCHANGED <<proc, polls>>
       \/ /\ ~(Members \subseteq Foreign)
          /\ \E dying \in SUBSET (Alive \ Unkillable) : Exit(dying)
          /\ stop' = "term"
          /\ polls' = TermPolls
          /\ UNCHANGED result
    /\ UNCHANGED done

\* Mutant of TermPoll: it waits for the leader only.
TermPollLeader ==
    /\ stop = "term"
    /\ polls > 0
    /\ \/ done /\ Return("nil") /\ UNCHANGED polls
       \/ ~done /\ polls' = polls - 1 /\ UNCHANGED <<stop, result>>
    /\ UNCHANGED <<proc, done>>

\* Mutant of TermPoll: the deadline is looked at one poll too late.
TermPollPast ==
    /\ stop = "term"
    /\ \/ GroupGone /\ Return("nil") /\ UNCHANGED polls
       \/ ~GroupGone /\ polls' = polls - 1 /\ UNCHANGED <<stop, result>>
    /\ UNCHANGED <<proc, done>>

TermPoll ==
    /\ stop = "term"
    /\ polls > 0
    /\ \/ GroupGone /\ Return("nil") /\ UNCHANGED polls
       \/ ~GroupGone /\ polls' = polls - 1 /\ UNCHANGED <<stop, result>>
    /\ UNCHANGED <<proc, done>>

\* Mutant of Escalate: SIGKILL to the leader instead of the group.
EscalateLeader ==
    /\ stop = "term"
    /\ polls = 0
    /\ Exit((Alive \cap {Leader}) \ Unkillable)
    /\ stop' = "kill"
    /\ polls' = KillPolls
    /\ UNCHANGED <<done, result>>

\* The timeout has elapsed: SIGKILL to the group, its error ignored.
Escalate ==
    /\ stop = "term"
    /\ polls = 0
    /\ Exit(Alive \ Unkillable)
    /\ stop' = "kill"
    /\ polls' = KillPolls
    /\ UNCHANGED <<done, result>>

\* Mutant of KillPoll: no deadline.
KillPollForever ==
    /\ stop = "kill"
    /\ GroupGone
    /\ Return("nil")
    /\ UNCHANGED <<proc, done, polls>>

KillPoll ==
    /\ stop = "kill"
    /\ \/ polls > 0 /\ GroupGone /\ Return("nil") /\ UNCHANGED polls
       \/ polls > 0 /\ ~GroupGone /\ polls' = polls - 1 /\ UNCHANGED <<stop, result>>
       \/ polls = 0 /\ Return("error") /\ UNCHANGED polls
    /\ UNCHANGED <<proc, done>>

Stopping == StopBegins \/ TermPoll \/ Escalate \/ KillPoll

Next ==
    \/ Stopping
    \/ WaitReturns
    \/ \E p \in Procs : Fork(p) \/ ExitByItself(p) \/ Reap(p)

Spec == Init /\ [][Next]_vars

\* The poll loop runs once Stop has begun.  Nothing is assumed of the processes.
FairSpec == Spec /\ WF_vars(TermPoll \/ Escalate \/ KillPoll)

-----------------------------------------------------------------------------
TypeOK ==
    /\ proc \in [Procs -> {"unborn", "alive", "zombie", "gone"}]
    /\ done \in BOOLEAN
    /\ stop \in {"idle", "term", "kill", "returned"}
    /\ polls \in 0..(TermPolls + KillPolls)
    /\ result \in {"none", "nil", "error"}

\* "Polling ensures we wait for the entire group, not just the top-level
\* process": after Stop returned nil no member is left and none can come back,
\* also when members fork while Stop runs.
NilMeansGone == result = "nil" => GroupGone

\* An error means that the group was beyond SIGKILL: unless a process on which it
\* has no effect has been in the group, nothing is alive when Stop gives up, and
\* what is left waits to be reaped.
ErrorMeansBeyondKill ==
    result = "error" /\ (\A p \in Unkillable : proc[p] = "unborn") => Alive = {}

\* Stop returns once it has begun, whatever the processes do: it is bounded by
\* its two timeouts.
StopEnds == stop # "idle" ~> stop = "returned"
=============================================================================
