----------------------------- MODULE CecBridge -----------------------------
(***************************************************************************)
(* The HDMI-CEC bridge and the copy of its state that the server keeps     *)
(* (cec/launchscope-cec.py, server/internal/cec/cec.go).                   *)
(*                                                                         *)
(* Three kinds of threads of the bridge share its state under a lock:      *)
(* libcec's callback thread, which handles the events of the bus one at a  *)
(* time and takes the snapshot to push in a second critical section; the   *)
(* thread that serves the command socket; and one thread for each snapshot *)
(* that is on its way to the server.                                       *)
(***************************************************************************)
EXTENDS Naturals

CONSTANTS
    Own,           \* OWN_LOGICAL, the logical address of the host PC
    TV,            \* CEC_TV
    Others,        \* logical addresses of other sources
    None,          \* no address, no snapshot
    Posters,       \* bound: threads that post a snapshot at the same time
    HasAvr,        \* CEC_AVR is not None
    InitialActive, \* cec.initial_state_active of the server
    MayFail,       \* a POST may be lost, the bridge and the server may restart
    Commands       \* bound: the socket commands that are sent

Addresses == Others \cup {Own, TV}

ASSUME AddressesDistinct == Own # TV /\ Own \notin Others /\ None \notin Addresses
ASSUME FlagsBoolean == HasAvr \in BOOLEAN /\ InitialActive \in BOOLEAN /\ MayFail \in BOOLEAN
ASSUME CommandsKnown == Commands \subseteq {"activate", "power-on", "set-source", "standby"}

VARIABLES
    tv,       \* the TV is on
    tvOn, tvKnown, avrOn, source, active,   \* the globals of the bridge
    pushing,  \* the callback thread is between its update and push_state's lock
    cmd,      \* the command the socket thread is at
    post,     \* the snapshot each posting thread carries
    server,   \* cec.Client.state
    pushed,   \* history: the last snapshot this bridge took
    local,    \* history: set-source has changed the source since then
    lastTv,   \* history: the last TV power event that was handled
    heardOff  \* history: a standby of the TV has ever been handled

bridgeVars == <<tvOn, tvKnown, avrOn, source, active>>
vars == <<tv, bridgeVars, pushing, cmd, post, server, pushed, local, lastTv, heardOff>>

Snapshots ==
    [tvOn : BOOLEAN, avrOn : BOOLEAN, source : Addresses \cup {None}, active : BOOLEAN]

Snapshot == [tvOn |-> tvOn, avrOn |-> avrOn, source |-> source, active |-> active]

\* cec.New.  The avr_on of a client that has heard nothing is nil.
NewClient ==
    IF InitialActive
    THEN [tvOn |-> TRUE, avrOn |-> TRUE, source |-> Own, active |-> TRUE]
    ELSE [tvOn |-> FALSE, avrOn |-> None, source |-> None, active |-> FALSE]

Init ==
    /\ tv \in BOOLEAN
    /\ tvOn = FALSE /\ tvKnown = FALSE /\ avrOn = FALSE
    /\ source = None /\ active = FALSE
    /\ pushing = FALSE
    /\ cmd = "idle"
    /\ post = [i \in Posters |-> None]
    /\ server = NewClient
    /\ pushed = None
    /\ local = FALSE
    /\ lastTv = "none" /\ heardOff = FALSE

-----------------------------------------------------------------------------
(* on_command.  The callback thread takes the next event when push_state   *)
(* for the last one has returned.                                          *)

\* The TV reports that it is on, because it was turned on or was asked.
TvReportsOn ==
    /\ ~pushing
    /\ tv' = TRUE
    /\ tvKnown' = TRUE /\ tvOn' = TRUE
    /\ pushing' = ~tvOn
    /\ lastTv' = "on"
    /\ UNCHANGED <<avrOn, source, active, cmd, post, server, pushed, local, heardOff>>

\* Mutant of TvStandby: the early return comes after the assignments and looks
\* at the TV only.
TvStandbyLate ==
    /\ ~pushing
    /\ tv /\ tv' = FALSE
    /\ tvKnown' = TRUE
    /\ tvOn' = FALSE /\ avrOn' = FALSE
    /\ pushing' = tvOn
    /\ lastTv' = "off" /\ heardOff' = TRUE
    /\ UNCHANGED <<source, active, cmd, post, server, pushed, local>>

\* The TV broadcasts Standby: the AVR is taken to be off too.
TvStandby ==
    /\ ~pushing
    /\ tv /\ tv' = FALSE
    /\ tvKnown' = TRUE
    /\ tvOn' = FALSE /\ avrOn' = FALSE
    /\ pushing' = (tvOn \/ avrOn)
    /\ lastTv' = "off" /\ heardOff' = TRUE
    /\ UNCHANGED <<source, active, cmd, post, server, pushed, local>>

\* SetSystemAudioMode from the AVR.
AvrReports(on) ==
    /\ ~pushing
    /\ HasAvr
    /\ on # avrOn
    /\ avrOn' = on
    /\ pushing' = TRUE
    /\ UNCHANGED <<tv, tvOn, tvKnown, source, active, cmd, post, server, pushed, local, lastTv, heardOff>>

\* Mutant of SourceChanges: _is_active_source is left as it was.
SourceChangesOnly(a) ==
    /\ ~pushing
    /\ a # source
    /\ source' = a
    /\ pushing' = TRUE
    /\ UNCHANGED <<tv, tvOn, tvKnown, avrOn, active, cmd, post, server, pushed, local, lastTv, heardOff>>

\* ActiveSource from another device, or RoutingChange from the AVR to an address
\* of _PHYS_TO_LOGICAL.
SourceChanges(a) ==
    /\ ~pushing
    /\ a # source
    /\ source' = a
    /\ active' = (a = Own)
    /\ pushing' = TRUE
    /\ UNCHANGED <<tv, tvOn, tvKnown, avrOn, cmd, post, server, pushed, local, lastTv, heardOff>>

ActiveSource(a) == a \in Others \cup {TV} /\ SourceChanges(a)
RoutingChange(a) == HasAvr /\ a \in {TV, Own} /\ SourceChanges(a)

\* Mutant of Push: the TV's power need not be known.
PushUnknown ==
    /\ pushing
    /\ pushing' = FALSE
    /\ \E i \in Posters : post[i] = None /\ post' = [post EXCEPT ![i] = Snapshot]
    /\ pushed' = Snapshot /\ local' = FALSE
    /\ UNCHANGED <<tv, bridgeVars, cmd, server, lastTv, heardOff>>

\* Mutant of Push: is_active_source is left out of the payload.
PushPartly ==
    /\ pushing
    /\ pushing' = FALSE
    /\ \/ ~tvKnown /\ UNCHANGED <<post, pushed, local>>
       \/ /\ tvKnown
          /\ \E i \in Posters :
                /\ post[i] = None
                /\ post' = [post EXCEPT ![i] =
                        [tvOn |-> tvOn, avrOn |-> avrOn, source |-> source]]
          /\ pushed' = Snapshot /\ local' = FALSE
    /\ UNCHANGED <<tv, bridgeVars, cmd, server, lastTv, heardOff>>

\* push_state: nothing before a TV power event, else a thread with a snapshot.
Push ==
    /\ pushing
    /\ pushing' = FALSE
    /\ \/ ~tvKnown /\ UNCHANGED <<post, pushed, local>>
       \/ /\ tvKnown
          /\ \E i \in Posters : post[i] = None /\ post' = [post EXCEPT ![i] = Snapshot]
          /\ pushed' = Snapshot /\ local' = FALSE
    /\ UNCHANGED <<tv, bridgeVars, cmd, server, lastTv, heardOff>>

-----------------------------------------------------------------------------
(* The command socket.                                                     *)

ReceiveCommand(c) ==
    /\ cmd = "idle"
    /\ cmd' = c
    /\ UNCHANGED <<tv, bridgeVars, pushing, post, server, pushed, local, lastTv, heardOff>>

\* TextViewOn, which a TV may ignore; the transmission may raise an exception.
PowerOn ==
    /\ \/ cmd = "power-on" /\ cmd' = "idle"
       \/ cmd = "activate" /\ cmd' \in {"set-source", "idle"}
    /\ tv' \in {tv, TRUE}
    /\ UNCHANGED <<bridgeVars, pushing, post, server, pushed, local, lastTv, heardOff>>

\* do_set_source: ActiveSource is sent and noted, without a push; nothing is noted
\* when the transmission raises an exception.
SetSource ==
    /\ cmd = "set-source"
    /\ cmd' = "idle"
    /\ \/ UNCHANGED <<source, active, local>>
       \/ source' = Own /\ active' = TRUE /\ local' = TRUE
    /\ UNCHANGED <<tv, tvOn, tvKnown, avrOn, pushing, post, server, pushed, lastTv, heardOff>>

\* do_standby reads the flag under the lock and transmits after releasing it.
CheckStandby ==
    /\ cmd = "standby"
    /\ cmd' = IF active THEN "transmit" ELSE "idle"
    /\ UNCHANGED <<tv, bridgeVars, pushing, post, server, pushed, local, lastTv, heardOff>>

TransmitStandby ==
    /\ cmd = "transmit"
    /\ cmd' = "idle"
    /\ UNCHANGED <<tv, bridgeVars, pushing, post, server, pushed, local, lastTv, heardOff>>

-----------------------------------------------------------------------------
(* POST /api/cec/state, and failures.                                      *)

\* The handler decodes the snapshot and SetState stores it; the posts of the
\* threads arrive in any order.
Deliver(i) ==
    /\ post[i] # None
    /\ server' = post[i]
    /\ post' = [post EXCEPT ![i] = None]
    /\ UNCHANGED <<tv, bridgeVars, pushing, cmd, pushed, local, lastTv, heardOff>>

\* The server cannot be reached: the thread gives the snapshot up.
Lose(i) ==
    /\ MayFail
    /\ post[i] # None
    /\ post' = [post EXCEPT ![i] = None]
    /\ UNCHANGED <<tv, bridgeVars, pushing, cmd, server, pushed, local, lastTv, heardOff>>

\* Requests that are under way when the bridge ends may still be answered.
BridgeRestarts ==
    /\ MayFail
    /\ tvOn' = FALSE /\ tvKnown' = FALSE /\ avrOn' = FALSE
    /\ source' = None /\ active' = FALSE
    /\ pushing' = FALSE
    /\ cmd' = "idle"
    /\ pushed' = None /\ local' = FALSE
    /\ UNCHANGED <<tv, post, server, lastTv, heardOff>>

\* A thread that has not reached the old server may reach the new one.
ServerRestarts ==
    /\ MayFail
    /\ server' = NewClient
    /\ UNCHANGED <<tv, bridgeVars, pushing, cmd, post, pushed, local, lastTv, heardOff>>

\* The TV is turned on and reports nothing, or off while the bridge is deaf.
TvSilently ==
    /\ tv' = ~tv
    /\ tv => MayFail
    /\ UNCHANGED <<bridgeVars, pushing, cmd, post, server, pushed, local, lastTv, heardOff>>

Next ==
    \/ TvReportsOn \/ TvStandby \/ TvSilently \/ Push
    \/ \E on \in BOOLEAN : AvrReports(on)
    \/ \E a \in Addresses : ActiveSource(a) \/ RoutingChange(a)
    \/ \E c \in Commands : ReceiveCommand(c)
    \/ PowerOn \/ SetSource \/ CheckStandby \/ TransmitStandby
    \/ \E i \in Posters : Deliver(i) \/ Lose(i)
    \/ BridgeRestarts \/ ServerRestarts

Spec == Init /\ [][Next]_vars

-----------------------------------------------------------------------------
TypeOK ==
    /\ tv \in BOOLEAN
    /\ tvOn \in BOOLEAN /\ tvKnown \in BOOLEAN /\ avrOn \in BOOLEAN
    /\ source \in Addresses \cup {None} /\ active \in BOOLEAN
    /\ pushing \in BOOLEAN
    /\ cmd \in {"idle", "activate", "power-on", "set-source", "standby", "transmit"}
    /\ post \in [Posters -> Snapshots \cup {None}]
    /\ server \in Snapshots \cup {NewClient}
    /\ pushed \in Snapshots \cup {None}
    /\ local \in BOOLEAN
    /\ lastTv \in {"none", "on", "off"} /\ heardOff \in BOOLEAN

\* An optimistic server is told that the TV is off only if some bridge has heard
\* the TV go to standby ("its default _tv_on=False would overwrite launchscoped's
\* configured optimistic initial state"): AVR and source events, set-source and
\* restarts of either side never push the default.
OffOnlyAfterStandby ==
    InitialActive /\ ~server.tvOn => heardOff

\* What the server stores is never a torn snapshot: it says that the host PC is
\* active exactly if the active source is the host PC.
SnapshotConsistent == server.active <=> server.source = Own

\* The early returns of on_command hide no change: once the bridge has pushed,
\* the last snapshot is what it believes, but for a source that set-source noted.
DedupHidesNothing ==
    pushed # None /\ ~pushing =>
        /\ pushed.tvOn = tvOn /\ pushed.avrOn = avrOn
        /\ pushed.source = source \/ (local /\ source = Own)

Delivered == \A i \in Posters : post[i] = None
Quiet == Delivered /\ ~pushing

\* "The bridge will push correct state once events arrive": when a TV power event
\* has been handled and all posts have been delivered, the server has the TV right.
CorrectOnceEventsArrive == Quiet /\ lastTv # "none" => (server.tvOn <=> lastTv = "on")
=============================================================================
