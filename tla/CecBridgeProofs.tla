-------------------------- MODULE CecBridgeProofs --------------------------
(* Theorems about CecBridge, for any number of devices and posting threads. *)
EXTENDS CecBridge, TLAPS

USE AddressesDistinct, FlagsBoolean, CommandsKnown

\* A snapshot, wherever it is, is not torn.
Whole(s) == s.active <=> s.source = Own

\* A snapshot that says that the TV is off was taken after its standby.
Founded(s) == ~s.tvOn => heardOff

\* The bridge knows the TV's power from an event, and what it pushed is current.
BridgeInv ==
    /\ active <=> source = Own
    /\ tvKnown => (tvOn \/ heardOff)
    /\ pushed # None => tvKnown
    /\ DedupHidesNothing

PostsInv == \A i \in Posters : post[i] # None => Whole(post[i]) /\ Founded(post[i])

ServerInv == SnapshotConsistent /\ OffOnlyAfterStandby

Inv == TypeOK /\ BridgeInv /\ PostsInv /\ ServerInv

LEMMA InvInit == Init => Inv
<1> SUFFICES ASSUME Init PROVE Inv
  OBVIOUS
<1> USE DEF Init
<1>1. TypeOK
  BY DEF TypeOK, Addresses
<1>2. BridgeInv
  BY DEF BridgeInv, DedupHidesNothing, Addresses
<1>3. PostsInv
  BY DEF PostsInv
<1>4. ServerInv
  BY DEF ServerInv, SnapshotConsistent, OffOnlyAfterStandby, NewClient, Addresses
<1> QED BY <1>1, <1>2, <1>3, <1>4 DEF Inv

\* The snapshot that push_state takes is whole and founded.
LEMMA SnapshotGood ==
    ASSUME TypeOK, BridgeInv, tvKnown
    PROVE  Snapshot \in Snapshots /\ Whole(Snapshot) /\ Founded(Snapshot)
BY DEF TypeOK, BridgeInv, Snapshot, Snapshots, Whole, Founded

\* Events of the bus and socket commands touch the bridge only.
LEMMA BridgeStep ==
    ASSUME Inv,
           \/ TvReportsOn \/ TvStandby \/ TvSilently
           \/ \E on \in BOOLEAN : AvrReports(on)
           \/ \E a \in Addresses : ActiveSource(a) \/ RoutingChange(a)
           \/ \E c \in Commands : ReceiveCommand(c)
           \/ PowerOn \/ SetSource \/ CheckStandby \/ TransmitStandby
    PROVE  Inv'
<1> USE DEF Inv
<1>1. /\ UNCHANGED <<post, server>>
      /\ heardOff => heardOff'
  BY DEF TypeOK, TvReportsOn, TvStandby, TvSilently, AvrReports, ActiveSource, RoutingChange,
     SourceChanges, ReceiveCommand, PowerOn, SetSource, CheckStandby, TransmitStandby, bridgeVars
<1>2. PostsInv' /\ ServerInv'
  BY <1>1 DEF PostsInv, ServerInv, Whole, Founded, SnapshotConsistent, OffOnlyAfterStandby
<1>3. CASE TvReportsOn
  BY <1>1, <1>2, <1>3 DEF TvReportsOn, TypeOK, BridgeInv, DedupHidesNothing
<1>4. CASE TvStandby
  BY <1>1, <1>2, <1>4 DEF TvStandby, TypeOK, BridgeInv, DedupHidesNothing
<1>5. CASE TvSilently
  BY <1>1, <1>2, <1>5 DEF TvSilently, TypeOK, BridgeInv, DedupHidesNothing, bridgeVars
<1>6. ASSUME NEW on \in BOOLEAN, AvrReports(on) PROVE Inv'
  BY <1>1, <1>2, <1>6 DEF AvrReports, TypeOK, BridgeInv, DedupHidesNothing
<1>7. ASSUME NEW a \in Addresses, SourceChanges(a) PROVE Inv'
  BY <1>1, <1>2, <1>7 DEF SourceChanges, TypeOK, BridgeInv, DedupHidesNothing
<1>8. ASSUME NEW c \in Commands, ReceiveCommand(c) PROVE Inv'
  BY <1>1, <1>2, <1>8 DEF ReceiveCommand, TypeOK, BridgeInv, DedupHidesNothing, bridgeVars
<1>9. CASE PowerOn
  <2>1. tv' \in BOOLEAN
    BY <1>9 DEF PowerOn, TypeOK
  <2>2. TypeOK'
    BY <1>9, <2>1 DEF PowerOn, TypeOK, bridgeVars
  <2>3. BridgeInv'
    BY <1>9 DEF PowerOn, BridgeInv, DedupHidesNothing, bridgeVars
  <2> QED BY <1>2, <2>2, <2>3
<1>10. CASE SetSource
  <2>1. TypeOK'
    BY <1>10 DEF SetSource, TypeOK, Addresses
  <2>2. BridgeInv'
    BY <1>10 DEF SetSource, TypeOK, BridgeInv, DedupHidesNothing
  <2> QED BY <1>2, <2>1, <2>2
<1>11. CASE CheckStandby
  <2>1. TypeOK'
    BY <1>11 DEF CheckStandby, TypeOK, bridgeVars
  <2>2. BridgeInv'
    BY <1>11 DEF CheckStandby, BridgeInv, DedupHidesNothing, bridgeVars
  <2> QED BY <1>2, <2>1, <2>2
<1>12. CASE TransmitStandby
  BY <1>1, <1>2, <1>12 DEF TransmitStandby, TypeOK, BridgeInv, DedupHidesNothing, bridgeVars
<1> QED
  BY <1>3, <1>4, <1>5, <1>6, <1>7, <1>8, <1>9, <1>10, <1>11, <1>12 DEF ActiveSource, RoutingChange

LEMMA PushStep == Inv /\ Push => Inv'
<1> SUFFICES ASSUME Inv, Push PROVE Inv'
  OBVIOUS
<1> USE DEF Inv
<1>1. CASE ~tvKnown /\ UNCHANGED <<post, pushed, local>>
  <2>0. /\ pushing' = FALSE
        /\ UNCHANGED <<tv, tvOn, tvKnown, avrOn, source, active, cmd, post, server>>
        /\ UNCHANGED <<pushed, local, lastTv, heardOff>>
    BY <1>1 DEF Push, bridgeVars
  <2>1. TypeOK'
    <3>1. post' \in [Posters -> Snapshots \cup {None}] /\ pushed' \in Snapshots \cup {None}
      BY <2>0 DEF TypeOK
    <3>2. server' \in Snapshots \cup {NewClient} /\ source' \in Addresses \cup {None}
      BY <2>0 DEF TypeOK
    <3> QED BY <2>0, <3>1, <3>2 DEF TypeOK
  <2>2. BridgeInv'
    BY <1>1, <2>0 DEF BridgeInv, DedupHidesNothing
  <2>3. PostsInv' /\ ServerInv'
    BY <2>0 DEF PostsInv, Whole, Founded, ServerInv, SnapshotConsistent, OffOnlyAfterStandby
  <2> QED BY <2>1, <2>2, <2>3
<1>2. ASSUME tvKnown, NEW i \in Posters, post' = [post EXCEPT ![i] = Snapshot],
             pushed' = Snapshot, local' = FALSE
      PROVE  Inv'
  <2>1. Snapshot \in Snapshots /\ Whole(Snapshot) /\ Founded(Snapshot)
    BY <1>2, SnapshotGood
  <2>2. TypeOK'
    BY <1>2, <2>1 DEF TypeOK, Push, bridgeVars
  <2>3. BridgeInv'
    BY <1>2 DEF BridgeInv, DedupHidesNothing, Snapshot, Push, bridgeVars
  <2>4. PostsInv'
    BY <1>2, <2>1 DEF PostsInv, TypeOK, Whole, Founded, Push, bridgeVars
  <2>5. ServerInv'
    BY DEF ServerInv, SnapshotConsistent, OffOnlyAfterStandby, Push, bridgeVars
  <2> QED BY <2>2, <2>3, <2>4, <2>5
<1> QED BY <1>1, <1>2 DEF Push

\* Deliveries, losses and restarts.
LEMMA NetworkStep ==
    ASSUME Inv, (\E i \in Posters : Deliver(i) \/ Lose(i)) \/ BridgeRestarts \/ ServerRestarts
    PROVE  Inv'
<1> USE DEF Inv
<1>1. ASSUME NEW i \in Posters, Deliver(i) PROVE Inv'
  <2>1. post[i] \in Snapshots /\ Whole(post[i]) /\ Founded(post[i])
    BY <1>1 DEF Deliver, TypeOK, PostsInv
  <2>2. TypeOK' /\ PostsInv' /\ ServerInv'
    BY <1>1, <2>1 DEF Deliver, TypeOK, PostsInv, ServerInv, Whole, Founded, SnapshotConsistent,
       OffOnlyAfterStandby, bridgeVars
  <2>3. BridgeInv'
    BY <1>1 DEF Deliver, BridgeInv, DedupHidesNothing, bridgeVars
  <2> QED BY <2>2, <2>3
<1>2. ASSUME NEW i \in Posters, Lose(i) PROVE Inv'
  BY <1>2 DEF Lose, TypeOK, BridgeInv, DedupHidesNothing, PostsInv, ServerInv, Whole, Founded,
     SnapshotConsistent, OffOnlyAfterStandby, bridgeVars
<1>3. CASE BridgeRestarts
  BY <1>3 DEF BridgeRestarts, TypeOK, BridgeInv, DedupHidesNothing, PostsInv, ServerInv, Whole,
     Founded, SnapshotConsistent, OffOnlyAfterStandby, Addresses
<1>4. CASE ServerRestarts
  <2>1. TypeOK'
    BY <1>4 DEF ServerRestarts, TypeOK, bridgeVars
  <2>2. BridgeInv'
    BY <1>4 DEF ServerRestarts, BridgeInv, DedupHidesNothing, bridgeVars
  <2>3. PostsInv'
    BY <1>4 DEF ServerRestarts, PostsInv, Whole, Founded
  <2>4. ServerInv'
    BY <1>4 DEF ServerRestarts, ServerInv, SnapshotConsistent, OffOnlyAfterStandby, NewClient,
       Addresses
  <2> QED BY <2>1, <2>2, <2>3, <2>4
<1> QED BY <1>1, <1>2, <1>3, <1>4

LEMMA InvStep == Inv /\ [Next]_vars => Inv'
<1> SUFFICES ASSUME Inv, [Next]_vars PROVE Inv'
  OBVIOUS
<1>1. CASE UNCHANGED vars
  BY <1>1 DEF vars, bridgeVars, Inv, TypeOK, BridgeInv, DedupHidesNothing, PostsInv, ServerInv,
     Whole, Founded, SnapshotConsistent, OffOnlyAfterStandby
<1>2. CASE Next
  BY <1>2, BridgeStep, PushStep, NetworkStep DEF Next
<1> QED BY <1>1, <1>2

LEMMA InvAlways == Spec => []Inv
BY InvInit, InvStep, PTL DEF Spec

\* The variables keep their types.
THEOREM TypeCorrect == Spec => []TypeOK
BY InvAlways, PTL DEF Inv

\* The default of a bridge that has heard nothing never reaches the server.
THEOREM OffOnlyAfterStandbyAlways == Spec => []OffOnlyAfterStandby
BY InvAlways, PTL DEF Inv, ServerInv

\* The server never stores a torn snapshot.
THEOREM SnapshotConsistentAlways == Spec => []SnapshotConsistent
BY InvAlways, PTL DEF Inv, ServerInv

\* The early returns of on_command hide no change from the server.
THEOREM DedupHidesNothingAlways == Spec => []DedupHidesNothing
BY InvAlways, PTL DEF Inv, BridgeInv
=============================================================================
