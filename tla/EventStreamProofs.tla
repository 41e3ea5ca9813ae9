------------------------- MODULE EventStreamProofs -------------------------
(* Theorems about EventStream, for any number of clients and any sizes.     *)
EXTENDS EventStream, FiniteSetTheorems, SequenceTheorems, TLAPS

USE SizesPositive

\* The subscribers are finitely many, and exactly the handlers at work.
Places ==
    /\ IsFiniteSet(subs)
    /\ SubscribersBounded

\* What the types of a step rest on: a handler that writes has the event, and
\* what is being published has a number.
Underway ==
    /\ \A c \in Conns : handler[c] = "write" => held[c] # <<>>
    /\ \A p \in Publishers : todo[p] # {} => sent[p] > 0

Inv == TypeOK /\ Underway /\ Places /\ NoSendOnClosed

LEMMA InvInit == Init => Inv
<1> SUFFICES ASSUME Init PROVE Inv
  OBVIOUS
<1>1. queue \in [Conns -> Seq(Events)] /\ held \in [Conns -> Seq(Events)]
  BY DEF Init
<1>2. seen \in [Conns -> [Publishers -> 0..MaxEvents]] /\ sent \in [Publishers -> 0..MaxEvents]
  BY DEF Init
<1>3. TypeOK
  BY <1>1, <1>2 DEF Init, TypeOK
<1>4. Places
  BY FS_EmptySet DEF Init, Places, SubscribersBounded
<1> QED BY <1>3, <1>4 DEF Init, Inv, Underway, NoSendOnClosed

\* The two sides of the bus: publishers leave the handlers alone.
LEMMA PublishStep ==
    ASSUME Inv, NEW p \in Publishers, PublishBegins(p) \/ \E c \in Conns : PublishTo(p, c)
    PROVE  Inv'
<1> USE DEF Inv
<1>1. CASE PublishBegins(p)
  <2>1. sent' \in [Publishers -> 0..MaxEvents] /\ todo' \in [Publishers -> SUBSET Conns]
    BY <1>1 DEF PublishBegins, TypeOK
  <2>2. TypeOK'
    BY <1>1, <2>1 DEF PublishBegins, TypeOK, connVars
  <2>3. Underway' /\ NoSendOnClosed'
    BY <1>1 DEF PublishBegins, TypeOK, Underway, NoSendOnClosed, connVars
  <2>4. Places'
    BY <1>1 DEF PublishBegins, Places, SubscribersBounded
  <2> QED BY <2>2, <2>3, <2>4
<1>2. ASSUME NEW c \in Conns, PublishTo(p, c) PROVE Inv'
  <2>1. <<p, sent[p]>> \in Events
    <3>1. todo[p] # {} /\ sent[p] \in 0..MaxEvents
      BY <1>2 DEF PublishTo, TypeOK
    <3>2. sent[p] \in 1..MaxEvents
      BY <3>1 DEF Underway
    <3> QED BY <3>2 DEF Events
  <2>2. queue[c] \in Seq(Events)
    BY DEF TypeOK
  <2>3. /\ Append(queue[c], <<p, sent[p]>>) \in Seq(Events)
        /\ Len(Append(queue[c], <<p, sent[p]>>)) = Len(queue[c]) + 1
        /\ Len(queue[c]) \in Nat
    BY <2>1, <2>2
  <2>4. queue' \in [Conns -> Seq(Events)] /\ \A d \in Conns : Len(queue'[d]) <= BufSize
    <3>1. CASE Len(queue[c]) < BufSize /\ queue' = [queue EXCEPT ![c] = Append(@, <<p, sent[p]>>)]
      BY <2>3, <3>1 DEF TypeOK, Places, SubscribersBounded
    <3>2. CASE UNCHANGED queue
      BY <3>2 DEF TypeOK, Places, SubscribersBounded
    <3> QED BY <1>2, <3>1, <3>2 DEF PublishTo
  <2>5. TypeOK'
    <3>1. todo' \in [Publishers -> SUBSET Conns] /\ dropped' \in [Conns -> BOOLEAN]
      BY <1>2 DEF PublishTo, TypeOK
    <3> QED BY <1>2, <2>4, <3>1 DEF PublishTo, TypeOK
  <2>6. Underway' /\ NoSendOnClosed'
    BY <1>2 DEF PublishTo, TypeOK, Underway, NoSendOnClosed
  <2>7. Places'
    BY <1>2, <2>4 DEF PublishTo, Places, SubscribersBounded
  <2> QED BY <2>5, <2>6, <2>7
<1> QED BY <1>1, <1>2

LEMMA ConnectStep == ASSUME Inv, NEW c \in Conns, Connect(c) PROVE Inv'
<1> USE DEF Inv
<1>1. /\ queue' \in [Conns -> Seq(Events)]
      /\ seen' \in [Conns -> [Publishers -> 0..MaxEvents]]
      /\ handler' \in [Conns -> {"off", "upgrade", "select", "write", "leave"}]
  BY DEF Connect, TypeOK
<1>2. TypeOK'
  BY <1>1 DEF Connect, TypeOK
<1>3. Underway' /\ NoSendOnClosed'
  BY DEF Connect, TypeOK, Underway, NoSendOnClosed, NoReader
<1>4. Places'
  <2>1. IsFiniteSet(subs') /\ Cardinality(subs') = Cardinality(subs) + 1
    BY FS_AddElement DEF Connect, Places, SubscribersBounded
  <2>2. Cardinality(subs) \in Nat
    BY FS_CardinalityType DEF Places
  <2>3. Cardinality(subs') <= MaxSubs
    BY <2>1, <2>2 DEF Connect
  <2>4. \A d \in Conns : (d \in subs' <=> handler'[d] # "off") /\ Len(queue'[d]) <= BufSize
    BY DEF Connect, TypeOK, Places, SubscribersBounded
  <2> QED BY <2>1, <2>3, <2>4 DEF Places, SubscribersBounded
<1> QED BY <1>2, <1>3, <1>4

LEMMA LeaveStep == ASSUME Inv, NEW c \in Conns, Leave(c) PROVE Inv'
<1> USE DEF Inv
<1>1. TypeOK' /\ Underway' /\ NoSendOnClosed'
  BY DEF Leave, TypeOK, Underway, NoSendOnClosed, NoReader, connVars
<1>2. Places'
  <2>1. IsFiniteSet(subs') /\ Cardinality(subs') <= Cardinality(subs)
    BY FS_Subset DEF Leave, Places
  <2>2. Cardinality(subs) \in Nat /\ Cardinality(subs') \in Nat
    BY <2>1, FS_CardinalityType DEF Places
  <2>3. Cardinality(subs') <= MaxSubs
    BY <2>1, <2>2 DEF Places, SubscribersBounded
  <2>4. \A d \in Conns : (d \in subs' <=> handler'[d] # "off") /\ Len(queue'[d]) <= BufSize
    BY DEF Leave, TypeOK, Places, SubscribersBounded
  <2> QED BY <2>1, <2>3, <2>4 DEF Places, SubscribersBounded
<1> QED BY <1>1, <1>2

\* The other steps of a handler and its client keep the subscription.
LEMMA HandlerStep ==
    ASSUME Inv, NEW c \in Conns,
           Handling(c) \/ Written(c) \/ ReaderEnds(c) \/ ClientLeaves(c)
    PROVE  Inv'
<1> USE DEF Inv
<1>1. CASE Upgrade(c) \/ Disconnected(c)
  BY <1>1 DEF Upgrade, Disconnected, TypeOK, Underway, Places, SubscribersBounded, NoSendOnClosed, connVars
<1>2. CASE Receive(c)
  <2>1. queue[c] \in Seq(Events) /\ queue[c] # <<>>
    BY <1>2 DEF Receive, TypeOK
  <2>2. /\ Tail(queue[c]) \in Seq(Events) /\ Len(Tail(queue[c])) <= Len(queue[c])
        /\ <<Head(queue[c])>> \in Seq(Events) /\ <<Head(queue[c])>> # <<>>
        /\ Len(queue[c]) \in Nat /\ Len(Tail(queue[c])) \in Nat
    BY <2>1
  <2>3. /\ queue' \in [Conns -> Seq(Events)] /\ held' \in [Conns -> Seq(Events)]
        /\ handler' \in [Conns -> {"off", "upgrade", "select", "write", "leave"}]
    BY <1>2, <2>2 DEF Receive, TypeOK
  <2>4. TypeOK'
    BY <1>2, <2>3 DEF Receive, TypeOK
  <2>5. Underway' /\ NoSendOnClosed'
    BY <1>2, <2>2 DEF Receive, TypeOK, Underway, NoSendOnClosed
  <2>6. Places'
    BY <1>2, <2>2 DEF Receive, TypeOK, Places, SubscribersBounded
  <2> QED BY <2>4, <2>5, <2>6
<1>3. CASE WriteFails(c)
  <2>1. held' \in [Conns -> Seq(Events)]
    BY <1>3 DEF WriteFails, TypeOK
  <2> QED BY <1>3, <2>1 DEF WriteFails, TypeOK, Underway, Places, SubscribersBounded, NoSendOnClosed
<1>4. CASE Written(c)
  <2>1. held[c][1] \in Events
    BY <1>4 DEF Written, TypeOK, Underway
  <2>2. held[c][1][1] \in Publishers /\ held[c][1][2] \in 0..MaxEvents
    BY <2>1 DEF Events
  <2>3. seen' \in [Conns -> [Publishers -> 0..MaxEvents]] /\ held' \in [Conns -> Seq(Events)]
    BY <1>4, <2>2 DEF Written, TypeOK
  <2> QED BY <1>4, <2>3 DEF Written, TypeOK, Underway, Places, SubscribersBounded, NoSendOnClosed
<1>5. CASE ReaderEnds(c) \/ ClientLeaves(c)
  BY <1>5 DEF ReaderEnds, ClientLeaves, TypeOK, Underway, Places, SubscribersBounded, NoSendOnClosed
<1> QED BY <1>1, <1>2, <1>3, <1>4, <1>5 DEF Handling

LEMMA InvAlways == Spec => []Inv
<1>1. Inv /\ UNCHANGED vars => Inv'
  BY DEF Inv, TypeOK, Underway, Places, SubscribersBounded, NoSendOnClosed, vars
<1>2. Inv /\ [Next]_vars => Inv'
  BY <1>1, PublishStep, ConnectStep, LeaveStep, HandlerStep DEF Next
<1> QED BY <1>2, InvInit, PTL DEF Spec

-----------------------------------------------------------------------------
(* The order of events.  What is on its way to a client is older than what *)
(* is being published, so what is queued last is the newest.               *)

\* The events pen, on their way to a client that has seen those up to sn, are new
\* to it and in order, and none is newer than nw.
Ordered(pen, sn, nw) ==
    /\ \A p \in Publishers : sn[p] <= nw[p]
    /\ \A i \in 1..Len(pen) : sn[pen[i][1]] < pen[i][2] /\ pen[i][2] <= nw[pen[i][1]]
    /\ \A i, j \in 1..Len(pen) : i < j /\ pen[i][1] = pen[j][1] => pen[i][2] < pen[j][2]

\* The newest event of each publisher that connection c can have been sent: the one
\* a running Publish has yet to queue is not among them.
Newest(c) == [p \in Publishers |-> IF c \in todo[p] THEN sent[p] - 1 ELSE sent[p]]

\* A handler holds one event while it writes, and none otherwise.
HoldsOne == \A c \in Conns : Len(held[c]) = IF handler[c] = "write" THEN 1 ELSE 0

OrderInv == HoldsOne /\ \A c \in subs : Ordered(Pending(c), seen[c], Newest(c))

Counts == [Publishers -> Int]

LEMMA ConcatAt ==
    ASSUME NEW s \in Seq(Events), NEW t \in Seq(Events)
    PROVE  /\ s \o t \in Seq(Events)
           /\ Len(s \o t) = Len(s) + Len(t)
           /\ \A i \in 1..Len(s) : (s \o t)[i] = s[i]
           /\ \A i \in 1..Len(t) : (s \o t)[Len(s) + i] = t[i]
           /\ Len(s) \in Nat /\ Len(t) \in Nat
OBVIOUS

LEMMA ConcatAppend ==
    ASSUME NEW s \in Seq(Events), NEW t \in Seq(Events), NEW e \in Events
    PROVE  s \o Append(t, e) = Append(s \o t, e)
OBVIOUS

LEMMA EventTyped ==
    ASSUME NEW pen \in Seq(Events), NEW i \in 1..Len(pen)
    PROVE  pen[i][1] \in Publishers /\ pen[i][2] \in Nat
<1>1. pen[i] \in Events
  BY ElementOfSeq
<1> QED BY <1>1 DEF Events

LEMMA OrderedWeaker ==
    ASSUME NEW pen \in Seq(Events), NEW sn \in Counts, NEW nw \in Counts, NEW nw2 \in Counts,
           Ordered(pen, sn, nw), \A p \in Publishers : nw[p] <= nw2[p]
    PROVE  Ordered(pen, sn, nw2)
<1>1. \A p \in Publishers : sn[p] <= nw2[p]
  BY DEF Ordered, Counts
<1>2. ASSUME NEW i \in 1..Len(pen)
      PROVE  sn[pen[i][1]] < pen[i][2] /\ pen[i][2] <= nw2[pen[i][1]]
  <2>1. /\ pen[i][1] \in Publishers /\ pen[i][2] \in Nat
        /\ nw[pen[i][1]] \in Int /\ nw2[pen[i][1]] \in Int
    BY EventTyped DEF Counts
  <2> QED BY <2>1 DEF Ordered
<1> QED BY <1>1, <1>2 DEF Ordered

LEMMA OrderedAppend ==
    ASSUME NEW pen \in Seq(Events), NEW sn \in Counts, NEW nw \in Counts,
           NEW e \in Events, Ordered(pen, sn, nw), nw[e[1]] < e[2]
    PROVE  Ordered(Append(pen, e), sn, [nw EXCEPT ![e[1]] = e[2]])
<1> DEFINE pen2 == Append(pen, e)
           nw2 == [nw EXCEPT ![e[1]] = e[2]]
<1>1. e[1] \in Publishers /\ e[2] \in Nat
  BY DEF Events
<1>2. nw2 \in Counts /\ \A p \in Publishers : nw[p] <= nw2[p]
  BY <1>1 DEF Counts
<1>3. Ordered(pen, sn, nw2)
  BY <1>2, OrderedWeaker
<1>4. /\ Len(pen2) = Len(pen) + 1 /\ Len(pen) \in Nat
      /\ \A i \in 1..Len(pen) : pen2[i] = pen[i]
      /\ pen2[Len(pen) + 1] = e
  BY AppendProperties
<1>5. nw2[e[1]] = e[2] /\ sn[e[1]] < e[2]
  BY <1>1 DEF Ordered, Counts
<1>6. ASSUME NEW i \in 1..Len(pen2)
      PROVE  sn[pen2[i][1]] < pen2[i][2] /\ pen2[i][2] <= nw2[pen2[i][1]]
  BY <1>1, <1>3, <1>4, <1>5 DEF Ordered
<1>7. ASSUME NEW i \in 1..Len(pen2), NEW j \in 1..Len(pen2), i < j, pen2[i][1] = pen2[j][1]
      PROVE  pen2[i][2] < pen2[j][2]
  <2>1. i \in 1..Len(pen) /\ pen2[i] = pen[i]
    BY <1>4, <1>7
  <2>2. CASE j = Len(pen) + 1
    <3>1. pen[i][2] <= nw[e[1]] /\ pen[i][2] \in Nat /\ nw[e[1]] \in Int
      BY <1>1, <1>4, <1>7, <2>1, <2>2, EventTyped DEF Ordered, Counts
    <3> QED BY <1>1, <1>4, <2>1, <2>2, <3>1
  <2>3. CASE j \in 1..Len(pen)
    BY <1>3, <1>4, <1>7, <2>1, <2>3 DEF Ordered
  <2> QED BY <1>4, <2>2, <2>3
<1>8. \A p \in Publishers : sn[p] <= nw2[p]
  BY <1>3 DEF Ordered
<1> HIDE DEF pen2, nw2
<1>9. Ordered(pen2, sn, nw2)
  BY <1>6, <1>7, <1>8 DEF Ordered
<1> QED BY <1>9 DEF pen2, nw2

\* The oldest event leaves, delivered (sn2) or lost with the connection.
LEMMA OrderedTail ==
    ASSUME NEW pen \in Seq(Events), NEW sn \in Counts, NEW nw \in Counts, pen # <<>>,
           Ordered(pen, sn, nw)
    PROVE  /\ Ordered(Tail(pen), sn, nw)
           /\ Ordered(Tail(pen), [sn EXCEPT ![pen[1][1]] = pen[1][2]], nw)
<1> DEFINE sn2 == [sn EXCEPT ![pen[1][1]] = pen[1][2]]
           rest == Tail(pen)
<1>1. /\ Len(pen) \in Nat \ {0} /\ Len(rest) = Len(pen) - 1
      /\ \A i \in 1..Len(rest) : rest[i] = pen[i + 1] /\ i + 1 \in 1..Len(pen)
  BY HeadTailProperties, EmptySeq
<1>2. pen[1][1] \in Publishers /\ pen[1][2] \in Nat
  BY <1>1, EventTyped
<1>3. \A p \in Publishers : sn2[p] <= nw[p]
  BY <1>1, <1>2 DEF Ordered, Counts
<1>4. ASSUME NEW i \in 1..Len(rest)
      PROVE  /\ sn[rest[i][1]] < rest[i][2] /\ sn2[rest[i][1]] < rest[i][2]
             /\ rest[i][2] <= nw[rest[i][1]]
  <2>1. /\ rest[i] = pen[i + 1] /\ i + 1 \in 1..Len(pen) /\ 1 \in 1..Len(pen) /\ 1 < i + 1
        /\ pen[i + 1][1] \in Publishers
    BY <1>1, EventTyped
  <2>2. sn[rest[i][1]] < rest[i][2] /\ rest[i][2] <= nw[rest[i][1]]
    BY <2>1 DEF Ordered
  <2>3. CASE rest[i][1] = pen[1][1]
    BY <1>2, <2>1, <2>2, <2>3 DEF Ordered, Counts
  <2>4. CASE rest[i][1] # pen[1][1]
    BY <1>2, <2>1, <2>2, <2>4 DEF Counts
  <2> QED BY <2>2, <2>3, <2>4
<1>5. ASSUME NEW i \in 1..Len(rest), NEW j \in 1..Len(rest), i < j, rest[i][1] = rest[j][1]
      PROVE  rest[i][2] < rest[j][2]
  BY <1>1, <1>5 DEF Ordered
<1> HIDE DEF sn2, rest
<1>6. Ordered(rest, sn, nw) /\ Ordered(rest, sn2, nw)
  BY <1>3, <1>4, <1>5 DEF Ordered
<1> QED BY <1>6 DEF sn2, rest

LEMMA Typed ==
    ASSUME Inv, NEW c \in Conns
    PROVE  /\ queue[c] \in Seq(Events) /\ held[c] \in Seq(Events) /\ Pending(c) \in Seq(Events)
           /\ seen[c] \in Counts /\ Newest(c) \in Counts
<1>1. queue[c] \in Seq(Events) /\ held[c] \in Seq(Events)
  BY DEF Inv, TypeOK
<1>2. Pending(c) \in Seq(Events)
  BY <1>1, ConcatProperties DEF Pending
<1> QED BY <1>1, <1>2 DEF Inv, TypeOK, Counts, Newest

LEMMA PublishOrder ==
    ASSUME Inv, Inv', OrderInv, NEW p \in Publishers,
           PublishBegins(p) \/ \E c \in Conns : PublishTo(p, c)
    PROVE  OrderInv'
<1>1. CASE PublishBegins(p)
  <2>1. \A c \in Conns : Pending(c)' = Pending(c) /\ seen'[c] = seen[c]
    BY <1>1 DEF PublishBegins, Pending, connVars
  <2>2. ASSUME NEW c \in subs PROVE Newest(c)' = Newest(c)
    <3>1. ASSUME NEW q \in Publishers
          PROVE  (IF c \in todo'[q] THEN sent'[q] - 1 ELSE sent'[q])
                    = (IF c \in todo[q] THEN sent[q] - 1 ELSE sent[q])
      BY <1>1 DEF PublishBegins, Inv, TypeOK
    <3> QED BY <3>1 DEF Newest
  <2> QED BY <1>1, <2>1, <2>2 DEF PublishBegins, OrderInv, HoldsOne, connVars, Inv, TypeOK
<1>2. ASSUME NEW c \in Conns, PublishTo(p, c) PROVE OrderInv'
  <2>1. HoldsOne' /\ subs' = subs
    BY <1>2 DEF PublishTo, OrderInv, HoldsOne
  <2>2. ASSUME NEW d \in subs, d # c PROVE Ordered(Pending(d), seen[d], Newest(d))'
    <3>1. Pending(d)' = Pending(d) /\ seen'[d] = seen[d] /\ d \in Conns
      BY <1>2, <2>2 DEF PublishTo, Pending, Inv, TypeOK
    <3>2. Newest(d)' = Newest(d)
      <4>1. \A q \in Publishers : d \in todo'[q] <=> d \in todo[q]
        BY <1>2, <2>2 DEF PublishTo, Inv, TypeOK
      <4> QED BY <1>2, <4>1 DEF PublishTo, Newest
    <3> QED BY <3>1, <3>2 DEF OrderInv
  <2>3. c \in subs
    BY <1>2 DEF PublishTo, Inv, NoSendOnClosed
  <2>4. Ordered(Pending(c), seen[c], Newest(c))'
    <3> DEFINE e == <<p, sent[p]>>
    <3>1. Ordered(Pending(c), seen[c], Newest(c))
      BY <2>3 DEF OrderInv
    <3>2. e \in Events /\ sent[p] \in Nat
      <4>1. todo[p] # {} /\ sent[p] \in 0..MaxEvents
        BY <1>2 DEF PublishTo, Inv, TypeOK
      <4> QED BY <4>1 DEF Inv, Underway, Events
    <3>3. Newest(c)[p] = sent[p] - 1
      BY <1>2 DEF PublishTo, Newest
    <3>4. Newest(c)' = [Newest(c) EXCEPT ![p] = sent[p]]
      <4>1. \A q \in Publishers : c \in todo'[q] <=> c \in todo[q] /\ q # p
        BY <1>2 DEF PublishTo, Inv, TypeOK
      <4> QED BY <1>2, <4>1 DEF PublishTo, Newest
    <3>5. seen'[c] = seen[c] /\ held'[c] = held[c]
      BY <1>2 DEF PublishTo
    <3>6. CASE queue' = [queue EXCEPT ![c] = Append(@, e)]
      <4>1. Pending(c)' = Append(Pending(c), e)
        <5>1. queue'[c] = Append(queue[c], e)
          BY <3>6 DEF Inv, TypeOK
        <5>2. held[c] \o Append(queue[c], e) = Append(held[c] \o queue[c], e)
          BY <3>2, Typed, ConcatAppend
        <5> QED BY <3>5, <5>1, <5>2 DEF Pending
      <4>2. Ordered(Append(Pending(c), e), seen[c], [Newest(c) EXCEPT ![e[1]] = e[2]])
        <5>1. Newest(c)[e[1]] < e[2]
          BY <3>2, <3>3
        <5> QED BY <3>1, <3>2, <5>1, Typed, OrderedAppend
      <4> QED BY <3>4, <3>5, <4>1, <4>2
    <3>7. CASE UNCHANGED queue
      <4>1. Pending(c)' = Pending(c)
        BY <3>5, <3>7 DEF Pending
      <4>2. Newest(c)' \in Counts /\ \A q \in Publishers : Newest(c)[q] <= Newest(c)'[q]
        <5>1. Newest(c) \in Counts
          BY Typed
        <5> QED BY <3>2, <3>3, <3>4, <5>1 DEF Counts
      <4>3. Ordered(Pending(c), seen[c], Newest(c)')
        BY <3>1, <4>2, Typed, OrderedWeaker
      <4> QED BY <3>5, <4>1, <4>3
    <3> QED BY <1>2, <3>6, <3>7 DEF PublishTo
  <2> QED BY <2>1, <2>2, <2>4 DEF OrderInv
<1> QED BY <1>1, <1>2

\* A step of connection c leaves the others, and what is published, alone.
LEMMA OthersKept ==
    ASSUME Inv, OrderInv, NEW c \in Conns, UNCHANGED <<sent, todo>>,
           \A d \in Conns \ {c} :
              /\ queue'[d] = queue[d] /\ held'[d] = held[d] /\ seen'[d] = seen[d]
              /\ handler'[d] = handler[d],
           subs' \subseteq subs \cup {c},
           Len(held'[c]) = IF handler'[c] = "write" THEN 1 ELSE 0,
           c \in subs' => Ordered(Pending(c), seen[c], Newest(c))'
    PROVE  OrderInv'
<1>1. HoldsOne'
  BY DEF OrderInv, HoldsOne
<1>2. ASSUME NEW d \in subs', d # c PROVE Ordered(Pending(d), seen[d], Newest(d))'
  <2>1. d \in subs /\ d \in Conns \ {c}
    BY <1>2 DEF Inv, TypeOK
  <2>2. Pending(d)' = Pending(d) /\ seen'[d] = seen[d] /\ Newest(d)' = Newest(d)
    BY <2>1 DEF Pending, Newest
  <2> QED BY <2>1, <2>2 DEF OrderInv
<1> QED BY <1>1, <1>2 DEF OrderInv

\* A new connection has all that was published before it and nothing waiting.
LEMMA ConnectFresh ==
    ASSUME Inv, OrderInv, NEW c \in Conns, Connect(c)
    PROVE  Pending(c)' = <<>> /\ held'[c] = <<>> /\ Newest(c)' = sent /\ seen'[c] = sent
<1>1. held[c] = <<>> /\ held' = held
  <2>1. Len(held[c]) = 0
    BY DEF OrderInv, HoldsOne, Connect
  <2> QED BY <2>1, Typed, EmptySeq DEF Connect
<1>2. queue'[c] = <<>> /\ seen'[c] = sent /\ UNCHANGED <<sent, todo>>
  BY DEF Connect, Inv, TypeOK
<1>3. Pending(c)' = <<>>
  BY <1>1, <1>2 DEF Pending
<1>4. Newest(c)' = sent
  BY <1>2 DEF Connect, NoReader, Newest, Inv, TypeOK
<1> QED BY <1>1, <1>2, <1>3, <1>4

\* Taking an event off the channel leaves it on its way.
LEMMA ReceiveKeeps ==
    ASSUME Inv, OrderInv, NEW c \in Conns, Receive(c)
    PROVE  Pending(c)' = Pending(c) /\ Newest(c)' = Newest(c) /\ Len(held'[c]) = 1
<1>1. held[c] = <<>>
  <2>1. Len(held[c]) = 0
    BY DEF OrderInv, HoldsOne, Receive
  <2> QED BY <2>1, Typed, EmptySeq
<1>2. held'[c] = <<Head(queue[c])>> /\ queue'[c] = Tail(queue[c]) /\ queue[c] # <<>>
  BY DEF Receive, Inv, TypeOK
<1>3. <<Head(queue[c])>> \o Tail(queue[c]) = <<>> \o queue[c]
  BY <1>2, Typed
<1>4. Pending(c)' = Pending(c)
  BY <1>1, <1>2, <1>3 DEF Pending
<1> QED BY <1>2, <1>4 DEF Receive, Newest

\* The event that is being written is the first of those on their way.
LEMMA WriteTakesFirst ==
    ASSUME Inv, OrderInv, NEW c \in Conns, Written(c) \/ WriteFails(c)
    PROVE  /\ Pending(c) # <<>> /\ Pending(c)[1] = held[c][1] /\ held'[c] = <<>>
           /\ Pending(c)' = Tail(Pending(c)) /\ Newest(c)' = Newest(c)
<1>1. Len(held[c]) = 1 /\ held'[c] = <<>> /\ UNCHANGED <<sent, todo, queue>>
  <2>1. handler[c] = "write"
    BY DEF Written, WriteFails
  <2>2. Len(held[c]) = 1
    BY <2>1 DEF OrderInv, HoldsOne
  <2> QED BY <2>2 DEF Written, WriteFails, Inv, TypeOK
<1>2. /\ Len(Pending(c)) = 1 + Len(queue[c]) /\ Len(queue[c]) \in Nat
      /\ Pending(c)[1] = held[c][1]
      /\ \A i \in 1..Len(queue[c]) : Pending(c)[i + 1] = queue[c][i]
  <2> DEFINE s == held[c]
             t == queue[c]
  <2>1. s \in Seq(Events) /\ t \in Seq(Events) /\ Len(s) = 1 /\ Pending(c) = s \o t
    BY <1>1, Typed DEF Pending
  <2> HIDE DEF s, t
  <2>2. Len(s \o t) = 1 + Len(t) /\ Len(t) \in Nat /\ (s \o t)[1] = s[1]
    BY <2>1, ConcatAt
  <2>3. \A i \in 1..Len(t) : (s \o t)[i + 1] = t[i]
    <3>1. \A i \in 1..Len(t) : (s \o t)[Len(s) + i] = t[i]
      BY <2>1, ConcatAt, Zenon
    <3>2. ASSUME NEW i \in 1..Len(t) PROVE Len(s) + i = i + 1
      BY <2>1, <2>2
    <3>3. ASSUME NEW i \in 1..Len(t) PROVE (s \o t)[i + 1] = t[i]
      BY <3>1, <3>2, Zenon
    <3> QED BY <3>3
  <2> QED BY <2>1, <2>2, <2>3 DEF s, t
<1>3. Pending(c) # <<>>
  BY <1>2, Typed, EmptySeq
<1>4. /\ Tail(Pending(c)) \in Seq(Events) /\ Len(Tail(Pending(c))) = Len(queue[c])
      /\ \A i \in 1..Len(queue[c]) : Tail(Pending(c))[i] = queue[c][i]
  BY <1>2, <1>3, Typed, HeadTailProperties
<1>5. Tail(Pending(c)) = queue[c]
  BY <1>4, Typed, SeqEqual
<1>6. Pending(c)' = queue[c]
  BY <1>1, Typed, ConcatEmptySeq DEF Pending
<1> QED BY <1>1, <1>2, <1>3, <1>5, <1>6 DEF Newest

LEMMA ConnOrder ==
    ASSUME Inv, Inv', OrderInv, NEW c \in Conns,
           \/ Connect(c) \/ Handling(c) \/ Written(c) \/ ReaderEnds(c) \/ Leave(c)
           \/ ClientLeaves(c)
    PROVE  OrderInv'
<1>t. Pending(c) \in Seq(Events) /\ seen[c] \in Counts /\ Newest(c) \in Counts
  BY Typed
<1>h. Len(held[c]) = IF handler[c] = "write" THEN 1 ELSE 0
  BY DEF OrderInv, HoldsOne
<1>o. c \in subs => Ordered(Pending(c), seen[c], Newest(c))
  BY DEF OrderInv
<1>1. CASE Connect(c)
  <2>1. UNCHANGED <<sent, todo>> /\ handler'[c] = "upgrade"
    BY <1>1 DEF Connect, Inv, TypeOK
  <2>2. Ordered(<<>>, sent, sent)
    BY DEF Ordered, Inv, TypeOK
  <2>3. \A d \in Conns \ {c} : /\ queue'[d] = queue[d] /\ held'[d] = held[d]
                               /\ seen'[d] = seen[d] /\ handler'[d] = handler[d]
    BY <1>1 DEF Connect, Inv, TypeOK
  <2>4. subs' \subseteq subs \cup {c} /\ Len(held'[c]) = IF handler'[c] = "write" THEN 1 ELSE 0
    BY <1>1, <2>1, ConnectFresh, EmptySeq DEF Connect
  <2>5. Ordered(Pending(c), seen[c], Newest(c))'
    BY <1>1, <2>2, ConnectFresh
  <2> QED BY <2>1, <2>3, <2>4, <2>5, OthersKept
<1>2. CASE Receive(c)
  <2>1. handler'[c] = "write" /\ seen' = seen /\ UNCHANGED <<sent, todo, subs>>
    BY <1>2 DEF Receive, Inv, TypeOK
  <2>2. \A d \in Conns \ {c} : /\ queue'[d] = queue[d] /\ held'[d] = held[d]
                               /\ seen'[d] = seen[d] /\ handler'[d] = handler[d]
    BY <1>2 DEF Receive, Inv, TypeOK
  <2>3. c \in subs' => Ordered(Pending(c), seen[c], Newest(c))'
    BY <1>2, <1>o, <2>1, ReceiveKeeps
  <2>4. Len(held'[c]) = IF handler'[c] = "write" THEN 1 ELSE 0
    BY <1>2, <2>1, ReceiveKeeps
  <2> QED BY <2>1, <2>2, <2>3, <2>4, OthersKept
<1>3. CASE Written(c) \/ WriteFails(c)
  <2>1. handler'[c] # "write" /\ UNCHANGED <<sent, todo, subs>>
    BY <1>3 DEF Written, WriteFails, Inv, TypeOK
  <2>2. \/ seen'[c] = seen[c]
        \/ seen'[c] = [seen[c] EXCEPT ![Pending(c)[1][1]] = Pending(c)[1][2]]
    <3>1. Pending(c)[1] = held[c][1]
      BY <1>3, WriteTakesFirst
    <3> QED BY <1>3, <3>1 DEF Written, WriteFails, Inv, TypeOK
  <2>3. c \in subs' => Ordered(Pending(c), seen[c], Newest(c))'
    <3>1. /\ Pending(c) # <<>> /\ Pending(c)' = Tail(Pending(c)) /\ Newest(c)' = Newest(c)
          /\ subs' = subs
      BY <1>3, <2>1, WriteTakesFirst
    <3> QED BY <1>t, <1>o, <2>2, <3>1, OrderedTail
  <2>4. \A d \in Conns \ {c} : /\ queue'[d] = queue[d] /\ held'[d] = held[d]
                               /\ seen'[d] = seen[d] /\ handler'[d] = handler[d]
    BY <1>3 DEF Written, WriteFails, Inv, TypeOK
  <2>5. Len(held'[c]) = IF handler'[c] = "write" THEN 1 ELSE 0
    BY <1>3, <2>1, WriteTakesFirst, EmptySeq
  <2> QED BY <2>1, <2>3, <2>4, <2>5, OthersKept
<1>4. CASE Upgrade(c) \/ Disconnected(c) \/ ReaderEnds(c) \/ Leave(c) \/ ClientLeaves(c)
  <2>1. /\ UNCHANGED <<sent, todo, queue, held, seen>> /\ subs' \subseteq subs
        /\ \A d \in Conns \ {c} : handler'[d] = handler[d]
    BY <1>4 DEF Upgrade, Disconnected, ReaderEnds, Leave, ClientLeaves, connVars, Inv, TypeOK
  <2>2. handler'[c] = "write" <=> handler[c] = "write"
    BY <1>4 DEF Upgrade, Disconnected, ReaderEnds, Leave, ClientLeaves, connVars, Inv, TypeOK
  <2>3. c \in subs' => Ordered(Pending(c), seen[c], Newest(c))'
    BY <1>o, <2>1 DEF Pending, Newest
  <2> QED BY <1>h, <2>1, <2>2, <2>3, OthersKept
<1> QED BY <1>1, <1>2, <1>3, <1>4 DEF Handling

LEMMA OrderAlways == Spec => []OrderInv
<1>1. Init => OrderInv
  BY DEF Init, OrderInv, HoldsOne
<1>2. Inv /\ Inv' /\ OrderInv /\ [Next]_vars => OrderInv'
  <2>1. OrderInv /\ UNCHANGED vars => OrderInv'
    BY DEF OrderInv, HoldsOne, Pending, Newest, Ordered, vars
  <2> QED BY <2>1, PublishOrder, ConnOrder DEF Next
<1> QED BY <1>1, <1>2, InvAlways, PTL DEF Spec

-----------------------------------------------------------------------------
(* Nothing is lost.  What is on its way to a client has no gaps, from the   *)
(* first event that it has yet to get to the newest that it can have been   *)
(* sent.                                                                    *)

Covers(pen, sn, nw) ==
    \A p \in Publishers : \A n \in (sn[p] + 1)..nw[p] :
        \E i \in 1..Len(pen) : pen[i][1] = p /\ pen[i][2] = n

NoGaps ==
    \A c \in subs : ~dropped[c] /\ ~gone[c] => Covers(Pending(c), seen[c], Newest(c))

LEMMA CoversAppend ==
    ASSUME NEW pen \in Seq(Events), NEW sn \in Counts, NEW nw \in Counts,
           NEW e \in Events, Covers(pen, sn, nw), nw[e[1]] = e[2] - 1
    PROVE  Covers(Append(pen, e), sn, [nw EXCEPT ![e[1]] = e[2]])
<1> DEFINE pen2 == Append(pen, e)
           nw2 == [nw EXCEPT ![e[1]] = e[2]]
<1>1. e[1] \in Publishers /\ e[2] \in Nat
  BY DEF Events
<1>2. /\ Len(pen2) = Len(pen) + 1 /\ Len(pen) \in Nat
      /\ \A i \in 1..Len(pen) : pen2[i] = pen[i] /\ i \in 1..Len(pen2)
      /\ pen2[Len(pen) + 1] = e /\ Len(pen) + 1 \in 1..Len(pen2)
  BY AppendProperties
<1>3. ASSUME NEW p \in Publishers, NEW n \in (sn[p] + 1)..nw2[p]
      PROVE  \E i \in 1..Len(pen2) : pen2[i][1] = p /\ pen2[i][2] = n
  <2>1. n \in (sn[p] + 1)..nw[p] \/ (p = e[1] /\ n = e[2])
    BY <1>1, <1>3 DEF Counts
  <2>2. CASE n \in (sn[p] + 1)..nw[p]
    <3>1. PICK i \in 1..Len(pen) : pen[i][1] = p /\ pen[i][2] = n
      BY <2>2 DEF Covers
    <3> QED BY <1>2, <3>1
  <2>3. CASE p = e[1] /\ n = e[2]
    BY <1>2, <2>3
  <2> QED BY <2>1, <2>2, <2>3
<1> HIDE DEF pen2, nw2
<1>4. Covers(pen2, sn, nw2)
  BY <1>3 DEF Covers
<1> QED BY <1>4 DEF pen2, nw2

\* The oldest event is delivered.
LEMMA CoversTail ==
    ASSUME NEW pen \in Seq(Events), NEW sn \in Counts, NEW nw \in Counts, pen # <<>>,
           Ordered(pen, sn, nw), Covers(pen, sn, nw)
    PROVE  Covers(Tail(pen), [sn EXCEPT ![pen[1][1]] = pen[1][2]], nw)
<1> DEFINE sn2 == [sn EXCEPT ![pen[1][1]] = pen[1][2]]
           rest == Tail(pen)
<1>1. /\ Len(pen) \in Nat \ {0} /\ Len(rest) = Len(pen) - 1
      /\ \A i \in 1..Len(rest) : rest[i] = pen[i + 1]
  BY HeadTailProperties, EmptySeq
<1>2. pen[1][1] \in Publishers /\ pen[1][2] \in Nat
  BY <1>1, EventTyped
<1>3. sn[pen[1][1]] < pen[1][2]
  BY <1>1 DEF Ordered
<1>4. ASSUME NEW p \in Publishers, NEW n \in (sn2[p] + 1)..nw[p]
      PROVE  \E i \in 1..Len(rest) : rest[i][1] = p /\ rest[i][2] = n
  <2>1. n \in (sn[p] + 1)..nw[p] /\ (p = pen[1][1] => n # pen[1][2])
    BY <1>2, <1>3, <1>4 DEF Counts
  <2>2. PICK i \in 1..Len(pen) : pen[i][1] = p /\ pen[i][2] = n
    BY <2>1 DEF Covers
  <2>3. i # 1
    BY <2>1, <2>2
  <2>4. i - 1 \in 1..Len(rest) /\ rest[i - 1] = pen[i]
    <3>1. i - 1 \in 1..Len(rest) /\ (i - 1) + 1 = i
      BY <1>1, <2>3
    <3>2. rest[i - 1] = pen[(i - 1) + 1]
      BY <1>1, <3>1
    <3> QED BY <3>1, <3>2
  <2> QED BY <2>2, <2>4
<1> HIDE DEF sn2, rest
<1>5. Covers(rest, sn2, nw)
  BY <1>4 DEF Covers
<1> QED BY <1>5 DEF sn2, rest

LEMMA PublishNoGaps ==
    ASSUME Inv, Inv', NoGaps, NEW p \in Publishers,
           PublishBegins(p) \/ \E c \in Conns : PublishTo(p, c)
    PROVE  NoGaps'
<1>1. CASE PublishBegins(p)
  <2>1. \A c \in Conns : Pending(c)' = Pending(c) /\ seen'[c] = seen[c]
    BY <1>1 DEF PublishBegins, Pending, connVars
  <2>2. ASSUME NEW c \in subs PROVE Newest(c)' = Newest(c)
    <3>1. ASSUME NEW q \in Publishers
          PROVE  (IF c \in todo'[q] THEN sent'[q] - 1 ELSE sent'[q])
                    = (IF c \in todo[q] THEN sent[q] - 1 ELSE sent[q])
      BY <1>1 DEF PublishBegins, Inv, TypeOK
    <3> QED BY <3>1 DEF Newest
  <2> QED BY <1>1, <2>1, <2>2 DEF PublishBegins, NoGaps, connVars, Inv, TypeOK
<1>2. ASSUME NEW c \in Conns, PublishTo(p, c) PROVE NoGaps'
  <2>1. subs' = subs /\ gone' = gone
    BY <1>2 DEF PublishTo
  <2>2. ASSUME NEW d \in subs, d # c, ~dropped'[d], ~gone[d]
        PROVE  Covers(Pending(d), seen[d], Newest(d))'
    <3>1. Pending(d)' = Pending(d) /\ seen'[d] = seen[d] /\ d \in Conns /\ ~dropped[d]
      BY <1>2, <2>2 DEF PublishTo, Pending, Inv, TypeOK
    <3>2. Newest(d)' = Newest(d)
      <4>1. \A q \in Publishers : d \in todo'[q] <=> d \in todo[q]
        BY <1>2, <2>2 DEF PublishTo, Inv, TypeOK
      <4> QED BY <1>2, <4>1 DEF PublishTo, Newest
    <3> QED BY <2>2, <3>1, <3>2 DEF NoGaps
  <2>3. ASSUME c \in subs, ~dropped'[c], ~gone[c]
        PROVE  Covers(Pending(c), seen[c], Newest(c))'
    <3> DEFINE e == <<p, sent[p]>>
    <3>1. queue' = [queue EXCEPT ![c] = Append(@, e)] /\ UNCHANGED dropped
      BY <1>2, <2>3 DEF PublishTo, Inv, TypeOK
    <3>2. Covers(Pending(c), seen[c], Newest(c))
      BY <2>3, <3>1 DEF NoGaps
    <3>3. e \in Events /\ sent[p] \in Nat
      <4>1. todo[p] # {} /\ sent[p] \in 0..MaxEvents
        BY <1>2 DEF PublishTo, Inv, TypeOK
      <4> QED BY <4>1 DEF Inv, Underway, Events
    <3>4. Newest(c)[p] = sent[p] - 1
      BY <1>2 DEF PublishTo, Newest
    <3>5. Newest(c)' = [Newest(c) EXCEPT ![p] = sent[p]]
      <4>1. \A q \in Publishers : c \in todo'[q] <=> c \in todo[q] /\ q # p
        BY <1>2 DEF PublishTo, Inv, TypeOK
      <4> QED BY <1>2, <4>1 DEF PublishTo, Newest
    <3>6. seen'[c] = seen[c] /\ held'[c] = held[c]
      BY <1>2 DEF PublishTo
    <3>7. Pending(c)' = Append(Pending(c), e)
      <4>1. queue'[c] = Append(queue[c], e)
        BY <3>1 DEF Inv, TypeOK
      <4>2. held[c] \o Append(queue[c], e) = Append(held[c] \o queue[c], e)
        BY <3>3, Typed, ConcatAppend
      <4> QED BY <3>6, <4>1, <4>2 DEF Pending
    <3>8. Covers(Append(Pending(c), e), seen[c], [Newest(c) EXCEPT ![e[1]] = e[2]])
      <4>1. Newest(c)[e[1]] = e[2] - 1
        BY <3>4
      <4> QED BY <3>2, <3>3, <4>1, Typed, CoversAppend
    <3> QED BY <3>5, <3>6, <3>7, <3>8
  <2> QED BY <2>1, <2>2, <2>3 DEF NoGaps
<1> QED BY <1>1, <1>2

LEMMA ConnNoGaps ==
    ASSUME Inv, Inv', OrderInv, NoGaps, NEW c \in Conns,
           \/ Connect(c) \/ Handling(c) \/ Written(c) \/ ReaderEnds(c) \/ Leave(c)
           \/ ClientLeaves(c)
    PROVE  NoGaps'
<1>1. /\ \A d \in Conns \ {c} : /\ queue'[d] = queue[d] /\ held'[d] = held[d] /\ seen'[d] = seen[d]
                                /\ dropped'[d] = dropped[d] /\ gone'[d] = gone[d]
      /\ subs' \subseteq subs \cup {c} /\ UNCHANGED <<sent, todo>>
  <2>1. CASE Connect(c) \/ Receive(c)
    BY <2>1 DEF Connect, Receive, Inv, TypeOK
  <2>2. CASE Written(c) \/ WriteFails(c)
    BY <2>2 DEF Written, WriteFails, Inv, TypeOK
  <2>3. CASE Upgrade(c) \/ Disconnected(c) \/ ReaderEnds(c) \/ Leave(c) \/ ClientLeaves(c)
    BY <2>3 DEF Upgrade, Disconnected, ReaderEnds, Leave, ClientLeaves, connVars, Inv, TypeOK
  <2> QED BY <2>1, <2>2, <2>3 DEF Handling
<1>2. ASSUME NEW d \in subs', d # c, ~dropped'[d], ~gone'[d]
      PROVE  Covers(Pending(d), seen[d], Newest(d))'
  <2>1. d \in subs /\ d \in Conns \ {c}
    BY <1>1, <1>2 DEF Inv, TypeOK
  <2>2. Pending(d)' = Pending(d) /\ seen'[d] = seen[d] /\ Newest(d)' = Newest(d)
    BY <1>1, <2>1 DEF Pending, Newest
  <2> QED BY <1>1, <1>2, <2>1, <2>2 DEF NoGaps
<1>3. ASSUME c \in subs', ~dropped'[c], ~gone'[c]
      PROVE  Covers(Pending(c), seen[c], Newest(c))'
  <2>1. CASE Connect(c)
    <3>1. Covers(<<>>, sent, sent)
      BY DEF Covers, Inv, TypeOK
    <3> QED BY <2>1, <3>1, ConnectFresh
  <2>2. CASE ~Connect(c)
    <3>1. c \in subs /\ ~dropped[c] /\ ~gone[c]
      BY <1>3, <2>2 DEF Handling, Upgrade, Disconnected, Receive, Written, WriteFails, ReaderEnds,
                        Leave, ClientLeaves, connVars, Inv, TypeOK
    <3>2. Covers(Pending(c), seen[c], Newest(c))
      BY <3>1 DEF NoGaps
    <3>3. CASE Receive(c)
      <4>1. seen' = seen
        BY <3>3 DEF Receive
      <4> QED BY <3>2, <3>3, <4>1, ReceiveKeeps
    <3>4. CASE Written(c)
      <4>1. /\ Pending(c) # <<>> /\ Pending(c)[1] = held[c][1]
            /\ Pending(c)' = Tail(Pending(c)) /\ Newest(c)' = Newest(c)
        BY <3>4, WriteTakesFirst
      <4>2. seen'[c] = [seen[c] EXCEPT ![Pending(c)[1][1]] = Pending(c)[1][2]]
        BY <3>4, <4>1 DEF Written, Inv, TypeOK
      <4>3. Ordered(Pending(c), seen[c], Newest(c))
        BY <3>1 DEF OrderInv
      <4> QED BY <3>2, <4>1, <4>2, <4>3, Typed, CoversTail
    <3>5. CASE Upgrade(c) \/ Disconnected(c) \/ ReaderEnds(c) \/ Leave(c) \/ ClientLeaves(c)
      <4>1. UNCHANGED <<sent, todo, queue, held, seen>>
        BY <3>5 DEF Upgrade, Disconnected, ReaderEnds, Leave, ClientLeaves, connVars
      <4> QED BY <3>2, <4>1 DEF Pending, Newest
    <3>6. ~WriteFails(c)
      BY <3>1 DEF WriteFails
    <3> QED BY <2>2, <3>3, <3>4, <3>5, <3>6 DEF Handling
  <2> QED BY <2>1, <2>2
<1> QED BY <1>2, <1>3 DEF NoGaps

LEMMA NoGapsAlways == Spec => []NoGaps
<1>1. Init => NoGaps
  BY DEF Init, NoGaps
<1>2. Inv /\ Inv' /\ OrderInv /\ NoGaps /\ [Next]_vars => NoGaps'
  <2>1. ASSUME NoGaps, UNCHANGED vars PROVE NoGaps'
    <3>1. \A c \in subs : Pending(c)' = Pending(c) /\ Newest(c)' = Newest(c)
      BY <2>1 DEF Pending, Newest, vars
    <3> QED BY <2>1, <3>1 DEF NoGaps, vars
  <2> QED BY <2>1, PublishNoGaps, ConnNoGaps DEF Next
<1> QED BY <1>1, <1>2, InvAlways, OrderAlways, PTL DEF Spec

\* The variables keep their types.
THEOREM TypeCorrect == Spec => []TypeOK
BY InvAlways, PTL DEF Inv

\* The subscribers are the handlers at work and stay within the cap, and no
\* channel buffers more than its capacity.
THEOREM BoundedAlways == Spec => []SubscribersBounded
<1>1. Inv => SubscribersBounded BY DEF Inv, Places
<1> QED BY <1>1, InvAlways, PTL

\* No publisher sends on a closed channel, whenever clients leave.
THEOREM NoSendOnClosedAlways == Spec => []NoSendOnClosed
BY InvAlways, PTL DEF Inv

\* A client gets each publisher's events in order and none twice, with any number
\* of clients and publishers and channels of any size.
THEOREM InOrderAlways == Spec => []InOrder
<1>1. ASSUME Inv, OrderInv PROVE InOrder
  <2>1. ASSUME NEW c \in subs
        PROVE  LET pending == Pending(c)
               IN  /\ \A i \in DOMAIN pending : seen[c][pending[i][1]] < pending[i][2]
                   /\ \A i, j \in DOMAIN pending :
                         i < j /\ pending[i][1] = pending[j][1] => pending[i][2] < pending[j][2]
    <3>1. Ordered(Pending(c), seen[c], Newest(c))
      BY <1>1 DEF OrderInv
    <3>2. DOMAIN Pending(c) = 1..Len(Pending(c))
      BY <1>1, Typed, LenProperties DEF Inv, TypeOK
    <3> QED BY <3>1, <3>2 DEF Ordered
  <2> QED BY <2>1 DEF InOrder
<1> QED BY <1>1, InvAlways, OrderAlways, PTL

\* A client that no full buffer has cost an event gets all that was published
\* after the last one it has, with any number of clients and publishers.
THEOREM LostOnlyWhenFullAlways == Spec => []LostOnlyWhenFull
<1>1. ASSUME Inv, OrderInv, NoGaps PROVE LostOnlyWhenFull
  <2>1. SUFFICES ASSUME NEW c \in subs, NEW p \in Publishers, ~dropped[c], ~gone[c]
                 PROVE  seen[c][p] <= sent[p] /\ Owed(c, p) = (seen[c][p] + 1)..sent[p]
    BY DEF LostOnlyWhenFull
  <2> DEFINE pen == Pending(c)
             waiting == {pen[i][2] : i \in {j \in DOMAIN pen : pen[j][1] = p}}
  <2>2. /\ pen \in Seq(Events) /\ seen[c] \in Counts /\ Newest(c) \in Counts
        /\ sent[p] \in Nat /\ seen[c][p] \in Nat
    BY <1>1, Typed DEF Inv, TypeOK
  <2>3. Ordered(pen, seen[c], Newest(c)) /\ Covers(pen, seen[c], Newest(c))
    BY <1>1, <2>1 DEF OrderInv, NoGaps
  <2>4. DOMAIN pen = 1..Len(pen)
    BY <2>2, LenProperties
  <2>5. /\ Newest(c)[p] = IF c \in todo[p] THEN sent[p] - 1 ELSE sent[p]
        /\ seen[c][p] <= Newest(c)[p]
    BY <2>3 DEF Newest, Ordered
  <2>6. Owed(c, p) = waiting \cup (IF c \in todo[p] THEN {sent[p]} ELSE {})
    BY DEF Owed
  <2> HIDE DEF pen
  <2>7. waiting = (seen[c][p] + 1)..Newest(c)[p]
    <3>1. ASSUME NEW i \in 1..Len(pen), pen[i][1] = p
          PROVE  pen[i][2] \in (seen[c][p] + 1)..Newest(c)[p]
      <4>1. pen[i][2] \in Nat /\ Newest(c)[p] \in Int
        BY <2>2, EventTyped DEF Counts
      <4> QED BY <2>2, <2>3, <3>1, <4>1 DEF Ordered
    <3>2. ASSUME NEW n \in (seen[c][p] + 1)..Newest(c)[p] PROVE n \in waiting
      BY <2>3, <2>4 DEF Covers
    <3> QED BY <2>4, <3>1, <3>2
  <2> HIDE DEF waiting
  <2>8. Newest(c)[p] \in Int
    BY <2>2 DEF Counts
  <2> QED BY <2>2, <2>5, <2>6, <2>7, <2>8
<1> QED BY <1>1, InvAlways, OrderAlways, NoGapsAlways, PTL
=============================================================================
