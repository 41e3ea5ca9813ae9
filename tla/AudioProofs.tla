---------------------------- MODULE AudioProofs ----------------------------
(* Theorems of Audio.  The cache is honest about its age: the name in it   *)
(* was the default sink's no longer ago than its entry says, because an    *)
(* entry is as old as its fetch and no reader makes it younger.            *)
EXTENDS Audio, TLAPS

\* The end of GetVolume, whether its output can be parsed or not.
Ends(t, name) == Parsed(t, name) \/ Unparsed(t)

LEMMA FinishEnds ==
    ASSUME AudioAssumption, TypeOK, NEW t \in Threads, NEW name, Finish(t, name)
    PROVE  /\ Ends(t, name)
           /\ changes' \in Nat
           /\ changes' = changes => Parsed(t, name)
BY DEF Finish, Ends, TypeOK

\* What the end of GetVolume leaves of the types.
LEMMA FinishType ==
    ASSUME AudioAssumption, TypeOK, NEW t \in Threads,
           NEW name \in Sinks \cup {Nothing}, Ends(t, name)
    PROVE  /\ thread' \in [Threads -> ThreadState]
           /\ shown' \in [Threads -> State \cup {Nothing}]
           /\ \A u \in Threads \ {t} : thread'[u] = thread[u]
           /\ thread'[t].pc \in {"set", "idle"}
<1>1. thread[t] \in ThreadState /\ thread[t].reading \in Reading
  BY DEF TypeOK, ThreadState
<1>2. Idle \in ThreadState
  BY DEF Idle, ThreadState, Silent, Reading, Get
<1>3. [volume |-> thread[t].reading.volume, muted |-> thread[t].reading.muted, name |-> name] \in State
  BY <1>1 DEF State, Reading
<1>4. CASE Parsed(t, name) /\ thread[t].next = "set"
  <2>1. [thread[t] EXCEPT !.pc = "set"] \in ThreadState
    BY <1>1 DEF ThreadState
  <2>2. thread' = [thread EXCEPT ![t] = [thread[t] EXCEPT !.pc = "set"]] /\ shown' = shown
    BY <1>4 DEF Parsed
  <2> QED BY <1>1, <2>1, <2>2 DEF TypeOK, ThreadState
<1>5. CASE Parsed(t, name) /\ thread[t].next # "set"
  <2>1. thread' = [thread EXCEPT ![t] = Idle]
    BY <1>5 DEF Parsed
  <2>2. shown' = [shown EXCEPT ![t] = [volume |-> thread[t].reading.volume, muted |-> thread[t].reading.muted, name |-> name]]
    BY <1>5 DEF Parsed
  <2> QED BY <1>2, <1>3, <2>1, <2>2 DEF TypeOK, Idle
<1>6. CASE Unparsed(t)
  BY <1>2, <1>6 DEF Unparsed, TypeOK, Idle
<1> QED BY <1>4, <1>5, <1>6 DEF Ends

LEMMA EffectType ==
    ASSUME AudioAssumption, NEW op \in Ops \cup {Get}, NEW was \in Reading, NEW reading \in Reading
    PROVE  Effect(op, was, reading) \in Reading
<1>1. op.kind \in {"value", "delta", "mute", "get", "toggle"} /\ op.arg \in Int
  BY DEF AudioAssumption, Get
<1>2. \A v \in Int : Clamp(v) \in Int
  BY DEF Clamp, AudioAssumption
<1>3. reading.volume + op.arg \in Int
  BY <1>1 DEF Reading
<1> QED BY <1>1, <1>2, <1>3 DEF Effect, Reading

LEMMA TypeInit == AudioAssumption /\ Init => TypeOK
<1> SUFFICES ASSUME AudioAssumption, Init PROVE TypeOK
  OBVIOUS
<1>1. Idle \in ThreadState /\ Idle.pc = "idle" /\ Silent \in Reading
  BY DEF Idle, Get, Silent, ThreadState, Reading
<1>2. /\ sink \in [Sinks -> Reading]
      /\ thread \in [Threads -> ThreadState]
      /\ shown \in [Threads -> State \cup {Nothing}]
      /\ before \in [Threads -> Reading \cup {Nothing}]
  BY <1>1 DEF Init
<1>3. age \in 0..TTL /\ away \in [Sinks -> 0..TTL] /\ requests \in Nat /\ changes \in Nat
  BY DEF Init, AudioAssumption
<1>4. ticked \in BOOLEAN
  BY DEF Init
<1>5. \A t \in Threads : thread[t].pc # "fetch" /\ mu # t
  BY <1>1 DEF Init, AudioAssumption, Threads
<1> QED BY <1>2, <1>3, <1>4, <1>5 DEF Init, TypeOK

LEMMA TypeStep == AudioAssumption /\ TypeOK /\ [Next]_vars => TypeOK'
<1> SUFFICES ASSUME AudioAssumption, TypeOK, [Next]_vars PROVE TypeOK'
  OBVIOUS
<1> USE DEF TypeOK
<1>0. Idle \in ThreadState /\ Idle.pc = "idle" /\ Silent \in Reading
  BY DEF Idle, Get, Silent, ThreadState, Reading
<1>1. ASSUME NEW t \in Threads, ReadVolume(t) PROVE TypeOK'
  <2>1. [thread[t] EXCEPT !.pc = "name", !.reading = sink[default]] \in ThreadState
    BY DEF ThreadState
  <2>2. thread' = [thread EXCEPT ![t] = [thread[t] EXCEPT !.pc = "name", !.reading = sink[default]]]
    BY <1>1 DEF ReadVolume
  <2>3. thread' \in [Threads -> ThreadState]
    BY <2>1, <2>2
  <2>4. \A u \in Threads : thread'[u].pc = "fetch" <=> mu' = u
    BY <1>1, <2>2 DEF ReadVolume, ThreadState
  <2> QED BY <1>1, <2>3, <2>4 DEF ReadVolume, env
<1>2. ASSUME NEW t \in Threads, thread[t].pc \in {"read", "set"}, Mishap(t) PROVE TypeOK'
  BY <1>0, <1>2 DEF Mishap, env
<1>3. ASSUME NEW t \in Threads, CachedName(t) PROVE TypeOK'
  <2>1. Ends(t, cache) /\ changes' \in Nat
    BY <1>3, FinishEnds DEF CachedName
  <2>2. /\ thread' \in [Threads -> ThreadState]
        /\ shown' \in [Threads -> State \cup {Nothing}]
        /\ \A u \in Threads \ {t} : thread'[u] = thread[u]
        /\ thread'[t].pc \in {"set", "idle"}
    BY <2>1, FinishType
  <2> QED BY <1>3, <2>1, <2>2 DEF CachedName, env, AudioAssumption, Threads
<1>4. ASSUME NEW t \in Threads, LockCache(t) PROVE TypeOK'
  <2>1. thread' = [thread EXCEPT ![t] = [thread[t] EXCEPT !.pc = "fetch"]]
    BY <1>4 DEF LockCache
  <2>2. [thread[t] EXCEPT !.pc = "fetch"] \in ThreadState
    BY DEF ThreadState
  <2>3. thread' \in [Threads -> ThreadState]
    BY <2>1, <2>2
  <2>4. \A u \in Threads : thread'[u].pc = "fetch" <=> mu' = u
    BY <1>4, <2>1, <2>2 DEF LockCache, ThreadState, AudioAssumption, Threads
  <2> QED BY <1>4, <2>3, <2>4 DEF LockCache, env
<1>5. ASSUME NEW t \in Threads, FetchName(t) \/ FetchFails(t) PROVE TypeOK'
  <2>1. PICK name \in Sinks \cup {Nothing} : Ends(t, name) /\ changes' \in Nat
    <3>1. CASE FetchName(t)
      BY <3>1, FinishEnds DEF FetchName
    <3>2. CASE FetchFails(t)
      BY <3>2 DEF FetchFails, Ends
    <3> QED BY <1>5, <3>1, <3>2
  <2>2. /\ thread' \in [Threads -> ThreadState]
        /\ shown' \in [Threads -> State \cup {Nothing}]
        /\ \A u \in Threads \ {t} : thread'[u] = thread[u]
        /\ thread'[t].pc \in {"set", "idle"}
    BY <2>1, FinishType
  <2>3. cache' \in Sinks \cup {Nothing} /\ age' \in 0..TTL /\ changes' \in Nat
    BY <1>5, <2>1 DEF FetchName, FetchFails, AudioAssumption
  <2>4. mu = t /\ mu' = Nothing
    BY <1>5 DEF FetchName, FetchFails
  <2> QED BY <1>5, <2>2, <2>3, <2>4 DEF FetchName, FetchFails, env, AudioAssumption, Threads
<1>6. ASSUME NEW h \in Handlers, Write(h) PROVE TypeOK'
  <2>0. h \in Threads
    BY DEF Threads
  <2>1. Effect(thread[h].op, sink[default], thread[h].reading) \in Reading
    BY <2>0, EffectType DEF ThreadState
  <2>2. sink' \in [Sinks -> Reading]
    BY <1>6, <2>1 DEF Write
  <2>3. before' \in [Threads -> Reading \cup {Nothing}]
    BY <1>6 DEF Write, DisturbedBy
  <2>4. [thread[h] EXCEPT !.pc = "read", !.next = "answer", !.reading = Silent] \in ThreadState
    BY <1>0, <2>0 DEF ThreadState
  <2>5. thread' = [thread EXCEPT ![h] = [thread[h] EXCEPT !.pc = "read", !.next = "answer", !.reading = Silent]]
    BY <1>6 DEF Write
  <2>6. thread' \in [Threads -> ThreadState]
    BY <2>4, <2>5
  <2>7. \A u \in Threads : thread'[u].pc = "fetch" <=> mu' = u
    BY <1>6, <2>0, <2>5 DEF Write, ThreadState
  <2> QED BY <1>6, <2>2, <2>3, <2>6, <2>7 DEF Write
<1>7. ASSUME NEW h \in Handlers, NEW op \in Ops, Request(h, op) PROVE TypeOK'
  <2>0. h \in Threads
    BY DEF Threads
  <2> DEFINE new == [pc |-> IF op.kind \in {"get", "delta"} THEN "read" ELSE "set",
                     op |-> op,
                     next |-> IF op.kind = "delta" THEN "set" ELSE "answer",
                     reading |-> Silent]
  <2>1. new \in ThreadState /\ new.pc # "fetch"
    BY <1>0 DEF ThreadState
  <2>2. thread' = [thread EXCEPT ![h] = new]
    BY <1>7 DEF Request
  <2> HIDE DEF new
  <2>3. thread' \in [Threads -> ThreadState]
    BY <2>1, <2>2
  <2>4. \A u \in Threads : thread'[u].pc = "fetch" <=> mu' = u
    BY <1>7, <2>0, <2>1, <2>2 DEF Request
  <2>5. shown' \in [Threads -> State \cup {Nothing}]
    BY <1>7 DEF Request
  <2>6. sink[default] \in Reading
    OBVIOUS
  <2>7. before' \in [Threads -> Reading \cup {Nothing}]
    BY <1>7, <2>6 DEF Request
  <2>8. requests' \in Nat
    BY <1>7 DEF Request
  <2> QED BY <1>7, <2>3, <2>4, <2>5, <2>7, <2>8 DEF Request
<1>8. CASE Poll
  <2>0. Monitor \in Threads
    BY DEF Threads
  <2>1. [thread[Monitor] EXCEPT !.pc = "read"] \in ThreadState
    BY <2>0 DEF ThreadState
  <2>2. thread' = [thread EXCEPT ![Monitor] = [thread[Monitor] EXCEPT !.pc = "read"]]
    BY <1>8 DEF Poll
  <2>3. thread' \in [Threads -> ThreadState]
    BY <2>1, <2>2
  <2>4. \A u \in Threads : thread'[u].pc = "fetch" <=> mu' = u
    BY <1>8, <2>0, <2>2 DEF Poll, ThreadState
  <2>5. before' \in [Threads -> Reading \cup {Nothing}]
    BY <1>8 DEF Poll
  <2>6. ticked' \in BOOLEAN
    BY <1>8 DEF Poll
  <2> QED BY <1>8, <2>3, <2>4, <2>5, <2>6 DEF Poll
<1>9. CASE Tick
  <2>1. age' \in 0..TTL /\ away' \in [Sinks -> 0..TTL]
    BY <1>9 DEF Tick, AudioAssumption
  <2>2. ticked' \in BOOLEAN
    BY <1>9 DEF Tick
  <2> QED BY <1>9, <2>1, <2>2 DEF Tick
<1>10. CASE Outside
  <2>1. sink' \in [Sinks -> Reading] /\ default' \in Sinks
    BY <1>10 DEF Outside, AudioAssumption, Reading
  <2>2. away' \in [Sinks -> 0..TTL] /\ changes' \in Nat
    BY <1>10 DEF Outside, AudioAssumption
  <2>3. before' \in [Threads -> Reading \cup {Nothing}]
    BY <1>10 DEF Outside, DisturbedBy
  <2> QED BY <1>10, <2>1, <2>2, <2>3 DEF Outside
<1>11. CASE UNCHANGED vars
  BY <1>11 DEF vars
<1> QED
  BY <1>1, <1>2, <1>3, <1>4, <1>5, <1>6, <1>7, <1>8, <1>9, <1>10, <1>11
  DEF Next, Step, ReadFails, WriteFails, Threads

-----------------------------------------------------------------------------
(* Freshness.                                                              *)

CacheHonest ==
    /\ away[default] = 0
    /\ cache # Nothing => away[cache] <= age

LEMMA HonestInit == AudioAssumption /\ Init => CacheHonest
BY DEF Init, CacheHonest

\* Only Tick, FetchName and Outside touch what CacheHonest speaks of.
LEMMA HonestStep == AudioAssumption /\ TypeOK /\ CacheHonest /\ [Next]_vars => CacheHonest'
<1> SUFFICES ASSUME AudioAssumption, TypeOK, CacheHonest, [Next]_vars PROVE CacheHonest'
  OBVIOUS
<1> USE DEF CacheHonest
<1>1. CASE UNCHANGED <<default, cache, age, away>>
  BY <1>1
<1>2. ASSUME NEW t \in Threads, FetchName(t) PROVE CacheHonest'
  BY <1>2 DEF FetchName, env
<1>3. CASE Tick
  <2>1. default' = default /\ cache' = cache /\ away'[default] = 0
    BY <1>3 DEF Tick, TypeOK
  <2>2. ASSUME cache # Nothing PROVE away'[cache] <= age'
    BY <1>3, <2>2 DEF Tick, TypeOK, AudioAssumption
  <2> QED BY <2>1, <2>2
<1>4. CASE Outside
  <2>1. cache' = cache /\ age' = age /\ age \in Nat
    BY <1>4 DEF Outside, TypeOK, AudioAssumption
  <2>2. away'[default'] = 0
    BY <1>4 DEF Outside, TypeOK
  <2>3. \A s \in Sinks : away'[s] <= away[s]
    BY <1>4 DEF Outside, TypeOK, AudioAssumption
  <2>4. ASSUME cache # Nothing PROVE away'[cache] <= age
    <3>1. cache \in Sinks /\ away[cache] <= age
      BY <2>4 DEF TypeOK
    <3>2. away[cache] \in Nat /\ away'[cache] \in Nat /\ away'[cache] <= away[cache]
      BY <1>4, <2>3, <3>1 DEF Outside, TypeOK, AudioAssumption
    <3> QED BY <2>1, <3>1, <3>2
  <2> QED BY <2>1, <2>2, <2>4
<1> QED
  BY <1>1, <1>2, <1>3, <1>4
  DEF Next, Step, ReadVolume, ReadFails, CachedName, LockCache, FetchFails, Mishap,
      Write, WriteFails, Request, Poll, env, vars

\* The variables of Audio keep their types.
THEOREM TypeCorrect == ASSUME AudioAssumption PROVE Spec => []TypeOK
BY TypeInit, TypeStep, PTL DEF Spec

\* A name in an answer or an event was the default sink's within the last TTL.
THEOREM NamesAreFresh == ASSUME AudioAssumption PROVE Spec => NamesFresh
<1> DEFINE Within == \A t \in Threads :
        Answers(t) /\ shown'[t].name # Nothing => away[shown'[t].name] < TTL
<1>1. TypeOK /\ CacheHonest /\ [Next]_vars => [Within]_vars
  <2> SUFFICES ASSUME TypeOK, CacheHonest, Next, NEW t \in Threads,
                      Answers(t), shown'[t].name # Nothing
               PROVE  away[shown'[t].name] < TTL
    BY DEF vars
  <2>1. ASSUME NEW u \in Threads, NEW name \in Sinks \cup {Nothing}, Ends(u, name)
        PROVE  shown'[t] # shown[t] => shown'[t].name = name
    BY <2>1 DEF Ends, Parsed, Unparsed, TypeOK
  <2>2. ASSUME NEW u \in Threads, CachedName(u) PROVE away[shown'[t].name] < TTL
    <3>1. shown'[t].name = cache
      BY <2>1, <2>2, FinishEnds DEF CachedName, Answers, TypeOK
    <3>2. cache # Nothing /\ age < TTL
      BY <2>2 DEF CachedName, Fresh
    <3> QED BY <3>1, <3>2 DEF CacheHonest, TypeOK, AudioAssumption
  <2>3. ASSUME NEW u \in Threads, FetchName(u) PROVE away[shown'[t].name] < TTL
    <3>1. shown'[t].name = default
      BY <2>1, <2>3, FinishEnds DEF FetchName, Answers, TypeOK
    <3> QED BY <3>1 DEF CacheHonest, AudioAssumption
  <2>4. ASSUME NEW u \in Threads, FetchFails(u) PROVE FALSE
    BY <2>1, <2>4 DEF FetchFails, Ends, Answers
  <2>5. ASSUME NEW h \in Handlers, NEW op \in Ops, Request(h, op) PROVE FALSE
    BY <2>5 DEF Request, Answers, TypeOK
  <2>6. CASE shown' = shown
    BY <2>6 DEF Answers
  <2> QED
    BY <2>2, <2>3, <2>4, <2>5, <2>6
    DEF Next, Step, ReadVolume, ReadFails, LockCache, Mishap, Write, WriteFails, Poll, Tick, Outside
<1> QED BY <1>1, TypeInit, TypeStep, HonestInit, HonestStep, PTL DEF Spec, NamesFresh

-----------------------------------------------------------------------------
(* What a goroutine that nobody disturbed has seen of the default sink.    *)

SeesOf(th, b, cur) ==
    /\ th.next = "set" =>
          /\ th.op.kind = "delta"
          /\ cur = b
          /\ th.pc \in {"name", "fetch", "set"} => th.reading = b
    /\ th.pc = "set" => cur = b /\ (th.next = "answer" => th.op.kind # "delta")
    /\ th.next = "answer" /\ th.pc \in {"read", "name", "fetch"} => cur = Effect(th.op, b, b)
    /\ th.pc \in {"name", "fetch"} => th.reading = cur

Sees ==
    /\ \A t \in Threads :
          before[t] # Nothing /\ thread[t].pc # "idle" => SeesOf(thread[t], before[t], sink[default])
    /\ thread[Monitor].next = "answer"
    /\ thread[Monitor].op = Get
    /\ thread[Monitor].pc # "set"

LEMMA SeesInit == AudioAssumption /\ Init => Sees
BY DEF Init, Sees, Idle, Threads

\* The end of GetVolume takes nobody else's view away.
LEMMA SeesFinish ==
    ASSUME AudioAssumption, TypeOK, Sees, NEW t \in Threads, thread[t].pc \in {"name", "fetch"},
           NEW name, Ends(t, name), UNCHANGED <<default, sink, before>>
    PROVE  Sees'
<1>1. CASE Parsed(t, name) /\ thread[t].next = "set"
  <2>1. thread' = [thread EXCEPT ![t] = [thread[t] EXCEPT !.pc = "set"]]
    BY <1>1 DEF Parsed
  <2>2. thread[t] \in ThreadState /\ t # Monitor
    BY <1>1 DEF TypeOK, Sees
  <2>3. ASSUME before[t] # Nothing PROVE SeesOf(thread'[t], before[t], sink[default])
    BY <1>1, <2>1, <2>2, <2>3 DEF Sees, SeesOf, TypeOK, ThreadState
  <2> QED BY <2>1, <2>2, <2>3 DEF Sees, TypeOK
<1>2. CASE Unparsed(t) \/ thread[t].next # "set"
  <2>1. thread' = [thread EXCEPT ![t] = Idle]
    BY <1>2 DEF Ends, Parsed, Unparsed
  <2> QED BY <2>1 DEF Sees, TypeOK, Idle
<1> QED BY <1>1, <1>2 DEF Ends

LEMMA SeesStep == AudioAssumption /\ TypeOK /\ Sees /\ [Next]_vars => Sees'
<1> SUFFICES ASSUME AudioAssumption, TypeOK, Sees, [Next]_vars PROVE Sees'
  OBVIOUS
<1>0. Monitor \in Threads /\ Handlers \subseteq Threads /\ Nothing \notin Threads /\ Monitor \notin Handlers
  BY DEF Threads, AudioAssumption
<1>1. ASSUME NEW t \in Threads, ReadVolume(t) PROVE Sees'
  <2>1. thread' = [thread EXCEPT ![t] = [thread[t] EXCEPT !.pc = "name", !.reading = sink[default]]]
    BY <1>1 DEF ReadVolume
  <2>2. thread[t] \in ThreadState /\ UNCHANGED <<default, sink, before>> /\ thread[t].pc = "read"
    BY <1>1 DEF ReadVolume, env, TypeOK
  <2>3. ASSUME before[t] # Nothing PROVE SeesOf(thread'[t], before[t], sink[default])
    BY <2>1, <2>2, <2>3 DEF Sees, SeesOf, TypeOK, ThreadState
  <2> QED BY <1>0, <2>1, <2>2, <2>3 DEF Sees, TypeOK, ThreadState
<1>2. ASSUME NEW t \in Threads, Mishap(t) PROVE Sees'
  BY <1>2 DEF Mishap, env, Sees, TypeOK, Idle
<1>3. ASSUME NEW t \in Threads, CachedName(t) PROVE Sees'
  <2>1. Ends(t, cache)
    BY <1>3, FinishEnds DEF CachedName
  <2> QED BY <1>3, <2>1, SeesFinish DEF CachedName, env
<1>4. ASSUME NEW t \in Threads, LockCache(t) PROVE Sees'
  <2>1. thread' = [thread EXCEPT ![t] = [thread[t] EXCEPT !.pc = "fetch"]]
    BY <1>4 DEF LockCache
  <2>2. thread[t] \in ThreadState /\ UNCHANGED <<default, sink, before>> /\ thread[t].pc = "name"
    BY <1>4 DEF LockCache, env, TypeOK
  <2>3. ASSUME before[t] # Nothing PROVE SeesOf(thread'[t], before[t], sink[default])
    BY <2>1, <2>2, <2>3 DEF Sees, SeesOf, TypeOK, ThreadState
  <2> QED BY <1>0, <2>1, <2>2, <2>3 DEF Sees, TypeOK, ThreadState
<1>5. ASSUME NEW t \in Threads, FetchName(t) \/ FetchFails(t) PROVE Sees'
  <2>1. Ends(t, default) \/ Ends(t, Nothing)
    BY <1>5, FinishEnds DEF FetchName, FetchFails, Ends
  <2> QED BY <1>5, <2>1, SeesFinish DEF FetchName, FetchFails, env
<1>6. ASSUME NEW h \in Handlers, Write(h) PROVE Sees'
  <2>1. thread' = [thread EXCEPT ![h] =
                   [thread[h] EXCEPT !.pc = "read", !.next = "answer", !.reading = Silent]]
    BY <1>6 DEF Write
  <2>2. thread[h] \in ThreadState /\ thread[h].pc = "set" /\ h \in Threads /\ h # Monitor
    BY <1>0, <1>6 DEF Write, TypeOK
  <2>3. before'[h] = before[h] /\ \A u \in Threads \ {h} : before'[u] = Nothing
    BY <1>0, <1>6 DEF Write, DisturbedBy
  <2>4. default' = default /\ sink'[default] = Effect(thread[h].op, sink[default], thread[h].reading)
    BY <1>6 DEF Write, TypeOK
  <2>5. ASSUME before[h] # Nothing
        PROVE  sink'[default] = Effect(thread[h].op, before[h], before[h])
    <3>1. SeesOf(thread[h], before[h], sink[default])
      BY <2>2, <2>5 DEF Sees
    <3>2. CASE thread[h].next = "set"
      BY <2>2, <2>4, <3>1, <3>2 DEF SeesOf
    <3>3. CASE thread[h].next # "set"
      <4>1. thread[h].op.kind # "delta" /\ sink[default] = before[h]
        BY <2>2, <3>1, <3>3 DEF SeesOf, ThreadState
      <4> QED BY <2>4, <4>1 DEF Effect
    <3> QED BY <3>2, <3>3
  <2>6. ASSUME before[h] # Nothing PROVE SeesOf(thread'[h], before'[h], sink'[default'])
    BY <2>1, <2>2, <2>3, <2>4, <2>5, <2>6 DEF SeesOf, TypeOK, ThreadState
  <2>7. thread'[Monitor] = thread[Monitor]
    BY <1>0, <2>1, <2>2 DEF TypeOK
  <2> QED BY <2>2, <2>3, <2>6, <2>7 DEF Sees
<1>7. ASSUME NEW h \in Handlers, NEW op \in Ops, Request(h, op) PROVE Sees'
  <2>1. UNCHANGED <<default, sink>> /\ h \in Threads /\ h # Monitor
    BY <1>0, <1>7 DEF Request
  <2>2. before' = [before EXCEPT ![h] = sink[default]]
    BY <1>7 DEF Request
  <2>3. thread' = [thread EXCEPT ![h] =
                   [pc |-> IF op.kind \in {"get", "delta"} THEN "read" ELSE "set",
                    op |-> op,
                    next |-> IF op.kind = "delta" THEN "set" ELSE "answer",
                    reading |-> Silent]]
    BY <1>7 DEF Request
  <2>4. SeesOf(thread'[h], sink[default], sink[default])
    BY <2>1, <2>3 DEF SeesOf, Effect, TypeOK
  <2> QED BY <2>1, <2>2, <2>3, <2>4 DEF Sees, TypeOK
<1>8. CASE Poll
  <2>1. UNCHANGED <<default, sink>> /\ before' = [before EXCEPT ![Monitor] = sink[default]]
    BY <1>8 DEF Poll
  <2>2. thread' = [thread EXCEPT ![Monitor] = [thread[Monitor] EXCEPT !.pc = "read"]]
    BY <1>8 DEF Poll
  <2>3. SeesOf(thread'[Monitor], sink[default], sink[default])
    BY <1>0, <2>2 DEF SeesOf, Sees, TypeOK, ThreadState, Effect, Get
  <2> QED BY <1>0, <2>1, <2>2, <2>3 DEF Sees, TypeOK, ThreadState
<1>9. CASE Outside
  BY <1>0, <1>9 DEF Outside, DisturbedBy, Sees
<1>10. CASE UNCHANGED <<default, sink, thread, before>>
  BY <1>10 DEF Sees
<1> QED
  BY <1>1, <1>2, <1>3, <1>4, <1>5, <1>6, <1>7, <1>8, <1>9, <1>10
  DEF Next, Step, ReadFails, WriteFails, Tick, vars, Threads

\* An undisturbed poll, with no other sink within the cache's memory, leaves the
\* clients with what is in force.
THEOREM MonitorIsUpToDate == ASSUME AudioAssumption PROVE Spec => MonitorCatchesUp
<1> DEFINE Polled == /\ thread[Monitor].pc \in {"name", "fetch"}
                     /\ thread'[Monitor].pc = "idle"
                     /\ changes' = changes
                     /\ before[Monitor] # Nothing
                     /\ \A s \in Sinks \ {default} : away[s] = TTL
<1>1. TypeOK /\ CacheHonest /\ Sees /\ [Next]_vars => [Polled => shown'[Monitor] = Actual]_vars
  <2> SUFFICES ASSUME TypeOK, CacheHonest, Sees, Next, Polled PROVE shown'[Monitor] = Actual
    BY DEF vars
  <2>0. Monitor \in Threads /\ Monitor \notin Handlers
    BY DEF Threads, AudioAssumption
  <2>1. thread[Monitor].reading = sink[default] /\ thread[Monitor].next = "answer"
    BY <2>0 DEF Sees, SeesOf
  <2>2. thread[Monitor] # thread'[Monitor]
    OBVIOUS
  <2>3. ASSUME Finish(Monitor, default) PROVE shown'[Monitor] = Actual
    <3>1. Parsed(Monitor, default)
      BY <2>0, <2>3, FinishEnds
    <3> QED BY <2>0, <2>1, <3>1 DEF Parsed, Actual, TypeOK
  <2>4. CASE CachedName(Monitor)
    <3>1. cache \in Sinks /\ away[cache] < TTL
      BY <2>4 DEF CachedName, Fresh, CacheHonest, TypeOK, AudioAssumption
    <3>2. cache = default
      BY <3>1 DEF TypeOK, AudioAssumption
    <3> QED BY <2>3, <2>4, <3>2 DEF CachedName
  <2>5. CASE FetchName(Monitor)
    BY <2>3, <2>5 DEF FetchName
  <2>6. ASSUME NEW t \in Threads \ {Monitor}, NEW name, Ends(t, name) PROVE FALSE
    BY <2>0, <2>2, <2>6 DEF Ends, Parsed, Unparsed, TypeOK
  <2>7. ASSUME NEW t \in Threads, ReadVolume(t) \/ LockCache(t) PROVE FALSE
    BY <2>0, <2>2, <2>7 DEF ReadVolume, LockCache, TypeOK, ThreadState
  <2>8. ASSUME NEW h \in Handlers, Write(h) \/ (\E op \in Ops : Request(h, op)) PROVE FALSE
    BY <2>0, <2>2, <2>8 DEF Write, Request, TypeOK
  <2>9. ASSUME NEW t \in Threads, ReadFails(t) \/ WriteFails(t) \/ FetchFails(t) PROVE FALSE
    BY <2>9 DEF ReadFails, WriteFails, FetchFails, Mishap, TypeOK
  <2>10. ~Poll /\ ~Tick /\ ~Outside
    BY <2>2 DEF Poll, Tick, Outside
  <2> QED
    BY <2>4, <2>5, <2>6, <2>7, <2>8, <2>9, <2>10, FinishEnds
    DEF Next, Step, CachedName, FetchName, Threads
<1> QED
  BY <1>1, TypeInit, TypeStep, HonestInit, HonestStep, SeesInit, SeesStep, PTL
  DEF Spec, MonitorCatchesUp

\* An undisturbed request is answered with exactly its effect, within the limits.
THEOREM AnswersAreExact == ASSUME AudioAssumption PROVE Spec => AnswersExact
<1> DEFINE Exact == \A h \in Handlers :
        Answers(h) /\ before[h] # Nothing =>
            LET wanted == Effect(thread[h].op, before[h], before[h])
            IN  /\ shown'[h].volume = wanted.volume
                /\ shown'[h].muted = wanted.muted
                /\ thread[h].op.kind \in {"value", "delta"} =>
                       shown'[h].volume \in 0..MaxVolume
<1>1. TypeOK /\ Sees /\ [Next]_vars => [Exact]_vars
  <2> SUFFICES ASSUME TypeOK, Sees, Next, NEW h \in Handlers, Answers(h), before[h] # Nothing
               PROVE  LET wanted == Effect(thread[h].op, before[h], before[h])
                      IN  /\ shown'[h].volume = wanted.volume
                          /\ shown'[h].muted = wanted.muted
                          /\ thread[h].op.kind \in {"value", "delta"} =>
                                 shown'[h].volume \in 0..MaxVolume
    BY DEF vars
  <2> DEFINE wanted == Effect(thread[h].op, before[h], before[h])
  <2>0. h \in Threads /\ thread[h] \in ThreadState /\ before[h] \in Reading
    BY DEF Threads, TypeOK
  <2>1. wanted \in Reading
    BY <2>0, EffectType DEF ThreadState
  <2>2. thread[h].op.kind \in {"value", "delta"} => wanted.volume \in 0..MaxVolume
    <3>1. \A v \in Int : Clamp(v) \in 0..MaxVolume
      BY DEF Clamp, AudioAssumption
    <3>2. thread[h].op.arg \in Int /\ before[h].volume + thread[h].op.arg \in Int
      BY <2>0 DEF ThreadState, AudioAssumption, Get, Reading
    <3> QED BY <2>0, <3>1, <3>2 DEF Effect, Reading
  <2>3. ASSUME NEW name, Ends(h, name), thread[h].pc \in {"name", "fetch"}
        PROVE  shown'[h].volume = wanted.volume /\ shown'[h].muted = wanted.muted
    <3>1. thread[h].next = "answer" /\ Parsed(h, name)
      BY <2>0, <2>3 DEF Ends, Parsed, Unparsed, Answers, ThreadState
    <3>2. thread[h].reading = wanted
      BY <2>0, <2>3, <3>1 DEF Sees, SeesOf
    <3> HIDE DEF wanted
    <3>3. shown' = [shown EXCEPT ![h] = [volume |-> thread[h].reading.volume,
                                         muted |-> thread[h].reading.muted, name |-> name]]
      BY <2>3, <3>1 DEF Parsed
    <3> QED BY <2>0, <3>2, <3>3 DEF TypeOK
  <2>4. ASSUME NEW t \in Threads, NEW name, Ends(t, name) PROVE t = h
    <3>1. shown'[h] # shown[h]
      BY DEF Answers
    <3>2. \E x : shown' = [shown EXCEPT ![t] = x]
      BY <2>4, <3>1 DEF Ends, Parsed, Unparsed
    <3> QED BY <2>0, <3>1, <3>2 DEF TypeOK
  <2>5. ASSUME NEW g \in Handlers, NEW op \in Ops, Request(g, op) PROVE FALSE
    BY <2>5 DEF Request, Answers, TypeOK, Threads
  <2>6. shown' # shown
    BY DEF Answers
  <2>7. shown'[h].volume = wanted.volume /\ shown'[h].muted = wanted.muted
    <3> HIDE DEF wanted
    <3>1. PICK t \in Threads : CachedName(t) \/ FetchName(t) \/ FetchFails(t)
      BY <2>5, <2>6
      DEF Next, Step, ReadVolume, ReadFails, LockCache, Mishap, Write, WriteFails, Poll, Tick, Outside
    <3> QED
      BY <2>3, <2>4, <3>1, FinishEnds DEF CachedName, FetchName, FetchFails, Ends
  <2> QED BY <2>2, <2>7
<1> QED
  BY <1>1, TypeInit, TypeStep, SeesInit, SeesStep, PTL DEF Spec, AnswersExact
=============================================================================
