------------------------------- MODULE Audio -------------------------------
(* The audio package and the handlers that use it: wpctl calls of several  *)
(* requests and of the monitor, interleaved with each other and with       *)
(* whoever else turns the volume or moves the default sink, and the cache  *)
(* of the sink's name that they share.                                     *)
(*                                                                         *)
(* A volume is a number of wpctl's reading steps.  A sink stands for its   *)
(* node.description.  Time is counted in polls of the monitor.             *)
EXTENDS Integers

CONSTANTS
    Handlers,     \* goroutines that serve requests
    Monitor,      \* the goroutine of StartMonitor
    Sinks,
    Nothing,      \* no sink name (""), no answer, no holder
    MaxVolume,    \* 1.5
    Ops,          \* the requests that are made
    Levels,       \* the volumes that other programs set
    TTL,          \* sinkCacheTTL
    MaxRequests,  \* bound: requests served
    MaxChanges    \* bound: changes from outside and failures of wpctl

ASSUME AudioAssumption ==
    /\ Monitor \notin Handlers
    /\ Nothing \notin Sinks \cup Handlers \cup {Monitor}
    /\ MaxVolume \in Nat
    /\ TTL \in Nat \ {0}
    /\ Levels \subseteq Int
    /\ Ops \subseteq [kind : {"value", "delta", "mute", "get", "toggle"}, arg : Int]
    /\ MaxRequests \in Nat
    /\ MaxChanges \in Nat

Threads == Handlers \cup {Monitor}
Reading == [volume : Int, muted : BOOLEAN]
State == [volume : Int, muted : BOOLEAN, name : Sinks \cup {Nothing}]

VARIABLES
    default,  \* the sink that wpctl calls @DEFAULT_SINK@
    sink,     \* volume and mute state of each sink
    cache,    \* sinkCache.value
    age,      \* time since sinkCache.fetchedAt, up to TTL
    mu,       \* who holds sinkCache.mu
    thread,   \* where each goroutine is: its next call, and what it has read
    ticked,   \* a tick waits in the monitor's channel
    shown,    \* the last event the monitor published, the last answer of a handler
    requests, \* requests left
    changes,  \* changes from outside left
    \* History.
    away,     \* how long ago each sink was the default one, up to TTL
    before    \* the default sink when a request or a poll began, until another one changes it

vars == <<default, sink, cache, age, mu, thread, ticked, shown, requests, changes, away, before>>
env == <<default, sink, away, before>>

Silent == [volume |-> 0, muted |-> FALSE]
Get == [kind |-> "get", arg |-> 0]
Idle == [pc |-> "idle", op |-> Get, next |-> "answer", reading |-> Silent]

Init ==
    /\ default \in Sinks
    /\ sink = [s \in Sinks |-> Silent]
    /\ cache = Nothing
    /\ age = 0
    /\ mu = Nothing
    /\ thread = [t \in Threads |-> Idle]
    /\ ticked = FALSE
    /\ shown = [t \in Threads |-> Nothing]
    /\ requests = MaxRequests
    /\ changes = MaxChanges
    /\ away = [s \in Sinks |-> IF s = default THEN 0 ELSE TTL]
    /\ before = [t \in Threads |-> Nothing]

\* Mutant of Clamp: the upper limit is missing.
ClampBelow(v) == IF v < 0 THEN 0 ELSE v

Clamp(v) == IF v < 0 THEN 0 ELSE IF v > MaxVolume THEN MaxVolume ELSE v

-----------------------------------------------------------------------------
(* GetVolume, called by the monitor, by every audio handler and by         *)
(* AdjustVolume: wpctl get-volume, then GetSinkName.                       *)

\* Mutant of Parsed: the monitor does not compare the name.
ParsedNameless(t, name) ==
    LET r == thread[t].reading IN
    IF thread[t].next = "set"
    THEN thread' = [thread EXCEPT ![t].pc = "set"] /\ UNCHANGED shown
    ELSE /\ thread' = [thread EXCEPT ![t] = Idle]
         /\ IF t = Monitor /\ shown[t] # Nothing
               /\ shown[t].volume = r.volume /\ shown[t].muted = r.muted
            THEN UNCHANGED shown
            ELSE shown' = [shown EXCEPT ![t] =
                           [volume |-> r.volume, muted |-> r.muted, name |-> name]]

\* GetVolume's caller goes on: AdjustVolume to its SetVolume, a handler to its
\* answer, the monitor to an event when the state differs from the last one it
\* published.
Parsed(t, name) ==
    LET r == thread[t].reading IN
    IF thread[t].next = "set"
    THEN thread' = [thread EXCEPT ![t].pc = "set"] /\ UNCHANGED shown
    ELSE /\ thread' = [thread EXCEPT ![t] = Idle]
         /\ shown' = [shown EXCEPT ![t] =
                      [volume |-> r.volume, muted |-> r.muted, name |-> name]]

\* The request ends with an error, or the monitor's poll without an event.
Unparsed(t) == thread' = [thread EXCEPT ![t] = Idle] /\ UNCHANGED shown

\* parseVolume, which may not find a number in wpctl's output.
Finish(t, name) ==
    \/ Parsed(t, name) /\ UNCHANGED changes
    \/ changes > 0 /\ changes' = changes - 1 /\ Unparsed(t)

\* A failed call ends the request with an error, or the monitor's poll.
Mishap(t) ==
    /\ changes > 0
    /\ changes' = changes - 1
    /\ thread' = [thread EXCEPT ![t] = Idle]
    /\ UNCHANGED <<cache, age, mu, ticked, shown, requests, env>>

ReadVolume(t) ==
    /\ thread[t].pc = "read"
    /\ thread' = [thread EXCEPT ![t].pc = "name", ![t].reading = sink[default]]
    /\ UNCHANGED <<cache, age, mu, ticked, shown, requests, changes, env>>

ReadFails(t) == thread[t].pc = "read" /\ Mishap(t)

Fresh == cache # Nothing /\ age < TTL

\* Mutant of CachedName: a hit renews the entry.
CachedNameSlides(t) ==
    /\ thread[t].pc = "name"
    /\ mu = Nothing
    /\ Fresh
    /\ age' = 0
    /\ Finish(t, cache)
    /\ UNCHANGED <<cache, mu, ticked, requests, env>>

CachedName(t) ==
    /\ thread[t].pc = "name"
    /\ mu = Nothing
    /\ Fresh
    /\ Finish(t, cache)
    /\ UNCHANGED <<cache, age, mu, ticked, requests, env>>

\* The mutex stays locked while wpctl inspect runs.
LockCache(t) ==
    /\ thread[t].pc = "name"
    /\ mu = Nothing
    /\ ~Fresh
    /\ mu' = t
    /\ thread' = [thread EXCEPT ![t].pc = "fetch"]
    /\ UNCHANGED <<cache, age, ticked, shown, requests, changes, env>>

\* Mutant of FetchName: the mutex is not released.
FetchNameLocked(t) ==
    /\ thread[t].pc = "fetch"
    /\ cache' = default
    /\ age' = 0
    /\ Finish(t, default)
    /\ UNCHANGED <<mu, ticked, requests, env>>

FetchName(t) ==
    /\ thread[t].pc = "fetch"
    /\ cache' = default
    /\ age' = 0
    /\ mu' = Nothing
    /\ Finish(t, default)
    /\ UNCHANGED <<ticked, requests, env>>

\* An error, or no node.description: the caller gets "" and nothing is cached.
FetchFails(t) ==
    /\ thread[t].pc = "fetch"
    /\ changes > 0
    /\ changes' = changes - 1
    /\ mu' = Nothing
    /\ Parsed(t, Nothing) \/ Unparsed(t)
    /\ UNCHANGED <<cache, age, ticked, requests, env>>

-----------------------------------------------------------------------------
(* The handlers and the monitor.                                           *)

\* A request is decoded: value wins over delta, toggle over muted.  AdjustVolume
\* reads first, the others write first, getAudio and getStatus only read.
Request(h, op) ==
    /\ thread[h].pc = "idle"
    /\ requests > 0
    /\ requests' = requests - 1
    /\ thread' = [thread EXCEPT ![h] =
                  [pc |-> IF op.kind \in {"get", "delta"} THEN "read" ELSE "set",
                   op |-> op,
                   next |-> IF op.kind = "delta" THEN "set" ELSE "answer",
                   reading |-> Silent]]
    /\ shown' = [shown EXCEPT ![h] = Nothing]
    /\ before' = [before EXCEPT ![h] = sink[default]]
    /\ UNCHANGED <<default, sink, cache, age, mu, ticked, changes, away>>

\* What a wpctl set command makes of the default sink; the level of AdjustVolume
\* comes from its own reading.
Effect(op, was, reading) ==
    CASE op.kind = "value"  -> [was EXCEPT !.volume = Clamp(op.arg)]
      [] op.kind = "delta"  -> [was EXCEPT !.volume = Clamp(reading.volume + op.arg)]
      [] op.kind = "mute"   -> [was EXCEPT !.muted = (op.arg = 1)]
      [] op.kind = "toggle" -> [was EXCEPT !.muted = ~@]
      [] op.kind = "get"    -> was

\* All others who had looked at the sink have looked at something else.
DisturbedBy(t) == before' = [u \in Threads |-> IF u = t THEN before[u] ELSE Nothing]

\* SetVolume, SetMute or ToggleMute; the handler reads the state for its answer.
Write(h) ==
    /\ thread[h].pc = "set"
    /\ sink' = [sink EXCEPT ![default] = Effect(thread[h].op, @, thread[h].reading)]
    /\ thread' = [thread EXCEPT ![h].pc = "read", ![h].next = "answer", ![h].reading = Silent]
    /\ DisturbedBy(h)
    /\ UNCHANGED <<default, cache, age, mu, ticked, shown, requests, changes, away>>

WriteFails(h) == thread[h].pc = "set" /\ Mishap(h)

Poll ==
    /\ thread[Monitor].pc = "idle"
    /\ ticked
    /\ ticked' = FALSE
    /\ thread' = [thread EXCEPT ![Monitor].pc = "read"]
    /\ before' = [before EXCEPT ![Monitor] = sink[default]]
    /\ UNCHANGED <<default, sink, cache, age, mu, shown, requests, changes, away>>

\* Time passes; the ticker's channel holds one tick.
Tick ==
    /\ ticked' = TRUE
    /\ age' = IF age < TTL THEN age + 1 ELSE TTL
    /\ away' = [s \in Sinks |-> IF s = default THEN 0
                                ELSE IF away[s] < TTL THEN away[s] + 1 ELSE TTL]
    /\ UNCHANGED <<default, sink, cache, mu, thread, shown, requests, changes, before>>

\* Another program turns the volume, or another sink becomes the default one.
Outside ==
    /\ changes > 0
    /\ changes' = changes - 1
    /\ \/ \E v \in Levels : /\ sink' = [sink EXCEPT ![default].volume = v]
                            /\ UNCHANGED <<default, away>>
       \/ \E s \in Sinks : /\ default' = s
                           /\ away' = [away EXCEPT ![s] = 0]
                           /\ UNCHANGED sink
    /\ DisturbedBy(Nothing)
    /\ UNCHANGED <<cache, age, mu, thread, ticked, shown, requests>>

Step(t) ==
    \/ ReadVolume(t) \/ ReadFails(t) \/ CachedName(t) \/ LockCache(t)
    \/ FetchName(t) \/ FetchFails(t)

Next ==
    \/ \E t \in Threads : Step(t)
    \/ \E h \in Handlers : Write(h) \/ WriteFails(h) \/ \E op \in Ops : Request(h, op)
    \/ Poll \/ Tick \/ Outside

Spec == Init /\ [][Next]_vars

-----------------------------------------------------------------------------
ThreadState ==
    [pc : {"idle", "read", "name", "fetch", "set"}, op : Ops \cup {Get},
     next : {"answer", "set"}, reading : Reading]

\* The variables have the types of pipewire.go, and the mutex of the cache is
\* held by exactly the goroutine whose wpctl inspect runs.
TypeOK ==
    /\ default \in Sinks
    /\ sink \in [Sinks -> Reading]
    /\ cache \in Sinks \cup {Nothing}
    /\ age \in 0..TTL
    /\ mu \in Threads \cup {Nothing}
    /\ thread \in [Threads -> ThreadState]
    /\ ticked \in BOOLEAN
    /\ shown \in [Threads -> State \cup {Nothing}]
    /\ requests \in Nat
    /\ changes \in Nat
    /\ away \in [Sinks -> 0..TTL]
    /\ before \in [Threads -> Reading \cup {Nothing}]
    /\ \A t \in Threads : thread[t].pc = "fetch" <=> mu = t

Answers(t) == shown'[t] # shown[t] /\ shown'[t] # Nothing

\* "Refreshed at most once per sinkCacheTTL" is also at least that often: a name
\* in an answer or an event was the default sink's within the last TTL, whoever
\* filled the cache and however many readers it has had since.
NamesFresh ==
    [][\A t \in Threads :
        Answers(t) /\ shown'[t].name # Nothing => away[shown'[t].name] < TTL]_vars

\* Only overlapping requests lose an update: when nobody else has touched the
\* default sink since the request came in, the answer is exactly its effect, and
\* a volume that the daemon has set is within the limits whatever it was.
AnswersExact ==
    [][\A h \in Handlers :
        Answers(h) /\ before[h] # Nothing =>
            LET wanted == Effect(thread[h].op, before[h], before[h])
            IN  /\ shown'[h].volume = wanted.volume
                /\ shown'[h].muted = wanted.muted
                /\ thread[h].op.kind \in {"value", "delta"} =>
                       shown'[h].volume \in 0..MaxVolume]_vars

Actual == [volume |-> sink[default].volume, muted |-> sink[default].muted, name |-> default]

\* "Keeps connected clients up to date when the user switches audio output": a
\* poll that nobody disturbs, when no other sink has been the default one for as
\* long as the cache may remember it, leaves the clients with what is in force,
\* also when it differs from the last event in nothing but the name.
MonitorCatchesUp ==
    [][(/\ thread[Monitor].pc \in {"name", "fetch"}
        /\ thread'[Monitor].pc = "idle"
        /\ changes' = changes
        /\ before[Monitor] # Nothing
        /\ \A s \in Sinks \ {default} : away[s] = TTL)
       => shown'[Monitor] = Actual]_vars
=============================================================================
