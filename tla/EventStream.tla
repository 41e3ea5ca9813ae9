---------------------------- MODULE EventStream ----------------------------
(***************************************************************************)
(* The event bus and the WebSocket handlers that subscribe to it           *)
(* (server/internal/events/bus.go, server/internal/api/websocket.go).      *)
(*                                                                         *)
(* A publisher sends its events one after the other, numbered from 1; two  *)
(* publishers (the process manager and the audio monitor) may be inside    *)
(* Publish at the same time, since it only takes the read lock.  Publish   *)
(* is one step per subscriber; the read lock is held while any are left.   *)
(***************************************************************************)
EXTENDS Naturals, Sequences, FiniteSets

CONSTANTS
    Publishers,
    Conns,      \* WebSocket connections; one is used again after it has ended
    BufSize,    \* subBufSize
    MaxSubs,    \* maxSubscribers
    MaxEvents   \* bound: events each publisher sends

ASSUME SizesPositive == BufSize \in Nat \ {0} /\ MaxSubs \in Nat \ {0} /\ MaxEvents \in Nat

VARIABLES
    subs,     \* b.subs: the connections whose channel is open
    queue,    \* what each channel buffers: <<publisher, number>>
    sent,     \* how many events each publisher has published
    todo,     \* subscribers the running Publish of each publisher has yet to reach
    handler,  \* where each connection's ServeHTTP is
    held,     \* the event a handler is writing, as a sequence of at most one
    gone,     \* the client of the connection is gone
    noticed,  \* the reader goroutine has closed disconnected
    seen,     \* history: number of the last event of each publisher a client has got
    dropped   \* history: an event was dropped for the connection

vars == <<subs, queue, sent, todo, handler, held, gone, noticed, seen, dropped>>
connVars == <<held, gone, noticed, seen, dropped>>

Init ==
    /\ subs = {}
    /\ queue = [c \in Conns |-> <<>>]
    /\ sent = [p \in Publishers |-> 0]
    /\ todo = [p \in Publishers |-> {}]
    /\ handler = [c \in Conns |-> "off"]
    /\ held = [c \in Conns |-> <<>>]
    /\ gone = [c \in Conns |-> FALSE]
    /\ noticed = [c \in Conns |-> FALSE]
    /\ seen = [c \in Conns |-> [p \in Publishers |-> 0]]
    /\ dropped = [c \in Conns |-> FALSE]

\* No Publish holds the read lock, so b.mu can be taken for writing.
NoReader == \A p \in Publishers : todo[p] = {}

-----------------------------------------------------------------------------
(* Bus.                                                                    *)

PublishBegins(p) ==
    /\ todo[p] = {}
    /\ sent[p] < MaxEvents
    /\ sent' = [sent EXCEPT ![p] = @ + 1]
    /\ todo' = [todo EXCEPT ![p] = subs]
    /\ UNCHANGED <<subs, queue, handler>> /\ UNCHANGED connVars

\* Mutant of PublishTo: the publisher waits for room in the channel.
PublishToBlocking(p, c) ==
    /\ c \in todo[p]
    /\ Len(queue[c]) < BufSize
    /\ todo' = [todo EXCEPT ![p] = @ \ {c}]
    /\ queue' = [queue EXCEPT ![c] = Append(@, <<p, sent[p]>>)]
    /\ UNCHANGED <<subs, sent, handler, held, gone, noticed, seen, dropped>>

\* Mutant of PublishTo: a full channel loses its oldest event unnoticed.
PublishToOverwriting(p, c) ==
    /\ c \in todo[p]
    /\ todo' = [todo EXCEPT ![p] = @ \ {c}]
    /\ queue' = [queue EXCEPT ![c] =
                    Append(IF Len(@) < BufSize THEN @ ELSE Tail(@), <<p, sent[p]>>)]
    /\ UNCHANGED <<subs, sent, handler, held, gone, noticed, seen, dropped>>

\* Mutant of PublishTo: the event goes before those that wait.
PublishToFront(p, c) ==
    /\ c \in todo[p]
    /\ todo' = [todo EXCEPT ![p] = @ \ {c}]
    /\ \/ /\ Len(queue[c]) < BufSize
          /\ queue' = [queue EXCEPT ![c] = <<<<p, sent[p]>>>> \o @]
          /\ UNCHANGED dropped
       \/ /\ Len(queue[c]) = BufSize
          /\ dropped' = [dropped EXCEPT ![c] = TRUE]
          /\ UNCHANGED queue
    /\ UNCHANGED <<subs, sent, handler, held, gone, noticed, seen>>

\* One subscriber of the loop in Publish: a full channel is skipped.
PublishTo(p, c) ==
    /\ c \in todo[p]
    /\ todo' = [todo EXCEPT ![p] = @ \ {c}]
    /\ \/ /\ Len(queue[c]) < BufSize
          /\ queue' = [queue EXCEPT ![c] = Append(@, <<p, sent[p]>>)]
          /\ UNCHANGED dropped
       \/ /\ Len(queue[c]) = BufSize
          /\ dropped' = [dropped EXCEPT ![c] = TRUE]
          /\ UNCHANGED queue
    /\ UNCHANGED <<subs, sent, handler, held, gone, noticed, seen>>

-----------------------------------------------------------------------------
(* wsHandler.ServeHTTP.                                                    *)

\* Subscribe, before the upgrade.  Over the cap the request is answered 503 and
\* nothing changes.
Connect(c) ==
    /\ handler[c] = "off"
    /\ NoReader
    /\ Cardinality(subs) < MaxSubs
    /\ subs' = subs \cup {c}
    /\ handler' = [handler EXCEPT ![c] = "upgrade"]
    /\ queue' = [queue EXCEPT ![c] = <<>>]
    /\ seen' = [seen EXCEPT ![c] = sent]
    /\ dropped' = [dropped EXCEPT ![c] = FALSE]
    /\ gone' = [gone EXCEPT ![c] = FALSE]
    /\ noticed' = [noticed EXCEPT ![c] = FALSE]
    /\ UNCHANGED <<sent, todo, held>>

\* The upgrade succeeds and the reader goroutine starts, or it fails.
Upgrade(c) ==
    /\ handler[c] = "upgrade"
    /\ \E next \in {"select", "leave"} : handler' = [handler EXCEPT ![c] = next]
    /\ UNCHANGED <<subs, queue, sent, todo>> /\ UNCHANGED connVars

\* The reader goroutine's ReadMessage fails.
ReaderEnds(c) ==
    /\ handler[c] \in {"select", "write", "leave"}
    /\ gone[c]
    /\ ~noticed[c]
    /\ noticed' = [noticed EXCEPT ![c] = TRUE]
    /\ UNCHANGED <<subs, queue, sent, todo, handler, held, gone, seen, dropped>>

\* The two branches of the select; Go takes either when both are ready.
Disconnected(c) ==
    /\ handler[c] = "select"
    /\ noticed[c]
    /\ handler' = [handler EXCEPT ![c] = "leave"]
    /\ UNCHANGED <<subs, queue, sent, todo>> /\ UNCHANGED connVars

\* Mutant of Receive: a select with a default branch makes up an event when none
\* is buffered.
ReceiveDefault(c) ==
    /\ handler[c] = "select"
    /\ \/ queue[c] # <<>> /\ held' = [held EXCEPT ![c] = <<Head(queue[c])>>]
                         /\ queue' = [queue EXCEPT ![c] = Tail(@)]
       \/ /\ queue[c] = <<>>
          /\ \E p \in Publishers : held' = [held EXCEPT ![c] = <<<<p, 0>>>>]
          /\ UNCHANGED queue
    /\ handler' = [handler EXCEPT ![c] = "write"]
    /\ UNCHANGED <<subs, sent, todo, gone, noticed, seen, dropped>>

Receive(c) ==
    /\ handler[c] = "select"
    /\ queue[c] # <<>>
    /\ held' = [held EXCEPT ![c] = <<Head(queue[c])>>]
    /\ queue' = [queue EXCEPT ![c] = Tail(@)]
    /\ handler' = [handler EXCEPT ![c] = "write"]
    /\ UNCHANGED <<subs, sent, todo, gone, noticed, seen, dropped>>

\* WriteJSON returns once the client takes the message in; there is no deadline.
Written(c) ==
    LET ev == held[c][1]
    IN  /\ handler[c] = "write"
        /\ ~gone[c]
        /\ seen' = [seen EXCEPT ![c] = [@ EXCEPT ![ev[1]] = ev[2]]]
        /\ held' = [held EXCEPT ![c] = <<>>]
        /\ handler' = [handler EXCEPT ![c] = "select"]
        /\ UNCHANGED <<subs, queue, sent, todo, gone, noticed, dropped>>

\* Mutant of WriteFails: the handler tries the write again and again.
WriteFailsIgnored(c) ==
    /\ handler[c] = "write"
    /\ gone[c]
    /\ UNCHANGED vars

WriteFails(c) ==
    /\ handler[c] = "write"
    /\ gone[c]
    /\ held' = [held EXCEPT ![c] = <<>>]
    /\ handler' = [handler EXCEPT ![c] = "leave"]
    /\ UNCHANGED <<subs, queue, sent, todo, gone, noticed, seen, dropped>>

\* Mutant of Leave: Unsubscribe does not wait for the publishers.
LeaveUnlocked(c) ==
    /\ handler[c] = "leave"
    /\ subs' = subs \ {c}
    /\ handler' = [handler EXCEPT ![c] = "off"]
    /\ UNCHANGED <<queue, sent, todo>> /\ UNCHANGED connVars

\* The deferred Unsubscribe: the channel is taken off the list and closed.
Leave(c) ==
    /\ handler[c] = "leave"
    /\ NoReader
    /\ subs' = subs \ {c}
    /\ handler' = [handler EXCEPT ![c] = "off"]
    /\ UNCHANGED <<queue, sent, todo>> /\ UNCHANGED connVars

\* The client closes the connection, or it breaks.
ClientLeaves(c) ==
    /\ handler[c] \in {"upgrade", "select", "write"}
    /\ ~gone[c]
    /\ gone' = [gone EXCEPT ![c] = TRUE]
    /\ UNCHANGED <<subs, queue, sent, todo, handler, held, noticed, seen, dropped>>

Handling(c) == Upgrade(c) \/ Disconnected(c) \/ Receive(c) \/ WriteFails(c)

Next ==
    \/ \E p \in Publishers : PublishBegins(p) \/ \E c \in Conns : PublishTo(p, c)
    \/ \E c \in Conns :
        Connect(c) \/ Handling(c) \/ Written(c) \/ ReaderEnds(c) \/ Leave(c) \/ ClientLeaves(c)

Spec == Init /\ [][Next]_vars

(* Goroutines run.  Leave waits for the write lock, which sync.RWMutex     *)
(* gives to a waiting writer before it lets new readers in.  Nothing says  *)
(* that a client reads, so Written is not fair.                            *)
Fairness ==
    /\ \A p \in Publishers, c \in Conns : WF_vars(PublishTo(p, c))
    /\ \A c \in Conns :
        /\ WF_vars(Handling(c)) /\ WF_vars(ReaderEnds(c))
        /\ SF_vars(Disconnected(c)) /\ SF_vars(Leave(c))

FairSpec == Spec /\ Fairness

-----------------------------------------------------------------------------
Events == Publishers \X (1..MaxEvents)

TypeOK ==
    /\ subs \subseteq Conns
    /\ queue \in [Conns -> Seq(Events)]
    /\ sent \in [Publishers -> 0..MaxEvents]
    /\ todo \in [Publishers -> SUBSET Conns]
    /\ handler \in [Conns -> {"off", "upgrade", "select", "write", "leave"}]
    /\ held \in [Conns -> Seq(Events)]
    /\ gone \in [Conns -> BOOLEAN]
    /\ noticed \in [Conns -> BOOLEAN]
    /\ seen \in [Conns -> [Publishers -> 0..MaxEvents]]
    /\ dropped \in [Conns -> BOOLEAN]

\* The subscribers are the handlers at work, at most MaxSubs, each with at most
\* BufSize events waiting, so ended connections do not use up the cap.
SubscribersBounded ==
    /\ \A c \in Conns : c \in subs <=> handler[c] # "off"
    /\ Cardinality(subs) <= MaxSubs
    /\ \A c \in Conns : Len(queue[c]) <= BufSize

\* A publisher in the middle of its loop never sends on a channel that
\* Unsubscribe has closed (Go would panic).
NoSendOnClosed == \A p \in Publishers : todo[p] \subseteq subs

\* What connection c has yet to deliver, the event being written first.
Pending(c) == held[c] \o queue[c]

\* A client gets the events of one publisher in the order they were published,
\* none of them twice, whatever is dropped.
InOrder ==
    \A c \in subs :
        LET pending == Pending(c)
        IN  /\ \A i \in DOMAIN pending : seen[c][pending[i][1]] < pending[i][2]
            /\ \A i, j \in DOMAIN pending :
                  i < j /\ pending[i][1] = pending[j][1] => pending[i][2] < pending[j][2]

\* The events of p that connection c has yet to deliver, and the one that the
\* running Publish has yet to queue for it.
Owed(c, p) ==
    {Pending(c)[i][2] : i \in {j \in DOMAIN Pending(c) : Pending(c)[j][1] = p}}
    \cup (IF c \in todo[p] THEN {sent[p]} ELSE {})

\* A connected client loses an event only to a full buffer: if that never
\* happened, the events on their way to it are all that were published after the
\* last one it got.
LostOnlyWhenFull ==
    \A c \in subs, p \in Publishers :
        ~dropped[c] /\ ~gone[c] =>
            seen[c][p] <= sent[p] /\ Owed(c, p) = (seen[c][p] + 1)..sent[p]

\* A client that stops reading holds up nobody: Publish always gets through its
\* subscribers, and with it the manager, which calls it with its mutex held.
PublishEnds == \A p \in Publishers : todo[p] # {} ~> todo[p] = {}

\* The slot of a client that has gone is freed.
SlotFreed == \A c \in Conns : gone[c] /\ c \in subs ~> c \notin subs
=============================================================================
