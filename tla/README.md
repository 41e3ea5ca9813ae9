# Formal verification of launchscope

launchscope turns a PC into a couch console.  `launchscoped` (Go) owns the one
graphical process of the machine and offers an HTTP and WebSocket API, a LÖVE
program (Lua) is the launcher UI, `launchscope-cec` (Python) connects the server
to the TV over HDMI-CEC, and a Home Assistant integration (Python) drives the
API from elsewhere.  This directory holds TLA+ modules that model these programs,
TLC configurations that check them on small instances, and TLAPS proofs that
hold for every instance.  Paths and line numbers below are relative to the root
of the repository.

- [1. The system](#1-the-system) · [2. Modules and code](#2-modules-and-code) ·
  [3. Runs](#3-runs) · [4. Fairness](#4-fairness) · [5. Proofs](#5-proofs) ·
  [6. Disagreements](#6-disagreements-between-code-and-words) ·
  [7. What is left out](#7-what-is-left-out) · [8. Plan](#8-plan)

## 1. The system

| component | state it keeps | operations | talks to |
|---|---|---|---|
| `process.Manager` (`server/internal/process/manager.go`) | state, current session, current app, one mutex | `LaunchApp`, `Stop`, `Start`, `watch`, `launchUI` and its two-second goroutine, `startWithRetry`, `Status` | calls Session, publishes to the Bus, called by HTTP handlers |
| `process.Session` (`session.go`) | the process group, `done`, the exit error | `Start`, `Stop` with its two timeouts, the wait goroutine | the kernel |
| argument builder (`gamescope.go`) | none | `UIArgv`, `AppArgv`, `splitExec` | called by Manager |
| `events.Bus` (`events/bus.go`) | the set of subscriber channels | `Subscribe`, `Unsubscribe`, `Publish` | Manager and the audio monitor publish; WebSocket handlers subscribe |
| WebSocket handler (`api/websocket.go`) | its subscription, the closed flag of its reader | `ServeHTTP` | Bus, client |
| HTTP API (`api/handlers.go`, `router.go`) | the API key | one handler for each route, authentication | Manager, cec.Client, audio, loaders |
| `cec.Client` (`cec/cec.go`) | the last state pushed, the time of the last activate | `SetState`, `State`, `Activate`, `Standby`, … | the bridge's socket |
| CEC bridge (`cec/launchscope-cec.py`) | power, source and active flags under a lock | `on_command`, `push_state`, the command socket, `on_keypress` | libcec, `POST /api/cec/state` |
| audio (`audio/pipewire.go`, `monitor.go`) | a cached sink name | get, set, adjust, mute; the monitor | PipeWire, Bus |
| configuration and apps (`config/`, `apps/`, `loader/`) | the current value, the key file | load, defaults, `resolveAPIKey`, `Validate`; once, at start | the file system |
| daemon entry point (`cmd/launchscoped/main.go`) | none of its own | the order of all the above, `os.Exit` | systemd starts it again |
| system power (`system/power.go`) | none | a table of commands | systemd |
| idle manager (`ui/lib/idle.lua`, `ui/main.lua`) | idle, grace, throttle and poll timers, blanked, visible, pending | `reset`, `update` | `GET/POST /api/cec/*`, which block the UI thread |
| launcher view, list, modals (`ui/views`, `ui/components`) | focus, app list, modal stack | key and pad handlers, `update` | the API client |
| input and cursor (`ui/lib/input.lua`, `cursor.lua`) | queues, held and axis latches, device | event callbacks, `flush`, `update` | the views |
| standalone mode (`ui/lib/standalone.lua`) | the pid of a local app | launch, poll, stop | the shell |
| Home Assistant integration (`custom_components/launchscope`) | the last poll, entities | coordinator update, entity commands | the API |

Hard behaviours, and what makes each component correct:

- **Manager.** `m.mu` is held through exec and the probe window but released for
  back-offs, `Session.Stop` and the two-second sleep.  Between any two of these,
  other requests, the exit of a process and watch goroutines come in.  Correct
  means: the slot never stays empty with nobody filling it; what `Status` and the
  events say agrees with the slot; one process at a time; a transitional state
  ends; an exit is noticed.
- **Session.** `Stop` must wait for the whole group, which forks, ignores SIGTERM
  and leaves zombies; it must return within its two timeouts and claim success
  only for a group that is gone.
- **Bus and handlers.** Publishers hold a read lock and must not be held up by a
  client; no send may hit a closed channel; a client gets each publisher's events
  in order and loses some only to a full buffer; places of the cap come back.
- **Bridge and client.** Two copies of the TV's state, linked by unordered,
  unrepeated posts, with restarts on both sides and early returns that suppress
  duplicates.  Correct means: no torn snapshot, no default over an optimistic
  server, no change suppressed.
- **Idle.** The UI thread is blocked by its own calls, so timers jump.  Correct
  means: the input that wakes the display is not handled, startup retries go on
  until they succeed, only inactivity blanks a display whose activate is pending,
  and the display wakes when the TV comes back.

- **Audio.** Requests, the monitor and other programs work on one sink through
  commands that read or write, and share a cache of its name that outlives it.
  Correct means: a request that nobody disturbs has its effect and says so; a name
  is never older than the cache allows; the monitor reports what is in force.
- **Daemon.** It may be killed between any two steps, one of which creates the key
  file and another writes it.  Correct means: no state of the files opens the API
  or locks out a client that has the key, and a daemon that came up once comes up
  again.
- **Launch commands.** Two programs build a command from the same entry, one for
  `execve` and one for a shell.  Correct means: the same words.

`PROJECT.json` lists the hazards at their lines, with the properties for each.

## 2. Modules and code

### Manager, ProcessSlot

`Manager` has one thread for each goroutine that can be inside the Manager:
`Handlers` (HTTP requests), `Main` (in `Start`), and the watch goroutine of each
session.  `thread[t].pc` is where it is:

| `pc` | the goroutine is |
|---|---|
| `start` | about to lock `m.mu` and go on to its program (`Start`, or after `Session.Stop`) |
| `exec`, `probe` | in `startWithRetry`, holding `m.mu`: before `Start(argv)`, in the `seatRetryWindow` |
| `backoff` | in the sleep of `startWithRetry`, `m.mu` released |
| `kill` | inside `Session.Stop`, `m.mu` released |
| `sleep` | the goroutine of `launchUI` that retries after two seconds |
| `watch` | in `watch`, waiting for `done` |

The steps are the code between two points at which the mutex is taken or
released or the kernel answers: `LaunchApp`, `Stop`, `Relock`, `Exec`,
`ExecFails`, `ProbeSurvives`, `ProbeExits`, `AfterBackoff`, `StopReturns`, `Wake`,
`Watch`; `LeaderExits` and `OrphansExit` are the processes.  `setState` is the
assignment and the event in one, since both happen under the mutex.  `Fail` and
`EnterUI` are what `LaunchApp` and `launchUI` do with an error.  `NoArgv`,
`NoExec` and `StopMayFail` are faults: an argv that cannot be built, an exec that
always fails, a `Session.Stop` that times out.  `raced` is a history variable: it is set when
`LaunchApp` is accepted on an empty slot which `watch` is about to refill (see
section 6).

`ProcessSlot` is the promise: the slot is vacated before it is filled, filled only
with the program that was asked for or with the UI, and abandoned only if the UI's
path is unusable.  `Manager!RefinesSlot` maps the occupant to `prog[current]` and
the wanted program to the goal of the goroutine that is on its way; the promise
ends with `raced`.

### Session

A process is unborn, alive, a zombie or gone; zombies count for `kill(-pgid, 0)`.
`StopBegins`, `TermPoll`, `Escalate` and `KillPoll` are `Session.Stop`,
`WaitReturns` is the wait goroutine.  `Unkillable` are processes on which SIGKILL
has no effect, `Foreign` those among them that the server may not signal (EPERM).
Manager uses Session's outcome: `StopReturns` leaves the group dead, or, with
`StopMayFail`, as it was.

### EventStream

`PublishBegins` and `PublishTo` are `Publish`, one subscriber at a step, with the
read lock held from the first to the last; `Connect` and `Leave` are `Subscribe`
and `Unsubscribe` under the write lock.  The handler is `upgrade`, `select`,
`write` or `leave`; `ReaderEnds` closes `disconnected`.  An event is the publisher
and a number, so order and loss can be told; `seen` and `dropped` are history.
A handler whose subscription is refused answers 503 and changes nothing, so it is
not a step.

### CecBridge

`on_command` is one step for each message it knows (`TvReportsOn`, `TvStandby`,
`AvrReports`, `ActiveSource`, `RoutingChange`) and `Push`, because `push_state`
takes the lock a second time; `ReceiveCommand`, `PowerOn`, `SetSource`,
`CheckStandby` and `TransmitStandby` are the socket thread, which transmits outside
the lock; `Deliver` and `Lose` are a posting thread and the server's handler.
`NewClient` is `cec.New` with or without `initial_state_active`.  A server that
restarts keeps whatever posts are still on their way to its address.  `pushed`,
`local`, `lastTv` and `heardOff` are history.

### Idle

`pc` is where the UI thread is: between frames (`run`), in the call of `M.reset`
(`reset`), in one of the calls of `M.update` (`activate`, `get`, `standby`), or
before the timer and the view.  `elapsed` is the time since the last frame,
blocking calls included; it becomes the `dt` of the next frame.  `Activate` is
`Client.Activate` with its throttle.  `reliable` says whether the server answers in
time; when it does not, a call may fail before or after the server has acted, and
the server may restart (`ServerRestarts`), with a new throttle and a new state.
`frame` also remembers whether the display was blanked when the frame began.  `leaked`, `taken` and `throttled` are history: the view got a
waking input, the bridge got an activate, a retry was answered 200 with nothing
sent.
The unit of time is what the instance makes of it: only comparisons of durations
matter.

### Audio

`thread[t].pc` is where a goroutine is: before `wpctl get-volume` (`read`), before
the lock of the sink cache (`name`), in `wpctl inspect` with the lock held
(`fetch`), before a `wpctl set-…` (`set`).  Every request and the monitor's poll go
through `GetVolume` = `ReadVolume`, then `CachedName`, or `LockCache` and `FetchName`;
`Write` is `SetVolume`, `SetMute` or `ToggleMute`, after a reading of its own for
`AdjustVolume`.  With the name at hand `parseVolume` may still refuse the reading
(`Unparsed`); otherwise `Parsed` is what the caller does with the state: go on to
write, answer, or publish.  `Finish` is either of them.  `wpctl` may fail at every call, and another program may turn
the volume or move the default sink between any two (`Outside`).  `Tick` is the
interval of the monitor; the cache's TTL is counted in it.  `away` and `before` are
history: when each sink was last the default one, and what a request or a poll
found when it began, as long as nobody else has changed it.

### LaunchCommand, Daemon

`LaunchCommand` has no state: `SplitExec`, `GamescopeArgs` and `AppArgv` are
gamescope.go; `LuaArgs`, `BuildArgv`, `ShellQuote` (with `Escape` for one character)
and `BuildCmd` are the UI's gamescope.lua and standalone.lua; `ShellWords` is the
external shell that takes the UI's line apart.  A text is a sequence of symbols,
since the scanners work character by character: `SplitStep` is one turn of the loop of
`splitExec`, `ShellStep` what a POSIX shell does with one character, `SplitScan` and
`ShellScan` apply them to each prefix of a text.  A shell does more with a line than
take words from it.  `ShellMore` marks where it does: expansions (`$`, backquotes, `~`,
globs, braces), operators, newlines and comments; `Leading` are the assignments and
reserved words that mean more in the first word.  `ShellWords` is the words of a line
that is one simple command and nothing more, and `Failed` for any other line, so no
result is claimed for what the model does not follow.  The marks err on the side of
`Failed`: a `{`, a `~` or a `$` that some shell would leave alone in its place is
marked too, and so is each character of `Leading` anywhere in the first word.
An entry is a member of `App`.
Absent fields are kept apart from zero and empty ones, because Go and Lua fill
them in differently.

`Daemon` is `main` as a sequence of steps, each of which may be the last:
`LoadConfig` (read, `applyDefaults`, `resolveAPIKey`), `CreateKey` and `WriteKey`
(`os.WriteFile` opens the file and then writes), `Validate`, `LoadApps`, `NewRouter`
(which copies the key and starts with the optimistic CEC state or not), `Listen`.
`Exit` is `os.Exit(1)`, `Crash` any other end; both forget everything but the disk.
`Request` is one request to any route, with or without the key in header and
query, from this machine or another; `Admitted` is `authMiddleware`, `Codes` the
answers of each handler, `Launch` those of `postLaunch` with the argv that is built.
`known` is history: the key with which the daemon first listened, which is what
clients have been given.

## 3. Runs

Every property of a passing run has a mutant in `PROJECT.json`: a plausible bug in
one definition (next to it in the module) that makes TLC find the property
violated.

| run | instance | question |
|---|---|---|
| `manager` | 2 apps, 2 handlers, 3 sessions, 1 retry | the other safety properties and the refinement, for launches and stops that overlap with each other, with exits and with retries |
| `manager_live` | 2 apps of which one never executes, 1 handler, 2 sessions, stops that fail | transitional states end, exits are noticed, the manager keeps trying and is never stranded |
| `session` | a leader, one obedient descendant, one stuck in the kernel, one foreign; 2 + 2 polls | what `nil` and an error of `Stop` mean, and that it returns |
| `event_stream` | 2 publishers with 2 events each, 2 clients, 1 place, buffers of 2 | what a client gets, and who waits for whom |
| `cec_bridge` | host PC and TV, AVR, 2 posts at a time, lost posts, restarts, all commands | what an optimistic server can come to believe |
| `idle` | timeout 3, poll 3, throttles 2, grace 3, frames of up to 2 | waking inputs, retries, blanking, external wakes |
| `audio` | 2 handlers, the monitor, 2 sinks, levels 0 to 2 and one above, TTL 2, 2 requests, 1 outside change or failure | what answers and events say of the sink |
| `daemon` | every source of the key (present, empty, blank), 3 kinds of broken file, CEC settings, all command lines of up to 4 symbols from a letter, blank, quotes and backslash and of 3 with a tab, newline, `#`, `$`, `;` or `=`, 264 pairs of gamescope tables, 2 crashes | who is served, recovery, the same command in both programs |
| `single_slot`, `stop_reaches_launch` | 1 app, 1 handler, 3 sessions | violated: see section 6 |
| `correct_once_events_arrive` | nothing lost, no commands | violated: see section 6 |
| `retries_until_done` | as `idle` | violated: see section 6 |

Why the bounds suffice.

- *Manager.* Two handlers and the watch goroutine give three overlapping drivers,
  more than the code ever intends; three sessions allow a current one, one being
  stopped and one being probed.  A pool that is used up fails the fork, which is a
  path of the code.  One retry exercises both branches of the loop (retry, give
  up).  Apps, handlers and sessions are symmetric in the safety run; the liveness
  run uses no symmetry.  `MaxRetries`, `Sessions` and `Handlers` are arbitrary in
  the proofs.
- *Session.* Two polls before each deadline tell the first from a later one.
- *EventStream.* A buffer of two has room, order and overflow; with one place
  the second client is refused until the first one has left; two events of each publisher make
  order visible and, with two publishers, fill the buffer.  Several subscribers
  at a time are covered by the proofs.
- *CecBridge.* Two posts suffice for reordering.  `Others` is empty in the passing
  run (the TV is the other source) and has a player in the violated one.  The
  commands come in any order and number.
- *Idle.* Every duration is longer than a frame of 1 and within two frames of 2,
  so timers expire early, late and together.  `MaxElapsed < Grace` is the premise
  of `AbsorbedInQuickFrames`; without it the property fails (section 6).  The wlopm
  mode (no calls) and other durations are covered by the proofs.

- *Audio.* Two requests overlap with each other and with the monitor; one more
  would only repeat.  One change from outside or one failure may fall between any
  two steps; a requested level above the limit and one below it, and a level that another
  program has set above it, exercise `clamp`.  A TTL of two polls has entries that
  are fresh, about to expire and expired.  The proofs hold for any numbers.
- *Daemon.* The disks vary in one respect at a time, since the steps of `main` that
  read them do not depend on each other.  Two crashes reach a crash while the key
  is made and another after it has been used.  Four symbols are enough for a
  quotation with something in it beside another word; the tables leave each field
  out, repeat its default or change it.  Bad clients try a wrong key, no key and the
  one in an old key file.  `NewKeys` has two keys, so a second draw would show.

`CHECK_DEADLOCK FALSE` is given for `session` (a returned `Stop` with every process
gone is the end) and `event_stream` (the publishers have sent their last event and
the clients have gone or wait).

## 4. Fairness

- *Manager.* Go's mutex hands itself to a goroutine that has waited for a
  millisecond (starvation mode), so every goroutine that waits for `m.mu` gets it
  however often others take it: strong fairness for `Locking` and `Watch`.  Timers
  fire, exec answers, and `Session.Stop` is bounded (`StopEnds` in Session): weak
  fairness for `Starting` and `StopReturns`.  Requests and processes are not fair.
- *Session.* The poll loop is one goroutine that sleeps and polls: weak fairness.
  The processes are not fair.
- *EventStream.* Publishers and handlers run: weak fairness.  A `select` with two
  ready branches picks at random, hence strong fairness for `Disconnected`;
  `sync.RWMutex` blocks new readers while a writer waits, hence strong fairness
  for `Leave`.  `Written` is not fair: a client need not read.  `ReaderEnds` is
  fair once the client is *gone*, that is once TCP has noticed; when it does is
  not in the code (there is no deadline).
- *Idle.* The main loop goes on and time passes (`WF(Loop)`, `WF(Tick)`).  Inputs,
  pushes, and the bridge and server coming or going are not fair; `RetriesUnlessThrottled`
  and `ExternalWake` assume in their statements that they settle.

- *Daemon.* `main` goes on, and systemd starts the daemon again two seconds after
  it has ended (`Restart=always`, nix/modules/home-manager.nix:448, which stays
  below systemd's limit of five starts in ten seconds): weak fairness for `Boot`.
  Requests and crashes are not fair, and crashes are bounded: under endless
  crashes nothing comes up.

CecBridge and Audio have no liveness property.  The posts of the bridge are never
repeated, so nothing must eventually happen; what the monitor achieves is stated
of each poll (`MonitorCatchesUp`), since polls end unless `wpctl` hangs.

## 5. Proofs

All theorems hold for every value of the constants that satisfies the named
assumptions (programs, threads and addresses are distinct, durations are natural
numbers, polls, buffer and cap are positive, fault flags are Boolean).

- **ManagerProofs.**  `Inv` = types ∧ `CurrentIsWatched` ∧ `RefsApart` ∧ `ProbesGoal` ∧
  `AppMatchesProcess` ∧ `NeverStranded`.  `KillersApart` is not inductive by itself:
  `RefsApart` says of every reference to a session, in probes too, that it is the
  only one and not the current session.  `AppMatchesProcess` needs `ProbesGoal` (the probed
  session runs the goroutine's program).  These five hold also after the race of
  section 6 and with failing stops.
  Until `raced`, `Calm` = `Alone` ∧ `StateTells` ∧ `LeadersKept` ∧ `EventTells` is
  inductive on top of `Inv`; `Alone` (one driver, none while the slot is taken) is what
  the other three rest on, since a second driver could overwrite the state.  From
  it: `OneDriver`, `StateMatchesSlot`, `NoStrayLeader`, `LastEventIsCurrent`;
  `OneLeaderAlways` (without the race and with stops that succeed there is at most
  one running leader); and `Refinement`, in which each action is mapped to a step of
  ProcessSlot or a stutter.
- **SessionProofs.**  `Inv` = types ∧ `NilMeansGone` ∧ `BeyondKill` ∧ `ResultKnown`, for any
  number of processes and polls.
  `BeyondKill` extends the property from the return to the whole phase after
  SIGKILL: with no unkillable process ever born, nothing is alive, so nothing forks.
- **EventStreamProofs.**  `Inv` = types ∧ `Underway` ∧ `Places` ∧ `NoSendOnClosed`;
  `NoSendOnClosed` rests on the read lock (`NoReader` guards `Leave`), `Places` adds
  that the set of subscribers is finite.  `InOrder` needs `OrderInv` on top: what is
  on its way to a client is also no newer than what its publisher has published,
  less the event that a running `Publish` has yet to queue there, so an appended
  event is newer than all before it, and a client that subscribes in between gets
  nothing twice (`Connect` waits for the publishers).  `LostOnlyWhenFull` is the other
  half of the same picture: `NoGaps` says that what is on its way to a client that has
  never lost anything has no holes between the last event it got and the newest one
  it can have been sent.  An event is published to it at the end (`CoversAppend`) and
  written from the front (`CoversTail`), where `InOrder` makes the first one the next
  that is due.
- **CecBridgeProofs.**  `Inv` = types ∧ `BridgeInv` ∧ `PostsInv` ∧ `ServerInv`.  What
  holds of the server must hold of every snapshot on its way, and so of the
  bridge's own variables at every `Push`; `DedupHidesNothing` is part of `BridgeInv`.
- **IdleProofs.**  `Inv` = types ∧ `AbsorbInv` ∧ `PendingNeverBlanks`.  `Absorbing` follows
  the waking input from the callback (the grace period has just begun) through the
  frame that will look at the queue.

- **AudioProofs.**  `TypeCorrect`, with the mutex held by exactly the goroutine that
  fetches.  `NamesAreFresh` needs `CacheHonest`: the cached sink was the default one no longer
  ago than the entry's age.  `AnswersAreExact` and
  `MonitorIsUpToDate` follow a request or a poll from its beginning (`Sees`): as long as
  `before` is kept, the sink is as it was then, but for the request's own write, and
  the reading is of that state; for the name, that a cached one can only be the
  default sink's when no other was the default within the TTL.
- **DaemonProofs.**  `Inv` = the disk's type ∧ `Making` ∧ `Loaded` ∧ `Validated` ∧ `Wired` ∧
  `Told` ∧ `Serving`.  Its centre is `Told`: once clients have been told a key, the disk leads
  every later process to the same one; `Making` keeps it, since a key is only made on
  a disk that has none.  `OnlyTrusted` adds that a key that passed `Validate` is not empty,
  so a request without a key never matches.  They hold for every disk and any
  number of crashes.  `SameCommand` needs `Launched` on top (an answer that names an
  app carries the argv of the one app with that id, and only a daemon that is up
  answers), and then follows from `SameWords`.  `TypeCorrect` has a part for the disk,
  one for `main` and one for the answers; the argv in an answer is typed by
  `ArgvType` of LaunchProofs.
- **LaunchProofs.**  `SameWords`: for every entry that says enough and whose argv the
  server can build, a shell takes the UI's line for one simple command and nothing
  more, and its words are those of `AppArgv`, for texts of any length.  What says enough
  (`SaysEnough`) leaves out every `exec` that is more to a shell than its words, and a
  filter or scaler with any such character in it; the flags in `args`, which the UI
  quotes, may hold anything.  The scanners are runs of a step over a
  text, so the proofs are by induction over its prefixes.  The library's induction
  and recursion theorems take an operator as a parameter, which the provers cannot
  instantiate; `SetInduction` derives induction over the naturals for a *set* from the
  well-founded minimum (`WFMin`), and `Recursion` derives from it that a recursion has a
  solution, which is what the `CHOOSE` behind a recursive function needs.  From there:
  1. `AfterBoth`: the shell's state after `s \o t` is its state after `t`, begun where `s`
     ended; `WordsBehind`: what it has read before only stands in front.
  2. `ReadsPlain`, `ReadsQuoted`: the shell reads an option, and a text in
     `shellQuote`'s quotation, as exactly that one word and nothing more; the second
     one for every text, apostrophes, blanks, backslashes, `$` and operators included.
  3. `JoinedWords`: the line of such parts, joined with blanks and followed by any
     text, is read as those words and then the words of that text.
  4. `SplitAsShell`: on a text without backslash and tab which is only words to the
     shell, none of them empty, `splitExec` reads the same words.  The invariant
     (`Agree`) relates the two states after each prefix.
  5. `SameArgs`: on a table that says enough both programs list the same options.

`TextAssumption` of LaunchCommand says that the words both programs write out
(`"-f"`, `"1920"`, ...) are strings.  It is true of any instance; it is stated since the
proof system has no axiom for a string that is written out.

Every safety property of a passing run is a theorem, and so is the refinement.
Only model-checked is liveness: `BusyEnds`, `ExitIsNoticed` and `KeepsTrying` of
Manager, `StopEnds` of Session, `PublishEnds` and `SlotFreed` of EventStream,
`RetriesUnlessThrottled` and `ExternalWake` of Idle, `RecoversOnceUp` of Daemon.  They need
fairness and `ENABLED`, which these provers do not reason about.

## 6. Disagreements between code and words

Checked by a run that expects a violation, quoted in `PROJECT.json`:

1. `single_slot`.  `watch` releases the mutex to stop the orphans of an exited
   process and then calls `launchUI` unconditionally (manager.go:289-303).  A
   launch accepted meanwhile starts its app; then the UI is started beside it and
   the app is no longer known to the manager.
2. `stop_reaches_launch`.  During the back-off of a launch `m.current` is nil, so
   `Stop` returns without effect (manager.go:160), against manager.go:237-239.
3. `correct_once_events_arrive`.  A bridge that did not see the TV turn on treats
   its standby as a duplicate (launchscope-cec.py:189); an optimistic server keeps
   saying that the TV is on, against cec.go:36.
4. `retries_until_done`.  `Client.Activate` notes the time before it sends and answers a
   throttled call like a successful one (cec.go:75), so the launcher stops retrying
   although nothing was sent, against cec/README.md:45.  `RetriesUnlessThrottled`
   holds: nothing but a throttled answer stops the retries early.

Seen while modelling, without a run of their own.  In the manager and the audio API:

- In the window of `single_slot`, `Status` pairs `app_running` with no app
  (manager.go:289-297), cf. manager.go:105-106: `StateMatchesSlot` exempts it.
- The check after the back-off only knows `launching` and `starting`, but `launchUI`
  is also called in `stopping`, `ui_running` and `app_running`, so these UI starts
  are given up after one attempt although nobody took over (manager.go:240, cf.
  manager.go:237-239); the two-second goroutine makes up for it (`KeepsTrying`).
- A `Session.Stop` that gives up is only logged (manager.go:266-267), and the next
  program starts beside the survivors: `OneLeaderAlways` assumes that stops succeed.
- Two relative changes of the volume that overlap both start from the same reading,
  and one of them is lost (pipewire.go); `AnswersAreExact` says what a request
  achieves when nobody else changes the sink meanwhile.
- The API docs call the start of a process asynchronous (server/docs/API.md:44), but
  `postLaunch` answers when the probe window has passed (manager.go:114-154).

In the configuration and the launch commands:

- `cec.initial_state_active` and `cec.activate_on_start` default to true in
  server/docs/Configuration.md:26-27 and config.go:40-41; `applyDefaults` only
  applies the port (config/loader.go:57-62), so both are false when left out.
- `fullscreen` is "default true when enabled" (apps.go:16), and so it is in Lua, but
  Go adds no `-f` when it is left out.  `enabled` left out of a table means yes to
  Lua (gamescope.lua:5) and no to Go; a filter without a scaler at equal sizes gets
  `-S auto` from Lua (gamescope.lua:63) and no `-S` from Go.  A size of 0 and an empty
  filter are absent to Go and present to Lua.  `SaysEnough` lists all of these, so
  "matches exactly" (apps.go:12) holds only for entries that leave none of it open.
- In `exec`, the UI's line goes to `sh -c` (standalone.lua:38-40) and the server's to
  `splitExec`, which knows blanks and quotes and does "no variable expansion"
  (gamescope.go:127).  So `$VAR`, `~`, `* ? [`, `; & | < > ( )` and backquotes, a
  comment, a tab or newline, `VAR=x` before the command, a reserved word, a backslash
  and an empty quotation mean something to the one and are text, or nothing, to the
  other.  The same holds for a filter or a scaler, which Lua puts on the line without
  quotes.  `SaysEnough` leaves all such entries out.
- An `exec` of blanks passes `validate` (apps/loader.go:67) and fails only after the
  current process has been stopped.
- A key file is created and then written (config/loader.go:110): a crash in between
  leaves it empty, and every later start is refused by `Validate` until somebody
  deletes it.
- The loaded value is stored before `Validate` sees it (config/loader.go:34-41), so
  `Current` is not "the last successfully loaded Config" (config/loader.go:47);
  `main` ends before anybody reads it.
- "Exactly one of `value` or `delta`" (server/docs/API.md:78): both are accepted and
  `value` wins (handlers.go:122-126).
- `postLaunch` recognizes an unknown app by comparing messages; an id that `%q` has to
  escape is answered 500 instead of 404 (handlers.go:74, `Escaped` in Daemon).
- An event or an answer may pair the volume of a new default sink with the name of the
  old one for up to the TTL (pipewire.go:81), cf. monitor.go:15-17: that is the
  premise on `away` in `MonitorCatchesUp`.

In the bridge and the user interface:

- Snapshots are posted by unordered threads (launchscope-cec.py:272), so an older one
  can arrive last and stay, cf. cec.go:24-25.
- `do_set_source` changes the source without a push (launchscope-cec.py:326), and the
  event that would confirm it is then a duplicate, cf. cec/README.md:30.
- `do_standby` checks the active flag and transmits after releasing the lock
  (launchscope-cec.py:331-340), cf. cec/README.md:89.
- The retry that is answered ends the pending phase before the GET of the same frame
  (idle.lua:185, 202), so a state that is still zeroed blanks the display, cf.
  idle.lua:204-206: `PendingNeverBlanks` only speaks of the pending phase.
- `avr_on` is pushed as `false` without an AVR (launchscope-cec.py:251), cf. cec.go:19.
- A slow client whose buffer is full is left with a stale last state (bus.go:82), cf.
  server/docs/API.md:197.
- A frame as long as the grace period lets the waking input through (idle.lua:168), cf.
  idle.lua:37-38: that is the premise of `AbsorbedInQuickFrames`.
- SIGKILL is sent after a sleep without looking at the group again
  (session.go:119-120).

## 7. What is left out

- Durations as such: 200 ms, 2 s, 3 s are orders of events, or small numbers in
  Session and Idle.
- Data without influence on control: environment variables, argument strings, JSON,
  log lines, the exit error, icons and names.
- Process ids that the kernel gives away again.
- In CecBridge: key forwarding (`on_keypress`), volume commands, reconnection of
  the adapter.  In Idle: the dim overlay and the cursor.  In EventStream:
  conversion of payloads, ping frames.
- Rendering, fonts, sound, shaders, the JSON parser and the Nix modules: no state
  that a property of the system is about.
- In Daemon: the loss of unwritten data with the machine (the file system keeps what
  was written), two daemons at once, and a config that is edited while it is read.
  Requests are served one at a time, since none of the state here is changed by
  one.  A crash while the key is written leaves it empty or whole, never cut off.
  `WriteJSONAtomic` and `ReadJSON` (loader/loader.go:77-131) have no caller.
- In LaunchCommand: what a shell makes of a line that is more than the words of one
  simple command (`ShellWords` fails), which command a word names (a builtin, a
  function, a path), NUL, and the wrapper around the line (`sh -c '… & echo $!'`).
- In Audio: the two decimals of `wpctl`'s reading (a volume is a number of its steps),
  and a `wpctl` that never returns, which would hold the cache's lock for ever.
- Not modelled yet: the components of the plan below.

## 8. Plan

Done: `ProcessSlot`, `Manager` (first, since everything else serves it), `Session`,
`EventStream`, `CecBridge`, `Idle`, `Audio`, `LaunchCommand`, `Daemon`, and a proof
module for each; `ProcessSlot` is what `ManagerProofs` shows that Manager implements.

To come, in this order:

1. `Modals` and `Input`: the modal stack under queued inputs and callbacks that pop
   it, latches that survive a flush.
2. `Launcher` and `HomeAssistant`: clients with timeouts against an abstract server
   (`ProcessSlot` with its answers): what each may conclude from 200, 409, a
   timeout, and a late answer.
3. `Standalone`: a local app, its pid, polls and stop.
4. Compositions: Manager with EventStream (does a client that lost nothing agree
   with `Status`?), and Idle with CecBridge (from the TV's event to the display).
   The latter replaces `BridgePushes` of Idle by the bridge.
5. Extensions: `on_keypress` in CecBridge; an unusable UI path in a run of Manager.

These would take the place of properties that the proofs already cover for every
instance.
