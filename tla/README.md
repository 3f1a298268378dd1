# UNO Q Codex Matrix: TLA+ models, checks and proofs

The repository turns the lifecycle hooks of Codex sessions into one state on the
LED matrix of an Arduino UNO Q. This directory holds TLA+ models of that
pipeline, the TLC runs that check them on small instances, and proofs checked by
TLAPS. Every definition is translated from the source; `PROJECT.json` names the
lines each one stands for. Paths below are relative to the repository's root.

## 1. Inventory

### The pipeline

```
Codex -> hook processes -> (datagrams) -> daemon -> (RPCs via Router) -> sketch -> pixels
             events.py                    sources.py   daemon.py   bridge.py     .ino, animations.cpp
             native hook.c                aggregate.py
                                          quota.py (threads, child process)
                                          control.py / cli.py (local commands)
```

| Component | State it keeps | Operations | Talks to |
|---|---|---|---|
| Vocabulary (`protocol.py`, `protocol.h`) | none | state numbers, priorities, event categories | everything |
| Hooks (`native/*.c`, `hook.py`, `events.py`, `classify.py`) | none; one short process per lifecycle event | read stdin, normalise, stamp with the monotonic clock, one non-blocking `sendto` | daemon, by datagram |
| Event source (`sources.py`) | the datagram socket and its path | `open`, `receive`, `close` | daemon loop |
| Aggregator (`aggregate.py`) | `sessions`, `_completions`, `_ended`, `_seen` | `process`, `tick`, `snapshot`, `_expire`, `_remember` | called by the daemon loop |
| Daemon (`daemon.py`) | demo, override, last display, time of last attempt, retry time, clients, `running` | loop, `_publish`, `_display_state`, control commands, signals | all of the above |
| Router client (`bridge.py`) | connection, decoder, request ids | `request`, `publish` (six RPCs) | Router, board |
| Sketch (`unoq_codex_matrix.ino`) | staged updates, displayed and requested state, ages, crossfade, frame clock | seven RPC callbacks, `loop` | Router, renderer |
| Renderer (`animations.cpp`) | none | pixels for a state and an age | sketch |
| Quota source (`quota.py`) | latest snapshot, child process, two threads | poll, retry, `current`, `close` | daemon, Codex app server |
| Control (`control.py`, `cli.py`, the client side of `daemon.py`) | control socket, `clients` with a buffer each | one request, one answer, per connection | daemon, by socket |
| Configuration (`load_config`) | none | read, check, repair | daemon |
| Hook installers (`install-hooks.py`, `uninstall-hooks.py`) | `hooks.json`, `config.toml`, backups | back up, merge, replace | Codex, by its files |
| Remote recovery, packaging (`scripts/`, `systemd/`) | files, services | install, restart | host |

### What is hard

* **Order.** Hooks are separate processes: each reads the clock, then sends.
  Nothing orders two of them, so datagrams of one session arrive late, out of
  order, repeated or never.
* **Three guards, one clock.** What turns a late datagram away is first the
  session's record, then a tombstone, then the daemon's timestamp window; each
  expires by its own comparison (`<`, `<=`, `>=`, `>`) with the same duration.
* **One fact kept twice.** A SUCCESS session and its completion lease hold the
  same expiry, and each is changed by code that must not forget the other.
* **Six RPCs, one publish.** Any of them may fail before or after it took
  effect; the board may reset, or the daemon crash, between any two.
* **Skipping what is already shown.** `last_display` is a belief about another
  machine, and it may be wrong when a publish is skipped because of it.
* **Clocks that wrap.** The sketch's ages are differences of a 32-bit counter.
* **Callbacks between iterations.** The sketch stages whatever calls arrive and
  applies them in a fixed order.
* **Signals.** SIGTERM may arrive at any instruction.
* **Three threads and a child.** The quota poller, its reader and `close()` share
  a child process that may answer anything, or nothing, or refuse to end.
* **One classification, two programs.** The native hook and the Python reference
  decide in different ways what a tool call is shown as.
* **A connection kept from call to call.** Answers come late, twice, or behind
  frames of others; ids wrap.
* **Paths shared by daemons.** A socket file outlives its process, and any daemon
  removes whatever it finds at the path.
* **One thread for all clients.** Half a request must not stop the others.
* **Two files, several writers.** The hook scripts read, compute and replace while
  Codex and the user may write, and may be killed between any two steps.

### What makes each part correct

* Aggregator: events of a session take effect in the order of their stamps
  whatever the order of arrival; an ended session stays ended; a repeated hook
  counts once; record, lease and tombstone agree; timers run out and only ever
  lower the urgency of what is shown.
* Daemon and board: after any disturbance the board shows the right display
  within a bounded calm time; a belief that is wrong is not trusted for longer than
  a heartbeat interval; a healthy board never falls to OFFLINE; a request to stop
  is honoured.
* Sketch: what it displays is exactly the last request, or OFFLINE after a
  silence; a change is drawn when it is made; crossfades end and are cut short by
  urgent states; all of it across the wrap of `millis()`.
* Quota source: an answer counts only for the request it was given to; a request
  ends in time; children never overlap; nothing outlives `close()`; the bar does
  not vanish while all goes well.
* Classification: both programs agree; the most important part of a compound
  command wins; wrappers change nothing.
* Router client and control client: a call ends in time with its own result, or
  fails, and a failed call may still have been carried out (`Rpc`).
* Control server: whoever completes a request is answered or loses the
  connection; while there is one daemon the paths lead to it, after any crash.
* Hook installers: after an installation each event has the handler once, after a
  removal none, in both files together; what others have there stays; what was
  replaced can be restored.
* Configuration: what is out of range or does not fit is replaced, so that the
  daemon starts with times that fit each other. (It does so for all files but two
  kinds: section 6.)

## 2. Modules

| Module | Models | Used by |
|---|---|---|
| `MatrixProtocol` | states, priorities, event categories and the states hooks attach to them | all |
| `SessionLedger` | abstract specification: one register per session, written in stamp order, fading in between | `Aggregator` (refinement) |
| `Aggregator` | hooks, datagrams in flight, timestamp window, the whole of `SessionAggregator` | `MCAggregator`, `AggregatorProofs` |
| `Firmware` | the sketch: callbacks, staging, `loop`, clock, frame deadline | `MCFirmware`, `FirmwareProofs` |
| `Publisher` | the daemon's loop, display decision, publish sequence, commands, signals, crashes, and the board behind the Router | `MCPublisher`, `PublisherProofs` |
| `QuotaSource` | poller, readers and `close()` of the quota source, and the child processes | `MCQuotaSource`, `QuotaProofs` |
| `CommandWords` | what can be told about the words of a command, and the shape of a loop over them | both classifiers |
| `ReferenceClassifier` | `classify.py` and the failure rules of `events.py` | `HookClassifiers` |
| `NativeClassifier` | the same in the native hook | `HookClassifiers` |
| `HookClassifiers` | all invocations both are given, how they must agree, and the differences it assumes away | `MCHookClassifiers`, `HookClassifiersProofs` |
| `Rpc` | abstract specification: what a caller of a remote command may rely on | `RouterClient`, `ControlServer` (refinement) |
| `RouterClient` | `RouterBridge.request` over a kept connection, and the Router behind it | its `.cfg`, `RouterClientProofs` |
| `ControlServer` | daemons that open and close the runtime sockets, the clients of the control socket, and systemd | `MCControlServer`, `ControlServerProofs` |
| `HookLayer` | the two hook scripts on the user's files | `MCHookLayer`, `HookLayerProofs` |
| `DaemonConfig` | `load_config` and the constructors that use its result | `MCDaemonConfig`, `QuotaProofs` |
| `AggregatorProofs`, `FirmwareProofs`, `PublisherProofs`, `QuotaProofs`, `RouterClientProofs`, `ControlServerProofs`, `HookLayerProofs`, `HookClassifiersProofs` | the theorems about the module they are named for, with their proofs; `QuotaProofs` also those about `DaemonConfig` | |
| `MCAggregator`, `MCFirmware`, ... | values for small instances | the `.cfg` files |

### Aggregator

`now` is the monotonic clock, shared by hooks and daemon as on one host.
`inflight` is the set of datagrams stamped and not read. `sessions`,
`completions`, `ended` and `seen` are the four tables of `SessionAggregator`;
`seen` is a sequence because the code uses the order of an `OrderedDict`.
`applied` is a history variable: per session, the last event that took effect.

| Code | Action or operator |
|---|---|
| hook process: clock, then `sendto` | `Hook(i)`; a send that fails, `Lose(e)` |
| `_receive_events`, window check | `Reject(e)`, `Receive(e)` |
| `process`: duplicate, session_end, the rest | `ProcessDuplicate`, `ProcessEnd`, `ProcessActivity`, all after `_expire` |
| `_expire` | `LiveSessions`, `LiveCompletions`, `LiveEnded`, `LiveSeen` |
| `_remember` | `IsDuplicate`, `MovedToEnd`, `Remembered` |
| `tick`, and the expiry in `snapshot` | `Tick` |
| the choice in `snapshot` | `Snapshot` |

`process` calls `_expire` first, so every outcome is stated over the `Live...`
tables. A repeated key moves to the back of the cache with its old receipt time,
as `move_to_end` does. `Absent` stands for a missing key, `Never` for `None` in
an expiry. Turn and tool identifiers are one value, `ref`: only their equality
matters. Identifiers carried for reports (`turn_id`, `previous_state`) are left
out.

### Firmware

`mcu` is the record of the sketch's globals, `pending` the staged updates,
`frame` what the pixels were last rendered from. All ages are differences modulo
`Wrap` (2^32 in the sketch). `Loop(d)` is one whole iteration: read `millis()`,
apply what is staged in the order of the code (invalid state, state, brightness,
quota, heartbeat), choose the displayed state, end a crossfade, draw if a frame
is due. `SetState`, `SetInvalidState`, `Heartbeat`, `SetBrightness` and
`SetQuota` are the callbacks. `silence` and `latest` are history: real time since
a sign of life was taken in, and the state asked for last.

### Publisher

`pc` is where the daemon's thread is: in `setup`, in `select`, or in one of the
six RPCs of a publish. Times are kept as ages and countdowns, so the model has no
absolute clock. `board` is what the firmware holds. `Visible`, the state an
observer sees, is what the `Firmware` runs establish of the sketch
(`DisplayTellsTheTruth`).

| Code | Action or operator |
|---|---|
| `_display_state` | `Display` (the answer), `AskDisplay` (what asking changes) |
| `_publish` | `MayPublish`, `BeginPublish`, then `RpcSucceeds`, `RpcFails` or `RpcUnknown` per RPC; `PublishFails` is the except clause |
| `RouterBridge.publish` | `NextRpc`, `Effect` |
| one turn of the loop in `run` | `Iterate`, or a command (`ControlSet`, `ControlDemo`, `ControlDoctor`, `ControlStatus`) and then `Iterate` |
| `stop` by signal, death, systemd | `Terminate`, `Crash`, `Restart`, `Run` |
| hooks, timers, quota poller | `WishChanges` |
| power, reset or reflash of the board | `BoardResets(bar)` |
| the Router, after the client gave up | `LateEffect` |

An RPC that fails was lost, was executed and answered too late, or is still with
the Router and takes effect later, behind newer ones (`late`, one at a time). The
board may come back with a firmware that has no quota bar, while the publish in
progress still goes by the version it read before; such a method fails with
`RpcUnknown`. Every action that is not the daemon's own routine counts against
`MaxDisturbances` and resets `calm`.

### RouterClient and Rpc

`Rpc` is the contract: one call is open at a time; it returns the result of its
own execution or fails; one that failed may have been carried out, may be carried
out later behind newer ones, or never; none is carried out twice. `RouterClient`
is shown to implement it: `phase` is where `request()` is, `wire` what the Router
has sent and the client has not read, `buffer` what the unpacker holds, `held` the
requests that the Router has and the board has not. A frame stands for the bytes
of one MessagePack value and a chunk for a number of frames.

| Code | Action or operator |
|---|---|
| `request`: id, reuse of the connection | `Call`, `Drawn`, `IdOf` |
| `_connect` | `Connect`, `ConnectRefused` |
| `sendall`, deadline | `Send`, `SendBroken` |
| `recv` and the loop over the unpacker | `Receive(n)`: `ReceiveAnswer`, `ReceiveOther`, `ReceiveFails` |
| the except clauses | `Fails`, `TimesOut`, `Disconnected` |
| `close` | `Closed`, `Close` |
| the Router (external) | `Execute`, `Refuse`, `Stray`, `HangUp` |

`Publisher` takes an RPC as one step with these outcomes; it is not instantiated
from `Rpc`, because there the RPC in flight and the board are one machine.

### ControlServer

`path` says whose socket is at each of the two paths, `stale` meaning a file that
no process holds. `pc` is where a daemon is, from the first look at the event
socket to the end of `close()`; `batch` is what `select` returned and the loop has
not handled yet. `link` has a record per connection: in the backlog or accepted
(`open`), how many of the request's two chunks were sent and read. Of two daemons,
one is the service, restarted when it fails and whose runtime directory is
removed when it ends; the other is started by hand.

| Code | Action or operator |
|---|---|
| `CodexHooksSource.open` | `LookAtEvents`, `UnlinkEvents`, `BindEvents` |
| `setup`, `_remove_socket` | `RemoveControl`, `BindControl`; an error, `SetupFails` |
| `run` | `Select`, `LeaveLoop` |
| `_accept_client` | `AcceptClient`, `AcceptFails` |
| `_read_client`, `_send_response`, `_close_client` | `ReadPart`, `Obey` and `Answer`, `Refuse`, `ReadEnd` |
| `stop`, `close` | `Stop`, `BeginClose`, `EndClose` |
| `control.request`, `_call` of the command line | `Request`, `Connect`, `Send`, `Succeed`, `Fail`, `GiveUp` |
| systemd | `Restart`, `Cleanup` |
| death | `Kill` |

`Obey` and `Answer` are two steps, because the command runs between them and the
client may give up meanwhile.

### HookLayer

`json` and `config` are the two files, abstracted to what the scripts tell apart:
per event a sequence of groups of handlers, and of `config.toml` the handlers of
others, the block between the markers and handlers of ours outside of it. `read`
is what a run has read and is going to replace. `Inhabited` is the list
comprehension that leaves out groups without handlers; it is written by positions,
not by recursion, so that it can be proved about.

| Code | Action or operator |
|---|---|
| `main` of the installer, of the uninstaller | `Install`, `Uninstall` |
| `timestamp`, `backup` | `Stamp`, `BackupJson`, `BackupConfig` |
| `install_json`, `uninstall_json` | `ReadJson`, `WriteJson`, with `InstalledJson`, `UninstalledJson` |
| `install_inline`, `uninstall_inline` | `ReadConfig`, `WriteConfig`, with `InstalledConfig`, `UninstalledConfig` |
| death of a run | `Killed` |
| the user, Codex | `RewriteJson`, `RewriteConfig`, `JoinGroup`, `ClearEvent`, `EditBlock` |

### DaemonConfig

A file gives each numeric field an integer, in tenths of a second, or `TooLarge`, a
number that `float()` cannot hold; a field that is missing or no number is one out
of range. `LoadConfig` replaces what is out of range by its default and then repairs
two pairs. `Load` is the call in `main`: on a file that is not `Loadable`, where the
conversion raises an `OverflowError` that nothing catches (`daemon.py:81`), the
process ends. `Construct` is `MatrixDaemon.__init__`, where two constructors check
the result again; `Restart` is systemd. What `json.load` may raise on a file of
absurd size or depth ends the process likewise.

### QuotaSource

`pc` is where the poller is, `timer` what is left of the wait it is in, `deadline`
what is left of the response timeout. `process` is `_process`, `child` what really
became of each child; the two differ between `Spawn` (Popen has returned) and
`Publish` (the lock is taken), which is where `close()` can miss a child. `pipe`
is what a child wrote and its reader has not put into `queue` yet. A line is
abstracted to what `_read_response` can tell of it: the answer to the present
request (`good` or `bad`), to an older one (`old`), noise, or the end of stdout.

| Code | Action or operator |
|---|---|
| `_run` | `CheckStop`, `AfterSession` (in `Clear`), `Retry`, `SpawnFails` |
| `_session` | `Spawn`, `Publish`, `WriteRequest`, `Pause`, `NextRequest` |
| `finally` of `_session` | `Teardown`, `Reap`, `Clear` |
| `_read_response` | `Await`, `GetNothing`, `GetLine` with `Answers` and `Skip` |
| `_read_stdout` | `ReaderMoves`, `ReaderEnds` |
| `close` | `Close`, `CloseLooks`, `CloseTerminates`, `CloseJoins`, `CloseKills` |
| `current`, `status` | `status` |
| the app server | `ChildWrites`, `ChildDies` (external) |

A tick passes only when every thread waits, so a thread is late by less than one
tick. `Popen` takes `SpawnTicks` at most: the code has no limit of its own there.

### Classifiers

A command is a sequence of words as they are written, and `Lexicon` says of each
word what either program can find out about it: its lower case, its file name,
whether it is an option, an assignment or a separator, and which words its text has
when it is a script for `sh -c`. A separator outside of quotes is one character, so
that `&&` is two words, as it is two tokens for the native hook; the empty segment
between them is nothing to either program. A newline behind a backslash is a word of
its own kind (`escaped`), a boundary for Python, which replaces every newline first,
and none for the native hook; `token` is a word as `shell_tokens` reads it, without
the backslashes inside of double quotes that `shlex` keeps. Tool names are sequences of the parts between underscores.
A JSON value is one of the kinds the failure rules tell apart. `AddWord` and
`AddField` build every invocation within the bounds, so each state compares the
two programs once more; `shown` is the native answer. An `unclosed` word is where
either tokenizer gives up; nothing is written behind it, because that would belong to
it, and no string of an array has one, because it would take in the newline that the
strings are joined by (`IsLine`).

The loops of the code that carry something from one word to the next are each a
function of that something and the word, and `Reading` runs it over the words:

| Code | Operator |
|---|---|
| `_unwrap` (`classify.py`), the first loops of `classify_segment` (`hook.c`) | `Unwrap`, `Skip`: one word, in one of six `Modes` (an assignment before the command, an option of `sudo`, its value, an option of `env` or of another wrapper, the program) |
| `_segments`; the cuts in `classify_shell` | `Segments`, a set; `SegmentTo`, a segment at each end |
| `_command_state`; the returns of `classify_segment` | `CommandState`; `IsFlashing`, `IsTesting`, `IsBuilding`, `ProgramState` |
| the loops of `classify_bash` and `classify_shell` | `Verdict` on the set of states observed; `Observe`, one state after the other |
| the recursion with `_depth`, `depth` | `ClassifyBash` and `ClassifyScript`; `ClassifyShell` and `NestedShell`: at depth 1 a script is not looked into |
| `shell_tokens`: what becomes a token, and failing on an open quote or a full array | `Tokens`, `Bare`, `GivesUp` |

## 3. Runs

| Run | Checks | Shows |
|---|---|---|
| `aggregator_life` | `TypeOK`, `NewestIsGuarded`, `LeaseAgreesWithSession`, `NoResurrection`, `KeyForgottenOnlyWhenOldOrFull`, `ImplementsLedger`, `TimersRunOut` | a session works, fails, stops and ends with datagrams late, lost, repeated and reordered, and a cache of two keys: nothing rolls it back or revives it, every timer runs out, every step is a step of `SessionLedger` |
| `aggregator_display` | `NewerEventIsApplied`, `DisplayRisesOnlyOnEvent` | two sessions: an event newer than all applied ones takes effect, unless a fade intervened; timers only lower the urgency on display |
| `firmware_sketch` | `CrossfadeIsBounded`, `UpdateIsDrawn`, `DisplayTellsTheTruth` | calls staged in every order, iterations of uneven length, a clock that wraps; every change reaches the pixels |
| `publisher_heal` | `BeliefIsRechecked`, `HealsInTime`, `NoFalseOffline`, `RetriesAreSpaced`, `StopIsHonoured` | three disturbances anywhere: a wrong `last_display` is trusted for less than a heartbeat interval, and the board is right again in bounded time; slow RPCs never let it go OFFLINE; a stop request ends the process |
| `quota_poll` | `NothingOutlivesClose`, `AtMostOneChild`, `StaleOnlyAfterError`, `StoredAnswerIsCurrent`, `NoEndlessWait`, `ReaderEndsUnlessFull` | two sessions, a child that says anything in any order, a close at any moment |
| `hook_agree` | `MostImportantWins`, `WrappersAreTransparent`, `FailuresMatch`, `NativeMatchesReference` | the two classifiers agree on every command of four words from three vocabularies, every tool and form of input, every reply of two fields |
| `router_client` | `CallInTime`, `ImplementsRpc`, `CallEnds` | four calls with ids of two bits; a Router that hangs up, loses, delays, repeats and interleaves frames |
| `hook_layer` | `NoHandlerTwice`, `InstallCovers`, `UninstallRemovesAll`, `OriginalRecoverable`, `ForeignKept` | four runs, each killed anywhere or not, and two edits by others |
| `control_server` | `ReachableWhenAlone`, `ImplementsRpc`, `CallEnds`, `AloneComesUp`, `ServiceComesBack` | the service, a second daemon and two clients, accepted together, that finish, or never finish, a request |
| `aggregator_resume`, `publisher_sigterm`, `daemon_config` | one statement of the documentation each | TLC finds it violated: section 6 |

The runs spend their time on what can go wrong: but for `aggregator_life`, no run
lists a type invariant, because theorems called `TypeCorrect` prove them for every
value of the constants.

### Bounds, and why they are enough

* Aggregator: `success_hold` 2, `transient_error` 1, `stale_session` 3, clock up
  to 4 (3 with two sessions), two datagrams in flight. Hold and error timer are
  different and both shorter than the stale time, as in the default
  configuration, so every expiry happens, alone and together with another; the
  clock runs past the stale time, so records, tombstones, keys and the window all
  run out within a behaviour. Two datagrams in flight are enough for every
  reordering of a pair, and a datagram may stay in flight for any length of time.
  Three kinds of event share a cache of two keys, so that eviction happens.
  `aggregator_display` has two sessions, because the display is what they share.
* Firmware: `Wrap` is 5 with iterations 1 or 2 ms long, so every age crosses the
  wrap at every phase. The time constants keep the order of the real ones (fade
  of THINKING longer than a frame, IDLE refresh longer than its fade frames); only
  the OFFLINE timeout is shorter than a fade, so that silence interrupts fades too.
  `MaxSilence` is one more than the OFFLINE timeout and below `Wrap`: ages alias
  beyond a turn of the clock, so after 49.7 days without a heartbeat the sketch
  takes a dead daemon for a live one, for one timeout, and no property claims
  otherwise. IDLE and THINKING have a crossfade either way, ERROR (of an invalid
  request) and OFFLINE interrupt it.
* Publisher: a tick is a second; heartbeat 2, retry 2, OFFLINE 6: the tightest
  combination `load_config` accepts for the heartbeat
  (`OfflineCoversHeartbeats` in `QuotaProofs`). Three disturbances reach a
  failure during the recovery from another. `MaxCalm` exceeds `HealTime`, which is
  tight: one tick less is violated.
* Router client: ids of two bits wrap within four calls; three frames on the wire
  and two in the unpacker are a late answer, a repeated one and a stray frame
  around the one that is waited for.
* Control server: with two descriptors for clients, one client is answered while
  another, accepted beside it, is silent; a call that was given up, and whose hang-up
  the daemon has not read, is still counted, so a third connection makes `accept()`
  run out. What happens together is bounded by
  `Budgets`, because the parts are costly together and independent otherwise: two
  calls of one client beside a silent one; a kill with one call each; three
  starts and two kills without clients.
* Hook scripts: two events, so that one may have the handler and the other not;
  four runs, so that an installation and a removal can each be killed and
  repeated; two seconds, so that runs fall into one second or into two.
* Configuration: the four fields that meet each other, each at both limits, at its
  default and out of range. No bound but that.
* Quota: a tick is half a second; the waits of the code keep their real lengths
  (`get` 1 tick, `wait` 2, `join` 4), a `Popen` takes one tick at most and a
  response two. A refresh of four ticks and a stale time of two refreshes are the
  least `QuotaAssumption` accepts, so nothing is left to spare for
  `StaleOnlyAfterError`. Two sessions, because a third meets only what the second
  left. A queue and a pipe of one line each are full, or empty, within a session.
* Classifiers: four words hold a wrapper with an option and its value before a
  command, or a separator between commands of one and two words; each vocabulary
  has the words of rules that can meet in one command. The array of tokens has its
  real 512 places; a command that does not fit is left out (`LimitAssumption`), as
  are the words on which the programs differ (`WordAssumption`): with an escaped
  newline among the words, and the assumption dropped, TLC finds the disagreement of
  section 6. Two fields of a reply are enough, since each rule reads one field and
  `is_error` hides `isError` pairwise.
* `aggregator_resume`: prompts and ends of one session, one datagram in flight and
  timers too long to fire, so that the trace is the resumed session and not a fade.

### Fairness

* Aggregator: the loop calls `tick` after every `select`, which waits 0.1 s at
  most: `WF(Tick)`. Time passes: `WF(AdvanceClock)`. Hooks, losses and receptions
  have no fairness.
* Publisher: the thread runs (`WF(Iterate)`, `WF(Run)`), an RPC is answered or
  given up at its response timeout (`WF(RpcSucceeds)`; failure is a
  disturbance and bounded), systemd restarts a daemon that failed
  (`WF(Restart)`, `Restart=on-failure`), and time passes (`WF(Tick)`). Besides,
  `Tick` waits for the loop and for the RPC in flight: the code's timeouts, not
  fairness, are what bounds them.
* Quota: threads run (`WF(Poller)`, `WF(Closing)`, `WF(Reader(s))`) and time
  passes (`WF(Tick)`). Nothing makes a child answer or die, and nothing makes the
  daemon close the source.
* Router client: time passes (`WF(Tick)`) and a timeout that is due ends the call
  (`WF(TimesOut)`). Nothing makes the Router answer.
* Control server: each step of a daemon, systemd's two actions (`Restart`,
  `Cleanup`), and each client's steps, whose timeout among them. No fairness makes
  a silent client go on, or anybody start, stop or kill a daemon.
* Firmware, classifiers, hook scripts, configuration: none; their properties are
  safety.

## 4. Proofs

Eight modules hold the theorems; `PROJECT.json` lists those to know of. Every
invariant and action property of the passing runs is proved for all values of the
constants. Each proof rests on an inductive
invariant, checked by TLC on the constants of the run first. The assumptions on
constants are named where the constants are declared, justified there by the code,
and evaluated by TLC in the runs.

### The aggregator

| Theorem | Statement |
|---|---|
| `TypeCorrect` | the type invariant |
| `NewestAlwaysGuarded` | whatever took effect last, something still turns older events away |
| `LeaseAlwaysAgrees` | record and completion lease never disagree |
| `NothingResurrects` | an ended session comes back only for a newer event |
| `NewerIsApplied` | an event newer than all applied ones takes effect, unless a fade intervened |
| `RecordsAlwaysShowNewest` | a record shows what the newest event asks for, or what a timer makes of that |
| `DisplayFollowsEvents` | only a datagram that takes effect makes the display more urgent |
| `KeysAreKept`, `CacheFits` | a key is forgotten only when old or at the front of a full cache; the cache fits its capacity |
| `AggregatorImplementsLedger` | the aggregator implements `SessionLedger` |

Assumed: `DurationAssumption` (durations are natural numbers, the stale time and
the cache capacity at least one, as `load_config` demands), `InvocationAssumption`
(hooks send what `normalize_hook_payload` can produce) and `AbsentAssumption`
(a missing key is no value).

The inductive invariant is `TypeOK /\ IInv`, with `IInv` the conjunction of
`NewestIsGuarded` and `LeaseAgreesWithSession`. `NewestIsGuarded` follows the
newest event through its guards: the record (whose update time is at least the
event's), after the end the tombstone (whose time is the event's), after both the
window (the event is at least a stale time old). Neither conjunct is inductive
alone: `process` deletes a tombstone before it looks at the completion lease, so a
late datagram could lose the tombstone and then be turned away. That the lease is
never newer than the tombstone, which `LeaseAgrees` says, excludes it
(`ReceiveOutcome`). With it every reception has one of three outcomes: turned
away, ended or written (`TurnedAway`, `EndedBy`, `WrittenBy`), and
`AcceptedIsNewest` shows that the last two are in stamp order. The refinement
theorem maps them to `Write`, and everything else to `Expire` or a stutter.

The exception in `NothingResurrects` is real: an event stamped at the very
instant of the session's end and read exactly `stale_session_s` later finds the
tombstone just expired (`>=`) and the window still open (`<`).

`DisplayFollowsEvents` is about `snapshot`'s choice by priority, then by time: the
chosen one exists and is the most urgent among the
candidates (`BestBid`, over bounded priorities and times), timers replace a
candidate by a less urgent one (`RecordsShowNewest` says by which), and nothing
that is ever shown ranks below the IDLE of no session. `KeysAreKept` works on
sequences: what drops the expired front, moves a repeated key to the back and
appends a new one keeps every other key (`LiveSeenDropsOld`, `MovingKeeps`,
`RememberingKeeps`).

### The firmware

| Theorem | Statement |
|---|---|
| `DisplayIsTrue` | OFFLINE is shown exactly when the silence exceeds the timeout in force, else the state asked for last |
| `UpdatesAreDrawn` | after every step the pixels show the globals, but for a wait shorter than the static refresh of IDLE |
| `CrossfadesEnd` | a crossfade is one the sketch makes, and is over in time |
| `TypeCorrect` | every global, staged value and clock keeps its range |

For every `Wrap`, 2^32 among them, under `FirmwareAssumption` (intervals, timeouts
and iterations are shorter than a turn of `millis()`) and `TimesAssumption` (the
interval of the IDLE fade is at most the static one, an iteration with the static
interval at most a turn, the silence shorter than a turn). The ages in the code are
remainders. `ElapsedValue` turns the remainder of a difference into a case
distinction once, and `HeartbeatAge` then carries from iteration to iteration that
the age of the heartbeat is the real silence. `LatestInv` says where the last
request is, staged or taken in. The hardest conjunct is `DrawnOrWaiting`: a change
forces a frame by dating the last one back by an interval, and the frame is due
only if it is judged with the same interval; the exception is an IDLE whose fade
ends in between (`Waiting`).

### The publisher

| Theorem | Statement |
|---|---|
| `BeliefRechecked` | however wrong `last_display` is, a loop that has just skipped a publish began one less than a heartbeat interval ago |
| `Heals` | after a calm of `HealTime` the board shows what the daemon wants, whatever came before |
| `NeverFalselyOffline` | while RPCs are answered the offline timeout of the board does not expire |
| `RetriesSpaced` | after a failed publish the next begins no earlier than the delay after the beginning of the one that failed |
| `TypeCorrect` | types and bounds |

`PublisherAssumption`: a heartbeat of two ticks or more, a retry delay within it,
an offline timeout of two heartbeats or more, a demo with a state. The bound on the
offline timeout is what `OfflineCoversHeartbeats` proves of `load_config`.
`last_display` may be wrong at any time, after a publish that failed half-way, a
late request or a reset, so nothing is claimed of it but how long it is trusted
(`BeliefRechecked`) and that the board is right in the end (`Heals`). `IInv` has,
besides the types:

* `ProgressInv`: what a publish that no reset has disturbed has achieved at each
  of its six RPCs;
* `ClockInv`, `SilentInv`, `CleanInv` with `SteadySilence`: the age of the attempt,
  and how long the board can have been silent at each RPC, after a publish that
  succeeded;
* `HealInv`: the way to health in four phases, each with a bound on the calm that
  can have passed. A publish that straddles the last disturbance ends (`Stale`),
  the loop waits for the next (`Waiting`), that one carries the display
  (`Carrying`), and from its fourth RPC on the board shows it and goes on showing
  it (`Healed`). The sum of the bounds is `HealTime`.

So the recovery, which the code leaves to the heartbeat and to `last_display`, is
a safety property with a bound and needs no fairness.

### The quota source

| Theorem | Statement |
|---|---|
| `ChildrenNeverOverlap` | at most one child is alive at a time |
| `CloseLeavesNothing` | when `close()` has returned, the poller has ended and no child is alive |
| `StaleNeedsError` | the snapshot grows stale only after an error, or when the source is being closed |
| `StoredAnswers` | what a session stores is the answer to its last request |
| `TypeCorrect` | types and bounds, queues and pipes included |

Assumed: `QuotaAssumption` (positive times, as `__init__` and `load_config`
demand; a refresh covers a request that times out and the wait for the child; the
stale time is two refreshes) and `JoinAssumption` (the join of two seconds is longer
than a wait of half a second, or a `Popen`, followed by the second given to the
child).

`OnlyOwnChild`: only the child of the present session can be alive, and only while
the poller is between `Spawn` and `Clear`, so children never overlap.
`JoinSuffices`: while `close()` joins, what remains of the join exceeds the longest
way the poller can still take to its end, `Remaining`, which adds up the waits left
from each place of the code; every tick takes one off both. Hence the join never
times out before the poller has cleaned up, even where `close()` saw no child
because `Popen` had just returned. `AgeInv` follows the age of the snapshot in the
same way through each line of a session (`Renewing`): a pause, a request that
times out and the end of the session together are at most two refreshes, and what
then becomes known is an error.

### The router client

| Theorem | Statement |
|---|---|
| `ClientImplementsRpc` | a call returns the result of its own execution or fails, none is carried out twice (`Rpc`) |
| `CallsEndInTime` | a call lasts at most the timeouts of connecting, sending and waiting together |
| `FailuresClose` | a failed call leaves no connection |
| `IdsAlwaysDiffer` | two calls in succession have different ids, never 0, also where ids wrap |
| `TypeCorrect` | types |

For any timeouts and buffers, and ids that wrap after any number of calls, as long
as there are two besides 0 (`IdMask >= 2`; the code has 2^32 - 1). An answer is recognised by its id
alone and ids come round again, so what makes it safe is order: on an open
connection the answers to older calls come before those to the present one
(`OrderInv`), a call that returns leaves at most repetitions of its own answer
behind (`IdleInv`), the next call has another id (`IdsAlwaysDiffer`), and after a
failure there is no connection on which an old answer could come
(`FailuresClose`). `OwnInv` concludes that the first answer with the right id is of
the right call. `OnceInv` keeps a request from being held and carried out both.

### The control server

| Theorem | Statement |
|---|---|
| `AloneIsReachable` | a daemon beside which none was started is at both paths, whatever killed ones left there |
| `AloneStarts` | a daemon that is alone never fails in `setup()` |
| `ClientsAreToldTheTruth` | for every client the control socket implements `Rpc` |
| `TypeCorrect` | types; no more clients than descriptors; what is handled is a request of a client that is there |

For any number of daemons and clients (`ControlServerAssumption`). Two arguments:
a daemon that is alone finds at each step of `setup()` what the step before left
(`AloneInv`). And a connection that a client has not closed is that of its present
call (`OwnInv`), the daemon answers only what it has carried out (`BusyInv`,
`ReplyInv`); `CountInv` and `BudgetInv` keep calls and their connections apart.

### The hook scripts

| Theorem | Statement |
|---|---|
| `NeverTwice` | Codex never finds the handler twice for an event |
| `InstallationCovers` | an installation that ends well leaves each event with the handler once |
| `RemovalRemovesAll` | a removal that ends well leaves no handler in `hooks.json` and none between the markers |
| `ForeignStays` | a run keeps the handlers of others, group by group and in order |
| `ReplacedIsRecoverable` | what a run replaced is in a backup, unless two runs began within a second |
| `TypeCorrect` | types |

For any events and handlers of others, groups of any number, runs and edits in any
number (`HookLayerAssumption`: others do not write our handler). For backups it
does not matter what the scripts compute: `NameIsFree` says who may own the name of
a backup while a run copies, `CopiesHold` that until a file is replaced its copy is
the file. For the handler it does: each file holds it once at most, and so does
what a run has read (`FilesOnce`, `ReadOnce`), and while the installer works on one
file the other has none (`OneTarget`). What `Inhabited` keeps of a sequence of
groups (`InhabitedKeeps`, `InhabitedAppend`, `InhabitedAll`) is proved by the least
counterexample, from the least-number principle (`LeastNumber`).

### The configuration

The last part of `QuotaProofs` (`QuotaTimesFit` is the ground of an assumption of
`QuotaSource`) proves of every file on which `load_config` returns (`Loadable`):

| Theorem | Statement |
|---|---|
| `LoadedInRange` | every field of the result is within its limits, repaired or not |
| `OfflineCoversHeartbeats` | the OFFLINE timeout is at least two heartbeats: what `Publisher` assumes |
| `QuotaTimesFit` | with a refresh interval of 450 s or less, the stale time is at least two of it: what `QuotaSource` assumes |

and of every file whatever:

| Theorem | Statement |
|---|---|
| `FailsForTwoFilesOnly` | the daemon fails only for a file that is not `Loadable` or that asks for a refresh interval above 900 s |

No assumption is needed besides those in the statements. The argument of all four is a look
at the table of limits: a default covers the longest value of the other field of
its pair (12 s, heartbeat 5 s), or does not (900 s, refresh 3600 s). The bounds
450 s and 900 s in the last two theorems are what is left of the guarantee, and
`daemon_config` shows that it ends there.

### The classifiers

| Theorem | Statement |
|---|---|
| `NativeAlwaysMatches` | the native hook shows a tool call as the reference does |
| `MostImportantAlwaysWins` | a compound command shows the more important of its two parts, wherever it is cut |
| `WrappersAlwaysTransparent` | a wrapper before a command changes nothing |
| `FailuresAlwaysMatch` | both find the same failures in a reply, `is_error` beside `isError` apart |

`hook_agree` compares the two on commands of four words from given vocabularies; the
theorems hold for every `Lexicon`, so for any words, and for every length up to the
limit of the native hook: a command, with a wrapper before it, has no more words and
separating characters than `TOKEN_LIMIT`. Beyond that even `MostImportantWins` is
false of the native hook, which then shows COMMAND. Assumed, in `HookClassifiers`:
that words and calls are none of those on which section 6 says that the programs
differ (`WordAssumption`, `CallAssumption`, and `LimitAssumption` for that limit), and that the words of a
wrapper look like one (`WrapperAssumption`: `-u` is an option, `A=1` an assignment,
none of them a separator).

The properties are about one state, so the inductive invariant only says what an
invocation is made of (`InvocationInv`): words of `Word`, fields of `Places` and
`Keys`, at most `MaxWords` words. All the work is in the operators, and most of it in
what a loop computes:

* **Loops.** The library's induction theorems cannot be used here, so `Induction` and
  `ReadingReads` are proved from the least counterexample: `Reading` has the first
  value, and each next one is what its step makes of the one before. The same is
  shown of `FlattenSeq`, which joins an array of lines (`FlatIsTyped`).
* **One tokenisation.** Without escaped newlines and backslashes in double quotes the
  tokens of a command are its words (`TokensAre`).
* **Two scans, one function.** `SameStep` compares the two loops over wrappers on one
  word in one mode; then `Skip = Unwrap`, and the program of a segment is the same.
* **Two tables.** `SameState` compares the rules for programs, one lemma for each way
  to look at an argument; `SameScript` finds the same script for `sh -c`.
* **A loop and a set.** `classify_shell` keeps one state while `classify_bash` collects
  a set: `LoopKeepsMostImportant` says that what is kept is the most important of all
  observed. A segment of nothing but wrappers is a COMMAND in one program and absent
  in the other, which is the same (`CommandIsLeast`).
* **Cuts.** A separator divides the segments of a command in two (`CutInTwo`): every
  segment lies on one side, unchanged but for its position.
* **Wrappers.** A scan that has read a wrapper is in a mode in which the next word, as
  long as it is neither an option nor an assignment, is read as at the beginning
  (`StepAfterWrapper`); from there on both scans agree (`ReadingGoesOn`), and find the
  same program (`WrapperIsSkipped`). The other segments move by the length of the
  wrapper (`WrappedSegments`).

### Only model-checked

* Liveness (`TimersRunOut`, `StopIsHonoured`, `NoEndlessWait`,
  `ReaderEndsUnlessFull`, `CallEnds`, `ServiceComesBack`): fairness and `ENABLED`
  are out of reach of the installed provers.
* The three statements of section 6, which are violated.

## 5. Hazards and properties

`PROJECT.json` lists the hazards with their lines. Three have no property. An event
that a fade has overtaken is ignored, which section 6 lists (`aggregate.py:115`). The
hook scripts take no lock (`install-hooks.py:111`): an edit between the read and the
replacement is lost, and nothing in the code could notice. The remote recovery
scripts are not modelled (section 7).

## 6. Where code and documentation disagree

* `aggregator_resume` (`EndRemovesRecord`): a session ends, a newer prompt resumes it,
  and its second end has the key of the first and is dropped as a duplicate
  (`aggregate.py:149`); the record stays until it is stale.
* `publisher_sigterm` (`StopRequestEndsProcess`): a SIGTERM handled during `setup()` is overwritten by
  `self.running = True` (`daemon.py:479`).
* `daemon_config` (`SafeDefaults`): with `quota_refresh_interval_s` above 900 and no
  `quota_stale_after_s` to fit, all of it in range, `load_config` repairs the stale
  time to 900 s, `CodexQuotaSource` refuses the pair, and the daemon fails at every
  restart. With an interval between 450 and 900 it starts, but the bar may vanish
  between two answers.

Met while modelling, not given a run of their own:

* An integer that is too large for `float()`, as of four hundred digits, raises an
  `OverflowError` in `load_config` (`daemon.py:81`), which catches only what the JSON
  parser reports: the daemon fails at every restart, where `README.md:124` has
  invalid values fall back to defaults. `FailsForTwoFilesOnly` counts it among the
  two kinds of files with which the daemon does not start.
* A fade sets the record's update time to the current time (`aggregate.py:115`,
  `:124`), so an event stamped before the fade and read after it is ignored though
  it is newer than the last one applied. The docstring gives being older as the
  ground. `NewerEventIsApplied` says exactly when a newer event is safe.
* The native hook compares options of `sudo` without regard to case, so `-H`,
  which has no value, is read as `-h` and takes the next word along: `sudo -H
  pytest` is a COMMAND there and TESTING in Python.
* The two seconds to the next attempt count from the start of the one that failed
  (`daemon.py:369`), not from its failure, as `architecture.md:140` may be read;
  `RetriesAreSpaced` is stated for the start.
* A daemon that ends unlinks whatever is at its two paths (`sources.py:90`), the
  sockets of another daemon too; the docstring (`sources.py:34`) speaks of an
  owned endpoint. `ReachableWhenAlone` therefore needs that nobody starts a second
  one.
* Two runs of a hook script within one second share the names of their backups;
  the second overwrites the first (the exception in `OriginalRecoverable`). The
  uninstaller drops text of others between the markers and leaves handlers of ours
  outside of them; the installer takes a block between markers for complete (the
  exceptions in the other properties).

* A command continued on the next line: Python replaces the newline by a semicolon
  before it looks at the backslash (`classify.py:34`), the native hook reads both as
  an escaped character (`unoq-codex-matrix-hook.c:555`). `make \`, newline, ` test` is
  BUILDING in Python and TESTING on the board. An array of strings of which one ends
  in a backslash is joined to such a command.
* A backslash inside of double quotes is dropped by the native hook whatever it stands
  before (`unoq-codex-matrix-hook.c:527`), and kept by `shlex` unless that is a quote
  or a backslash: `make "te\st"` is BUILDING in Python and TESTING on the board.

The classifiers differ in more places that the vocabularies of `hook_agree` leave
out, each within the "equivalent" of the documentation or outside what Codex
sends: `bash -C script` (same reason as `sudo -H`); a separator in quotes, which is a
boundary only in Python; `.exe`, removed only in Python; a tool name that merely ends
in `_bash`, `_shell` or `_agent`, known only to the native hook; an array given
directly as `tool_input`, read only by the native hook; `metadata` beside the
response, read only by the native hook; a fraction as exit code, a failure only
in Python; `is_error` together with `isError`, of which the native hook reads the
first only (`FailuresMatch` says so); a command of more than 512 tokens, each word and each separating character being
one (`&&` is two), which is a COMMAND for the native hook whatever it runs. `WordAssumption`, `CallAssumption` and
`LimitAssumption` leave these words and calls out of the theorems too.

And in the aggregator and the quota source: a key repeated in the
cache keeps its old receipt time at the back of the queue and may
outlive `stale_session_s` (`aggregate.py:81`, `:130`); a failed quota answer hides
the bar only once the last snapshot is stale (`protocol.md:144` says that it does
at once); a reader blocked on a full queue of an ended session stays for good
(`quota.py:184`, the exception in `ReaderEndsUnlessFull`).

## 7. Not modelled, and the plan

Left out for good:

* the pixels (`animations.cpp`: pure functions of state and age);
* argument parsing and printing of the command line;
* packaging, secret scanning and probing scripts: straight-line file work;
* remote recovery (`codex-remote-*.sh`): the scripts watch and command processes of
  Codex itself, whose reaction to `restart`, `bootstrap` or `stop` is not in this
  repository, so that nearly every action of a model would be a guess;
* the character-level work of the hooks (scanning JSON, tokenising commands): a
  hook is what it sends.

Left of the plan: `Pipeline`, the composition of `Aggregator`, `Publisher` and
`Firmware`, with the abstract specification that the matrix shows the most urgent
session. The parts would meet in what is proved of each: `DisplayFollowsEvents`,
`Heals` and `DisplayIsTrue`.
