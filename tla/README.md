# A TLA+ development of openmso-api

openmso-api is the library behind OCP, the protocol between a measurement
frontend and the capture plugins it launches as child processes. It exists
twice: a Rust crate with both halves (`rust/openmso`) and a C++ library with
the frontend's half (`cpp`). This directory holds models of the parts of it
that have behaviour, TLC runs over small instances of them, and proofs about
all of them: every invariant a passing run checks is also a theorem. Liveness is
left to the runs.

## 1. The system

A frontend listens on two nng sockets, a REQ for control and a PULL for events,
then spawns the plugin with their URLs on its command line. The plugin dials
both. Control is one request and one reply at a time; events are pushed by
whatever thread of the plugin acquires. A pipe to the plugin's stdin carries
nothing: its end of file tells the plugin that the frontend is gone.

| Component | Source | State | Operations | Talks to |
|---|---|---|---|---|
| control loop | `server/mod.rs` `serve`, `dispatch` | `greeted`, the request served | one arm per request | the plugin's handlers (calls), the event handle (shared flag), the client (REQ/REP) |
| event handle | `server/events.rs` `Events` | `running: AtomicBool`, PUSH socket | `send`, `is_running`, `set_running` | shared by the loop and every acquisition thread |
| plugin | `CaptureServer` trait; `tests/control_loop.rs` has one | stop flag, threads | `acquire_start`, `acquire_stop`, `reset`, ... | called by the loop, pushes events |
| stream sender | `server/events.rs` `StreamSender` | `seq`, `first_sample`, `unitsize` | `new`, `send` | `Events::send` |
| client | `client.rs`, `client.cpp` | `seq`, child or pid, stdin end, sockets | requests, `shutdown`, drop / `terminate`, events | the plugin |
| spawning | `client.cpp` `spawnPlugin`; Rust `Command` | descriptors of both processes | pipe, fork, exec, read back the errno | the operating system |
| stdin watcher | `server/mod.rs` `exit_on_stdin_eof` | a thread | exits the process on end of file | the operating system |
| transport | `transport.rs`, `transport.cpp` | socket options | send and receive with timeouts, no resend | nng |
| endpoints | `transport.rs`, `transport.cpp` `Endpoints` | a directory | `new`, drop | the file system |
| TRANSITION | `encoding.rs`, `encoding.cpp` | none | encode, decode, varints | stream sender, frontend |
| negotiation, decode_payload | the same files | none | intersect lists, undo an encoding | `Hello`, frontend |
| manifest, arguments | `manifest.rs`, `manifest.cpp`, `server/args.rs` | none | resolve a plugin's argv, parse its flags | launch, `serve` |
| messages, errors | `proto/`, `lib.rs`, `error.cpp` | none | | everything |

### What is hard about it

* **One flag, many writers.** `running` is set by the loop before it calls
  `acquire_start`, cleared by the loop after a failed start and after every
  `Reset`, and cleared by threads before they push `CaptureEnd` or
  `DeviceLost`. Threads outlive the requests that started them.
* **Bounded pushes.** The event pipe is finite and the frontend may be waiting
  for a reply instead of reading. A push then blocks for the 30 s send timeout.
* **Requests that were given up.** A receive times out after 60 s while the
  handler still runs; its effect and its reply come later, when the frontend may
  have gone on to the next capture or made Hello again.
* **Two channels without an order between them.** The first events of a capture
  may overtake the answer to its `AcquireStart`; its last ones come after the
  flag was cleared.
* **Processes.** Either may crash at any point. Who holds which end of the
  stdin pipe decides whether a plugin ends, and `fork` copies descriptors of
  other launches.
* **Boundaries.** Varints of one and of two bytes, the last byte of the longest
  varint, products that wrap, chunks that must be whole samples, buffers that
  are not.
* **Two versions.** Frontend and plugin are built apart: lists of encodings with
  members the other side does not know, a manifest that adds arguments of its
  own to the command line.

`PROJECT.json` lists each of these as a hazard, at its line.

### What makes each part correct

* control loop, event handle, plugin: at most one acquisition at a time; no
  configuration during one; the flag neither lies nor sticks; a stop or reset
  that was acknowledged took effect; every request is answered.
* client: an answer is to the request it is returned for; handlers run once and
  in order; the device is bound once; `shutdown` returns; no orphans.
* client and control loop together: what a frontend concludes from the answers
  it got and the events it read is so, whatever it gave up on the way.
* spawning: `launch` returns; running plugins cannot keep each other alive.
* stream sender: events say truly where their samples belong, and leave a gap
  only where `send` returned an error.
* negotiation, `decode_payload`: nothing is sent that the frontend did not
  promise to decode, and decoding gives back what was handed to `send`.
* manifest, arguments: a plugin that starts has the device and the sockets it
  was launched with.
* TRANSITION: decode inverts encode, the encoder's worst case is what the
  chunking relies on, the decoder refuses what it says it refuses.

## 2. The modules

| Module | Models | Used by |
|---|---|---|
| `CaptureLifecycle` | what a capture server promises: an abstract device that is configured or acquires, never both | refined by `ControlLoop` |
| `ControlLoop` | control loop, event handle, acquisition threads, event pipe, reader | `MCControlLoop`, `ControlLoopProofs` |
| `Frontend` | one client that drives `ControlLoop`, gives requests up and goes on | extends `ControlLoop`; `MCFrontend`, `ControlLoopProofs` |
| `RemoteCalls` | what a client promises its caller: calls that take effect at most once, in order, and return | refined by `Session` |
| `Session` | one client, the control connection, process life | `SessionProofs` |
| `PluginSpawn` | descriptors through pipe, fork and exec | `PluginSpawnProofs` |
| `Endpoints` | the runtime directories, shared by all frontends of a user | `EndpointsProofs` |
| `Transition` | encoder, decoder, varints as operators | `Negotiation`, `MCTransition`, `TransitionProofs` |
| `Negotiation` | what Hello agrees on, `decode_payload` | extends `Transition`; `StreamSender` |
| `StreamSender` | the samples' way into events | extends `Negotiation`; `MCStreamSender`, `StreamSenderProofs` |
| `Arguments` | manifest to command line to `Args` as operators | `MCArguments`, `OperatorProofs` |
| `DataFacts` | lemmas about numbers, sequences, induction and recursion | `ControlLoopProofs`, `SessionProofs`, `TransitionProofs` |
| `TransitionProofs` | lemmas about varints, encoder and decoder | `StreamSenderProofs`, `OperatorProofs` |
| `OperatorProofs` | theorems about `MCTransition` and `MCArguments` | |
| other `...Proofs` | theorems about the module of that name; `ControlLoopProofs` has those of `Frontend` too | |
| `MC...` | the instances for TLC, and the properties that compare operators over them | |

Definitions marked *Variant* in a module stand next to the definition they
vary. They are plausible mistakes in that code, no specification uses them,
and each shows that some property depends on the code being as it is.

### ControlLoop

`pc` says where `serve` or `dispatch` is: between `recv` and the reply it stops
wherever another thread could act in a way that matters, so that each load and
each store of `running` is a step of its own. One exception: in `AcquireStart`
the load and the store are one step, because all other writers only clear the
flag, and clearing a flag that was just read as clear changes nothing.

`thread[c]` is the thread of capture `c`. It is *live* until it decides its
capture is over; then it is `ending` or `losing`, which is the point inside
`Events::send` after the store to `running` and before the push. A push needs
room in `stream` (`StreamCap` events). `PushTimesOut` is the failed push of a
full pipe: the thread of the test plugin unwraps the error and dies.

The plugin's handlers are the trait's contract. `acquire_start` makes a stop
flag and a thread as the test plugin does, or fails. The reset handler is a
parameter, since the trait leaves it to the plugin: it does nothing (the
default), signals the thread, or signals and waits for it. `EndAfterLost`
says whether a thread pushes `CaptureEnd` even after `DeviceLost`; `ThreadEnds`
is then a second end, with a second store to the flag.

`CaptureLifecycle` is implemented with `active` the one live capture,
`stopping` its stop flag, `finished` the captures whose thread is no longer
live, and `configuring` that a query handler is running.

### Frontend

`ControlLoop` takes any request at any time. `Frontend` puts one
`CaptureClient` in front of it: `Call` assigns the capture id and sends, `Gets`
or `GiveUp` ends the wait, and `Take` and `SendReply` replace `Recv` and `Reply`
of the open model with what goes through the pipes, so that a request that was
given up is still in front of the control loop while the next ones are made.
Everything else of the control loop, threads and reader included, is
`PluginStep`. `refused` and `stopAsked` are history variables, and a message
carries `relied`: whether the client had read the end of its last capture when
it made the request.

### Session

The client's `request`, `shutdown`, `Drop` and `~CaptureClient` for both
languages (`lang`), `serve` as take, execute, reply, and nng's matching of
replies by an id of its own. `executed` is a history of what was dispatched and
how it came out. `Execute` may be delayed for ever, a `RequestFails`
may come at any time, and both processes may crash. `AfterRequest` is the
difference between the two `shutdown`s: Rust's waits whatever the result was
(and `Child::wait` closes stdin first); C++'s closes stdin itself, and kills
when the result was not `Ok`. `WaitInterrupted` is the other difference: a
signal ends C++'s `waitpid`, which is not called again and whose pid is
forgotten, so that a zombie may stay; Rust's standard library waits again.

`RemoteCalls` is implemented with `pending` the requests on the wire and the one
that is handled, as long as the process runs; `done` what was executed, with how it
came out; and `returned` the result without the id it came from, which a caller
does not see. A call that was given up stays in `pending`: it may take effect
later, but not twice and not out of order.

### PluginSpawn

`held[p]` are the write ends process `p` holds, `marked[p]` those that are
close-on-exec. Each system call of `spawnPlugin` is a step, because two threads
of a frontend may be in it at once. `style` is the kind of frontend: C++ that
launches one plugin at a time, C++ that launches on several threads, or Rust,
whose standard library gives pipes the mark at birth. `LaunchFails`
and `LaunchSucceeds` read the error pipe: end of file when nobody holds its
write end.

### Endpoints

Every launch is a process of its own with its own attempt counter; the file
system is `dir` (who made the directory of a tag) and `socket` (who listens on a
path). `long` is a property of the environment: the base directory makes every
path too long, or none. Clients go sockets first, directory last; a crash leaves
both. `made` is a history variable for `FullOnlyIfCrowded`.

### Transition, Negotiation, StreamSender

`Transition` has as constants the code's 128 values of a varint byte without its
mark (`More`), the 2^64 run lengths (`Limit`) and the 10 bytes of the longest
varint (`MaxBytes`). The assumption on them is that the longest varint has room
for every run length and a shorter one has not. Its recursions are recursive
functions, or a maximum over positions, since what they compute is proved.
`Negotiation` is
`intersect` with the encodings' mandatory member, and `decode_payload`, which
takes a number it does not know for an encoding that is not there.

`StreamSender` composes them: the frontend's list comes from `AcceptLists`, the
plugin chooses TRANSITION only if the intersection has it, `Send` is one call
with any bytes, `PushChunk` one round of the loop over chunks, and `PushFails`
the error that drops the rest of the buffer. The events carry their payload.
A buffer may end inside a sample: the last chunk then has bytes that
`sample_count` does not count. `at`, the number of bytes handed over before an
event's first one, is a history field against which its `first_sample` is held;
`clean` says that nothing has gone wrong so far.

### Arguments

`ResolveArgv`, `Launch` and `Parse` are the three functions the URLs pass
through. A string is the sequence of its words between equals signs, since
`split_once('=')` is the only thing that looks inside one, and what else the
code asks of a word (has a slash, starts with one, ends in `.py`) is given by
sets. `ParseFrom` reads the arguments from the last to the first, so that a
slot that is filled already stays: the loop's assignment order from the other
end. The file name rules make one surprise visible: a manifest token
`--flag=url` has a slash, so `resolve_argv` joins it to the plugin's directory,
and the plugin refuses what comes out.

## 3. What TLC checks

| Run | Instance | Shows |
|---|---|---|
| `control_loop` | 2 captures, pipe of 2, waiting reset, fairness | implements `CaptureLifecycle` with its liveness; the flag is true, configuration is exclusive, stops and resets reach; stops end captures; requests are answered |
| `frontend` | 2 captures, 4 requests of a client, pipe of 1, any reset, `EndAfterLost` | the flag never sticks; it is clear once the end is announced, and a client that has read the end is not refused as busy; events are of known captures; late stops hit no later capture |
| `session` | Rust or C++ client, 4 requests, `seq` modulo 3 | implements `RemoteCalls` with its liveness; answers are matched, handlers run once and in order, the device is bound once, no late effects, shutdown returns, Rust reaps, no orphans |
| `plugin_spawn` | 3 launches, C++ one after the other or Rust on any threads | no orphans, launches return |
| `endpoints` | 3 launches of either language, 3 tags, 2 attempts, crashes | sockets are one's own; only crashes and one leak leave directories; giving up means crowded |
| `transition` | strings of up to 5 bytes, 4 values to a varint byte, 32 run lengths | round trip, shortest form, sample count |
| `stream_sender` | 5 frontends and 3 plugins of this and other versions, chunks of 4 bytes, samples of 1 to 3, calls of 2, 3 and 6 bytes, 7 in all | what Hello agrees on, nothing unpromised is sent, decoding, positions, no loss, size |
| `arguments` | manifest runs of up to 3 of 8 tokens, 3 devices | a plugin that starts has its own device and sockets; both notations of a flag mean the same |

### Why the bounds are enough

*Two captures*: an old thread and the one started after it, which is what every
property relates; the safety properties of `control_loop` are proved for any
number, and so are those of `frontend`. *Pipe of one or two*: full, partly
full and empty all occur, with threads blocked on it. *Four requests of a
frontend*: Hello, two starts, and one more between or after them, any of them
given up. *Four requests with `seq`
modulo 3*: `seq` wraps, and a given-up request and a live one carry the same
`seq`. *Three sequential launches*: the third inherits the ends of two, and the
second of one; the chain is all there is. Rust's launches run on as many threads. *Three launches with
two attempts of three tags*: two others fill what the third tries, tags wrap, and a
directory can be removed and made again during a search. *4 values to a byte and 32 run lengths*: runs of
up to 5 samples cross from one varint byte to two at 4, and three bytes carry
six bits for a five-bit number. *Chunks of 4 bytes*: rounded down for samples of
3, exact for 1 and 2; a call of 6 bytes is two chunks for every width, and ends
inside none, one of 3 inside a sample of 2, one of 2 inside a sample of 3.
*Three tokens*: a flag at the end of the run takes `--device` for its value, and
two tokens before it can give it others.

Bounds are the constants `Captures`, `StreamCap`, `Calls`, `MaxRequests`, `SeqMod`,
`Launches`, `NTags`, `Attempts`, `MaxLen`, `MaxGiven` and `MaxTokens`. `PluginSpawn`,
`Endpoints`, `StreamSender`, `MCTransition` and `MCArguments`
have runs without deadlock check: all launches done and everything dead, all
bytes sent, all strings built are their proper ends.

### Fairness

* `ControlLoop`: weak fairness of the loop once it has a request (handlers
  return, a waiting reset goes on when its thread is over), and per thread of
  what it does by itself: begin, end once stopped, push when there is room,
  give up a push when there is not. `transport.rs:24` justifies the last one.
  No trigger is assumed to come, no frontend to send or read. A thread that
  acquires without having been stopped is under no obligation.
* `Session`: the client's own steps, among which the receive timeout
  (`client.rs:46`; a frontend that sets it to none gives up the guarantee), and
  end of file reaching the watcher. Nothing is assumed of `serve`.
* `Frontend`, `StreamSender`, `Endpoints` and the operator modules are checked
  for safety alone: a frontend may stop at any point.
* `PluginSpawn`: threads in `spawnPlugin` and children make progress. Nobody has
  to launch, terminate or die.

### Where code and documentation disagree

Each of these runs ends in a violation of what a comment or a test says.

| Run | Violated | In short |
|---|---|---|
| `control_loop_noop` | `StopReaches` | with the default reset a capture goes on that no stop reaches (`mod.rs:52`) |
| `plugin_spawn_orphans` | `NoOrphans` | two concurrent C++ launches keep each other's plugin alive (`client.cpp:52`) |
| `plugin_spawn_hangs` | `LaunchReturns` | a fork between `pipe` and `fcntl` keeps the error pipe open (`client.cpp:63`) |
| `transition_oversized` | `OversizedIsRefused` | bits beyond the 64th of a varint are dropped (`encoding.rs:131`) |

Five more of the kind are bounded out of the properties rather than run. `Reset`
clears the flag (`mod.rs:158`) even if the plugin's reset only signals its
thread, as its `acquire_stop` does: `BusyWhileAcquiring` fails for
`ResetPolicies = {"signal"}`. `LaunchIsUnderstood` lets a plugin refuse its
arguments, which it does when the manifest has a token `--flag=url`. A Rust
launch whose socket path is too long leaves its directory behind
(`transport.rs:112` after `:109`, against `transport.rs:63`), which
`NothingLeft` excepts.
`samples * unitsize` (`encoding.rs:86`) wraps in a release build, so
`CountIsChecked` speaks only of counts whose product does not. After a failed
push a `StreamSender` goes on from where it stood, so a plugin that sends again
publishes positions that are too low (`events.rs:105`, against
`stream.proto:110`); `PositionIsTrue` says what is left: never too high, and
exact until the first failure.

## 4. What is proved

Each proof holds for all values of the constants that the module's assumption
admits, and for behaviours of any length. What the assumptions ask for is what
the code has: a chunk is shorter than 2^64 bytes and at most half of what a
frontend's socket receives, a byte string is shorter than 2^64 bytes, capture ids
are positive, there are no more attempts than tags.

`ControlLoopProofs`, for every set of captures and every pipe capacity:

* `TypeCorrect`: `Spec => []TypeOK`.
* `FlagHasOwner`, `ReadyAfterEnd`: `NoStuckBusy` and `ReadyOnceEnded`, whatever
  the plugin's reset does. Neither is inductive. `FlagInv` adds `StartIsFresh`,
  that the capture a request is about to start has no thread yet, without which
  a start could revive an old thread and `current` would say nothing; and
  `AnnouncedIsOver`, that a capture whose `CaptureEnd` is on the stream, or was
  read, has a thread that is `over`, which links the stream to the threads.
* Under `Disciplined`, that the reset waits and no thread ends twice:
  `BusyIsTrue`, `ConfigurationIsExclusive`, `StopsReach`, `ResetsAbort`, from one
  inductive invariant `JoinInv`. Its core: a live capture is the current one and
  the flag is set (`LiveIsCurrent`), no thread other than the current one can
  still clear the flag, and in the places of the loop that follow a clear flag
  or a finished wait nothing is live. `Disciplined` is not an assumption about
  the library but about the plugin; the `control_loop_noop` run shows that
  without it `StopReaches` fails.
* `ImplementsLifecycle`, under `Disciplined`: `Spec => LC!LifecycleSafety`. Each
  step maps to a step of `CaptureLifecycle` or to a stutter; `JoinInv` gives that
  `Acquiring` is well defined and that nothing is active when one begins.

About `Frontend`, in the same module, for any captures, any number of requests,
any pipe capacity and any reset: `KnowsItsEvents`, `StopsAreOwn` and
`NeverBusyOnceEnded`. The invariant `FInv` is `FlagInv` and what is true along
the wire: capture ids grow along it and those that `serve` has taken are below
them (`Ascending`), so that a capture that was refused is never started later
(`DeniedForGood`) and the one whose stop flag the plugin holds is the youngest
(`CurrentIsLast`); whatever a stop on the wire can find when it is served had
been asked for before the stop (`StopsCover`); and in front of a request that
relies on the end of the last capture there is no start (`ReliedHolds`), which
with `FlagInv` gives that it is not refused. `DrivesControlLoop` shows that each
step of the composition is one of the open `ControlLoop` or a stutter, so that
`FlagHasOwnerHere` and, for a `Disciplined` plugin, `DrivesLifecycle` follow.

`SessionProofs`, for any number of requests and any modulus of `seq`, in
particular 2^32 and 1: `TypeCorrect`, `AnswersAreOwn`, `RunsInOrder`,
`NothingLate`, `HandshakeIsFirst` and `RustReaps`. The inductive invariant is
about where requests are: those on the wire are in the order of their ids,
behind the one served, behind those executed (`Ordered`); only the last request
can bear both its id and the current `seq`, so that a reply which nng lets
through always passes the client's own check (`Matched`); a reply to the last
request was sent when nothing was in front of it any more (`Settled`); and
`greeted` is set exactly when something has succeeded (`Handshake`). Each action
has a lemma that says what it does to the elements of the sequences, and each
part of the invariant a lemma with one step per action.
`CallsAtMostOnce` is `Spec => RC!CallsSafety`. It adds `Told` to the invariant: a
reply, and the answer `serve` is about to send, say what came of their request,
and the last request, wherever it is, is what was asked for last. Taking a request,
sending its reply and dropping one are stutters; a request takes effect when it is
executed, and `Ordered` makes it the oldest that is pending. `HandshakeFirst` is
part of what `TakeEffect` allows, so the run checks it with `AtMostOnce` and not
a second time as an invariant of its own.

`PluginSpawnProofs`, for any number of launches: `PluginsLetGo`, that `NoEmbrace`
holds when launches are made one at a time, or on any threads with close-on-exec
pipes; the violated runs show that it needs one of the two. With the marks a
running plugin holds nothing (`AllMarked`). Without them `NoEmbrace`, a statement
about every set of running plugins, is kept because a child that calls exec is
one whose stdin end nobody else has (`NewestIsFree`): the only launch in progress
is its own, since the error pipe keeps `launch` waiting until then
(`ForkedIsAwaited`). It is not that the plugins end, which is liveness.
`TypeCorrect` and `EofIsMeant` hold for every kind of frontend. The second is an
action property, that a plugin finds the end of its stdin only when its client
was closed, its launch has failed or the frontend has died: the frontend holds
the stdin of every plugin it has launched (`StdinIsHeld`). `NoOrphans` asks that
plugins end when they should; this, that they do not when they should not.

`EndpointsProofs`, for any launches, tags and attempts: `TypeCorrect`,
`PathsAreOwn` and `LeavesNothing`. The invariant says that a launch between
`mkdir` and `rmdir` is the maker of the directory of its tag, and a launch is
still at the tag of the directory it made; so two launches never touch the same
paths, which is what `SocketsHeld` and `Emptied` need. `GivesUpInACrowd` is
`FullOnlyIfCrowded`, a pigeonhole over the history of a search: each tag that was
tried was taken by a launch that made a directory, and that launch stays at its
tag even when the directory is gone (`TriedAreTaken`), so different tags have
different launches.

`StreamSenderProofs`, for any sample width up to the chunk size and any calls:
`IndexIsTrue` and `SendsAll`, from the invariant that `first_sample * unitsize`
never exceeds the bytes that have gone, and equals them while nothing went
wrong, when what is left of a call is also of whole samples. A second invariant,
`Payloads`, says of every event which part of the samples it was made of, and
that the encoding is one the frontend accepts: `DecodesAll` follows with the
round trip of TRANSITION, `AllChunksFit` with the length of what is encoded,
which is at most one byte per sample more (`EncodedLength`), and
`OnlyAcceptedIsSent` and `HelloAnswers` with what `Intersect` does to any lists
(`AgreedIsCommon`), whose order it keeps for a plugin that names no encoding twice
and PACKED last (`AgreedIsOrdered`).

`OperatorProofs`, for every byte string that fits a buffer, every sample width,
and every size of a varint's bytes and of the machine word: `AlwaysRoundTrip`,
`CountAlwaysChecked` and `NothingShorter`. The lemmas are in `TransitionProofs`.
`put_varint` and `get_varint` are inverse wherever in a payload the bytes are
(`GetsWhatWasPut`, which needs that no byte but the last is below `More` and that
a run length takes at most `MaxBytes`). Encoder and decoder are unfolded run by
run (`EncodeDef`, `ExpandDef`), and what is left to decode is followed from the
last run to the first (`ExpandsWhatWasEncoded`). `NothingIsShorter` compares any
payload that expands to the samples with the encoder's: a varint takes at least
the bytes of its value (`ReadIsNotShorter`), and joining two runs of the same
sample never costs (`PutOfSum`), so maximal runs are best.

For the command line, in the same module: `LaunchesAreUnderstood` and
`NotationsAlwaysAgree`, for manifest runs of any length over the tokens and
devices of `MCArguments`. The lemmas they rest on are about any strings:
`StartsWithItsOwn`, that a plugin which starts at all after any first arguments
has what `launch` appended, and `BothNotations`. Reading from the last argument,
the slots the frontend's six arguments fill stay as they are (`LaterCounts`); a
manifest argument in front of them shifts nothing, unless it takes `--device`
for its value, and then the device URL is not a flag and the plugin refuses.

What a recursive function computes is proved without the library's induction
theorems, which take an operator as parameter. `DataFacts` states induction over a
set and along a rank (`Induction`, `RankInduction`), and that a recursion which
looks back defines a function (`Recursion`), with the set or the step as a value
of the logic; they follow from the well-foundedness of the natural numbers, which
the library states about a set.

Only model-checked: all liveness (`StopEndsCapture`, `RequestAnswered`,
`ShutdownReturns`, `NoOrphans`, `LaunchReturns`, and the fairness of
`CaptureLifecycle` and of `RemoteCalls`: the runs check all of `Lifecycle` and of
`AtMostOnce`, the theorems their safety part). Fairness and ENABLED are beyond the proof system.

## 5. What is not modelled

* nng and the operating system, except as their users see them: FIFO control and
  event pipes, timeouts, replies matched to requests, descriptors.
* The contents of messages, device descriptions and configurations; `Log` and
  `Status` events, which touch no state; how `plugin.json` is read.
* In `Session`, an undecodable request: a `CaptureClient` cannot send one.
  `ControlLoop` serves it. A reply with the wrong arm, which `serve` never sends.
* Move operations of the C++ client: what matters in them is when nng unlinks
  the path of a socket that is replaced, which is not in this code. The one-line
  request wrappers. A `read` of the error pipe that a signal interrupts
  (`client.cpp:97`).
* Two readers of one event socket (`client.rs:157`): which of them gets an event
  is nng's choice.
* Windows: `client.cpp` is POSIX, and the watcher and sockets are the same.

## 6. The plan

Done: `CaptureLifecycle`, `ControlLoop`, `Session` with `RemoteCalls`, `PluginSpawn`, `Transition`,
`StreamSender` and `Endpoints` with their runs; `Negotiation` composed with the
sender; `Arguments`; the late Hello and the interrupted wait in `Session`; the
composition of the client with the control loop in `Frontend`; the proofs of all
invariants.

Left, in this order:

1. Action properties of `Endpoints` and `StreamSender` like `EofIsMeant`: what a
   step may never do to a directory or an event that is not its own.
2. The order in which C++ move assignment drops endpoints and sockets, if nng's
   unlinking is taken as a parameter.
