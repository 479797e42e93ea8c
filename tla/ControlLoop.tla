---------------------------- MODULE ControlLoop ----------------------------
(***************************************************************************)
(* The plugin side of OCP: serve and dispatch of server/mod.rs, the        *)
(* Events handle of server/events.rs, and the acquisition threads that     *)
(* share that handle with the control loop.                                *)
(*                                                                         *)
(* Three kinds of process interleave here.                                 *)
(*   - The control loop takes one request at a time.  Its program counter  *)
(*     pc stops wherever another thread could observe or change running.   *)
(*   - One acquisition thread per accepted AcquireStart pushes events and  *)
(*     clears running just before it pushes the event that ends it.        *)
(*   - The frontend sends any request it likes and reads the event stream  *)
(*     whenever it likes, or never.                                        *)
(* The plugin is not part of the library; its handlers and its thread are  *)
(* modelled from the CaptureServer contract and from the plugin of         *)
(* tests/control_loop.rs, with the two constants below as parameters.      *)
(***************************************************************************)
EXTENDS Naturals, Sequences

CONSTANTS
  Captures,       \* the capture ids the frontend may assign
  None,           \* no capture
  ResetPolicies,  \* what the plugin's reset handler may do, see ResetReturns
  EndAfterLost,   \* the thread still pushes CaptureEnd after DeviceLost
  StreamCap       \* events the PUSH/PULL pipe holds before a push blocks

ASSUME ControlLoopAssumption ==
  /\ None \notin Captures
  /\ ResetPolicies \subseteq {"noop", "signal", "join"}
  /\ EndAfterLost \in BOOLEAN
  /\ StreamCap \in Nat \ {0}

VARIABLES
  greeted,     \* serve's local: Hello has been answered
  running,     \* Events.running, the AtomicBool both sides write
  pc,          \* where the control loop is
  req,         \* the request being served
  outcome,     \* what the reply will carry
  thread,      \* the acquisition thread of each capture
  continuous,  \* the captures started with ACQUIRE_CONTINUOUS
  stopped,     \* the captures whose stop flag is set
  current,     \* the capture whose stop flag the plugin holds
  stream,      \* events pushed and not yet read, oldest first
  ended        \* the captures whose CaptureEnd the frontend has read

controlVars == <<greeted, pc, req, outcome>>
threadVars  == <<thread, continuous, stopped, current>>
streamVars  == <<stream, ended>>
vars == <<controlVars, running, threadVars, streamVars>>

-----------------------------------------------------------------------------
QueryOps == {"Describe", "GetConfig", "SetConfig"}

Request(op) == [op |-> op, capture |-> None, mode |-> "None"]

(* Every request arm, a request without an arm, and bytes that are not a   *)
(* request.  The frontend never assigns a capture id twice.                *)
Requests ==
  {Request(op) : op \in QueryOps \cup {"Hello", "AcquireStop", "Reset",
                                       "Shutdown", "Empty", "Undecodable"}}
  \cup [op : {"AcquireStart"}, capture : Captures,
        mode : {"Single", "Continuous"}]

NoRequest == Request("None")

Outcomes == {"None", "Ok", "Invalid", "Busy", "Device"}

PcStates == {"recv", "dispatch", "hello", "query", "starting", "undo",
             "stopping", "resetting", "joining", "clear", "reply", "done"}

(* A thread is live until it has decided that its capture is over; it is   *)
(* closing between that decision and the push that announces it.           *)
Live    == {"spawned", "acquiring"}
Closing == {"ending", "losing", "lost"}
Over    == {"over", "died"}
ThreadStates == {"none"} \cup Live \cup Closing \cup Over

Event(kind, c) == [kind |-> kind, capture |-> c]
EventKinds == {"Begin", "Data", "Lost", "End"}
Events == [kind : EventKinds, capture : Captures]

TypeOK ==
  /\ greeted \in BOOLEAN
  /\ running \in BOOLEAN
  /\ pc \in PcStates
  /\ req \in Requests \cup {NoRequest}
  /\ outcome \in Outcomes
  /\ thread \in [Captures -> ThreadStates]
  /\ continuous \in SUBSET Captures
  /\ stopped \in SUBSET Captures
  /\ current \in Captures \cup {None}
  /\ stream \in Seq(Events)
  /\ ended \in SUBSET Captures

Init ==
  /\ greeted = FALSE
  /\ running = FALSE
  /\ pc = "recv"
  /\ req = NoRequest
  /\ outcome = "None"
  /\ thread = [c \in Captures |-> "none"]
  /\ continuous = {}
  /\ stopped = {}
  /\ current = None
  /\ stream = <<>>
  /\ ended = {}

-----------------------------------------------------------------------------
(* The control loop.                                                       *)

(* transport::recv delivered a request.                                    *)
Recv(r) ==
  /\ pc = "recv"
  /\ r.op = "AcquireStart" => thread[r.capture] = "none"
  /\ req' = r
  /\ pc' = "dispatch"
  /\ UNCHANGED <<greeted, running, outcome, threadVars, streamVars>>

(* transport::recv or transport::send failed: serve returns.               *)
ControlLost ==
  /\ pc \in {"recv", "reply"}
  /\ pc' = "done"
  /\ UNCHANGED <<greeted, running, req, outcome, threadVars, streamVars>>

Answer(o) ==
  /\ pc' = "reply"
  /\ outcome' = o
  /\ UNCHANGED <<greeted, req>>

GoTo(place) ==
  /\ pc' = place
  /\ UNCHANGED <<greeted, req, outcome>>

(* The checks every request passes before its handler is looked up.        *)
Refused ==
  \/ req.op \in {"Undecodable", "Empty"}
  \/ ~greeted /\ req.op # "Hello"
  \/ greeted /\ req.op = "Hello"

DispatchRefused ==
  /\ pc = "dispatch" /\ Refused
  /\ Answer("Invalid")
  /\ UNCHANGED <<running, threadVars, streamVars>>

DispatchHello ==
  /\ pc = "dispatch" /\ ~Refused
  /\ req.op = "Hello"
  /\ GoTo("hello")
  /\ UNCHANGED <<running, threadVars, streamVars>>

(* plugin.hello: only a success counts as the handshake.                   *)
HelloReturns ==
  /\ pc = "hello"
  /\ pc' = "reply"
  /\ \E ok \in BOOLEAN :
       /\ greeted' = ok
       /\ outcome' = IF ok THEN "Ok" ELSE "Device"
  /\ UNCHANGED <<req, running, threadVars, streamVars>>

(* Variant: the guard on is_running is missing.                            *)
DispatchQueryUnguarded ==
  /\ pc = "dispatch" /\ ~Refused
  /\ req.op \in QueryOps
  /\ GoTo("query")
  /\ UNCHANGED <<running, threadVars, streamVars>>

DispatchQuery ==
  /\ pc = "dispatch" /\ ~Refused
  /\ req.op \in QueryOps
  /\ IF running THEN Answer("Busy") ELSE GoTo("query")
  /\ UNCHANGED <<running, threadVars, streamVars>>

(* plugin.describe, get_config or set_config.                              *)
QueryReturns ==
  /\ pc = "query"
  /\ \E o \in {"Ok", "Device"} : Answer(o)
  /\ UNCHANGED <<running, threadVars, streamVars>>

(* Variants: the busy check is missing; the flag is not set beforehand.    *)
DispatchAcquireStartUnguarded ==
  /\ pc = "dispatch" /\ ~Refused
  /\ req.op = "AcquireStart"
  /\ GoTo("starting") /\ running' = TRUE
  /\ UNCHANGED <<threadVars, streamVars>>

DispatchAcquireStartUnset ==
  /\ pc = "dispatch" /\ ~Refused
  /\ req.op = "AcquireStart"
  /\ IF running THEN Answer("Busy") ELSE GoTo("starting")
  /\ UNCHANGED <<running, threadVars, streamVars>>

(* running is set before the plugin is called.  The load and the store are *)
(* one step: other threads only ever clear the flag, which cannot be       *)
(* noticed between a load that read FALSE and this store.                  *)
DispatchAcquireStart ==
  /\ pc = "dispatch" /\ ~Refused
  /\ req.op = "AcquireStart"
  /\ IF running
       THEN Answer("Busy") /\ UNCHANGED running
       ELSE GoTo("starting") /\ running' = TRUE
  /\ UNCHANGED <<threadVars, streamVars>>

(* Variant: the stop flag of the capture before is passed on.              *)
AcquireStartKeepsFlag ==
  /\ pc = "starting"
  /\ Answer("Ok")
  /\ thread' = [thread EXCEPT ![req.capture] = "spawned"]
  /\ continuous' = IF req.mode = "Continuous"
                     THEN continuous \cup {req.capture} ELSE continuous
  /\ stopped' = IF current \in stopped THEN stopped \cup {req.capture} ELSE stopped
  /\ current' = req.capture
  /\ UNCHANGED <<running, streamVars>>

(* plugin.acquire_start: a fresh stop flag and a thread of its own, which  *)
(* may run to its end before the reply is sent.                            *)
AcquireStartSpawns ==
  /\ pc = "starting"
  /\ Answer("Ok")
  /\ thread' = [thread EXCEPT ![req.capture] = "spawned"]
  /\ continuous' = IF req.mode = "Continuous"
                     THEN continuous \cup {req.capture} ELSE continuous
  /\ current' = req.capture
  /\ UNCHANGED <<running, stopped, streamVars>>

AcquireStartFails ==
  /\ pc = "starting"
  /\ GoTo("undo")
  /\ UNCHANGED <<running, threadVars, streamVars>>

UndoStart ==
  /\ pc = "undo"
  /\ running' = FALSE
  /\ Answer("Device")
  /\ UNCHANGED <<threadVars, streamVars>>
(* A stop with nothing running is answered without asking the plugin.      *)
DispatchAcquireStop ==
  /\ pc = "dispatch" /\ ~Refused
  /\ req.op = "AcquireStop"
  /\ IF running THEN GoTo("stopping") ELSE Answer("Ok")
  /\ UNCHANGED <<running, threadVars, streamVars>>

(* Variant: a stop with no capture to stop.                                *)
SignalStopUnguarded == stopped' = stopped \cup {current}

(* The plugin holds one stop flag, that of the last capture it started.    *)
SignalStop == stopped' = stopped \cup ({current} \ {None})

(* plugin.acquire_stop, which does not look at the capture id.             *)
AcquireStopReturns ==
  /\ pc = "stopping"
  /\ \/ Answer("Ok") /\ SignalStop
     \/ Answer("Device") /\ UNCHANGED stopped
  /\ UNCHANGED <<running, thread, continuous, current, streamVars>>

DispatchReset ==
  /\ pc = "dispatch" /\ ~Refused
  /\ req.op = "Reset"
  /\ GoTo("resetting")
  /\ UNCHANGED <<running, threadVars, streamVars>>

(* Variant: a reset that should wait returns at once.                      *)
ResetReturnsAtOnce ==
  /\ pc = "resetting"
  /\ GoTo("clear") /\ SignalStop
  /\ UNCHANGED <<running, thread, continuous, current, streamVars>>

(* plugin.reset.  "noop" is the trait's default, "signal" tells the        *)
(* acquisition to stop, "join" also waits until its thread has finished.   *)
ResetReturns ==
  /\ pc = "resetting"
  /\ \/ "noop" \in ResetPolicies /\ GoTo("clear") /\ UNCHANGED stopped
     \/ "signal" \in ResetPolicies /\ GoTo("clear") /\ SignalStop
     \/ "join" \in ResetPolicies /\ GoTo("joining") /\ SignalStop
  /\ UNCHANGED <<running, thread, continuous, current, streamVars>>

ResetFails ==
  /\ pc = "resetting"
  /\ Answer("Device")
  /\ UNCHANGED <<running, threadVars, streamVars>>

Finished(c) == thread[c] \in Over

(* Variant: waits for a thread although none was ever started.             *)
ResetJoinsAlways ==
  /\ pc = "joining"
  /\ current # None /\ Finished(current)
  /\ GoTo("clear")
  /\ UNCHANGED <<running, threadVars, streamVars>>

ResetJoins ==
  /\ pc = "joining"
  /\ current # None => Finished(current)
  /\ GoTo("clear")
  /\ UNCHANGED <<running, threadVars, streamVars>>

ClearRunning ==
  /\ pc = "clear"
  /\ running' = FALSE
  /\ Answer("Ok")
  /\ UNCHANGED <<threadVars, streamVars>>

DispatchShutdown ==
  /\ pc = "dispatch" /\ ~Refused
  /\ req.op = "Shutdown"
  /\ Answer("Ok")
  /\ UNCHANGED <<running, threadVars, streamVars>>

(* Variant: the flag is set once acquire_start has returned.               *)
ReplySetsRunning ==
  /\ pc = "reply"
  /\ pc' = IF req.op = "Shutdown" /\ outcome = "Ok" THEN "done" ELSE "recv"
  /\ running' = (running \/ (req.op = "AcquireStart" /\ outcome = "Ok"))
  /\ req' = NoRequest
  /\ outcome' = "None"
  /\ UNCHANGED <<greeted, threadVars, streamVars>>

(* transport::send of the response; an accepted Shutdown ends the loop.    *)
Reply ==
  /\ pc = "reply"
  /\ pc' = IF req.op = "Shutdown" /\ outcome = "Ok" THEN "done" ELSE "recv"
  /\ req' = NoRequest
  /\ outcome' = "None"
  /\ UNCHANGED <<greeted, running, threadVars, streamVars>>

(* Everything the control loop does once a request is in.                  *)
ControlStep ==
  \/ DispatchRefused
  \/ DispatchHello \/ HelloReturns
  \/ DispatchQuery \/ QueryReturns
  \/ DispatchAcquireStart \/ AcquireStartSpawns
  \/ AcquireStartFails \/ UndoStart
  \/ DispatchAcquireStop \/ AcquireStopReturns
  \/ DispatchReset \/ ResetReturns \/ ResetFails \/ ResetJoins \/ ClearRunning
  \/ DispatchShutdown
  \/ Reply

-----------------------------------------------------------------------------
(* Acquisition threads.  Events.send clears running before it pushes an    *)
(* event that ends a capture, so ending a capture takes two steps.         *)

Becomes(c, state) == thread' = [thread EXCEPT ![c] = state]

Push(kind, c) ==
  /\ Len(stream) < StreamCap
  /\ stream' = Append(stream, Event(kind, c))
  /\ UNCHANGED ended

ThreadBegin(c) ==
  /\ thread[c] = "spawned"
  /\ Becomes(c, "acquiring")
  /\ Push("Begin", c)
  /\ UNCHANGED <<controlVars, running, continuous, stopped, current>>

ThreadData(c) ==
  /\ thread[c] = "acquiring"
  /\ Push("Data", c)
  /\ UNCHANGED <<controlVars, running, threadVars>>

(* Variant: a CaptureEnd does not clear the flag.                          *)
ThreadEndsSilently(c) ==
  /\ \/ thread[c] = "acquiring" /\ (c \in continuous => c \in stopped)
     \/ thread[c] = "lost"
  /\ Becomes(c, "ending")
  /\ UNCHANGED <<controlVars, running, continuous, stopped, current, streamVars>>

(* The first half of Events.send(CaptureEnd), which some threads call even *)
(* after a DeviceLost.                                                     *)
ThreadEnds(c) ==
  /\ \/ thread[c] = "acquiring" /\ (c \in continuous => c \in stopped)
     \/ thread[c] = "lost"
  /\ running' = FALSE
  /\ Becomes(c, "ending")
  /\ UNCHANGED <<controlVars, continuous, stopped, current, streamVars>>

(* The first half of Events.send(DeviceLost).                              *)
ThreadLosesDevice(c) ==
  /\ thread[c] = "acquiring"
  /\ running' = FALSE
  /\ Becomes(c, "losing")
  /\ UNCHANGED <<controlVars, continuous, stopped, current, streamVars>>

PushEnd(c) ==
  /\ thread[c] = "ending"
  /\ Becomes(c, "over")
  /\ Push("End", c)
  /\ UNCHANGED <<controlVars, running, continuous, stopped, current>>

AfterLost == IF EndAfterLost THEN "lost" ELSE "over"

PushLost(c) ==
  /\ thread[c] = "losing"
  /\ Becomes(c, AfterLost)
  /\ Push("Lost", c)
  /\ UNCHANGED <<controlVars, running, continuous, stopped, current>>

(* Variant: the socket has no send timeout.                                *)
PushNeverTimesOut(c) == thread[c] \in Live /\ FALSE /\ UNCHANGED vars

(* A push into a full pipe gives up after the send timeout.  The thread    *)
(* panics on the error: mid-capture that leaves running set, at the end of *)
(* a capture it loses the event.                                           *)
PushTimesOut(c) ==
  /\ thread[c] \in Live \cup {"ending", "losing"}
  /\ Len(stream) = StreamCap
  /\ Becomes(c, IF thread[c] \in Live THEN "died" ELSE "over")
  /\ UNCHANGED <<controlVars, running, continuous, stopped, current, streamVars>>

(* What a thread will do without a trigger and without the frontend.       *)
ThreadProgress(c) ==
  \/ ThreadBegin(c)
  \/ (c \in stopped \/ thread[c] = "lost") /\ ThreadEnds(c)
  \/ PushEnd(c) \/ PushLost(c)
  \/ thread[c] # "acquiring" /\ PushTimesOut(c)

ThreadStep(c) ==
  \/ ThreadBegin(c) \/ ThreadData(c)
  \/ ThreadEnds(c) \/ ThreadLosesDevice(c)
  \/ PushEnd(c) \/ PushLost(c)
  \/ PushTimesOut(c)

-----------------------------------------------------------------------------
(* The frontend's end of the event stream.                                 *)
ReadEvent ==
  /\ stream # <<>>
  /\ stream' = Tail(stream)
  /\ ended' = IF Head(stream).kind = "End"
                THEN ended \cup {Head(stream).capture} ELSE ended
  /\ UNCHANGED <<controlVars, running, threadVars>>

(* serve has returned, with no thread and no event left behind.            *)
Terminated ==
  /\ pc = "done" /\ stream = <<>>
  /\ \A c \in Captures : thread[c] \in {"none"} \cup Over
  /\ UNCHANGED vars

Next ==
  \/ \E r \in Requests : Recv(r)
  \/ ControlLost
  \/ ControlStep
  \/ \E c \in Captures : ThreadStep(c)
  \/ ReadEvent
  \/ Terminated

Safety == Init /\ [][Next]_vars

(* The loop serves the request it has taken, handlers return, and a thread *)
(* keeps running: a push into a full pipe ends by the send timeout.  That  *)
(* the frontend sends or reads, that a trigger comes, is not assumed.      *)
Spec ==
  /\ Safety
  /\ WF_vars(ControlStep)
  /\ \A c \in Captures : WF_vars(ThreadProgress(c))

-----------------------------------------------------------------------------
(* What the loop and the threads guarantee together.                       *)

LiveCaptures == {c \in Captures : thread[c] \in Live}

(* Whatever the plugin's reset does: a flag that reads busy belongs to a   *)
(* start in progress or to the last capture started, which is not over, so *)
(* no interleaving of the store before acquire_start (mod.rs:141), a short *)
(* capture's CaptureEnd (events.rs:28) and a Reset leaves the plugin       *)
(* refusing requests for ever.  A thread that died in mid-capture is the   *)
(* one exception: only a Reset recovers from it.                           *)
NoStuckBusy ==
  running => \/ pc \in {"starting", "undo"}
             \/ current # None /\ thread[current] \in Live \cup {"died"}

(* Whatever the plugin's reset does: once the CaptureEnd of the capture    *)
(* started last is on the event stream, no request that arrives after it   *)
(* was read is refused as busy (events.rs:27-30 store before they push).   *)
ReadyOnceEnded ==
  \A c \in Captures :
    /\ \/ c \in ended
       \/ \E i \in DOMAIN stream : stream[i] = Event("End", c)
    /\ c = current
    /\ pc \notin {"starting", "undo"}
    => ~running

(* An acquisition in progress is what ERROR_BUSY means                     *)
(* (common.proto:24): while a thread acquires, the flag is set.            *)
BusyWhileAcquiring == LiveCaptures # {} => running

(* The plugin is asked to describe or configure the device only while no   *)
(* thread acquires from it (the guards of mod.rs:126-130).                 *)
ConfigExclusive == pc = "query" => LiveCaptures = {}

(* An AcquireStop that was answered without error reached every            *)
(* acquisition in progress (mod.rs:148-155).                               *)
StopReaches ==
  pc = "reply" /\ req.op = "AcquireStop" /\ outcome = "Ok"
    => LiveCaptures \subseteq stopped

(* A Reset that was answered without error leaves no acquisition behind    *)
(* (mod.rs:51, capture.proto:107).                                         *)
ResetAborts ==
  pc = "reply" /\ req.op = "Reset" /\ outcome = "Ok" => LiveCaptures = {}

(* A capture whose stop flag is set comes to its end, whether or not the   *)
(* frontend reads its events (transport.rs:24 bounds a blocked push).      *)
StopEndsCapture ==
  \A c \in Captures : c \in stopped ~> Finished(c)

(* Every request the loop takes is answered or ends the loop, although a   *)
(* Reset may wait for a thread that waits for the frontend to read.        *)
RequestAnswered == pc = "dispatch" ~> pc \in {"recv", "done"}

(* The abstract capture server this loop implements when Reset waits for   *)
(* the acquisition it abandons, and the values of its variables here.      *)
Acquiring ==
  IF LiveCaptures = {} THEN None ELSE CHOOSE c \in Captures : c \in LiveCaptures
Stopping == LiveCaptures \cap stopped # {}
FinishedCaptures == {c \in Captures : thread[c] \in Closing \cup Over}
Configuring == pc = "query"

LC == INSTANCE CaptureLifecycle WITH
  bound <- greeted, active <- Acquiring, stopping <- Stopping,
  finished <- FinishedCaptures, configuring <- Configuring

Lifecycle == LC!LifecycleSpec

=============================================================================
