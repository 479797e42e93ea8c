------------------------- MODULE ControlLoopProofs -------------------------
(***************************************************************************)
(* Theorems about ControlLoop for any set of captures, any stream capacity *)
(* and, where no policy is assumed, any reset handler; and, in the second  *)
(* part, about Frontend for any captures, any number of requests and any   *)
(* reset handler.                                                          *)
(***************************************************************************)
EXTENDS Frontend, SequenceTheorems, DataFacts, TLAPS

-----------------------------------------------------------------------------
(* Type correctness.                                                       *)

(* A push leaves a sequence of events behind.                              *)
LEMMA PushType ==
  ASSUME stream \in Seq(Events),
         NEW kind \in EventKinds, NEW c \in Captures, Push(kind, c)
  PROVE  stream' \in Seq(Events) /\ ended' = ended
<1>1. Event(kind, c) \in Events
  BY DEF Event, Events
<1> QED
  BY <1>1, AppendProperties DEF Push

(* Taking an event off the stream leaves a sequence of events behind.      *)
LEMMA ReadType ==
  ASSUME TypeOK, ReadEvent
  PROVE  stream' \in Seq(Events) /\ ended' \in SUBSET Captures
<1>1. Head(stream) \in Events /\ Tail(stream) \in Seq(Events)
  BY HeadTailProperties DEF ReadEvent, TypeOK
<1> QED
  BY <1>1 DEF ReadEvent, TypeOK, Events

(* Every step of the control loop keeps the variables in their types.      *)
LEMMA ControlStepType ==
  ASSUME TypeOK, ControlStep
  PROVE  TypeOK'
<1> USE DEF TypeOK, threadVars, streamVars, PcStates, Outcomes, Answer, GoTo
<1>1. CASE DispatchRefused \/ DispatchHello \/ HelloReturns
  BY <1>1 DEF DispatchRefused, DispatchHello, HelloReturns
<1>2. CASE DispatchQuery \/ QueryReturns
  BY <1>2 DEF DispatchQuery, QueryReturns
<1>3. CASE DispatchAcquireStart \/ AcquireStartFails \/ UndoStart
  BY <1>3 DEF DispatchAcquireStart, AcquireStartFails, UndoStart
<1>4. CASE AcquireStartSpawns
  <2>1. thread' \in [Captures -> ThreadStates]
    BY <1>4 DEF AcquireStartSpawns, ThreadStates, Live
  <2>2. current' \in Captures \cup {None} /\ continuous' \in SUBSET Captures
    BY <1>4 DEF AcquireStartSpawns, Requests, Request, NoRequest
  <2> QED
    BY <1>4, <2>1, <2>2 DEF AcquireStartSpawns
<1>5. CASE DispatchAcquireStop \/ AcquireStopReturns
  BY <1>5 DEF DispatchAcquireStop, AcquireStopReturns, SignalStop
<1>6. CASE DispatchReset \/ ResetReturns \/ ResetFails
  BY <1>6 DEF DispatchReset, ResetReturns, ResetFails, SignalStop
<1>7. CASE ResetJoins \/ ClearRunning \/ DispatchShutdown
  BY <1>7 DEF ResetJoins, ClearRunning, DispatchShutdown
<1>8. CASE Reply
  BY <1>8 DEF Reply
<1> QED
  BY <1>1, <1>2, <1>3, <1>4, <1>5, <1>6, <1>7, <1>8 DEF ControlStep

(* Every step of an acquisition thread keeps the variables in their types. *)
LEMMA ThreadStepType ==
  ASSUME TypeOK, NEW c \in Captures, ThreadStep(c)
  PROVE  TypeOK'
<1> USE DEF TypeOK, threadVars, streamVars, controlVars, Becomes, ThreadStates,
            Live, Closing, Over, EventKinds
<1>1. CASE ThreadBegin(c)
  BY <1>1, PushType DEF ThreadBegin
<1>2. CASE ThreadData(c)
  BY <1>2, PushType DEF ThreadData
<1>3. CASE ThreadEnds(c) \/ ThreadLosesDevice(c)
  BY <1>3 DEF ThreadEnds, ThreadLosesDevice
<1>4. CASE PushEnd(c)
  BY <1>4, PushType DEF PushEnd
<1>5. CASE PushLost(c)
  BY <1>5, PushType DEF PushLost, AfterLost
<1>6. CASE PushTimesOut(c)
  BY <1>6 DEF PushTimesOut
<1> QED
  BY <1>1, <1>2, <1>3, <1>4, <1>5, <1>6 DEF ThreadStep

(* The initial state has the types of TypeOK.                              *)
LEMMA InitType == Init => TypeOK
BY EmptySeq DEF Init, TypeOK, PcStates, Outcomes, ThreadStates

(* A step of the specification keeps the variables in their types.         *)
LEMMA NextType == TypeOK /\ [Next]_vars => TypeOK'
<1> SUFFICES ASSUME TypeOK, [Next]_vars PROVE TypeOK'
  OBVIOUS
<1>1. ASSUME NEW r \in Requests, Recv(r) PROVE TypeOK'
  BY <1>1 DEF Recv, TypeOK, PcStates, threadVars, streamVars
<1>2. CASE ControlLost
  BY <1>2 DEF ControlLost, TypeOK, PcStates, threadVars, streamVars
<1>3. CASE ControlStep
  BY <1>3, ControlStepType
<1>4. ASSUME NEW c \in Captures, ThreadStep(c) PROVE TypeOK'
  BY <1>4, ThreadStepType
<1>5. CASE ReadEvent
  BY <1>5, ReadType DEF ReadEvent, TypeOK, controlVars, threadVars
<1>6. CASE Terminated \/ UNCHANGED vars
  BY <1>6 DEF Terminated, vars, controlVars, threadVars, streamVars, TypeOK
<1> QED
  BY <1>1, <1>2, <1>3, <1>4, <1>5, <1>6 DEF Next

(* Every reachable state is well typed, whatever the plugin's handlers do. *)
THEOREM TypeCorrect == Spec => []TypeOK
<1> QED
  BY InitType, NextType, PTL DEF Spec, Safety

-----------------------------------------------------------------------------
(* The flag, for every reset policy.                                       *)

(* A start being handled is for a capture that has no thread yet.          *)
StartIsFresh ==
  /\ pc = "starting" => req.op = "AcquireStart"
  /\ pc \in {"dispatch", "starting"} /\ req.op = "AcquireStart"
       => thread[req.capture] = "none"

Announced(c) ==
  c \in ended \/ \E i \in DOMAIN stream : stream[i] = Event("End", c)

AnnouncedIsOver == \A c \in Captures : Announced(c) => thread[c] = "over"

(* NoStuckBusy needs to know that a start replaces current by a capture    *)
(* whose thread it has just spawned; ReadyOnceEnded follows from it and    *)
(* AnnouncedIsOver, since an announced capture can own no set flag.        *)
FlagInv == TypeOK /\ StartIsFresh /\ NoStuckBusy /\ AnnouncedIsOver

(* The control loop leaves the stream alone.                               *)
LEMMA ControlKeepsStream == ControlStep => UNCHANGED streamVars
BY DEF ControlStep, streamVars, DispatchRefused, DispatchHello, HelloReturns,
       DispatchQuery, QueryReturns, DispatchAcquireStart, AcquireStartSpawns,
       AcquireStartFails, UndoStart, DispatchAcquireStop, AcquireStopReturns,
       DispatchReset, ResetReturns, ResetFails, ResetJoins, ClearRunning,
       DispatchShutdown, Reply

(* Only a start touches a thread or the capture being acquired.            *)
LEMMA ControlKeepsThreads ==
  ControlStep /\ ~AcquireStartSpawns => UNCHANGED <<thread, current>>
BY DEF ControlStep, threadVars, DispatchRefused, DispatchHello, HelloReturns,
       DispatchQuery, QueryReturns, DispatchAcquireStart,
       AcquireStartFails, UndoStart, DispatchAcquireStop, AcquireStopReturns,
       DispatchReset, ResetReturns, ResetFails, ResetJoins, ClearRunning,
       DispatchShutdown, Reply

(* While the loop waits it is handed a fresh capture or none at all.       *)
LEMMA FreshStep ==
  ASSUME TypeOK, StartIsFresh, [Next]_vars
  PROVE  StartIsFresh'
<1> USE DEF StartIsFresh
<1>1. ASSUME NEW r \in Requests, Recv(r) PROVE StartIsFresh'
  BY <1>1 DEF Recv, threadVars
<1>2. CASE ControlLost
  BY <1>2 DEF ControlLost, threadVars
<1>3. CASE ControlStep
  <2>1. CASE AcquireStartSpawns
    BY <2>1 DEF AcquireStartSpawns, Answer
  <2>2. CASE ~AcquireStartSpawns
    <3>1. UNCHANGED thread
      BY <1>3, <2>2, ControlKeepsThreads
    <3>2. CASE DispatchAcquireStart
      BY <3>1, <3>2 DEF DispatchAcquireStart, Answer, GoTo
    <3>3. CASE ~DispatchAcquireStart
      <4>1. pc' \notin {"dispatch", "starting"}
        BY <1>3, <2>2, <3>3 DEF ControlStep, DispatchRefused, DispatchHello,
           HelloReturns, DispatchQuery, QueryReturns, AcquireStartFails,
           UndoStart, DispatchAcquireStop, AcquireStopReturns, DispatchReset,
           ResetReturns, ResetFails, ResetJoins, ClearRunning,
           DispatchShutdown, Reply, Answer, GoTo
      <4> QED
        BY <4>1
    <3> QED
      BY <3>2, <3>3
  <2> QED
    BY <2>1, <2>2
<1>4. ASSUME NEW c \in Captures, ThreadStep(c) PROVE StartIsFresh'
  <2>1. thread[c] # "none" /\ UNCHANGED controlVars
    BY <1>4 DEF ThreadStep, ThreadBegin, ThreadData, ThreadEnds,
       ThreadLosesDevice, PushEnd, PushLost, PushTimesOut, Live
  <2>2. \A d \in Captures : d # c => thread'[d] = thread[d]
    BY <1>4 DEF ThreadStep, ThreadBegin, ThreadData, ThreadEnds, Becomes,
       ThreadLosesDevice, PushEnd, PushLost, PushTimesOut,
       TypeOK, threadVars
  <2>3. req.op = "AcquireStart" => req.capture \in Captures
    BY DEF TypeOK, Requests, Request, NoRequest, QueryOps
  <2> QED
    BY <2>1, <2>2, <2>3 DEF controlVars
<1>5. CASE ReadEvent \/ Terminated \/ UNCHANGED vars
  BY <1>5 DEF ReadEvent, Terminated, vars, controlVars, threadVars
<1> QED
  BY <1>1, <1>2, <1>3, <1>4, <1>5 DEF Next

(* The control loop sets the flag only on its way into acquire_start.      *)
LEMMA ControlKeepsFlag ==
  ControlStep /\ ~DispatchAcquireStart /\ ~ClearRunning /\ ~UndoStart
    => UNCHANGED running
BY DEF ControlStep, DispatchRefused, DispatchHello, HelloReturns,
       DispatchQuery, QueryReturns, AcquireStartSpawns,
       AcquireStartFails, DispatchAcquireStop, AcquireStopReturns,
       DispatchReset, ResetReturns, ResetFails, ResetJoins,
       DispatchShutdown, Reply

(* The loop leaves "starting" and "undo" only by AcquireStartSpawns, by    *)
(* AcquireStartFails or by clearing the flag.                              *)
LEMMA LeavingStart ==
  ASSUME ControlStep, pc \in {"starting", "undo"}, ~AcquireStartSpawns
  PROVE  pc' = "undo" \/ ~running'
BY DEF ControlStep, DispatchRefused, DispatchHello, HelloReturns,
       DispatchQuery, QueryReturns, DispatchAcquireStart,
       AcquireStartFails, UndoStart, DispatchAcquireStop, AcquireStopReturns,
       DispatchReset, ResetReturns, ResetFails, ResetJoins, ClearRunning,
       DispatchShutdown, Reply, GoTo

(* A set flag keeps its owner.                                             *)
LEMMA FlagStep ==
  ASSUME TypeOK, StartIsFresh, NoStuckBusy, [Next]_vars
  PROVE  NoStuckBusy'
<1> USE DEF NoStuckBusy
<1>1. ASSUME NEW r \in Requests, Recv(r) PROVE NoStuckBusy'
  BY <1>1 DEF Recv, threadVars
<1>2. CASE ControlLost
  BY <1>2 DEF ControlLost, threadVars
<1>3. CASE ControlStep
  <2>1. CASE AcquireStartSpawns
    <3>1. req.capture \in Captures
      BY <2>1 DEF AcquireStartSpawns, StartIsFresh, TypeOK, Requests, Request,
                  NoRequest, QueryOps
    <3>2. current' = req.capture /\ thread'[req.capture] = "spawned"
      BY <2>1, <3>1 DEF AcquireStartSpawns, TypeOK
    <3> QED
      BY <3>1, <3>2, ControlLoopAssumption DEF Live
  <2>2. CASE ~AcquireStartSpawns
    <3>1. UNCHANGED <<thread, current>>
      BY <1>3, <2>2, ControlKeepsThreads
    <3>2. CASE DispatchAcquireStart
      BY <3>1, <3>2 DEF DispatchAcquireStart, GoTo
    <3>3. CASE ClearRunning \/ UndoStart
      BY <3>3 DEF ClearRunning, UndoStart
    <3>4. CASE ~DispatchAcquireStart /\ ~ClearRunning /\ ~UndoStart
      BY <1>3, <2>2, <3>1, <3>4, ControlKeepsFlag, LeavingStart
    <3> QED
      BY <3>2, <3>3, <3>4
  <2> QED
    BY <2>1, <2>2
<1>4. ASSUME NEW c \in Captures, ThreadStep(c) PROVE NoStuckBusy'
  <2>1. UNCHANGED <<pc, current>>
    BY <1>4 DEF ThreadStep, ThreadBegin, ThreadData, ThreadEnds,
       ThreadLosesDevice, PushEnd, PushLost, PushTimesOut,
       controlVars, threadVars
  <2>2. CASE ThreadEnds(c) \/ ThreadLosesDevice(c)
    BY <2>2 DEF ThreadEnds, ThreadLosesDevice
  <2>3. CASE ThreadBegin(c) \/ ThreadData(c) \/ PushEnd(c) \/ PushLost(c)
             \/ PushTimesOut(c)
    <3>1. UNCHANGED running
      BY <2>3 DEF ThreadBegin, ThreadData, PushEnd, PushLost, PushTimesOut
    <3>2. \A d \in Captures : thread[d] \in Live \cup {"died"}
                                => thread'[d] \in Live \cup {"died"}
      BY <2>3 DEF ThreadBegin, ThreadData, PushEnd, PushLost, PushTimesOut,
                  Becomes, TypeOK, Live, threadVars
    <3> QED
      BY <2>1, <3>1, <3>2 DEF TypeOK
  <2> QED
    BY <1>4, <2>2, <2>3 DEF ThreadStep
<1>5. CASE ReadEvent \/ Terminated \/ UNCHANGED vars
  BY <1>5 DEF ReadEvent, Terminated, vars, controlVars, threadVars
<1> QED
  BY <1>1, <1>2, <1>3, <1>4, <1>5 DEF Next

-----------------------------------------------------------------------------
(* What the frontend has been told.                                        *)

(* A push announces the end of a capture only if it pushes a CaptureEnd.   *)
LEMMA PushAnnounces ==
  ASSUME stream \in Seq(Events), NEW kind \in EventKinds, NEW c \in Captures,
         Push(kind, c), NEW d \in Captures, Announced(d)'
  PROVE  Announced(d) \/ (d = c /\ kind = "End")
<1>1. CASE d \in ended'
  BY <1>1 DEF Push, Announced
<1>2. ASSUME NEW i \in DOMAIN stream', stream'[i] = Event("End", d)
      PROVE  Announced(d) \/ (d = c /\ kind = "End")
  <2>1. stream' = Append(stream, Event(kind, c)) /\ Event(kind, c) \in Events
    BY DEF Push, Event, Events
  <2>2. /\ Len(stream') = Len(stream) + 1
        /\ stream' \in Seq(Events)
        /\ \A j \in 1 .. Len(stream) : stream'[j] = stream[j]
        /\ stream'[Len(stream) + 1] = Event(kind, c)
    BY <2>1, AppendProperties
  <2>3. i \in 1 .. Len(stream) + 1 /\ Len(stream) \in Nat
    BY <1>2, <2>2, LenProperties
  <2>4. CASE i \in 1 .. Len(stream)
    BY <1>2, <2>2, <2>4, LenProperties DEF Announced
  <2>5. CASE i = Len(stream) + 1
    BY <1>2, <2>2, <2>5 DEF Event
  <2> QED
    BY <2>3, <2>4, <2>5
<1> QED
  BY <1>1, <1>2 DEF Announced

(* Reading the stream moves an announcement, it makes none.                *)
LEMMA ReadAnnounces ==
  ASSUME TypeOK, ReadEvent, NEW d \in Captures, Announced(d)'
  PROVE  Announced(d)
<1>1. /\ stream # <<>> /\ stream \in Seq(Events)
      /\ stream' = Tail(stream)
  BY DEF ReadEvent, TypeOK
<1>2. /\ stream' \in Seq(Events) /\ Len(stream') = Len(stream) - 1
      /\ \A i \in 1 .. Len(stream') : stream'[i] = stream[i + 1]
      /\ Head(stream) \in Events
  BY <1>1, HeadTailProperties
<1>3. Len(stream) \in Nat /\ Len(stream) > 0 /\ DOMAIN stream = 1 .. Len(stream)
  BY <1>1, EmptySeq, LenProperties
<1>4. CASE d \in ended'
  <2>1. CASE d \in ended
    BY <2>1 DEF Announced
  <2>2. CASE d \notin ended
    <3>1. Head(stream).kind = "End" /\ Head(stream).capture = d
      BY <1>4, <2>2 DEF ReadEvent
    <3>2. Head(stream) = Event("End", d)
      BY <1>2, <3>1 DEF Events, Event
    <3>3. stream[1] = Head(stream)
      BY <1>1
    <3> QED
      BY <1>3, <3>2, <3>3 DEF Announced
  <2> QED
    BY <2>1, <2>2
<1>5. ASSUME NEW i \in DOMAIN stream', stream'[i] = Event("End", d)
      PROVE  Announced(d)
  <2>1. i \in 1 .. Len(stream')
    BY <1>2, LenProperties
  <2>2. i + 1 \in DOMAIN stream /\ stream[i + 1] = Event("End", d)
    BY <1>2, <1>3, <1>5, <2>1
  <2> QED
    BY <2>2 DEF Announced
<1> QED
  BY <1>4, <1>5 DEF Announced

(* An announced capture stays over.                                        *)
LEMMA AnnouncedStep ==
  ASSUME TypeOK, StartIsFresh, AnnouncedIsOver, [Next]_vars
  PROVE  AnnouncedIsOver'
<1> SUFFICES ASSUME NEW d \in Captures, Announced(d)' PROVE thread'[d] = "over"
  BY DEF AnnouncedIsOver
<1>1. CASE UNCHANGED streamVars /\ UNCHANGED thread
  BY <1>1 DEF AnnouncedIsOver, Announced, streamVars
<1>2. CASE ControlStep
  <2>1. thread[d] = "over"
    BY <1>2, ControlKeepsStream DEF AnnouncedIsOver, Announced, streamVars
  <2>2. CASE AcquireStartSpawns
    <3>1. req.capture # d
      BY <2>1, <2>2 DEF AcquireStartSpawns, StartIsFresh
    <3> QED
      BY <2>1, <2>2, <3>1 DEF AcquireStartSpawns, TypeOK
  <2> QED
    BY <1>2, <2>1, <2>2, ControlKeepsThreads
<1>3. ASSUME NEW c \in Captures, ThreadStep(c) PROVE thread'[d] = "over"
  <2> USE DEF Becomes, TypeOK, EventKinds, AnnouncedIsOver
  <2>1. CASE ThreadBegin(c)
    BY <2>1, PushAnnounces DEF ThreadBegin
  <2>2. CASE ThreadData(c)
    BY <2>2, PushAnnounces DEF ThreadData, threadVars
  <2>3. CASE PushEnd(c)
    BY <2>3, PushAnnounces DEF PushEnd
  <2>4. CASE PushLost(c)
    BY <2>4, PushAnnounces DEF PushLost
  <2>5. CASE ThreadEnds(c) \/ ThreadLosesDevice(c)
             \/ PushTimesOut(c)
    <3>1. thread[d] = "over"
      BY <2>5 DEF ThreadEnds, ThreadLosesDevice, PushTimesOut,
                  Announced, streamVars
    <3> QED
      BY <2>5, <3>1 DEF ThreadEnds, ThreadLosesDevice,
                        PushTimesOut, Live
  <2> QED
    BY <1>3, <2>1, <2>2, <2>3, <2>4, <2>5 DEF ThreadStep
<1>4. CASE ReadEvent
  BY <1>4, ReadAnnounces DEF ReadEvent, AnnouncedIsOver, threadVars
<1>5. CASE ControlLost \/ Terminated \/ UNCHANGED vars
  BY <1>1, <1>5 DEF ControlLost, Terminated, vars, threadVars
<1>6. ASSUME NEW r \in Requests, Recv(r) PROVE thread'[d] = "over"
  BY <1>1, <1>6 DEF Recv, threadVars
<1> QED
  BY <1>2, <1>3, <1>4, <1>5, <1>6 DEF Next

(* The initial state satisfies FlagInv, and steps keep it.                 *)
LEMMA InitFlagInv == Init => FlagInv
<1>1. ASSUME Init PROVE AnnouncedIsOver
  BY <1>1, EmptySeq DEF Init, AnnouncedIsOver, Announced
<1> QED
  BY <1>1, InitType DEF Init, FlagInv, StartIsFresh, NoStuckBusy

LEMMA NextFlagInv == FlagInv /\ [Next]_vars => FlagInv'
BY NextType, FreshStep, FlagStep, AnnouncedStep DEF FlagInv

(* FlagInv leaves no announced capture the owner of a set flag.            *)
LEMMA FlagInvImplies == FlagInv => NoStuckBusy /\ ReadyOnceEnded
<1> SUFFICES ASSUME FlagInv, NEW c \in Captures, Announced(c), c = current,
                    pc \notin {"starting", "undo"}
             PROVE  ~running
  BY DEF ReadyOnceEnded, Announced, FlagInv
<1>1. thread[c] = "over"
  BY DEF FlagInv, AnnouncedIsOver
<1> QED
  BY <1>1 DEF FlagInv, NoStuckBusy, Live

(* Every reachable state satisfies FlagInv.                                *)
LEMMA FlagInvariant == Safety => []FlagInv
BY InitFlagInv, NextFlagInv, PTL DEF Safety

(* Whatever reset does, a busy flag always has an owner that will clear it *)
(* or, if it died in mid-capture, waits for a Reset (mod.rs:139-145).      *)
THEOREM FlagHasOwner == Spec => []NoStuckBusy
BY FlagInvImplies, FlagInvariant, PTL DEF Spec

(* Whatever reset does, a frontend that has read the CaptureEnd of the     *)
(* capture it started last finds the plugin ready (events.rs:25-30).       *)
THEOREM ReadyAfterEnd == Spec => []ReadyOnceEnded
BY FlagInvImplies, FlagInvariant, PTL DEF Spec

-----------------------------------------------------------------------------
(* A plugin whose reset waits for the acquisition it abandons and whose    *)
(* threads say nothing after DeviceLost.                                   *)

Disciplined == ResetPolicies \subseteq {"join"} /\ EndAfterLost = FALSE

LiveIsCurrent == \A c \in LiveCaptures : c = current /\ running

(* Where the loop relies on there being no acquisition.                    *)
QuietAt == {"query", "starting", "undo", "clear"}

(* The handler being run is the one the request asks for, and no handler   *)
(* but hello runs before the handshake.                                    *)
Serving ==
  /\ pc = "hello" => req.op = "Hello" /\ ~greeted
  /\ pc = "starting" => greeted
  /\ pc = "stopping" => req.op = "AcquireStop"

(* Only the acquisitions that were started are told to stop.               *)
StartedOnly == \A c \in Captures : c \in stopped \/ c = current => thread[c] # "none"

NothingLate == \A c \in Captures : thread[c] # "lost"

(* BusyWhileAcquiring needs that a live thread is the current one, so that *)
(* the thread that clears the flag is the one it was set for; that in turn *)
(* needs every start to find nothing alive.                                *)
JoinInv ==
  /\ TypeOK /\ StartIsFresh /\ Serving /\ StartedOnly /\ NothingLate
  /\ LiveIsCurrent
  /\ pc \in QuietAt => LiveCaptures = {}
  /\ pc = "starting" => running
  /\ StopReaches
  /\ ResetAborts

(* A step of the control loop preserves the invariant.                     *)
LEMMA JoinControl ==
  ASSUME Disciplined, JoinInv, ControlStep, (TypeOK /\ StartIsFresh)'
  PROVE  JoinInv'
<1> USE DEF JoinInv, LiveCaptures, LiveIsCurrent, QuietAt, StopReaches,
            ResetAborts, NothingLate, Serving, StartedOnly, threadVars,
            Answer, GoTo
<1>1. CASE DispatchRefused \/ DispatchHello \/ HelloReturns
  BY <1>1 DEF DispatchRefused, DispatchHello, HelloReturns, Refused
<1>2. CASE DispatchQuery \/ QueryReturns
  BY <1>2 DEF DispatchQuery, QueryReturns, QueryOps
<1>3. CASE DispatchAcquireStart \/ AcquireStartFails \/ UndoStart
  BY <1>3 DEF DispatchAcquireStart, AcquireStartFails, UndoStart, Refused
<1>4. CASE AcquireStartSpawns
  <2>1. \A c \in Captures : c # req.capture => thread'[c] = thread[c]
    BY <1>4 DEF AcquireStartSpawns, TypeOK
  <2>2. LiveCaptures' \subseteq {req.capture}
    BY <1>4, <2>1 DEF AcquireStartSpawns
  <2>3. NothingLate' /\ StartedOnly'
    BY <1>4, <2>1 DEF AcquireStartSpawns, TypeOK
  <2>4. req.op = "AcquireStart"
    BY <1>4 DEF AcquireStartSpawns, StartIsFresh
  <2> QED
    BY <1>4, <2>2, <2>3, <2>4 DEF AcquireStartSpawns
<1>5. CASE DispatchAcquireStop
  BY <1>5 DEF DispatchAcquireStop
<1>6. CASE AcquireStopReturns
  BY <1>6, ControlLoopAssumption DEF AcquireStopReturns, SignalStop
<1>7. CASE DispatchReset \/ ResetReturns \/ ResetFails
  BY <1>7 DEF DispatchReset, ResetReturns, ResetFails, SignalStop, Disciplined
<1>8. CASE ResetJoins
  <2>1. LiveCaptures = {}
    BY <1>8, ControlLoopAssumption DEF ResetJoins, Finished, Live, Over
  <2> QED
    BY <1>8, <2>1 DEF ResetJoins
<1>9. CASE ClearRunning \/ DispatchShutdown
  BY <1>9 DEF ClearRunning, DispatchShutdown
<1>10. CASE Reply
  BY <1>10 DEF Reply
<1> QED
  BY <1>1, <1>2, <1>3, <1>4, <1>5, <1>6, <1>7, <1>8, <1>9, <1>10 DEF ControlStep

(* A step of a thread preserves the invariant.                             *)
LEMMA JoinThread ==
  ASSUME Disciplined, JoinInv, NEW c \in Captures, ThreadStep(c),
         (TypeOK /\ StartIsFresh)'
  PROVE  JoinInv'
<1>1. UNCHANGED <<controlVars, stopped, current>>
  BY DEF ThreadStep, ThreadBegin, ThreadData, ThreadEnds, ThreadLosesDevice,
         PushEnd, PushLost, PushTimesOut, threadVars
<1>2. \A d \in Captures : d # c => thread'[d] = thread[d]
  BY DEF ThreadStep, ThreadBegin, ThreadData, ThreadEnds, ThreadLosesDevice,
         PushEnd, PushLost, PushTimesOut, threadVars, Becomes,
         JoinInv, TypeOK
<1>3. thread'[c] \in Live => thread[c] \in Live /\ UNCHANGED running
  BY DEF ThreadStep, ThreadBegin, ThreadData, ThreadEnds, ThreadLosesDevice,
         PushEnd, PushLost, PushTimesOut, threadVars, Becomes,
         JoinInv, TypeOK, Live, AfterLost
<1>4. thread'[c] # "lost"
  BY DEF ThreadStep, ThreadBegin, ThreadData, ThreadEnds, ThreadLosesDevice,
         PushEnd, PushLost, PushTimesOut, threadVars, Becomes,
         JoinInv, TypeOK, AfterLost, Disciplined, NothingLate
<1>5. running' # running => thread[c] \in Live
  BY DEF ThreadStep, ThreadBegin, ThreadData, ThreadEnds, ThreadLosesDevice,
         PushEnd, PushLost, PushTimesOut, JoinInv, NothingLate,
         Live
<1>6. LiveCaptures' \subseteq LiveCaptures
  BY <1>2, <1>3 DEF LiveCaptures
<1>7. LiveIsCurrent'
  <2> SUFFICES ASSUME NEW d \in LiveCaptures' PROVE d = current /\ running'
    BY <1>1 DEF LiveIsCurrent
  <2>1. d \in LiveCaptures /\ d = current /\ running
    BY <1>6 DEF JoinInv, LiveIsCurrent
  <2>2. CASE d = c
    BY <1>3, <2>1, <2>2 DEF LiveCaptures
  <2>3. CASE d # c
    BY <1>5, <2>1, <2>3 DEF JoinInv, LiveIsCurrent, LiveCaptures
  <2> QED
    BY <2>2, <2>3
<1>8. NothingLate' /\ StartedOnly'
  <2>1. thread'[c] # "none"
    BY DEF ThreadStep, ThreadBegin, ThreadData, ThreadEnds, ThreadLosesDevice,
           PushEnd, PushLost, PushTimesOut, threadVars, Becomes,
           JoinInv, TypeOK, AfterLost
  <2> QED
    BY <1>1, <1>2, <1>4, <2>1 DEF JoinInv, NothingLate, StartedOnly
<1>9. pc' = "starting" => running'
  BY <1>1, <1>5 DEF JoinInv, QuietAt, LiveCaptures, controlVars
<1>10. StopReaches' /\ ResetAborts' /\ Serving'
  BY <1>1, <1>6 DEF JoinInv, StopReaches, ResetAborts, Serving, controlVars
<1> QED
  BY <1>1, <1>6, <1>7, <1>8, <1>9, <1>10 DEF JoinInv, QuietAt, controlVars

(* Every reachable state of a disciplined plugin satisfies JoinInv.        *)
LEMMA JoinInvariant ==
  ASSUME Disciplined
  PROVE  Safety => []JoinInv
<1>1. Init => JoinInv
  BY InitType, ControlLoopAssumption
  DEF Init, JoinInv, StartIsFresh, Serving, NothingLate, StartedOnly,
     LiveIsCurrent, LiveCaptures, Live, StopReaches, ResetAborts, QuietAt
<1>2. JoinInv /\ [Next]_vars => JoinInv'
  <2> SUFFICES ASSUME JoinInv, [Next]_vars PROVE JoinInv'
    OBVIOUS
  <2>1. (TypeOK /\ StartIsFresh)'
    BY NextType, FreshStep DEF JoinInv
  <2>2. CASE ControlStep
    BY <2>1, <2>2, JoinControl
  <2>3. ASSUME NEW c \in Captures, ThreadStep(c) PROVE JoinInv'
    BY <2>1, <2>3, JoinThread
  <2> USE DEF JoinInv, NothingLate, LiveIsCurrent, LiveCaptures, StopReaches,
              ResetAborts, Serving, StartedOnly, QuietAt, threadVars, controlVars
  <2>4. ASSUME NEW r \in Requests, Recv(r) PROVE JoinInv'
    BY <2>1, <2>4 DEF Recv
  <2>5. CASE ControlLost
    BY <2>1, <2>5 DEF ControlLost
  <2>6. CASE ReadEvent \/ Terminated \/ UNCHANGED vars
    BY <2>1, <2>6 DEF ReadEvent, Terminated, vars
  <2> QED
    BY <2>2, <2>3, <2>4, <2>5, <2>6 DEF Next
<1> QED
  BY <1>1, <1>2, PTL DEF Safety

(* With such a plugin, the flag is set while a thread acquires, so that    *)
(* the guards of dispatch (mod.rs:126-137) mean what they say.             *)
THEOREM BusyIsTrue ==
  ASSUME Disciplined
  PROVE  Spec => []BusyWhileAcquiring
<1>1. JoinInv => BusyWhileAcquiring
  BY DEF JoinInv, LiveIsCurrent, BusyWhileAcquiring
<1> QED
  BY <1>1, JoinInvariant, PTL DEF Spec

(* With such a plugin, the device is described and configured only while   *)
(* nothing is acquired from it (mod.rs:126-134).                           *)
THEOREM ConfigurationIsExclusive ==
  ASSUME Disciplined
  PROVE  Spec => []ConfigExclusive
<1>1. JoinInv => ConfigExclusive
  BY DEF JoinInv, QuietAt, ConfigExclusive
<1> QED
  BY <1>1, JoinInvariant, PTL DEF Spec

(* With such a plugin, a stop that was answered reached the acquisition    *)
(* (mod.rs:148-155).                                                       *)
THEOREM StopsReach ==
  ASSUME Disciplined
  PROVE  Spec => []StopReaches
<1>1. JoinInv => StopReaches
  BY DEF JoinInv
<1> QED
  BY <1>1, JoinInvariant, PTL DEF Spec

(* With such a plugin, a reset that was answered left no acquisition       *)
(* behind (mod.rs:156-160).                                                *)
THEOREM ResetsAbort ==
  ASSUME Disciplined
  PROVE  Spec => []ResetAborts
<1>1. JoinInv => ResetAborts
  BY DEF JoinInv
<1> QED
  BY <1>1, JoinInvariant, PTL DEF Spec

-----------------------------------------------------------------------------
(* The control loop implements the abstract capture server.                *)

AcquiringFacts ==
  /\ LiveCaptures = {} => Acquiring = None /\ ~Stopping
  /\ \A c \in LiveCaptures : /\ LiveCaptures = {c}
                             /\ Acquiring = c
                             /\ Stopping <=> c \in stopped

(* The abstract acquisition is the current capture while it is alive.      *)
LEMMA AcquiringIs == JoinInv => AcquiringFacts
<1> SUFFICES ASSUME JoinInv PROVE AcquiringFacts
  OBVIOUS
<1>1. \A c \in LiveCaptures : LiveCaptures = {c}
  BY DEF JoinInv, LiveIsCurrent
<1>2. LiveCaptures \subseteq Captures
  BY DEF LiveCaptures
<1> QED
  BY <1>1, <1>2 DEF Acquiring, Stopping, AcquiringFacts

(* Nothing the abstract server speaks of has changed.                      *)
LEMMA Stutter ==
  ASSUME UNCHANGED <<greeted, thread, stopped>>, pc' = "query" <=> pc = "query"
  PROVE  UNCHANGED LC!lifecycleVars
BY DEF LC!lifecycleVars, Acquiring, Stopping, FinishedCaptures, Configuring,
       LiveCaptures

(* The control loop's steps: the handshake, configuration, the start of an *)
(* acquisition and its stop are abstract steps, the others stutter.        *)
LEMMA ControlRefines ==
  ASSUME Disciplined, JoinInv, JoinInv', ControlStep
  PROVE  [LC!LifecycleNext]_(LC!lifecycleVars)
<1> USE DEF threadVars, streamVars, Answer, GoTo
<1>a. AcquiringFacts /\ AcquiringFacts'
  BY AcquiringIs, PTL
<1>1. CASE HelloReturns
  <2>1. UNCHANGED <<Acquiring, Stopping, FinishedCaptures, Configuring>>
    BY <1>1 DEF HelloReturns, Acquiring, Stopping, FinishedCaptures,
                LiveCaptures, Configuring
  <2>2. ~greeted /\ (greeted' = TRUE \/ UNCHANGED greeted)
    BY <1>1 DEF HelloReturns, JoinInv, Serving, TypeOK
  <2> QED
    BY <2>1, <2>2 DEF LC!LifecycleNext, LC!Bind, LC!lifecycleVars
<1>2. CASE DispatchQuery
  <2>1. UNCHANGED <<thread, stopped>>
    BY <1>2 DEF DispatchQuery
  <2>2. UNCHANGED <<greeted, Acquiring, Stopping, FinishedCaptures>>
    BY <1>2, <2>1 DEF DispatchQuery, Acquiring, Stopping, FinishedCaptures,
                      LiveCaptures
  <2>3. CASE pc' = "query"
    <3>1. Acquiring = None /\ greeted /\ ~Configuring /\ Configuring'
      BY <1>2, <2>3, <2>1, <1>a DEF AcquiringFacts, DispatchQuery, Refused, QueryOps,
         JoinInv, QuietAt, LiveCaptures, Configuring
    <3> QED
      BY <2>2, <3>1 DEF LC!LifecycleNext, LC!BeginConfigure
  <2>4. CASE pc' # "query"
    BY <1>2, <2>1, <2>4, Stutter DEF DispatchQuery
  <2> QED
    BY <2>3, <2>4
<1>3. CASE QueryReturns
  <2>1. UNCHANGED <<greeted, Acquiring, Stopping, FinishedCaptures>>
    BY <1>3 DEF QueryReturns, Acquiring, Stopping, FinishedCaptures, LiveCaptures
  <2>2. Configuring /\ ~Configuring'
    BY <1>3 DEF QueryReturns, Configuring
  <2> QED
    BY <2>1, <2>2 DEF LC!LifecycleNext, LC!EndConfigure
<1>4. CASE AcquireStartSpawns
  <2> DEFINE c == req.capture
  <2>1. c \in Captures /\ thread[c] = "none" /\ greeted
    BY <1>4 DEF AcquireStartSpawns, JoinInv, StartIsFresh, Serving, TypeOK,
                Requests, Request, NoRequest, QueryOps
  <2>2. thread'[c] = "spawned" /\ \A d \in Captures : d # c => thread'[d] = thread[d]
    BY <1>4, <2>1 DEF AcquireStartSpawns, JoinInv, TypeOK
  <2>3. Acquiring = None /\ ~Stopping
    BY <1>4, <1>a DEF AcquiringFacts, AcquireStartSpawns, JoinInv, QuietAt
  <2>4. c \in LiveCaptures' /\ c \notin stopped'
    BY <1>4, <2>1, <2>2 DEF AcquireStartSpawns, LiveCaptures, Live, JoinInv,
                              StartedOnly
  <2>5. Acquiring' = c /\ ~Stopping'
    BY <2>4, <1>a DEF AcquiringFacts
  <2>6. c \notin FinishedCaptures /\ UNCHANGED FinishedCaptures
    BY <2>1, <2>2 DEF FinishedCaptures, Closing, Over
  <2>7. UNCHANGED <<greeted, Configuring>> /\ ~Configuring
    BY <1>4 DEF AcquireStartSpawns, Configuring
  <2>8. UNCHANGED Stopping
    BY <2>3, <2>5 DEF Stopping
  <2>9. LC!BeginAcquisition(c)
    BY <2>1, <2>3, <2>5, <2>6, <2>7, <2>8 DEF LC!BeginAcquisition
  <2> QED
    BY <2>1, <2>9 DEF LC!LifecycleNext
<1>5. CASE AcquireStopReturns \/ ResetReturns
  <2>1. UNCHANGED <<greeted, thread, LiveCaptures>> /\ Configuring' = Configuring
    BY <1>5 DEF AcquireStopReturns, ResetReturns, LiveCaptures, Configuring
  <2>2. UNCHANGED FinishedCaptures /\ UNCHANGED Acquiring
    BY <2>1 DEF FinishedCaptures, Acquiring
  <2>3. stopped \subseteq stopped'
    BY <1>5 DEF AcquireStopReturns, ResetReturns, SignalStop
  <2>4. CASE Stopping' /\ ~Stopping
    <3>1. Acquiring # None
      <4>1. PICK c \in LiveCaptures : TRUE
        BY <2>1, <2>4 DEF Stopping
      <4> QED
        BY <4>1, <1>a, ControlLoopAssumption DEF AcquiringFacts, LiveCaptures
    <3>2. Stopping' = TRUE
      BY <2>4 DEF Stopping
    <3> QED
      BY <2>1, <2>2, <3>1, <3>2 DEF LC!LifecycleNext, LC!StopAcquisition
  <2>5. CASE UNCHANGED Stopping
    BY <2>1, <2>2, <2>5 DEF LC!lifecycleVars
  <2> QED
    BY <2>1, <2>3, <2>4, <2>5 DEF Stopping
<1>6. CASE /\ ~HelloReturns /\ ~DispatchQuery /\ ~QueryReturns
           /\ ~AcquireStartSpawns /\ ~AcquireStopReturns /\ ~ResetReturns
  <2>1. UNCHANGED <<greeted, thread, stopped>> /\ (pc' = "query" <=> pc = "query")
    BY <1>6 DEF ControlStep, DispatchRefused, DispatchHello,
       DispatchAcquireStart, AcquireStartFails, UndoStart, DispatchAcquireStop,
       DispatchReset, ResetFails, ResetJoins, ClearRunning, DispatchShutdown,
       Reply
  <2> QED
    BY <2>1, Stutter
<1> QED
  BY <1>1, <1>2, <1>3, <1>4, <1>5, <1>6

(* A thread's steps: a capture that comes to its end is an abstract step,  *)
(* its events are not seen.                                                *)
LEMMA ThreadRefines ==
  ASSUME Disciplined, JoinInv, JoinInv', NEW c \in Captures, ThreadStep(c)
  PROVE  [LC!LifecycleNext]_(LC!lifecycleVars)
<1>a. AcquiringFacts /\ AcquiringFacts'
  BY AcquiringIs, PTL
<1>1. UNCHANGED <<greeted, pc, stopped>>
  BY DEF ThreadStep, ThreadBegin, ThreadData, ThreadEnds, ThreadLosesDevice,
         PushEnd, PushLost, PushTimesOut, controlVars, threadVars
<1>2. \A d \in Captures : d # c => thread'[d] = thread[d]
  BY DEF ThreadStep, ThreadBegin, ThreadData, ThreadEnds, ThreadLosesDevice,
         PushEnd, PushLost, PushTimesOut, threadVars, Becomes,
         JoinInv, TypeOK
<1>3. CASE thread[c] \in Live /\ thread'[c] \in Closing \cup Over
  <2>1. LiveCaptures = {c} /\ Acquiring = c
    BY <1>3, <1>a DEF AcquiringFacts, LiveCaptures
  <2>2. LiveCaptures' = {}
    BY <2>1, <1>2, <1>3 DEF LiveCaptures, Live, Closing, Over
  <2>3. Acquiring' = None /\ Stopping' = FALSE
    BY <2>2, <1>a DEF AcquiringFacts, Stopping
  <2>4. FinishedCaptures' = FinishedCaptures \cup {c}
    BY <1>2, <1>3 DEF FinishedCaptures
  <2>5. UNCHANGED <<greeted, Configuring>> /\ c # None
    BY <1>1, ControlLoopAssumption DEF Configuring
  <2> QED
    BY <2>1, <2>3, <2>4, <2>5 DEF LC!LifecycleNext, LC!EndAcquisition
<1>4. CASE \/ thread[c] \in Live /\ thread'[c] \in Live
           \/ thread[c] \in Closing \cup Over /\ thread'[c] \in Closing \cup Over
  <2>1. UNCHANGED LiveCaptures /\ UNCHANGED FinishedCaptures
    BY <1>2, <1>4 DEF LiveCaptures, FinishedCaptures, Live, Closing, Over
  <2> QED
    BY <1>1, <2>1 DEF LC!lifecycleVars, Acquiring, Stopping, Configuring
<1>5. \/ thread[c] \in Live /\ thread'[c] \in Live \cup Closing \cup Over
      \/ thread[c] \in Closing \cup Over /\ thread'[c] \in Closing \cup Over
  BY DEF ThreadStep, ThreadBegin, ThreadData, ThreadEnds, ThreadLosesDevice,
         PushEnd, PushLost, PushTimesOut, threadVars, Becomes,
         JoinInv, TypeOK, Live, Closing, Over, AfterLost
<1> QED
  BY <1>3, <1>4, <1>5

(* The initial state and every step map to the abstract server's.          *)
LEMMA SafetyRefines ==
  ASSUME Disciplined
  PROVE  Safety => LC!LifecycleSafety
<1>1. Init => LC!LifecycleInit
  BY DEF Init, LC!LifecycleInit, Acquiring, Stopping, FinishedCaptures,
         Configuring, LiveCaptures, Live, Closing, Over
<1>2. JoinInv /\ JoinInv' /\ [Next]_vars => [LC!LifecycleNext]_(LC!lifecycleVars)
  <2> SUFFICES ASSUME JoinInv, JoinInv', [Next]_vars
               PROVE  [LC!LifecycleNext]_(LC!lifecycleVars)
    OBVIOUS
  <2>1. CASE ControlStep
    BY <2>1, ControlRefines
  <2>2. ASSUME NEW c \in Captures, ThreadStep(c)
        PROVE  [LC!LifecycleNext]_(LC!lifecycleVars)
    BY <2>2, ThreadRefines
  <2>3. ASSUME NEW r \in Requests, Recv(r)
        PROVE  [LC!LifecycleNext]_(LC!lifecycleVars)
    BY <2>3, Stutter DEF Recv, threadVars
  <2>4. CASE ControlLost \/ ReadEvent \/ Terminated \/ UNCHANGED vars
    BY <2>4, Stutter DEF ControlLost, ReadEvent, Terminated, vars, threadVars,
                         controlVars
  <2> QED
    BY <2>1, <2>2, <2>3, <2>4 DEF Next
<1> QED
  BY <1>1, <1>2, JoinInvariant, PTL DEF Safety, LC!LifecycleSafety

(* A plugin whose reset waits for the acquisition it abandons gives the    *)
(* frontend the abstract capture server, whatever the interleaving of      *)
(* requests, threads and the stream (mod.rs:101-163, events.rs:24-31).     *)
THEOREM ImplementsLifecycle ==
  ASSUME Disciplined
  PROVE  Spec => LC!LifecycleSafety
BY SafetyRefines, PTL DEF Spec

-----------------------------------------------------------------------------
(***************************************************************************)
(* The frontend.  What it may conclude rests on the order in which capture *)
(* ids are assigned: it is the order of the requests on the wire, so a     *)
(* capture that was taken by serve is older than every start still to      *)
(* come, and the capture started last is the youngest.                     *)
(***************************************************************************)

(* The inductive invariant.                                                *)

Messages == [id : Nat, request : Requests, relied : BOOLEAN]
Replies  == [id : Nat, request : Requests \cup {NoRequest}, outcome : Outcomes]

FrontendType ==
  /\ made \in Nat /\ awaiting \in Nat /\ capture_id \in Nat
  /\ wire \in Seq(Messages)
  /\ serving \in Messages \cup {Nothing}
  /\ replies \in Seq(Replies)
  /\ refused \subseteq Captures
  /\ stopAsked \subseteq 1 .. capture_id
  /\ req = serving.request

StartsAt(i) == Starts(wire[i].request)

(* The frontend was told, or will be, that the capture was not started.    *)
Denies(r, c) == Starts(r.request) /\ r.request.capture = c /\ r.outcome # "Ok"
Denied(c) == c \in refused \/ \E i \in DOMAIN replies : Denies(replies[i], c)

(* serve has taken the request to start the capture.                       *)
Started(c) == thread[c] # "none"
Served(c)  == Starts(req) /\ req.capture = c
Taken(c)   == Started(c) \/ Served(c) \/ Denied(c)

(* Capture ids grow along the wire, and those taken are below them.        *)
Ascending ==
  /\ \A c \in Captures : Taken(c) => c <= capture_id
  /\ \A i \in DOMAIN wire : StartsAt(i) =>
       /\ wire[i].request.capture <= capture_id
       /\ \A c \in Captures : Taken(c) => c < wire[i].request.capture
  /\ \A i, j \in DOMAIN wire :
       i < j /\ StartsAt(i) /\ StartsAt(j)
         => wire[i].request.capture < wire[j].request.capture

(* The capture whose stop flag the plugin holds is the youngest it has.    *)
CurrentIsLast ==
  /\ current # None => Started(current)
  /\ \A c \in Captures : Started(c) =>
       /\ current # None /\ c <= current
       /\ Starts(req) => c <= req.capture

(* A capture that was not started is not started afterwards.               *)
DeniedForGood ==
  /\ \A c \in Captures : Denied(c) => ~Started(c) /\ ~Served(c)
  /\ Starts(req) /\ (pc = "undo" \/ (pc = "reply" /\ outcome # "Ok")) => ~Started(req.capture)

EventsStarted == \A i \in DOMAIN stream : Started(stream[i].capture)

Stops(r) == r.op \in {"AcquireStop", "Reset"}

(* A handler is run only for a request that asks for it.                   *)
HandlerIsAsked ==
  /\ pc \in {"stopping", "resetting"} => Stops(req)
  /\ pc \in {"hello", "query", "stopping", "resetting", "joining", "clear"} => ~Starts(req)

(* Whatever a stop may find when it is served had been asked for before.   *)
StopsCover ==
  /\ \A i \in DOMAIN wire : Stops(wire[i].request) =>
       /\ \A c \in Captures : Taken(c) => c \in stopAsked
       /\ \A j \in DOMAIN wire :
            j < i /\ StartsAt(j) => wire[j].request.capture \in stopAsked
  /\ Stops(req) => \A c \in Captures : Started(c) => c \in stopAsked
  /\ StopIsOwn

(* A request that relies on the end of the last capture has no start in    *)
(* front of it.                                                            *)
LastIsOver == current # None /\ thread[current] = "over"

ReliedHolds ==
  /\ \A i \in DOMAIN wire : wire[i].relied =>
       /\ \A j \in DOMAIN wire : j < i => ~StartsAt(j)
       /\ ~(Starts(req) /\ pc \in {"dispatch", "starting"})
       /\ LastIsOver
  /\ serving.relied /\ pc = "dispatch" => LastIsOver
  /\ NotBusyOnceEnded

FInv ==
  /\ FlagInv /\ FrontendType /\ HandlerIsAsked
  /\ Ascending /\ CurrentIsLast /\ DeniedForGood /\ EventsStarted
  /\ StopsCover /\ ReliedHolds

-----------------------------------------------------------------------------
(* What each step does, element by element.                                *)

(* A capture id is a positive number, and only a start bears one.          *)
LEMMA CaptureIds ==
  /\ \A c \in Captures : c \in Nat /\ c > 0
  /\ \A r \in Requests \cup {NoRequest} : Starts(r) => r \in Requests /\ r.capture \in Captures
  /\ ~Starts(NoRequest) /\ ~Stops(NoRequest)
  /\ \A r \in Requests : Stops(r) => ~Starts(r)
<1>1. \A r \in Requests \cup {NoRequest} : Starts(r) => r \in Requests /\ r.capture \in Captures
  BY DEF Requests, Request, NoRequest, QueryOps, Starts
<1>2. ~Starts(NoRequest) /\ ~Stops(NoRequest)
  BY DEF Request, NoRequest, Starts, Stops
<1> QED
  BY <1>1, <1>2, FrontendAssumption DEF Starts, Stops

(* The positions on the wire and among the replies, and what is there.     *)
LEMMA Places ==
  ASSUME FrontendType
  PROVE  /\ \A i \in DOMAIN wire : i \in Nat /\ i < Len(wire) + 1 /\ wire[i] \in Messages
                                    /\ wire[i].request \in Requests
         /\ \A i \in DOMAIN replies : replies[i] \in Replies
         /\ Len(wire) \in Nat
         /\ req \in Requests \cup {NoRequest}
<1>1. /\ \A i \in DOMAIN wire : wire[i] \in Messages
      /\ DOMAIN wire = 1 .. Len(wire) /\ Len(wire) \in Nat
      /\ \A i \in DOMAIN replies : replies[i] \in Replies
  BY SeqFacts DEF FrontendType
<1>2. req \in Requests \cup {NoRequest}
  BY DEF FrontendType, Messages, Nothing, Message
<1> QED
  BY <1>1, <1>2 DEF Messages

(* The fields of a request on the wire.                                    *)
LEMMA MessageFields ==
  ASSUME NEW id \in Nat, NEW r \in Requests, NEW relied \in BOOLEAN
  PROVE  /\ Message(id, r, relied) \in Messages
         /\ Message(id, r, relied).request = r
         /\ Message(id, r, relied).relied = relied
BY DEF Message, Messages

(* A call puts one request at the end of the wire.                         *)
LEMMA CallEffect ==
  ASSUME FrontendType, NEW r \in Requests, Call(r)
  PROVE  /\ UNCHANGED <<vars, serving, replies, refused>>
         /\ made' \in Nat /\ awaiting' \in Nat /\ capture_id' \in Nat
         /\ capture_id <= capture_id'
         /\ IF Starts(r) THEN r.capture = capture_id' /\ capture_id' = capture_id + 1
                         ELSE capture_id' = capture_id
         /\ stopAsked' = IF Stops(r) THEN 1 .. capture_id ELSE stopAsked
         /\ wire' \in Seq(Messages)
         /\ \A i \in DOMAIN wire' :
              \/ i \in DOMAIN wire /\ i < Len(wire) + 1 /\ wire'[i] = wire[i]
              \/ /\ i = Len(wire) + 1 /\ wire'[i].request = r
                 /\ wire'[i].relied = (capture_id \in ended)
<1> DEFINE m == Message(made', r, capture_id \in ended)
<1>1. made' \in Nat /\ awaiting' \in Nat
  BY DEF Call, FrontendType
<1>2. m \in Messages /\ m.request = r /\ m.relied = (capture_id \in ended)
  <2>1. (capture_id \in ended) \in BOOLEAN
    OBVIOUS
  <2> QED
    BY ONLY <1>1, <2>1, MessageFields
<1> HIDE DEF m
<1>3. wire \in Seq(Messages) /\ wire' = Append(wire, m)
  BY DEF Call, FrontendType, m
<1>4. wire' \in Seq(Messages)
  BY <1>2, <1>3, AppendFacts
<1>5. ASSUME NEW i \in DOMAIN wire'
      PROVE  \/ i \in DOMAIN wire /\ i < Len(wire) + 1 /\ wire'[i] = wire[i]
             \/ i = Len(wire) + 1 /\ wire'[i] = m
  BY <1>2, <1>3, <1>5, AppendElement
<1>6. /\ capture_id' \in Nat /\ capture_id <= capture_id'
      /\ IF Starts(r) THEN r.capture = capture_id' /\ capture_id' = capture_id + 1
                       ELSE capture_id' = capture_id
  BY DEF Call, NextCaptureId, FrontendType
<1>7. stopAsked' = IF Stops(r) THEN 1 .. capture_id ELSE stopAsked
  BY DEF Call, Stops
<1>8. UNCHANGED <<vars, serving, replies, refused>>
  BY DEF Call
<1> QED
  BY <1>1, <1>2, <1>4, <1>5, <1>6, <1>7, <1>8

(* What the client receives or drops changes nothing for serve.            *)
LEMMA ReceiveEffect ==
  ASSUME FrontendType, GiveUp \/ Gets \/ ReplyDropped
  PROVE  /\ UNCHANGED <<vars, capture_id, stopAsked, wire, serving>>
         /\ FrontendType'
         /\ \A c \in Captures : Denied(c)' => Denied(c)
<1>1. UNCHANGED <<vars, made, capture_id, stopAsked, wire, serving>>
  BY DEF GiveUp, Gets, ReplyDropped, clientVars
<1>2. UNCHANGED req
  BY <1>1 DEF vars, controlVars
<1>3. CASE GiveUp
  BY <1>1, <1>2, <1>3 DEF GiveUp, FrontendType, Denied
<1>4. CASE Gets \/ ReplyDropped
  <2>1. replies \in Seq(Replies) /\ replies # <<>> /\ replies' = Tail(replies)
    BY <1>4 DEF Gets, ReplyDropped, FrontendType
  <2>2. /\ replies' \in Seq(Replies) /\ Head(replies) \in Replies
        /\ 1 \in DOMAIN replies /\ Head(replies) = replies[1]
        /\ \A i \in DOMAIN replies' : i + 1 \in DOMAIN replies /\ replies'[i] = replies[i + 1]
    BY <2>1, TailFacts, TailElement
  <2>3. ASSUME NEW c \in Captures, c \in refused' PROVE Denied(c)
    <3>1. CASE c \in refused
      BY <3>1 DEF Denied
    <3>2. CASE c \notin refused
      <4>1. Denies(Head(replies), c)
        BY <1>4, <2>3, <3>2 DEF Gets, ReplyDropped, clientVars, Denies
      <4> QED
        BY <2>2, <4>1 DEF Denied
    <3> QED
      BY <3>1, <3>2
  <2>4. ASSUME NEW c \in Captures, NEW i \in DOMAIN replies', Denies(replies'[i], c)
        PROVE  Denied(c)
    BY <2>2, <2>4 DEF Denied
  <2>5. refused' \subseteq Captures
    <3>1. Starts(Head(replies).request) => Head(replies).request.capture \in Captures
      BY <2>2, CaptureIds DEF Replies
    <3> QED
      BY <1>4, <3>1 DEF Gets, ReplyDropped, clientVars, FrontendType
  <2>6. awaiting' \in Nat
    BY <1>4 DEF Gets, ReplyDropped, clientVars, FrontendType
  <2>7. FrontendType'
    BY <1>1, <1>2, <2>2, <2>5, <2>6 DEF FrontendType
  <2> QED
    BY <1>1, <2>3, <2>4, <2>7 DEF Denied
<1> QED
  BY <1>1, <1>3, <1>4

(* serve takes the oldest request.                                         *)
LEMMA TakeEffect ==
  ASSUME FrontendType, Take
  PROVE  /\ UNCHANGED <<clientVars, replies>>
         /\ UNCHANGED <<running, greeted, outcome, threadVars, streamVars>>
         /\ pc = "recv" /\ pc' = "dispatch"
         /\ 1 \in DOMAIN wire /\ serving' = wire[1] /\ req' = wire[1].request
         /\ \A i \in DOMAIN wire' :
              i \in Nat /\ i > 0 /\ i + 1 \in DOMAIN wire /\ wire'[i] = wire[i + 1]
         /\ FrontendType'
<1>1. wire \in Seq(Messages) /\ wire # <<>> /\ wire' = Tail(wire) /\ serving' = Head(wire)
  BY DEF Take, FrontendType
<1>2. /\ 1 \in DOMAIN wire /\ Head(wire) = wire[1] /\ Head(wire) \in Messages
      /\ wire' \in Seq(Messages)
      /\ \A i \in DOMAIN wire' :
           i \in Nat /\ i > 0 /\ i + 1 \in DOMAIN wire /\ wire'[i] = wire[i + 1]
  BY <1>1, TailFacts, TailElement
<1>3. req' = wire[1].request
  BY <1>2 DEF Take, Recv
<1>4. FrontendType'
  BY <1>1, <1>2, <1>3 DEF FrontendType, Take, clientVars
<1> QED
  BY <1>1, <1>2, <1>3, <1>4 DEF Take, Recv

(* The reply carries the request that was served and what came of it.      *)
LEMMA SendReplyEffect ==
  ASSUME TypeOK, FrontendType, SendReply
  PROVE  /\ UNCHANGED <<clientVars, wire>>
         /\ UNCHANGED <<running, greeted, threadVars, streamVars>>
         /\ pc = "reply" /\ pc' \in {"recv", "done"}
         /\ req' = NoRequest /\ serving' = Nothing
         /\ \A c \in Captures : Denied(c)' => Denied(c) \/ (Served(c) /\ outcome # "Ok")
         /\ FrontendType'
<1> DEFINE r == [id |-> serving.id, request |-> req, outcome |-> outcome]
<1>1. r \in Replies
  BY Places DEF Replies, FrontendType, Messages, Nothing, Message, TypeOK
<1>2. replies \in Seq(Replies) /\ replies' = Append(replies, r)
  BY DEF SendReply, FrontendType
<1>3. replies' \in Seq(Replies)
  BY <1>1, <1>2, AppendFacts
<1>4. ASSUME NEW i \in DOMAIN replies'
      PROVE  (i \in DOMAIN replies /\ replies'[i] = replies[i]) \/ replies'[i] = r
  BY <1>1, <1>2, <1>4, AppendElement
<1>5. UNCHANGED <<clientVars, wire>> /\ serving' = Nothing /\ req' = NoRequest
  BY DEF SendReply, Reply
<1>6. ASSUME NEW c \in Captures, Denied(c)' PROVE Denied(c) \/ (Served(c) /\ outcome # "Ok")
  BY <1>4, <1>5, <1>6 DEF Denied, Denies, Served, clientVars
<1>7. FrontendType'
  BY <1>3, <1>5 DEF FrontendType, clientVars, Nothing, Message
<1> QED
  BY <1>5, <1>6, <1>7 DEF SendReply, Reply

(* What goes on inside the plugin is seen by no client and keeps the       *)
(* request that is served.                                                 *)
LEMMA PluginKeeps ==
  ASSUME FrontendType, PluginStep
  PROVE  UNCHANGED <<frontendVars, req>> /\ FrontendType'
<1>1. UNCHANGED frontendVars
  BY DEF PluginStep
<1>2. UNCHANGED req
  <2>1. ASSUME pc # "reply", ControlStep PROVE UNCHANGED req
    BY <2>1 DEF ControlStep, DispatchRefused, DispatchHello, HelloReturns,
       DispatchQuery, QueryReturns, DispatchAcquireStart, AcquireStartSpawns,
       AcquireStartFails, UndoStart, DispatchAcquireStop, AcquireStopReturns,
       DispatchReset, ResetReturns, ResetFails, ResetJoins, ClearRunning,
       DispatchShutdown, Reply, Answer, GoTo
  <2>2. ASSUME NEW c \in Captures, ThreadStep(c) PROVE UNCHANGED req
    BY <2>2 DEF ThreadStep, ThreadBegin, ThreadData, ThreadEnds, ThreadLosesDevice,
       PushEnd, PushLost, PushTimesOut, controlVars
  <2>3. CASE ControlLost \/ ReadEvent \/ Terminated
    BY <2>3 DEF ControlLost, ReadEvent, Terminated, vars, controlVars
  <2> QED
    BY <2>1, <2>2, <2>3 DEF PluginStep
<1> QED
  BY <1>1, <1>2 DEF FrontendType, frontendVars, clientVars

(* A thread that was started stays started, and one that is over stays so. *)
(* The only capture that begins is the one whose start is being handled,   *)
(* and it becomes the current one.                                         *)
LEMMA PluginThreads ==
  ASSUME TypeOK, PluginStep
  PROVE  /\ \A c \in Captures :
              /\ Started(c) => Started(c)'
              /\ Started(c)' => Started(c) \/ (AcquireStartSpawns /\ c = req.capture)
              /\ thread[c] = "over" => AcquireStartSpawns \/ thread'[c] = "over"
         /\ AcquireStartSpawns \/ UNCHANGED current
<1> USE DEF Started
<1>1. ASSUME pc # "reply", ControlStep, ~AcquireStartSpawns
      PROVE  UNCHANGED <<thread, current>>
  BY <1>1, ControlKeepsThreads
<1>2. CASE AcquireStartSpawns
  BY <1>2 DEF AcquireStartSpawns, TypeOK
<1>3. ASSUME NEW d \in Captures, ThreadStep(d)
      PROVE  /\ UNCHANGED current
             /\ \A c \in Captures : c # d => thread'[c] = thread[c]
             /\ thread[d] # "none" /\ thread'[d] # "none" /\ thread[d] # "over"
  BY <1>3 DEF ThreadStep, ThreadBegin, ThreadData, ThreadEnds, ThreadLosesDevice,
     PushEnd, PushLost, PushTimesOut, Becomes, AfterLost, TypeOK, threadVars, Live
<1>4. CASE ControlLost \/ ReadEvent \/ Terminated
  BY <1>4 DEF ControlLost, ReadEvent, Terminated, vars, threadVars
<1> QED
  BY <1>1, <1>2, <1>3, <1>4 DEF PluginStep

(* Where the control loop goes next, and on which answers.                 *)
LEMMA PluginPlaces ==
  ASSUME PluginStep
  PROVE  /\ pc' = "dispatch" => pc = "dispatch"
         /\ pc' = "starting" => pc = "starting" \/ (pc = "dispatch" /\ Starts(req))
         /\ pc' = "undo" => pc \in {"starting", "undo"}
         /\ pc' \in {"stopping", "resetting"} => pc' = pc \/ (pc = "dispatch" /\ Stops(req))
         /\ pc' \in {"hello", "query"} => pc' = pc \/ (pc = "dispatch" /\ ~Starts(req))
         /\ pc' \in {"joining", "clear"} => pc \in {"resetting", "joining", "clear"}
         /\ pc' = "reply" =>
              \/ pc = "reply" /\ outcome' = outcome
              \/ pc = "undo" /\ outcome' = "Device"
              \/ pc = "dispatch" /\ (outcome' = "Busy" => running)
              \/ pc = "starting" /\ outcome' = "Ok"
              \/ pc \in {"hello", "query", "stopping", "resetting", "joining", "clear"}
                   /\ outcome' # "Busy"
<1> USE DEF Starts, Stops, QueryOps
<1>1. CASE pc # "reply" /\ ControlStep
  BY <1>1 DEF ControlStep, DispatchRefused, DispatchHello, HelloReturns,
     DispatchQuery, QueryReturns, DispatchAcquireStart, AcquireStartSpawns,
     AcquireStartFails, UndoStart, DispatchAcquireStop, AcquireStopReturns,
     DispatchReset, ResetReturns, ResetFails, ResetJoins, ClearRunning,
     DispatchShutdown, Reply, Answer, GoTo
<1>2. ASSUME NEW d \in Captures, ThreadStep(d) PROVE UNCHANGED <<pc, outcome>>
  BY <1>2 DEF ThreadStep, ThreadBegin, ThreadData, ThreadEnds, ThreadLosesDevice,
     PushEnd, PushLost, PushTimesOut, controlVars
<1>3. CASE ReadEvent \/ Terminated
  BY <1>3 DEF ReadEvent, Terminated, vars, controlVars
<1>4. CASE ControlLost
  BY <1>4 DEF ControlLost
<1> QED
  BY <1>1, <1>2, <1>3, <1>4 DEF PluginStep

(* Only the handlers of a stop or a reset tell a capture to stop, and then *)
(* the current one.                                                        *)
LEMMA PluginStops ==
  ASSUME PluginStep
  PROVE  \/ stopped' = stopped
         \/ /\ pc \in {"stopping", "resetting"}
            /\ stopped' = stopped \cup ({current} \ {None})
<1>1. CASE pc # "reply" /\ ControlStep
  BY <1>1 DEF ControlStep, DispatchRefused, DispatchHello, HelloReturns,
     DispatchQuery, QueryReturns, DispatchAcquireStart, AcquireStartSpawns,
     AcquireStartFails, UndoStart, DispatchAcquireStop, AcquireStopReturns,
     DispatchReset, ResetReturns, ResetFails, ResetJoins, ClearRunning,
     DispatchShutdown, Reply, SignalStop, threadVars
<1>2. ASSUME NEW d \in Captures, ThreadStep(d) PROVE UNCHANGED stopped
  BY <1>2 DEF ThreadStep, ThreadBegin, ThreadData, ThreadEnds, ThreadLosesDevice,
     PushEnd, PushLost, PushTimesOut, threadVars
<1>3. CASE ControlLost \/ ReadEvent \/ Terminated
  BY <1>3 DEF ControlLost, ReadEvent, Terminated, vars, threadVars
<1> QED
  BY <1>1, <1>2, <1>3 DEF PluginStep

(* An event on the stream was there before, or is pushed by a thread.      *)
LEMMA PluginEvents ==
  ASSUME TypeOK, PluginStep, NEW i \in DOMAIN stream'
  PROVE  \/ \E j \in DOMAIN stream : stream'[i] = stream[j]
         \/ stream'[i].capture \in Captures /\ Started(stream'[i].capture)
<1>1. CASE UNCHANGED stream
  BY <1>1
<1>2. ASSUME NEW kind \in EventKinds, NEW c \in Captures, Push(kind, c), Started(c)
      PROVE  \/ \E j \in DOMAIN stream : stream'[i] = stream[j]
             \/ stream'[i].capture \in Captures /\ Started(stream'[i].capture)
  <2>1. stream \in Seq(Events) /\ stream' = Append(stream, Event(kind, c))
        /\ Event(kind, c) \in Events
    BY <1>2 DEF Push, TypeOK, Event, Events
  <2>2. \/ i \in DOMAIN stream /\ stream'[i] = stream[i]
        \/ stream'[i] = Event(kind, c)
    BY <2>1, AppendElement
  <2> QED
    BY <1>2, <2>2 DEF Event
<1>3. ASSUME NEW d \in Captures, ThreadStep(d)
      PROVE  \/ UNCHANGED stream
             \/ Started(d) /\ \E kind \in EventKinds : Push(kind, d)
  BY <1>3 DEF ThreadStep, ThreadBegin, ThreadData, ThreadEnds, ThreadLosesDevice,
     PushEnd, PushLost, PushTimesOut, Started, streamVars, EventKinds
<1>4. CASE ReadEvent
  <2>1. stream \in Seq(Events) /\ stream # <<>> /\ stream' = Tail(stream)
    BY <1>4 DEF ReadEvent, TypeOK
  <2> QED
    BY <2>1, TailElement
<1>5. CASE ControlLost \/ Terminated \/ ControlStep
  BY <1>1, <1>5, ControlKeepsStream DEF ControlLost, Terminated, vars, streamVars
<1> QED
  BY <1>1, <1>2, <1>3, <1>4, <1>5 DEF PluginStep

-----------------------------------------------------------------------------
(* Each part of the invariant is kept.                                     *)

(* The control loop of the composition takes the steps of ControlLoop.     *)
LEMMA StepsControl ==
  ASSUME FrontendType, [FrontendNext]_<<vars, frontendVars>>
  PROVE  [Next]_vars
<1>1. CASE Take
  <2>1. wire[1].request \in Requests /\ Head(wire) = wire[1]
    BY <1>1, TakeEffect, Places DEF Take
  <2> QED
    BY <1>1, <2>1 DEF Take, Next
<1>2. CASE SendReply
  BY <1>2 DEF SendReply, Next, ControlStep
<1>3. CASE PluginStep
  BY <1>3 DEF PluginStep, Next
<1>4. CASE GiveUp \/ Gets \/ ReplyDropped \/ \E r \in Requests : Call(r)
  BY <1>4 DEF GiveUp, Gets, ReplyDropped, Call
<1> QED
  BY <1>1, <1>2, <1>3, <1>4 DEF FrontendNext

(* The types of the composition.                                           *)
LEMMA TypeStep ==
  ASSUME TypeOK, FrontendType, FrontendNext
  PROVE  FrontendType'
<1>1. ASSUME NEW r \in Requests, Call(r) PROVE FrontendType'
  <2>1. UNCHANGED <<req, serving, replies, refused>>
    BY <1>1, CallEffect DEF vars, controlVars
  <2>2. stopAsked' \subseteq 1 .. capture_id'
    <3>1. /\ capture_id \in Nat /\ capture_id' \in Nat /\ capture_id <= capture_id'
          /\ stopAsked' \in {stopAsked, 1 .. capture_id}
      BY <1>1, CallEffect DEF FrontendType
    <3>2. stopAsked \subseteq 1 .. capture_id
      BY DEF FrontendType
    <3>3. 1 .. capture_id \subseteq 1 .. capture_id'
      BY <3>1
    <3> QED
      BY <3>1, <3>2, <3>3
  <2> QED
    BY <1>1, <2>1, <2>2, CallEffect DEF FrontendType
<1> QED
  BY <1>1, ReceiveEffect, TakeEffect, SendReplyEffect, PluginKeeps DEF FrontendNext

(* Handlers and requests go together.                                      *)
LEMMA HandlerStep ==
  ASSUME TypeOK, FrontendType, HandlerIsAsked, FrontendNext
  PROVE  HandlerIsAsked'
<1> USE DEF HandlerIsAsked
<1>1. CASE GiveUp \/ Gets \/ ReplyDropped \/ \E r \in Requests : Call(r)
  BY <1>1 DEF GiveUp, Gets, ReplyDropped, Call, vars, controlVars
<1>2. CASE Take
  BY <1>2, TakeEffect
<1>3. CASE SendReply
  BY <1>3, SendReplyEffect
<1>4. CASE PluginStep
  BY <1>4, PluginKeeps, PluginPlaces, Places, CaptureIds
<1> QED
  BY <1>1, <1>2, <1>3, <1>4 DEF FrontendNext

(* A capture is taken off the wire, and in no other way.                   *)
LEMMA TakenStep ==
  ASSUME TypeOK, FrontendType, StartIsFresh, FrontendNext,
         NEW c \in Captures, Taken(c)'
  PROVE  \/ Taken(c) \/ (Take /\ StartsAt(1) /\ c = wire[1].request.capture)
<1>1. CASE GiveUp \/ Gets \/ ReplyDropped
  BY <1>1, ReceiveEffect DEF Taken, Started, Served, vars, controlVars, threadVars
<1>2. CASE \E r \in Requests : Call(r)
  BY <1>2, CallEffect DEF Taken, Started, Served, Denied, vars, controlVars, threadVars
<1>3. CASE Take
  <2>1. Started(c)' = Started(c) /\ Denied(c)' = Denied(c)
    BY <1>3, TakeEffect DEF Started, Denied, threadVars, clientVars
  <2> QED
    BY <1>3, <2>1, TakeEffect DEF Taken, Served, StartsAt
<1>4. CASE SendReply
  BY <1>4, SendReplyEffect, CaptureIds DEF Taken, Started, Served, threadVars
<1>5. CASE PluginStep
  <2>1. Denied(c)' = Denied(c) /\ Served(c)' = Served(c)
    BY <1>5, PluginKeeps DEF Denied, Served, frontendVars, clientVars
  <2>2. Started(c)' => Started(c) \/ Served(c)
    BY <1>5, PluginThreads DEF Served, StartIsFresh, AcquireStartSpawns, Starts
  <2> QED
    BY <2>1, <2>2 DEF Taken
<1> QED
  BY <1>1, <1>2, <1>3, <1>4, <1>5 DEF FrontendNext

(* The wire outside of Call and Take.                                      *)
LEMMA WireStep ==
  ASSUME FrontendType, FrontendNext, ~Take, \A r \in Requests : ~Call(r)
  PROVE  UNCHANGED <<wire, capture_id, stopAsked>>
<1>1. CASE GiveUp \/ Gets \/ ReplyDropped
  BY <1>1, ReceiveEffect
<1>2. CASE SendReply
  BY <1>2 DEF SendReply, clientVars
<1>3. CASE PluginStep
  BY <1>3, PluginKeeps DEF frontendVars, clientVars
<1> QED
  BY <1>1, <1>2, <1>3 DEF FrontendNext

(* Capture ids stay in the order of the wire.                              *)
LEMMA AscendingStep ==
  ASSUME TypeOK, FrontendType, StartIsFresh, Ascending, FrontendNext
  PROVE  Ascending'
<1> USE DEF StartsAt
<1>a. capture_id \in Nat /\ Len(wire) \in Nat
      /\ \A i \in DOMAIN wire :
           /\ i \in Nat /\ i < Len(wire) + 1
           /\ StartsAt(i) => wire[i].request.capture \in Nat
  BY Places, CaptureIds DEF FrontendType
<1>1. ASSUME NEW r \in Requests, Call(r) PROVE Ascending'
  <2>1. \A c \in Captures : Taken(c)' => Taken(c) /\ c <= capture_id
    BY <1>1, TakenStep, CallEffect, <1>a DEF Ascending, Call, Take, Taken, Started, Served,
       Denied, vars, controlVars, threadVars
  <2>2. capture_id' \in Nat /\ capture_id <= capture_id'
        /\ (Starts(r) => r.capture = capture_id + 1 /\ capture_id' = capture_id + 1)
    BY <1>1, CallEffect
  <2>3. \A c \in Captures : Taken(c)' => c <= capture_id'
    BY <2>1, <2>2, <1>a, CaptureIds
  <2>4. ASSUME NEW i \in DOMAIN wire', StartsAt(i)'
        PROVE  /\ wire'[i].request.capture <= capture_id'
               /\ \A c \in Captures : Taken(c)' => c < wire'[i].request.capture
               /\ \A j \in DOMAIN wire' :
                    j < i /\ StartsAt(j)' => wire'[j].request.capture < wire'[i].request.capture
    <3>1. CASE i \in DOMAIN wire /\ i < Len(wire) + 1 /\ wire'[i] = wire[i]
      <4>1. \A j \in DOMAIN wire' : j < i => j \in DOMAIN wire /\ wire'[j] = wire[j]
        BY <1>1, <1>a, <3>1, CallEffect
      <4> QED
        BY <1>a, <2>1, <2>2, <2>4, <3>1, <4>1 DEF Ascending
    <3>2. CASE i = Len(wire) + 1 /\ wire'[i].request = r
      <4>1. Starts(r) /\ r.capture = capture_id + 1
        BY <2>2, <2>4, <3>2
      <4>2. \A j \in DOMAIN wire' : j < i => j \in DOMAIN wire /\ wire'[j] = wire[j]
        BY <1>1, <1>a, <3>2, CallEffect
      <4> QED
        BY <1>a, <2>1, <2>2, <3>2, <4>1, <4>2, CaptureIds DEF Ascending
    <3> QED
      BY <1>1, <3>1, <3>2, CallEffect
  <2> QED
    BY <2>3, <2>4 DEF Ascending
<1>2. CASE Take
  <2>1. /\ UNCHANGED capture_id /\ 1 \in DOMAIN wire
        /\ \A i \in DOMAIN wire' :
              i \in Nat /\ i > 0 /\ i + 1 \in DOMAIN wire /\ wire'[i] = wire[i + 1]
    BY <1>2, TakeEffect DEF clientVars
  <2>2. \A c \in Captures : Taken(c)' =>
          Taken(c) \/ (StartsAt(1) /\ c = wire[1].request.capture)
    BY <1>2, TakenStep
  <2>3. \A i \in DOMAIN wire' : 1 < i + 1
    BY <2>1
  <2>4. \A c \in Captures : Taken(c)' => c <= capture_id'
    BY <2>1, <2>2 DEF Ascending
  <2>5. ASSUME NEW i \in DOMAIN wire', StartsAt(i)'
        PROVE  /\ wire'[i].request.capture <= capture_id'
               /\ \A c \in Captures : Taken(c)' => c < wire'[i].request.capture
    BY <2>1, <2>2, <2>3, <2>5 DEF Ascending
  <2>6. ASSUME NEW i \in DOMAIN wire', NEW j \in DOMAIN wire', i < j, StartsAt(i)', StartsAt(j)'
        PROVE  wire'[i].request.capture < wire'[j].request.capture
    <3>1. i + 1 < j + 1
      BY <2>1, <2>6
    <3> QED
      BY <2>1, <2>6, <3>1 DEF Ascending
  <2> QED
    BY <2>4, <2>5, <2>6 DEF Ascending
<1>3. CASE ~Take /\ \A r \in Requests : ~Call(r)
  <2>1. \A c \in Captures : Taken(c)' => Taken(c)
    BY <1>3, TakenStep
  <2> QED
    BY <1>3, <2>1, WireStep DEF Ascending
<1> QED
  BY <1>1, <1>2, <1>3

(* What requests, answers and replies leave alone.                         *)
LEMMA ThreadsOnlyInPlugin ==
  ASSUME TypeOK, FrontendType, FrontendNext, ~PluginStep
  PROVE  UNCHANGED <<threadVars, streamVars, running>>
<1>1. CASE GiveUp \/ Gets \/ ReplyDropped \/ \E r \in Requests : Call(r)
  BY <1>1 DEF GiveUp, Gets, ReplyDropped, Call, vars
<1>2. CASE Take
  BY <1>2, TakeEffect
<1>3. CASE SendReply
  BY <1>3, SendReplyEffect
<1> QED
  BY <1>1, <1>2, <1>3 DEF FrontendNext

(* The request that is served changes by Take and SendReply only.          *)
LEMMA RequestStep ==
  ASSUME TypeOK, FrontendType, FrontendNext, ~Take, ~SendReply
  PROVE  UNCHANGED req
<1>1. CASE GiveUp \/ Gets \/ ReplyDropped \/ \E r \in Requests : Call(r)
  BY <1>1 DEF GiveUp, Gets, ReplyDropped, Call, vars, controlVars
<1>2. CASE PluginStep
  BY <1>2, PluginKeeps
<1> QED
  BY <1>1, <1>2 DEF FrontendNext

(* The youngest capture is the current one.                                *)
LEMMA CurrentStep ==
  ASSUME TypeOK, FrontendType, StartIsFresh, Ascending, CurrentIsLast, FrontendNext
  PROVE  CurrentIsLast'
<1> USE DEF Started
<1>a. /\ \A c \in Captures : c \in Nat /\ c # None
      /\ current \in Captures \cup {None}
  BY CaptureIds, ControlLoopAssumption DEF TypeOK
<1>1. CASE Take
  <2>1. UNCHANGED <<thread, current>>
    BY <1>1, TakeEffect DEF threadVars
  <2>2. ASSUME NEW c \in Captures, Started(c), Starts(req') PROVE c <= req'.capture
    <3>1. 1 \in DOMAIN wire /\ req' = wire[1].request /\ StartsAt(1)
      BY <1>1, <2>2, TakeEffect DEF StartsAt
    <3>2. c < wire[1].request.capture
      BY <2>2, <3>1 DEF Ascending, Taken
    <3>3. wire[1].request.capture \in Nat
      BY <3>1, Places, CaptureIds DEF StartsAt
    <3> QED
      BY <1>a, <3>1, <3>2, <3>3
  <2> QED
    BY <2>1, <2>2 DEF CurrentIsLast
<1>2. CASE SendReply
  BY <1>2, SendReplyEffect, CaptureIds DEF CurrentIsLast, threadVars
<1>3. CASE PluginStep
  <2>1. UNCHANGED req
    BY <1>3, PluginKeeps
  <2>2. CASE AcquireStartSpawns
    <3>1. Starts(req) /\ req.capture \in Captures /\ current' = req.capture
      BY <2>2, Places, CaptureIds DEF AcquireStartSpawns, StartIsFresh, Starts
    <3>2. \A c \in Captures : Started(c)' => Started(c) \/ c = req.capture
      BY <1>3, PluginThreads
    <3>3. Started(current)'
      BY <2>2, <3>1 DEF AcquireStartSpawns, TypeOK
    <3>4. \A c \in Captures : Started(c)' => c <= req.capture
      BY <1>a, <3>1, <3>2 DEF CurrentIsLast
    <3> QED
      BY <1>a, <2>1, <3>1, <3>3, <3>4 DEF CurrentIsLast
  <2>3. CASE ~AcquireStartSpawns
    <3>1. UNCHANGED current /\ \A c \in Captures : Started(c)' <=> Started(c)
      BY <1>3, <2>3, PluginThreads
    <3> QED
      BY <1>a, <2>1, <3>1 DEF CurrentIsLast
  <2> QED
    BY <2>2, <2>3
<1>4. CASE ~Take /\ ~SendReply /\ ~PluginStep
  BY <1>4, ThreadsOnlyInPlugin, RequestStep DEF CurrentIsLast, threadVars
<1> QED
  BY <1>1, <1>2, <1>3, <1>4

(* A capture that was denied is not started any more.                      *)
LEMMA DeniedStep ==
  ASSUME TypeOK, FrontendType, HandlerIsAsked, StartIsFresh, Ascending, DeniedForGood,
         FrontendNext
  PROVE  DeniedForGood'
<1> USE DEF Started
<1>1. CASE Take
  <2>1. /\ \A c \in Captures : Denied(c)' = Denied(c) /\ Started(c)' = Started(c)
        /\ pc' = "dispatch"
    BY <1>1, TakeEffect DEF Denied, threadVars, clientVars
  <2>2. ASSUME NEW c \in Captures, Denied(c), Served(c)' PROVE FALSE
    <3>1. 1 \in DOMAIN wire /\ StartsAt(1) /\ wire[1].request.capture = c
      BY <1>1, <2>2, TakeEffect DEF Served, StartsAt
    <3>2. c < c
      BY <2>2, <3>1 DEF Ascending, Taken
    <3> QED
      BY <3>2, CaptureIds
  <2> QED
    BY <2>1, <2>2 DEF DeniedForGood
<1>2. CASE SendReply
  <2>1. /\ \A c \in Captures : Denied(c)' => Denied(c) \/ (Served(c) /\ outcome # "Ok")
        /\ pc = "reply" /\ pc' \in {"recv", "done"} /\ req' = NoRequest /\ UNCHANGED thread
    BY <1>2, SendReplyEffect DEF threadVars
  <2> QED
    BY <2>1, CaptureIds DEF DeniedForGood, Served
<1>3. CASE PluginStep
  <2>1. UNCHANGED req /\ \A c \in Captures : Denied(c)' = Denied(c) /\ Served(c)' = Served(c)
    BY <1>3, PluginKeeps DEF Denied, Served, frontendVars, clientVars
  <2>2. \A c \in Captures : Started(c)' => Started(c) \/ (AcquireStartSpawns /\ Served(c))
    BY <1>3, PluginThreads DEF Served, StartIsFresh, AcquireStartSpawns, Starts
  <2>3. ASSUME Starts(req), pc' = "undo" \/ (pc' = "reply" /\ outcome' # "Ok")
        PROVE  thread'[req.capture] = "none"
    <3>1. pc \in {"dispatch", "starting", "undo"} \/ (pc = "reply" /\ outcome # "Ok")
      BY <1>3, <2>3, PluginPlaces DEF HandlerIsAsked
    <3>2. ~AcquireStartSpawns
      BY <2>3 DEF AcquireStartSpawns, Answer
    <3>3. req.capture \in Captures
      BY <2>3, Places, CaptureIds
    <3>4. ~Started(req.capture)
      BY <2>3, <3>1 DEF StartIsFresh, DeniedForGood, Starts
    <3> QED
      BY <2>2, <3>2, <3>3, <3>4
  <2> QED
    BY <2>1, <2>2, <2>3 DEF DeniedForGood
<1>4. CASE GiveUp \/ Gets \/ ReplyDropped
  BY <1>4, ReceiveEffect DEF DeniedForGood, Served, vars, controlVars, threadVars
<1>5. CASE \E r \in Requests : Call(r)
  BY <1>5, CallEffect DEF DeniedForGood, Denied, Served, vars, controlVars, threadVars
<1> QED
  BY <1>1, <1>2, <1>3, <1>4, <1>5 DEF FrontendNext

(* Events are pushed by threads that were started.                         *)
LEMMA EventsStep ==
  ASSUME TypeOK, FrontendType, EventsStarted, FrontendNext
  PROVE  EventsStarted'
<1>1. CASE PluginStep
  <2>1. ASSUME NEW i \in DOMAIN stream' PROVE thread'[stream'[i].capture] # "none"
    <3>1. stream'[i].capture \in Captures /\ Started(stream'[i].capture)
      <4>1. ASSUME NEW j \in DOMAIN stream, stream'[i] = stream[j]
            PROVE  stream'[i].capture \in Captures /\ Started(stream'[i].capture)
        <5>1. stream[j] \in Events
          BY SeqFacts DEF TypeOK
        <5> QED
          BY <4>1, <5>1 DEF EventsStarted, Events
      <4> QED
        BY <1>1, <4>1, PluginEvents
    <3> QED
      BY <1>1, <3>1, PluginThreads DEF Started
  <2> QED
    BY <2>1 DEF EventsStarted, Started
<1>2. CASE ~PluginStep
  BY <1>2, ThreadsOnlyInPlugin DEF EventsStarted, Started, threadVars, streamVars
<1> QED
  BY <1>1, <1>2

(* A stop still covers whatever it may find.                               *)
LEMMA StopsStep ==
  ASSUME TypeOK, FrontendType, HandlerIsAsked, StartIsFresh, Ascending, CurrentIsLast,
         StopsCover, FrontendNext
  PROVE  StopsCover'
<1> USE DEF Started, StartsAt
<1>1. ASSUME NEW r \in Requests, Call(r) PROVE StopsCover'
  <2>1. /\ capture_id \in Nat /\ Len(wire) \in Nat
        /\ UNCHANGED <<pc, req, thread, stopped>>
        /\ stopAsked' = IF Stops(r) THEN 1 .. capture_id ELSE stopAsked
        /\ stopAsked \subseteq stopAsked'
    BY <1>1, CallEffect, Places DEF FrontendType, vars, controlVars, threadVars
  <2>2. \A c \in Captures : Taken(c)' => Taken(c) /\ c \in Nat /\ c > 0 /\ c <= capture_id
    BY <1>1, CallEffect, CaptureIds DEF Ascending, Taken, Served, Denied, vars,
       controlVars, threadVars
  <2>3. ASSUME NEW i \in DOMAIN wire', Stops(wire'[i].request)
        PROVE  /\ \A c \in Captures : Taken(c)' => c \in stopAsked'
               /\ \A j \in DOMAIN wire' :
                    j < i /\ Starts(wire'[j].request) => wire'[j].request.capture \in stopAsked'
    <3>1. CASE i \in DOMAIN wire /\ i < Len(wire) + 1 /\ wire'[i] = wire[i]
      <4>1. \A j \in DOMAIN wire' : j < i => j \in DOMAIN wire /\ wire'[j] = wire[j]
        BY <1>1, <3>1, Places, CallEffect
      <4> QED
        BY <2>1, <2>2, <2>3, <3>1, <4>1 DEF StopsCover
    <3>2. CASE i = Len(wire) + 1 /\ wire'[i].request = r
      <4>1. \A j \in DOMAIN wire' : j < i => j \in DOMAIN wire /\ wire'[j] = wire[j]
        BY <1>1, <2>1, <3>2, CallEffect
      <4>2. stopAsked' = 1 .. capture_id
        BY <2>1, <2>3, <3>2
      <4>3. \A j \in DOMAIN wire : StartsAt(j) =>
               /\ wire[j].request.capture \in Nat /\ wire[j].request.capture > 0
               /\ wire[j].request.capture <= capture_id
        BY Places, CaptureIds DEF Ascending
      <4> QED
        BY <2>1, <2>2, <4>1, <4>2, <4>3
    <3> QED
      BY <1>1, <3>1, <3>2, CallEffect
  <2> QED
    BY <2>1, <2>3 DEF StopsCover, StopIsOwn
<1>2. CASE Take
  <2>1. /\ UNCHANGED <<stopAsked, stopped, thread>> /\ 1 \in DOMAIN wire
        /\ req' = wire[1].request
        /\ \A i \in DOMAIN wire' :
              i \in Nat /\ i > 0 /\ i + 1 \in DOMAIN wire /\ wire'[i] = wire[i + 1]
    BY <1>2, TakeEffect DEF clientVars, threadVars
  <2>2. \A c \in Captures : Taken(c)' =>
          Taken(c) \/ (StartsAt(1) /\ c = wire[1].request.capture)
    BY <1>2, TakenStep
  <2>3. ASSUME NEW i \in DOMAIN wire', Stops(wire'[i].request)
        PROVE  /\ \A c \in Captures : Taken(c)' => c \in stopAsked'
               /\ \A j \in DOMAIN wire' :
                    j < i /\ Starts(wire'[j].request) => wire'[j].request.capture \in stopAsked'
    <3>1. 1 < i + 1 /\ \A j \in DOMAIN wire' : j < i => j + 1 < i + 1
      BY <2>1
    <3> QED
      BY <2>1, <2>2, <2>3, <3>1 DEF StopsCover
  <2>4. ASSUME Stops(req'), NEW c \in Captures, Started(c) PROVE c \in stopAsked
    BY <2>1, <2>4 DEF StopsCover, Taken
  <2> QED
    BY <2>1, <2>3, <2>4 DEF StopsCover, StopIsOwn
<1>3. CASE SendReply
  <2>1. /\ UNCHANGED <<wire, stopAsked, stopped, thread>> /\ req' = NoRequest
    BY <1>3, SendReplyEffect DEF clientVars, threadVars
  <2>2. \A c \in Captures : Taken(c)' => Taken(c)
    BY <1>3, <2>1, TakenStep DEF SendReply, Take, Reply, Recv
  <2> QED
    BY <2>1, <2>2, CaptureIds DEF StopsCover, StopIsOwn
<1>4. CASE PluginStep
  <2>1. UNCHANGED <<wire, stopAsked, req>>
    BY <1>4, PluginKeeps DEF frontendVars, clientVars
  <2>2. \A c \in Captures : Taken(c)' => Taken(c)
    <3>1. Take => wire' = Tail(wire) /\ wire # <<>> /\ wire \in Seq(Messages)
      BY DEF Take, FrontendType
    <3>2. ~Take
      BY <2>1, <3>1, TailFacts
    <3> QED
      BY <3>2, TakenStep
  <2>3. ASSUME Stops(req), NEW c \in Captures, thread'[c] # "none" PROVE c \in stopAsked
    <3>1. ~AcquireStartSpawns
      BY <2>3 DEF AcquireStartSpawns, StartIsFresh, Stops
    <3> QED
      BY <1>4, <2>3, <3>1, PluginThreads DEF StopsCover
  <2>4. stopped' \subseteq stopAsked
    <3>1. ASSUME pc \in {"stopping", "resetting"}, current # None PROVE current \in stopAsked
      BY <3>1 DEF HandlerIsAsked, StopsCover, CurrentIsLast, TypeOK
    <3> QED
      BY <1>4, <3>1, PluginStops DEF StopsCover, StopIsOwn
  <2> QED
    BY <2>1, <2>2, <2>3, <2>4 DEF StopsCover, StopIsOwn
<1>5. CASE GiveUp \/ Gets \/ ReplyDropped
  <2>1. UNCHANGED <<wire, stopAsked, stopped, thread, req>>
    BY <1>5, ReceiveEffect DEF vars, controlVars, threadVars
  <2>2. \A c \in Captures : Taken(c)' => Taken(c)
    BY <1>5, <2>1, ReceiveEffect DEF Taken, Served
  <2> QED
    BY <2>1, <2>2 DEF StopsCover, StopIsOwn
<1> QED
  BY <1>1, <1>2, <1>3, <1>4, <1>5 DEF FrontendNext

(* A frontend that has read the end of the last capture it asked for has   *)
(* no start under way, and that capture is the current one.                *)
LEMMA ReliesOnLast ==
  ASSUME FlagInv, FrontendType, Ascending, CurrentIsLast, capture_id \in ended
  PROVE  /\ \A j \in DOMAIN wire : ~StartsAt(j)
         /\ ~(Starts(req) /\ pc \in {"dispatch", "starting"})
         /\ LastIsOver
<1>1. capture_id \in Captures /\ thread[capture_id] = "over"
  BY DEF FlagInv, TypeOK, AnnouncedIsOver, Announced
<1>2. Started(capture_id) /\ Taken(capture_id)
  BY <1>1 DEF Started, Taken
<1>3. ASSUME NEW j \in DOMAIN wire, StartsAt(j) PROVE FALSE
  <2>1. capture_id < wire[j].request.capture /\ wire[j].request.capture <= capture_id
    BY <1>1, <1>2, <1>3 DEF Ascending
  <2> QED
    BY <1>1, <1>3, <2>1, Places, CaptureIds DEF StartsAt
<1>4. ASSUME Starts(req), pc \in {"dispatch", "starting"} PROVE FALSE
  <2>1. req.capture \in Captures /\ capture_id <= req.capture
    BY <1>1, <1>2, <1>4, Places, CaptureIds DEF CurrentIsLast
  <2>2. req.capture <= capture_id
    BY <1>4, <2>1 DEF Ascending, Taken, Served
  <2>3. req.capture = capture_id
    BY <1>1, <2>1, <2>2, CaptureIds
  <2> QED
    BY <1>1, <1>4, <2>3 DEF FlagInv, StartIsFresh, Starts
<1>5. LastIsOver
  <2>1. current # None /\ current \in Captures /\ capture_id <= current
    BY <1>1, <1>2 DEF CurrentIsLast, FlagInv, TypeOK
  <2>2. current <= capture_id
    BY <2>1 DEF CurrentIsLast, Ascending, Taken
  <2>3. current = capture_id
    BY <1>1, <2>1, <2>2, CaptureIds
  <2> QED
    BY <1>1, <2>1, <2>3 DEF LastIsOver
<1> QED
  BY <1>3, <1>4, <1>5

(* A request that relies on the end of the last capture still may.         *)
LEMMA ReliedStep ==
  ASSUME FlagInv, FrontendType, Ascending, CurrentIsLast, ReliedHolds, FrontendNext
  PROVE  ReliedHolds'
<1> USE DEF ReliedHolds, StartsAt, LastIsOver, NotBusyOnceEnded
<1>a. TypeOK /\ StartIsFresh /\ NoStuckBusy
  BY DEF FlagInv
<1>1. ASSUME NEW r \in Requests, Call(r) PROVE ReliedHolds'
  <2>1. UNCHANGED <<pc, req, outcome, thread, current, serving>>
    BY <1>1, CallEffect DEF vars, controlVars, threadVars
  <2>2. ASSUME NEW i \in DOMAIN wire', wire'[i].relied
        PROVE  /\ \A j \in DOMAIN wire' : j < i => ~Starts(wire'[j].request)
               /\ ~(Starts(req) /\ pc \in {"dispatch", "starting"})
               /\ LastIsOver
    <3>1. CASE i \in DOMAIN wire /\ i < Len(wire) + 1 /\ wire'[i] = wire[i]
      <4>1. \A j \in DOMAIN wire' : j < i => j \in DOMAIN wire /\ wire'[j] = wire[j]
        BY <1>1, <3>1, Places, CallEffect
      <4> QED
        BY <2>2, <3>1, <4>1
    <3>2. CASE i = Len(wire) + 1 /\ wire'[i].relied = (capture_id \in ended)
      <4>1. \A j \in DOMAIN wire' : j < i => j \in DOMAIN wire /\ wire'[j] = wire[j]
        BY <1>1, <3>2, Places, CallEffect
      <4>2. capture_id \in ended
        BY <2>2, <3>2
      <4> QED
        BY <4>1, <4>2, ReliesOnLast
    <3> QED
      BY <1>1, <3>1, <3>2, CallEffect
  <2> QED
    BY <2>1, <2>2
<1>2. CASE Take
  <2>1. /\ UNCHANGED <<thread, current>> /\ 1 \in DOMAIN wire
        /\ req' = wire[1].request /\ serving' = wire[1] /\ pc' = "dispatch"
        /\ \A i \in DOMAIN wire' :
              i \in Nat /\ i > 0 /\ i + 1 \in DOMAIN wire /\ wire'[i] = wire[i + 1]
    BY <1>2, TakeEffect DEF threadVars
  <2>2. ASSUME NEW i \in DOMAIN wire', wire'[i].relied
        PROVE  /\ \A j \in DOMAIN wire' : j < i => ~Starts(wire'[j].request)
               /\ ~Starts(req')
               /\ LastIsOver
    <3>1. 1 < i + 1 /\ \A j \in DOMAIN wire' : j < i => j + 1 < i + 1
      BY <2>1
    <3> QED
      BY <2>1, <2>2, <3>1
  <2> QED
    BY <2>1, <2>2
<1>3. CASE SendReply
  <2>1. /\ UNCHANGED <<wire, thread, current>> /\ req' = NoRequest
        /\ pc' \in {"recv", "done"}
    BY <1>a, <1>3, SendReplyEffect DEF clientVars, threadVars
  <2> QED
    BY <2>1, CaptureIds
<1>4. CASE PluginStep
  <2>1. UNCHANGED <<wire, serving, req>>
    BY <1>4, PluginKeeps DEF frontendVars
  <2>2. ASSUME ~AcquireStartSpawns, LastIsOver PROVE LastIsOver'
    <3>1. current' = current /\ current \in Captures
      BY <1>4, <1>a, <2>2, PluginThreads DEF TypeOK
    <3> QED
      BY <1>4, <1>a, <2>2, <3>1, PluginThreads
  <2>3. AcquireStartSpawns => Starts(req) /\ pc = "starting"
    BY <1>a DEF AcquireStartSpawns, StartIsFresh, Starts
  <2>4. ASSUME NEW i \in DOMAIN wire, wire[i].relied
        PROVE  ~(Starts(req) /\ pc' \in {"dispatch", "starting"}) /\ LastIsOver'
    BY <1>4, <2>2, <2>3, <2>4, PluginPlaces
  <2>5. serving.relied /\ pc' = "dispatch" => LastIsOver'
    BY <1>4, <2>2, <2>3, PluginPlaces
  <2>6. ASSUME pc' = "reply", outcome' = "Busy" PROVE ~serving.relied
    <3>1. CASE pc = "reply" /\ outcome = "Busy"
      BY <3>1
    <3>2. CASE pc = "dispatch" /\ running
      BY <1>a, <3>2 DEF NoStuckBusy, Live
    <3> QED
      BY <1>4, <2>6, <3>1, <3>2, PluginPlaces
  <2> QED
    BY <2>1, <2>4, <2>5, <2>6
<1>5. CASE GiveUp \/ Gets \/ ReplyDropped
  BY <1>5, ReceiveEffect DEF vars, controlVars, threadVars
<1> QED
  BY <1>1, <1>2, <1>3, <1>4, <1>5 DEF FrontendNext

-----------------------------------------------------------------------------
(* The theorems.                                                           *)

(* The initial state satisfies the invariant.                              *)
LEMMA InitFInv == FrontendInit => FInv
<1> SUFFICES ASSUME FrontendInit PROVE FInv
  OBVIOUS
<1>1. FlagInv
  BY InitFlagInv DEF FrontendInit
<1>2. /\ wire = <<>> /\ replies = <<>> /\ stream = <<>> /\ req = NoRequest
      /\ serving = Nothing /\ pc = "recv" /\ current = None /\ stopped = {}
      /\ made = 0 /\ awaiting = 0 /\ capture_id = 0 /\ refused = {} /\ stopAsked = {}
      /\ thread = [c \in Captures |-> "none"]
  BY DEF FrontendInit, Init
<1>3. FrontendType
  BY <1>2, NoElements DEF FrontendType, Nothing, Message
<1>4. ~Starts(req) /\ ~Stops(req) /\ \A c \in Captures : ~Started(c) /\ ~Denied(c)
  BY <1>2, NoElements, CaptureIds DEF Started, Denied
<1> QED
  BY <1>1, <1>2, <1>3, <1>4, NoElements
  DEF FInv, HandlerIsAsked, Ascending, CurrentIsLast, DeniedForGood, EventsStarted,
      StopsCover, StopIsOwn, ReliedHolds, NotBusyOnceEnded, Taken, Served

(* A step of the composition keeps the invariant.                          *)
LEMMA NextFInv == FInv /\ [FrontendNext]_<<vars, frontendVars>> => FInv'
<1>1. ASSUME FInv, FrontendNext PROVE FInv'
  <2>1. TypeOK /\ StartIsFresh
    BY <1>1 DEF FInv, FlagInv
  <2>2. FlagInv'
    BY <1>1, StepsControl, NextFlagInv DEF FInv
  <2> QED
    BY <1>1, <2>1, <2>2, TypeStep, HandlerStep, AscendingStep, CurrentStep, DeniedStep,
       EventsStep, StopsStep, ReliedStep DEF FInv
<1>2. ASSUME FInv, UNCHANGED <<vars, frontendVars>> PROVE FInv'
  <2>1. FlagInv'
    BY <1>2, NextFlagInv DEF FInv
  <2> USE <1>2 DEF FInv, vars, controlVars, threadVars, streamVars, frontendVars, clientVars
  <2>2. FrontendType' /\ HandlerIsAsked'
    BY DEF FrontendType, HandlerIsAsked
  <2>3. /\ \A c \in Captures : /\ Started(c)' = Started(c) /\ Denied(c)' = Denied(c)
                                /\ Served(c)' = Served(c) /\ Taken(c)' = Taken(c)
        /\ \A i : StartsAt(i)' = StartsAt(i)
    BY DEF Started, Denied, Served, Taken, StartsAt
  <2>4. Ascending' /\ CurrentIsLast' /\ DeniedForGood' /\ EventsStarted'
    BY <2>3 DEF Ascending, CurrentIsLast, DeniedForGood, EventsStarted, Started
  <2>5. StopsCover' /\ ReliedHolds'
    BY <2>3 DEF StopsCover, StopIsOwn, ReliedHolds, NotBusyOnceEnded, LastIsOver
  <2> QED
    BY <2>1, <2>2, <2>4, <2>5
<1> QED
  BY <1>1, <1>2

(* Every reachable state of the composition satisfies the invariant.       *)
LEMMA FInvariant == FrontendSpec => []FInv
BY InitFInv, NextFInv, PTL DEF FrontendSpec

(* A frontend that has read the CaptureEnd of the last capture it asked    *)
(* for is not refused as busy by any request it makes then, whatever it    *)
(* gave up before and whatever reset does (events.rs:24-30).               *)
THEOREM NeverBusyOnceEnded == FrontendSpec => []NotBusyOnceEnded
<1>1. FInv => NotBusyOnceEnded
  BY DEF FInv, ReliedHolds
<1> QED
  BY <1>1, FInvariant, PTL

(* Every event is about a capture the frontend asked for and was not       *)
(* refused, before or after its answer (client.rs:112-128).                *)
THEOREM KnowsItsEvents == FrontendSpec => []EventsAreKnown
<1>1. FInv => EventsAreKnown
  <2> SUFFICES ASSUME FInv, NEW i \in DOMAIN stream
               PROVE  stream[i].capture \in (1 .. capture_id) \ refused
    BY DEF EventsAreKnown
  <2>1. stream[i].capture \in Captures /\ Started(stream[i].capture)
    <3>1. stream \in Seq(Events)
      BY DEF FInv, FlagInv, TypeOK
    <3>2. stream[i] \in Events
      BY <3>1, SeqFacts
    <3> QED
      BY <3>2 DEF FInv, EventsStarted, Events
  <2>2. stream[i].capture <= capture_id /\ stream[i].capture \notin refused
    BY <2>1 DEF FInv, Ascending, DeniedForGood, Taken, Denied
  <2> QED
    BY <2>1, <2>2, CaptureIds DEF FInv, FrontendType
<1> QED
  BY <1>1, FInvariant, PTL

(* A capture is told to stop only by a stop or a reset that was asked for  *)
(* after it, although one that was given up may be served much later       *)
(* (client.rs:128, mod.rs:148-155).                                        *)
THEOREM StopsAreOwn == FrontendSpec => []StopIsOwn
<1>1. FInv => StopIsOwn
  BY DEF FInv, StopsCover
<1> QED
  BY <1>1, FInvariant, PTL

(* The composition is a behaviour of ControlLoop: what is proved of        *)
(* Safety holds with this frontend.                                        *)
THEOREM DrivesControlLoop == FrontendSpec => Safety
<1>1. FrontendInit => Init
  BY DEF FrontendInit
<1>2. FInv /\ [FrontendNext]_<<vars, frontendVars>> => [Next]_vars
  BY StepsControl DEF FInv
<1> QED
  BY <1>1, <1>2, FInvariant, PTL DEF FrontendSpec, Safety

(* So a busy flag has an owner, and goes with the capture that ended.      *)
THEOREM FlagHasOwnerHere == FrontendSpec => [](NoStuckBusy /\ ReadyOnceEnded)
BY DrivesControlLoop, FlagInvariant, FlagInvImplies, PTL

(* And with a plugin whose reset waits, this frontend has the abstract     *)
(* capture server in front of it.                                          *)
THEOREM DrivesLifecycle ==
  ASSUME Disciplined
  PROVE  FrontendSpec => LC!LifecycleSafety
BY DrivesControlLoop, SafetyRefines, PTL

=============================================================================
