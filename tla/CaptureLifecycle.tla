-------------------------- MODULE CaptureLifecycle --------------------------
(***************************************************************************)
(* What a capture server promises the frontend, with no sockets, threads   *)
(* or flags: the device is either being configured or acquiring, never     *)
(* both, at most one acquisition exists at a time, no capture runs twice,  *)
(* and an acquisition that was told to stop does stop.                     *)
(*                                                                         *)
(* ControlLoop implements this specification (module MCControlLoop checks  *)
(* it, module ControlLoopProofs proves its safety part).                   *)
(***************************************************************************)
CONSTANTS
  Captures,  \* the capture ids a frontend may assign
  None       \* no capture, not one of Captures

VARIABLES
  bound,        \* a device answered Hello
  active,       \* the capture being acquired, or None
  stopping,     \* the active capture was told to wind up
  finished,     \* the captures whose acquisition is over
  configuring   \* the device is describing itself or being configured

lifecycleVars == <<bound, active, stopping, finished, configuring>>

LifecycleTypeOK ==
  /\ bound \in BOOLEAN
  /\ active \in Captures \cup {None}
  /\ stopping \in BOOLEAN
  /\ finished \in SUBSET Captures
  /\ configuring \in BOOLEAN

LifecycleInit ==
  /\ bound = FALSE
  /\ active = None
  /\ stopping = FALSE
  /\ finished = {}
  /\ configuring = FALSE

Bind ==
  /\ ~bound
  /\ bound' = TRUE
  /\ UNCHANGED <<active, stopping, finished, configuring>>

BeginConfigure ==
  /\ bound /\ ~configuring /\ active = None
  /\ configuring' = TRUE
  /\ UNCHANGED <<bound, active, stopping, finished>>

EndConfigure ==
  /\ configuring
  /\ configuring' = FALSE
  /\ UNCHANGED <<bound, active, stopping, finished>>

BeginAcquisition(c) ==
  /\ bound /\ ~configuring /\ active = None
  /\ c \notin finished
  /\ active' = c
  /\ UNCHANGED <<bound, stopping, finished, configuring>>

StopAcquisition ==
  /\ active # None
  /\ stopping' = TRUE
  /\ UNCHANGED <<bound, active, finished, configuring>>

EndAcquisition ==
  /\ active # None
  /\ finished' = finished \cup {active}
  /\ active' = None
  /\ stopping' = FALSE
  /\ UNCHANGED <<bound, configuring>>

LifecycleNext ==
  \/ Bind
  \/ BeginConfigure
  \/ EndConfigure
  \/ \E c \in Captures : BeginAcquisition(c)
  \/ StopAcquisition
  \/ EndAcquisition

LifecycleSafety == LifecycleInit /\ [][LifecycleNext]_lifecycleVars

(* A stopped acquisition ends; one that was not may wait for a trigger    *)
(* for ever.                                                              *)
LifecycleSpec ==
  /\ LifecycleSafety
  /\ WF_lifecycleVars(stopping /\ EndAcquisition)

=============================================================================
