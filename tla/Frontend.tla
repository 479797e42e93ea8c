------------------------------ MODULE Frontend ------------------------------
(***************************************************************************)
(* A frontend and the control loop it drives.  In ControlLoop any request  *)
(* may arrive at any time; here one CaptureClient (client.rs) makes them   *)
(* one after the other, assigns the capture ids, gives a request up when   *)
(* its receive times out and goes on to the next, while the control loop   *)
(* still has the old one in front of it.  What a frontend can then rely on *)
(* is what it has seen: the answers it got and the events it read.         *)
(*                                                                         *)
(* A request is known by its place among all that were made, which is what *)
(* nng's REQ socket matches a reply by (see Session for the match).        *)
(***************************************************************************)
EXTENDS ControlLoop

CONSTANTS
  Calls,       \* the operations the frontend uses
  MaxRequests  \* bound: requests it makes

ASSUME FrontendAssumption ==
  /\ Captures \subseteq Nat \ {0}
  /\ MaxRequests \in Nat

VARIABLES
  made,        \* how many requests were made
  awaiting,    \* the request the client waits for, or 0
  capture_id,  \* CaptureClient.capture_id
  wire,        \* requests on their way to the control loop, oldest first
  serving,     \* the one in req
  replies,     \* replies on their way to the client, oldest first
  refused,     \* the captures whose AcquireStart was answered with an error
  stopAsked    \* the captures asked for before some later stop or reset

clientVars == <<made, awaiting, capture_id, refused, stopAsked>>
frontendVars == <<clientVars, wire, serving, replies>>

(* A request on the wire, and whether the frontend had read the CaptureEnd *)
(* of the last capture it asked for when it made it.                       *)
Message(id, r, relied) == [id |-> id, request |-> r, relied |-> relied]
Nothing == Message(0, NoRequest, FALSE)

FrontendInit ==
  /\ Init
  /\ made = 0 /\ awaiting = 0 /\ capture_id = 0
  /\ wire = <<>> /\ serving = Nothing /\ replies = <<>>
  /\ refused = {} /\ stopAsked = {}

-----------------------------------------------------------------------------
Starts(r) == r.op = "AcquireStart"

(* next_capture_id, for a request that starts a capture.                   *)
NextCaptureId(r) == IF Starts(r) THEN capture_id + 1 ELSE capture_id

(* One of the typed methods, up to the receive in request.                 *)
Call(r) ==
  /\ awaiting = 0 /\ made < MaxRequests
  /\ r.op \in Calls
  /\ Starts(r) => r.capture = NextCaptureId(r)
  /\ made' = made + 1
  /\ awaiting' = made'
  /\ capture_id' = NextCaptureId(r)
  /\ wire' = Append(wire, Message(made', r, capture_id \in ended))
  /\ stopAsked' = IF r.op \in {"AcquireStop", "Reset"} THEN 1 .. capture_id ELSE stopAsked
  /\ UNCHANGED <<vars, serving, replies, refused>>

(* The receive fails: the answer will be dropped, the request will not.    *)
GiveUp ==
  /\ awaiting # 0
  /\ awaiting' = 0
  /\ UNCHANGED <<vars, made, capture_id, refused, stopAsked, wire, serving, replies>>

(* Variant: the next reply is taken for the answer.                        *)
GetsAnyReply ==
  /\ awaiting # 0 /\ replies # <<>>
  /\ awaiting' = 0
  /\ refused' = IF Head(replies).outcome = "Ok" THEN refused ELSE refused \cup {capture_id}
  /\ replies' = Tail(replies)
  /\ UNCHANGED <<vars, made, capture_id, stopAsked, wire, serving>>

(* The receive in request returns the answer.                              *)
Gets ==
  /\ replies # <<>> /\ awaiting # 0
  /\ LET r == Head(replies) IN
       /\ r.id = awaiting
       /\ refused' = IF Starts(r.request) /\ r.outcome # "Ok"
                       THEN refused \cup {r.request.capture} ELSE refused
  /\ awaiting' = 0
  /\ replies' = Tail(replies)
  /\ UNCHANGED <<vars, made, capture_id, stopAsked, wire, serving>>

(* nng drops a reply to a request that was given up.                       *)
ReplyDropped ==
  /\ replies # <<>> /\ Head(replies).id # awaiting
  /\ replies' = Tail(replies)
  /\ UNCHANGED <<vars, clientVars, wire, serving>>

-----------------------------------------------------------------------------
(* transport::recv in serve.                                               *)
Take ==
  /\ wire # <<>>
  /\ Recv(Head(wire).request)
  /\ serving' = Head(wire)
  /\ wire' = Tail(wire)
  /\ UNCHANGED <<clientVars, replies>>

(* transport::send in serve.                                               *)
SendReply ==
  /\ Reply
  /\ replies' = Append(replies, [id |-> serving.id, request |-> req, outcome |-> outcome])
  /\ serving' = Nothing
  /\ UNCHANGED <<clientVars, wire>>

(* What goes on inside the plugin, and on the event stream.                *)
PluginStep ==
  /\ \/ pc # "reply" /\ ControlStep
     \/ ControlLost
     \/ \E c \in Captures : ThreadStep(c)
     \/ ReadEvent
     \/ Terminated
  /\ UNCHANGED frontendVars

FrontendNext ==
  \/ \E r \in Requests : Call(r)
  \/ GiveUp \/ Gets \/ ReplyDropped
  \/ Take \/ SendReply
  \/ PluginStep

FrontendSpec == FrontendInit /\ [][FrontendNext]_<<vars, frontendVars>>

-----------------------------------------------------------------------------
(* A frontend that has read the CaptureEnd of the last capture it asked    *)
(* for is not refused as busy, whatever it has given up before and         *)
(* whatever the plugin's reset does (events.rs:24-26: the end of a capture *)
(* is read off the event stream).                                          *)
NotBusyOnceEnded ==
  pc = "reply" /\ outcome = "Busy" => ~serving.relied

(* Every event names a capture the frontend asked for and was not refused, *)
(* although it may come before the answer, or after the frontend has given *)
(* the AcquireStart up (client.rs:70-71).                                  *)
EventsAreKnown ==
  \A i \in DOMAIN stream : stream[i].capture \in 1 .. capture_id \ refused

(* A capture is told to stop only by a stop or a reset the frontend asked  *)
(* for after that capture: one that was given up and is served late does   *)
(* not hit the capture started since (client.rs:128, mod.rs:148-155).      *)
StopIsOwn == stopped \subseteq stopAsked

=============================================================================
