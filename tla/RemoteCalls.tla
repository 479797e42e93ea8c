---------------------------- MODULE RemoteCalls ----------------------------
(***************************************************************************)
(* What a CaptureClient promises its caller, with no sockets, sequence     *)
(* numbers or processes: calls are made one at a time and every one        *)
(* returns; each takes effect at most once and in the order they were      *)
(* made, also when the caller was told that it failed; a call that is      *)
(* answered is answered with what came of it, and the first call that      *)
(* succeeds is a Hello, which no other does.                               *)
(*                                                                         *)
(* Session implements this specification (module Session has the          *)
(* refinement, module SessionProofs proves its safety part).               *)
(***************************************************************************)
EXTENDS Naturals

CONSTANT Ops  \* what may be called, Hello and Shutdown among it

VARIABLES
  caller,    \* "idle", "waiting" for its last call, or "gone"
  made,      \* how many calls were made
  last,      \* what the last one was
  pending,   \* the calls that may still take effect
  done,      \* those that have, with what came of them
  returned   \* what the last call that is over returned

callVars == <<caller, made, last, pending, done, returned>>

CallsInit ==
  /\ caller = "idle" /\ made = 0 /\ last = "None"
  /\ pending = {} /\ done = {}
  /\ returned = [to |-> 0, kind |-> "None"]

(* The caller is told how its last call ended; Shutdown was its last.      *)
Ends(id, op, kind) ==
  /\ returned' = [to |-> id, kind |-> kind]
  /\ caller' = IF op = "Shutdown" THEN "gone" ELSE "idle"

Call(op) ==
  /\ caller = "idle" /\ caller' = "waiting"
  /\ made' = made + 1 /\ last' = op
  /\ pending' = pending \cup {[id |-> made', op |-> op]}
  /\ UNCHANGED <<done, returned>>

(* With nobody to call it fails at once, and takes no effect.              *)
CallFails(op) ==
  /\ caller = "idle"
  /\ made' = made + 1 /\ last' = op
  /\ Ends(made', op, "Nng")
  /\ UNCHANGED <<pending, done>>

TakeEffect(call, kind) ==
  /\ call \in pending /\ \A other \in pending : call.id <= other.id
  /\ kind = "Ok" =>
       (call.op = "Hello" <=> \A earlier \in done : earlier.kind # "Ok")
  /\ pending' = pending \ {call}
  /\ done' = done \cup {[id |-> call.id, op |-> call.op, kind |-> kind]}
  /\ UNCHANGED <<caller, made, last, returned>>

Return ==
  /\ caller = "waiting"
  /\ \E call \in done : call.id = made /\ call.op = last /\ Ends(made, last, call.kind)
  /\ UNCHANGED <<made, last, pending, done>>

(* A call that failed may still take effect.                               *)
GiveUp ==
  /\ caller = "waiting"
  /\ Ends(made, last, "Nng")
  /\ UNCHANGED <<made, last, pending, done>>

Leave ==
  /\ caller' = "gone"
  /\ UNCHANGED <<made, last, pending, done, returned>>

(* Nobody is left to serve the calls.                                      *)
Lose ==
  /\ pending' = {}
  /\ UNCHANGED <<caller, made, last, done, returned>>

CallsNext ==
  \/ \E op \in Ops : Call(op) \/ CallFails(op)
  \/ \E call \in pending, kind \in {"Ok", "Remote"} : TakeEffect(call, kind)
  \/ Return \/ GiveUp
  \/ Leave \/ Lose

CallsSafety == CallsInit /\ [][CallsNext]_callVars

(* A caller does not wait for ever.                                        *)
CallsSpec ==
  /\ CallsSafety
  /\ WF_callVars(Return \/ GiveUp)

=============================================================================
