------------------------------ MODULE Session ------------------------------
(***************************************************************************)
(* One frontend and the plugin process it launched: CaptureClient of       *)
(* client.rs and of client.cpp, the control connection, serve, the stdin   *)
(* watcher exit_on_stdin_eof, and the life of the process.                 *)
(*                                                                         *)
(* ControlLoop models what a request does.  Here a request has an effect,  *)
(* once, and the questions are which answer belongs to which request, what *)
(* a request the client has given up on still does, and whether the plugin *)
(* process ends and is reaped.  Any request may hang in its handler, time  *)
(* out, or be cut short by a crash of either process.                      *)
(*                                                                         *)
(* nng is external.  Its REQ socket numbers requests and drops a reply     *)
(* that is not to the request it waits for; a receive that fails forgets   *)
(* the request; resending is off (transport.rs:25-30).                     *)
(***************************************************************************)
EXTENDS Naturals, Sequences

CONSTANTS
  Langs,         \* "rust" or "cpp": whose CaptureClient it may be
  WatchesStdin,  \* the plugin calls exit_on_stdin_eof
  MaxRequests,   \* bound: requests a client makes
  SeqMod         \* Request.seq wraps here, 2^32 in the code

ASSUME SessionAssumption ==
  /\ Langs \subseteq {"rust", "cpp"}
  /\ WatchesStdin \in BOOLEAN
  /\ MaxRequests \in Nat
  /\ SeqMod \in Nat \ {0}

VARIABLES
  lang,       \* the library the frontend uses
  client,     \* where the thread that owns the CaptureClient is
  seq,        \* CaptureClient.seq
  issued,     \* how many requests were made, and nng's id of the last
  asked,      \* the last request's payload
  awaiting,   \* the id of the request nng has a receive for, or 0
  result,     \* how the last finished request came out
  stdinOpen,  \* some process holds the write end of the plugin's stdin
  wire,       \* requests sent and not yet taken by serve, oldest first
  replies,    \* replies sent and not yet seen by the client, oldest first
  server,     \* where serve is
  serving,    \* the request serve has taken
  answer,     \* what serve is about to reply
  greeted,    \* serve's local: Hello has been answered
  executed,   \* the requests dispatched, with how they came out, in order
  proc        \* the plugin process

clientVars == <<lang, client, seq, issued, asked, awaiting, result, stdinOpen>>
serverVars == <<server, serving, answer, greeted, executed>>
vars == <<clientVars, serverVars, wire, replies, proc>>

Ops == {"Hello", "Call", "Shutdown"}
Ids == 1 .. MaxRequests
Answers == {"Ok", "Remote"}
Kinds == Answers \cup {"None", "Nng", "Protocol"}

Message == [id : Ids, seq : 0 .. SeqMod - 1, op : Ops]
Nothing == [id |-> 0, seq |-> 0, op |-> "None"]

TypeOK ==
  /\ lang \in Langs
  /\ client \in {"idle", "waiting", "killing", "reaping", "closed", "dead"}
  /\ seq \in 0 .. SeqMod - 1
  /\ issued \in 0 .. MaxRequests
  /\ asked \in Ops \cup {"None"}
  /\ awaiting \in 0 .. MaxRequests
  /\ result \in [to : 0 .. MaxRequests, from : 0 .. MaxRequests, kind : Kinds]
  /\ stdinOpen \in BOOLEAN
  /\ wire \in Seq(Message)
  /\ replies \in Seq([id : Ids, seq : 0 .. SeqMod - 1, kind : Answers])
  /\ server \in {"dialling", "recv", "handling", "replying", "exiting"}
  /\ serving \in Message \cup {Nothing}
  /\ answer \in Answers \cup {"None"}
  /\ greeted \in BOOLEAN
  /\ executed \in Seq([id : Ids, op : Ops, kind : Answers])
  /\ proc \in {"running", "exited", "reaped"}

(* CaptureClient::launch has listened on both sockets and spawned.         *)
Init ==
  /\ lang \in Langs
  /\ client = "idle" /\ seq = 0 /\ issued = 0 /\ asked = "None"
  /\ awaiting = 0
  /\ result = [to |-> 0, from |-> 0, kind |-> "None"]
  /\ stdinOpen = TRUE
  /\ wire = <<>> /\ replies = <<>>
  /\ server = "dialling" /\ serving = Nothing /\ answer = "None"
  /\ greeted = FALSE /\ executed = <<>>
  /\ proc = "running"

-----------------------------------------------------------------------------
(* The client.                                                             *)

(* Variant: wait does not close the pipe it does not own.                  *)
AfterRequestKeepsStdin(kind) ==
  /\ UNCHANGED stdinOpen
  /\ client' = IF asked' = "Shutdown" THEN "reaping" ELSE "idle"

(* What follows the end of a request: shutdown goes on to reap.  Rust      *)
(* waits whatever the answer was, and Child::wait closes stdin; C++ closes *)
(* stdin, and kills unless the answer was the right one.                   *)
AfterRequest(kind) ==
  IF asked' = "Shutdown"
    THEN /\ client' = IF lang = "cpp" /\ kind # "Ok" THEN "killing" ELSE "reaping"
         /\ stdinOpen' = FALSE
    ELSE client' = "idle" /\ UNCHANGED stdinOpen

(* Variant: a signed or checked addition.                                  *)
NextSeqUnwrapped == seq + 1

(* seq.wrapping_add(1), or an unsigned increment.                          *)
NextSeq == (seq + 1) % SeqMod

(* CaptureClient::request up to its receive.  With no pipe to the plugin   *)
(* the send gives up after its timeout.                                    *)
Issue(op) ==
  /\ client = "idle"
  /\ issued < MaxRequests
  /\ issued' = issued + 1
  /\ seq' = NextSeq
  /\ asked' = op
  /\ \/ /\ proc = "running" /\ server # "dialling"
        /\ wire' = Append(wire, [id |-> issued', seq |-> seq', op |-> op])
        /\ client' = "waiting" /\ awaiting' = issued'
        /\ UNCHANGED <<result, stdinOpen>>
     \/ /\ proc # "running" \/ server = "dialling"
        /\ result' = [to |-> issued', from |-> 0, kind |-> "Nng"]
        /\ AfterRequest("Nng")
        /\ UNCHANGED <<wire, awaiting>>
  /\ UNCHANGED <<lang, serverVars, replies, proc>>

(* Variant: resending left on, so a slow request goes out again.           *)
RequestResent ==
  /\ client = "waiting" /\ proc = "running"
  /\ wire' = Append(wire, [id |-> awaiting, seq |-> seq, op |-> asked])
  /\ UNCHANGED <<clientVars, serverVars, replies, proc>>

(* The receive times out, or the pipe to the plugin is gone.               *)
RequestFails ==
  /\ client = "waiting"
  /\ awaiting' = 0
  /\ result' = [to |-> issued, from |-> 0, kind |-> "Nng"]
  /\ UNCHANGED <<lang, seq, issued, asked>>
  /\ AfterRequest("Nng")
  /\ UNCHANGED <<serverVars, wire, replies, proc>>

(* Variant: the reply is matched by seq alone.                             *)
RequestAnsweredBySeq ==
  /\ client = "waiting" /\ replies # <<>>
  /\ LET r == Head(replies) IN
       /\ r.seq = seq
       /\ result' = [to |-> issued, from |-> r.id, kind |-> r.kind]
  /\ awaiting' = 0
  /\ replies' = Tail(replies)
  /\ UNCHANGED <<lang, seq, issued, asked>>
  /\ AfterRequest(result'.kind)
  /\ UNCHANGED <<serverVars, wire, proc>>

(* The rest of CaptureClient::request, with the check of seq.              *)
RequestAnswered ==
  /\ client = "waiting" /\ replies # <<>>
  /\ LET r == Head(replies) IN
       /\ r.id = awaiting
       /\ result' = [to |-> issued, from |-> r.id,
                     kind |-> IF r.seq = seq THEN r.kind ELSE "Protocol"]
  /\ awaiting' = 0
  /\ replies' = Tail(replies)
  /\ UNCHANGED <<lang, seq, issued, asked>>
  /\ AfterRequest(result'.kind)
  /\ UNCHANGED <<serverVars, wire, proc>>

(* nng drops a reply to a request that was given up.                       *)
ReplyDropped ==
  /\ replies # <<>> /\ Head(replies).id # awaiting
  /\ replies' = Tail(replies)
  /\ UNCHANGED <<clientVars, serverVars, wire, proc>>

(* Drop, or ~CaptureClient, with no request under way.  C++ closes stdin   *)
(* before it kills.                                                        *)
Drop ==
  /\ client = "idle"
  /\ client' = "killing"
  /\ stdinOpen' = (lang = "rust")
  /\ UNCHANGED <<lang, seq, issued, asked, awaiting, result, serverVars, wire,
                 replies, proc>>

(* Variant: the process is killed and not waited for.                      *)
KillOnly ==
  /\ client = "killing"
  /\ client' = "closed"
  /\ proc' = IF proc = "running" THEN "exited" ELSE proc
  /\ stdinOpen' = FALSE
  /\ UNCHANGED <<lang, seq, issued, asked, awaiting, result, serverVars, wire, replies>>

Kill ==
  /\ client = "killing"
  /\ client' = "reaping"
  /\ proc' = IF proc = "running" THEN "exited" ELSE proc
  /\ stdinOpen' = FALSE
  /\ UNCHANGED <<lang, seq, issued, asked, awaiting, result, serverVars, wire, replies>>

(* A signal interrupts waitpid, which C++ does not call again: the client  *)
(* is closed and has forgotten the process.                                *)
WaitInterrupted ==
  /\ client = "reaping" /\ lang = "cpp"
  /\ client' = "closed"
  /\ UNCHANGED <<lang, seq, issued, asked, awaiting, result, stdinOpen, serverVars,
                 wire, replies, proc>>

(* Child::wait or waitpid returns.                                         *)
Reap ==
  /\ client = "reaping" /\ proc = "exited"
  /\ proc' = "reaped"
  /\ client' = "closed"
  /\ UNCHANGED <<lang, seq, issued, asked, awaiting, result, stdinOpen, serverVars,
                 wire, replies>>

(* The frontend process is gone, and its end of the pipe with it.          *)
FrontendDies ==
  /\ client \notin {"closed", "dead"}
  /\ client' = "dead"
  /\ stdinOpen' = FALSE
  /\ UNCHANGED <<lang, seq, issued, asked, awaiting, result, serverVars, wire,
                 replies, proc>>

-----------------------------------------------------------------------------
(* The plugin process.                                                     *)

Alive == proc = "running"

Dial ==
  /\ Alive /\ server = "dialling"
  /\ server' = "recv"
  /\ UNCHANGED <<clientVars, serving, answer, greeted, executed, wire, replies, proc>>

(* Variant: the newest request is taken first.                             *)
TakeNewest ==
  /\ Alive /\ server = "recv" /\ wire # <<>>
  /\ serving' = wire[Len(wire)]
  /\ wire' = SubSeq(wire, 1, Len(wire) - 1)
  /\ server' = "handling"
  /\ UNCHANGED <<clientVars, answer, greeted, executed, replies, proc>>

Take ==
  /\ Alive /\ server = "recv" /\ wire # <<>>
  /\ serving' = Head(wire)
  /\ wire' = Tail(wire)
  /\ server' = "handling"
  /\ UNCHANGED <<clientVars, answer, greeted, executed, replies, proc>>

(* Variant: a Hello is never refused.                                      *)
ExecuteHelloAgain ==
  /\ Alive /\ server = "handling"
  /\ \E kind \in Answers :
       /\ serving.op # "Hello" /\ ~greeted => kind = "Remote"
       /\ serving.op = "Shutdown" /\ greeted => kind = "Ok"
       /\ answer' = kind
       /\ greeted' = (greeted \/ (serving.op = "Hello" /\ kind = "Ok"))
       /\ executed' = Append(executed, [id |-> serving.id, op |-> serving.op, kind |-> kind])
  /\ server' = "replying"
  /\ UNCHANGED <<clientVars, serving, wire, replies, proc>>

(* dispatch: a refusal, or the handler's own result.                       *)
Execute ==
  /\ Alive /\ server = "handling"
  /\ \E kind \in Answers :
       /\ serving.op = "Hello" /\ greeted => kind = "Remote"
       /\ serving.op # "Hello" /\ ~greeted => kind = "Remote"
       /\ serving.op = "Shutdown" /\ greeted => kind = "Ok"
       /\ answer' = kind
       /\ greeted' = (greeted \/ (serving.op = "Hello" /\ kind = "Ok"))
       /\ executed' = Append(executed, [id |-> serving.id, op |-> serving.op, kind |-> kind])
  /\ server' = "replying"
  /\ UNCHANGED <<clientVars, serving, wire, replies, proc>>

(* The reply goes out; an accepted Shutdown makes serve return.            *)
SendReply ==
  /\ Alive /\ server = "replying"
  /\ replies' = Append(replies, [id |-> serving.id, seq |-> serving.seq,
                                 kind |-> answer])
  /\ server' = IF serving.op = "Shutdown" /\ answer = "Ok" THEN "exiting" ELSE "recv"
  /\ serving' = Nothing /\ answer' = "None"
  /\ UNCHANGED <<clientVars, greeted, executed, wire, proc>>

(* main returns from serve, or from a failed dial or send.                 *)
Exit ==
  /\ Alive /\ server \in {"exiting", "dialling", "replying"}
  /\ proc' = "exited"
  /\ UNCHANGED <<clientVars, serverVars, wire, replies>>

(* Variant: end of file is noticed by serve, between two requests.          *)
ExitOnStdinEofWhenIdle ==
  /\ Alive /\ WatchesStdin /\ ~stdinOpen
  /\ server = "recv"
  /\ proc' = "exited"
  /\ UNCHANGED <<clientVars, serverVars, wire, replies>>

(* exit_on_stdin_eof, on a thread of its own: a hung handler does not keep *)
(* it from ending the process.                                             *)
ExitOnStdinEof ==
  /\ Alive /\ WatchesStdin /\ ~stdinOpen
  /\ proc' = "exited"
  /\ UNCHANGED <<clientVars, serverVars, wire, replies>>

Crash ==
  /\ Alive
  /\ proc' = "exited"
  /\ UNCHANGED <<clientVars, serverVars, wire, replies>>

(* The client is done with the process, or gone.                           *)
Terminated ==
  /\ client \in {"closed", "dead"}
  /\ UNCHANGED vars

-----------------------------------------------------------------------------
ClientProgress == RequestFails \/ RequestAnswered \/ Kill \/ Reap

Next ==
  \/ \E op \in Ops : Issue(op)
  \/ ClientProgress
  \/ ReplyDropped
  \/ Drop \/ WaitInterrupted
  \/ FrontendDies
  \/ Dial \/ Take \/ Execute \/ SendReply
  \/ Exit \/ ExitOnStdinEof \/ Crash
  \/ Terminated

Safety == Init /\ [][Next]_vars

(* The receive timeout is finite unless the frontend asks otherwise, the   *)
(* client's own steps do not wait for anything else, and end of file       *)
(* reaches the watcher.  Nothing is assumed of serve: a handler may hang.  *)
Spec ==
  /\ Safety
  /\ WF_vars(ClientProgress)
  /\ WF_vars(ExitOnStdinEof)

-----------------------------------------------------------------------------
Answered == result.from # 0

(* The answer a request returns is the answer to that request, whatever    *)
(* was given up before it and however often seq has wrapped, and the check *)
(* of seq never fails (client.rs:166-172).                                 *)
AnswerIsOwn ==
  /\ Answered => result.from = result.to
  /\ result.kind # "Protocol"

(* The handlers of the requests run in the order they were made, and each  *)
(* at most once (transport.rs:26-28).                                      *)
ExecutedInOrder ==
  \A i, j \in DOMAIN executed : i < j => executed[i].id < executed[j].id

(* A request that timed out may still take effect, but not after a later   *)
(* one was answered: once the last request is answered nothing the client  *)
(* asked for is still to come.                                             *)
NoLateEffect ==
  client = "idle" /\ Answered /\ result.to = issued
    => wire = <<>> /\ server \in {"recv", "exiting"}

(* The device is bound by the first Hello that succeeds, before anything   *)
(* else does, and by no other: a Hello that was given up and served late   *)
(* counts, and one made again after it is refused (mod.rs:110-125).        *)
HandshakeFirst ==
  \A i \in DOMAIN executed :
    executed[i].kind = "Ok" =>
      (executed[i].op = "Hello" <=> \A j \in 1 .. i - 1 : executed[j].kind # "Ok")

(* A Rust client that is closed has reaped its plugin, however the last    *)
(* request ended (client.rs:146, client.rs:185-186).  C++ may not have: a  *)
(* signal cuts its wait short (client.cpp:205).                            *)
ClosedIsReaped == client = "closed" /\ lang = "rust" => proc = "reaped"

(* shutdown returns, although the plugin may hang in a handler and never   *)
(* answer (client.rs:140-148, client.cpp:319-342).                         *)
ShutdownReturns ==
  client \in {"killing", "reaping"} ~> client \in {"closed", "dead"}

(* No plugin outlives its frontend, nor the client it belongs to, although *)
(* the wait may be cut short (client.rs:55-56).                            *)
NoOrphans == client \in {"closed", "dead"} ~> ~Alive

(* What the caller of a CaptureClient sees, and the values of the          *)
(* variables of RemoteCalls here.                                          *)
Caller == IF client \in {"idle", "waiting"} THEN client ELSE "gone"
CallOf(request) == [id |-> request.id, op |-> request.op]
PendingCalls ==
  IF ~Alive THEN {}
  ELSE {CallOf(wire[i]) : i \in DOMAIN wire}
         \cup (IF server = "handling" THEN {CallOf(serving)} ELSE {})
DoneCalls == {executed[i] : i \in DOMAIN executed}
Returned == [to |-> result.to, kind |-> result.kind]

RC == INSTANCE RemoteCalls WITH
  caller <- Caller, made <- issued, last <- asked, pending <- PendingCalls,
  done <- DoneCalls, returned <- Returned

(* A CaptureClient is such a caller: whatever times out, crashes or is     *)
(* served late, a call takes effect at most once and in order, an answer   *)
(* is that of its own call, and every call returns (client.rs:161-179,     *)
(* transport.rs:25-30).  HandshakeFirst is part of it: RemoteCalls lets    *)
(* only the first success be a Hello.                                      *)
AtMostOnce == RC!CallsSpec

=============================================================================
