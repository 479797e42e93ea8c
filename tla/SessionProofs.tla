--------------------------- MODULE SessionProofs ---------------------------
(***************************************************************************)
(* Theorems about Session, for any number of requests and any modulus of   *)
(* seq.  nng matches replies to requests by id; the proof carries along    *)
(* that requests and replies stay in the order of their ids (Ordered,      *)
(* Settled) and that id and seq of the last request agree (Matched).       *)
(* That Session implements RemoteCalls rests on these, and on what the     *)
(* replies tell (Told).                                                    *)
(***************************************************************************)
EXTENDS Session, DataFacts, TLAPS

(* seq stays below the modulus.                                            *)
LEMMA NextSeqType ==
  ASSUME seq \in 0 .. SeqMod - 1
  PROVE  NextSeq \in 0 .. SeqMod - 1
BY SessionAssumption DEF NextSeq

-----------------------------------------------------------------------------
(* The steps that make requests and replies, and all the others.           *)

(* A step after which every request and every answer is where it was.      *)
Quiet ==
  /\ UNCHANGED <<lang, seq, issued, asked, awaiting, result, wire, replies,
                 serving, answer, greeted, executed>>
  /\ client' = client \/ client' \in {"killing", "reaping", "closed", "dead"}
  /\ server' = server \/ (server = "dialling" /\ server' = "recv")
  /\ stdinOpen' \in {stdinOpen, TRUE, FALSE}
  /\ proc' \in {proc, "exited", "reaped"}

(* Every step moves a request or an answer, or is quiet.                   *)
LEMMA Steps ==
  ASSUME [Next]_vars
  PROVE  \/ \E op \in Ops : Issue(op)
         \/ RequestFails \/ RequestAnswered \/ ReplyDropped
         \/ Take \/ Execute \/ SendReply
         \/ Quiet
<1>1. CASE Drop \/ Kill \/ Reap \/ WaitInterrupted \/ FrontendDies
  BY <1>1 DEF Drop, Kill, Reap, WaitInterrupted, FrontendDies, serverVars, Quiet
<1>2. CASE Dial \/ Exit \/ ExitOnStdinEof \/ Crash \/ Terminated \/ UNCHANGED vars
  BY <1>2 DEF Dial, Exit, ExitOnStdinEof, Crash, Terminated, vars, clientVars,
              serverVars, Quiet
<1> QED
  BY <1>1, <1>2 DEF Next, ClientProgress

-----------------------------------------------------------------------------
(* Type correctness.                                                       *)

(* Where a request may be, and what the steps on it need to know.          *)
Typed ==
  /\ TypeOK
  /\ server \in {"handling", "replying"} => serving \in Message
  /\ server = "replying" => answer \in Answers

(* The initial state has its types.                                        *)
LEMMA InitTyped == Init => Typed
<1> SUFFICES ASSUME Init PROVE Typed
  OBVIOUS
<1>1. /\ wire \in Seq(Message)
      /\ replies \in Seq([id : Ids, seq : 0 .. SeqMod - 1, kind : Answers])
      /\ executed \in Seq([id : Ids, op : Ops, kind : Answers])
  BY NoElements DEF Init
<1>2. result \in [to : 0 .. MaxRequests, from : 0 .. MaxRequests, kind : Kinds]
  BY SessionAssumption DEF Init, Kinds
<1>3. stdinOpen \in BOOLEAN /\ greeted \in BOOLEAN
  BY DEF Init
<1>4. /\ lang \in Langs /\ client = "idle" /\ server = "dialling" /\ proc = "running"
      /\ seq \in 0 .. SeqMod - 1 /\ issued \in 0 .. MaxRequests
      /\ awaiting \in 0 .. MaxRequests
      /\ asked = "None" /\ answer = "None" /\ serving = Nothing
  BY SessionAssumption DEF Init
<1> QED
  BY <1>1, <1>2, <1>3, <1>4 DEF Typed, TypeOK

(* The end of a request leaves the client where it may be.                 *)
LEMMA AfterRequestType ==
  ASSUME TypeOK, NEW kind, AfterRequest(kind)
  PROVE  client' \in {"idle", "killing", "reaping"} /\ stdinOpen' \in BOOLEAN
BY DEF AfterRequest, TypeOK

(* A step of the specification keeps the types.                            *)
LEMMA NextTyped ==
  ASSUME Typed, [Next]_vars
  PROVE  Typed'
<1> USE DEF Typed, TypeOK, clientVars, serverVars
<1>1. ASSUME NEW op \in Ops, Issue(op) PROVE Typed'
  <2>1. seq' \in 0 .. SeqMod - 1 /\ issued' \in Ids
    BY <1>1, NextSeqType, SessionAssumption DEF Issue, Ids
  <2>2. wire' \in Seq(Message)
    <3>1. [id |-> issued', seq |-> seq', op |-> op] \in Message
      BY <1>1, <2>1 DEF Message
    <3>2. Append(wire, [id |-> issued', seq |-> seq', op |-> op]) \in Seq(Message)
      BY <3>1, AppendFacts
    <3> QED
      BY <1>1, <3>2 DEF Issue
  <2>3. result' \in [to : 0 .. MaxRequests, from : 0 .. MaxRequests, kind : Kinds]
    BY <1>1, <2>1, SessionAssumption DEF Issue, Kinds, Ids
  <2>4. /\ client' \in {"idle", "waiting", "killing", "reaping"}
        /\ stdinOpen' \in BOOLEAN
    BY <1>1, AfterRequestType DEF Issue
  <2>5. awaiting' \in 0 .. MaxRequests
    BY <1>1, <2>1 DEF Issue, Ids
  <2> QED
    BY <1>1, <2>1, <2>2, <2>3, <2>4, <2>5 DEF Issue, Ids
<1>2. CASE RequestFails
  BY <1>2, AfterRequestType, SessionAssumption DEF RequestFails, Kinds
<1>3. CASE RequestAnswered
  <2>1. /\ Head(replies) \in [id : Ids, seq : 0 .. SeqMod - 1, kind : Answers]
        /\ replies' \in Seq([id : Ids, seq : 0 .. SeqMod - 1, kind : Answers])
    BY <1>3, TailFacts DEF RequestAnswered
  <2>2. result' \in [to : 0 .. MaxRequests, from : 0 .. MaxRequests, kind : Kinds]
    BY <1>3, <2>1, SessionAssumption DEF RequestAnswered, Kinds, Answers, Ids
  <2>3. client' \in {"idle", "killing", "reaping"} /\ stdinOpen' \in BOOLEAN
    BY <1>3, AfterRequestType DEF RequestAnswered
  <2> QED
    BY <1>3, <2>1, <2>2, <2>3, SessionAssumption DEF RequestAnswered
<1>4. CASE ReplyDropped
  BY <1>4, TailFacts DEF ReplyDropped
<1>5. CASE Take
  BY <1>5, TailFacts DEF Take
<1>6. CASE Execute
  <2>1. ASSUME NEW kind \in Answers
        PROVE  [id |-> serving.id, op |-> serving.op, kind |-> kind]
                 \in [id : Ids, op : Ops, kind : Answers]
    BY <1>6 DEF Execute, Message
  <2>2. executed' \in Seq([id : Ids, op : Ops, kind : Answers])
    BY <1>6, <2>1, AppendFacts DEF Execute
  <2> QED
    BY <1>6, <2>2 DEF Execute
<1>7. CASE SendReply
  <2>1. [id |-> serving.id, seq |-> serving.seq, kind |-> answer]
          \in [id : Ids, seq : 0 .. SeqMod - 1, kind : Answers]
    BY <1>7 DEF SendReply, Message
  <2>2. replies' \in Seq([id : Ids, seq : 0 .. SeqMod - 1, kind : Answers])
    BY <1>7, <2>1, AppendFacts DEF SendReply
  <2> QED
    BY <1>7, <2>2 DEF SendReply
<1>8. CASE Quiet
  <2>1. stdinOpen' \in BOOLEAN
    BY <1>8 DEF Quiet
  <2>2. /\ client' \in {"idle", "waiting", "killing", "reaping", "closed", "dead"}
        /\ server' \in {"dialling", "recv", "handling", "replying", "exiting"}
        /\ proc' \in {"running", "exited", "reaped"}
        /\ server' \in {"handling", "replying"} => server' = server
    BY <1>8 DEF Quiet
  <2>3. UNCHANGED <<lang, seq, issued, asked, awaiting, result, wire, replies,
                    serving, answer, greeted, executed>>
    BY <1>8 DEF Quiet
  <2> QED
    BY <2>1, <2>2, <2>3
<1> QED
  BY <1>1, <1>2, <1>3, <1>4, <1>5, <1>6, <1>7, <1>8, Steps

(* TypeOK, for every number of requests and every modulus.                 *)
THEOREM TypeCorrect == Spec => []TypeOK
<1>1. Typed /\ [Next]_vars => Typed'
  BY NextTyped
<1>2. Typed => TypeOK
  BY DEF Typed
<1> QED
  BY InitTyped, <1>1, <1>2, PTL DEF Spec, Safety

-----------------------------------------------------------------------------
(* The inductive invariant.                                                *)

(* serve has a request that it has not answered.                           *)
Held == server \in {"handling", "replying"}

(* Requests move in the order they were made: those on the wire are behind *)
(* the one that is served, which is behind those executed.                 *)
Ordered ==
  /\ \A i \in DOMAIN wire : wire[i].id <= issued
  /\ \A i, j \in DOMAIN wire : i < j => wire[i].id < wire[j].id
  /\ Held => /\ serving.id <= issued
             /\ \A i \in DOMAIN wire : serving.id < wire[i].id
  /\ \A i \in DOMAIN executed :
       /\ executed[i].id <= issued
       /\ \A j \in DOMAIN wire : executed[i].id < wire[j].id
       /\ server = "handling" => executed[i].id < serving.id
  /\ ExecutedInOrder

(* The client waits for its last request, and only that one bears its seq  *)
(* and its id together.                                                    *)
Matched ==
  /\ client = "waiting" => awaiting = issued
  /\ \A i \in DOMAIN wire : wire[i].id = issued => wire[i].seq = seq
  /\ Held => (serving.id = issued => serving.seq = seq)
  /\ \A i \in DOMAIN replies :
       /\ replies[i].id <= issued
       /\ replies[i].id = issued => replies[i].seq = seq
  /\ AnswerIsOwn

(* Nothing that was asked for is still to come.                            *)
Served == wire = <<>> /\ server \in {"recv", "exiting"}

(* When the last request has its reply, every request before it was served.*)
Settled ==
  /\ result.to <= issued
  /\ \A i \in DOMAIN replies : replies[i].id = issued => Served
  /\ Answered /\ result.to = issued => Served

(* serve's flag says that a request has succeeded.                         *)
Handshake ==
  /\ greeted <=> \E i \in DOMAIN executed : executed[i].kind = "Ok"
  /\ HandshakeFirst

IInv == Typed /\ Ordered /\ Matched /\ Settled /\ Handshake /\ ClosedIsReaped

-----------------------------------------------------------------------------
(* What each step does to the requests and replies under way, by element.  *)

(* The positions in the sequences of a typed state, and their elements.    *)
LEMMA Places ==
  ASSUME Typed
  PROVE  /\ DOMAIN wire = 1 .. Len(wire) /\ Len(wire) \in Nat
         /\ DOMAIN executed = 1 .. Len(executed) /\ Len(executed) \in Nat
         /\ DOMAIN replies = 1 .. Len(replies) /\ Len(replies) \in Nat
         /\ \A i \in DOMAIN wire : wire[i].id \in Nat
         /\ \A i \in DOMAIN executed : executed[i].id \in Nat
         /\ \A i \in DOMAIN replies : replies[i].id \in Nat /\ replies[i].id > 0
         /\ Held => serving.id \in Nat /\ serving.id > 0
         /\ issued \in Nat /\ result.to \in Nat
<1>1. /\ wire \in Seq(Message)
      /\ executed \in Seq([id : Ids, op : Ops, kind : Answers])
      /\ replies \in Seq([id : Ids, seq : 0 .. SeqMod - 1, kind : Answers])
  BY DEF Typed, TypeOK
<1>2. /\ DOMAIN wire = 1 .. Len(wire) /\ Len(wire) \in Nat
      /\ \A i \in DOMAIN wire : wire[i] \in Message
      /\ DOMAIN executed = 1 .. Len(executed) /\ Len(executed) \in Nat
      /\ \A i \in DOMAIN executed : executed[i] \in [id : Ids, op : Ops, kind : Answers]
      /\ DOMAIN replies = 1 .. Len(replies) /\ Len(replies) \in Nat
      /\ \A i \in DOMAIN replies :
           replies[i] \in [id : Ids, seq : 0 .. SeqMod - 1, kind : Answers]
  BY <1>1, SeqFacts
<1>3. Ids \subseteq {n \in Nat : n > 0} /\ issued \in Nat /\ result.to \in Nat
  BY SessionAssumption DEF Ids, Typed, TypeOK
<1>4. Held => serving.id \in Ids
  BY DEF Held, Typed, Message
<1>5. /\ \A i \in DOMAIN wire : wire[i].id \in Ids
      /\ \A i \in DOMAIN executed : executed[i].id \in Ids
      /\ \A i \in DOMAIN replies : replies[i].id \in Ids
  BY <1>2 DEF Message
<1> QED
  BY <1>2, <1>3, <1>4, <1>5

(* A new request is the last on the wire, or fails at once.                *)
LEMMA IssueEffect ==
  ASSUME Typed, NEW op \in Ops, Issue(op)
  PROVE  /\ issued' = issued + 1
         /\ UNCHANGED <<replies, server, serving, answer, greeted, executed, proc, lang>>
         /\ \A i \in DOMAIN wire' :
              \/ i \in DOMAIN wire /\ i < Len(wire) + 1 /\ wire'[i] = wire[i]
              \/ /\ i = Len(wire) + 1 /\ wire'[i].id = issued' /\ wire'[i].seq = seq'
                 /\ wire'[i].op = asked'
         /\ client' = "waiting" => awaiting' = issued'
         /\ \/ result' = result
            \/ result'.to = issued' /\ result'.from = 0 /\ result'.kind = "Nng"
         /\ client' \in {"idle", "waiting", "killing", "reaping"}
<1> DEFINE m == [id |-> issued', seq |-> seq', op |-> op]
<1>1. issued' = issued + 1 /\ m \in Message
  BY NextSeqType, SessionAssumption DEF Typed, TypeOK, Issue, Message, Ids
<1>2. UNCHANGED <<replies, server, serving, answer, greeted, executed, proc, lang>>
  BY DEF Issue, serverVars
<1>3. ASSUME NEW i \in DOMAIN wire'
      PROVE  \/ i \in DOMAIN wire /\ i < Len(wire) + 1 /\ wire'[i] = wire[i]
             \/ /\ i = Len(wire) + 1 /\ wire'[i].id = issued' /\ wire'[i].seq = seq'
                /\ wire'[i].op = asked'
  <2>1. CASE wire' = wire
    BY <2>1, <1>3, Places
  <2>2. CASE wire' = Append(wire, m)
    <3>1. \/ i \in DOMAIN wire /\ i < Len(wire) + 1 /\ wire'[i] = wire[i]
          \/ i = Len(wire) + 1 /\ wire'[i] = m
      BY <2>2, <1>1, <1>3, AppendElement DEF Typed, TypeOK
    <3> QED
      BY <3>1 DEF Issue
  <2> QED
    BY <2>1, <2>2 DEF Issue
<1>4. client' \in {"idle", "waiting", "killing", "reaping"}
  BY AfterRequestType DEF Issue, Typed
<1>5. client' = "waiting" => awaiting' = issued'
  BY AfterRequestType DEF Issue, Typed
<1> QED
  BY <1>1, <1>2, <1>3, <1>4, <1>5 DEF Issue

(* The end of a request touches nothing but the client.                    *)
LEMMA EndEffect ==
  ASSUME Typed, RequestFails \/ RequestAnswered
  PROVE  /\ UNCHANGED <<lang, seq, issued, wire, server, serving, answer, greeted,
                        executed, proc>>
         /\ client = "waiting"
         /\ client' \in {"idle", "killing", "reaping"}
BY AfterRequestType DEF RequestFails, RequestAnswered, Typed, serverVars

(* Replies are only taken away from the front.                             *)
LEMMA RepliesShrink ==
  ASSUME Typed, replies # <<>>, replies' = Tail(replies)
  PROVE  /\ Head(replies) = replies[1] /\ 1 \in DOMAIN replies
         /\ \A i \in DOMAIN replies' :
              i + 1 \in DOMAIN replies /\ replies'[i] = replies[i + 1]
BY TailFacts DEF Typed, TypeOK

(* serve takes the oldest request.                                         *)
LEMMA TakeEffect ==
  ASSUME Typed, Take
  PROVE  /\ UNCHANGED <<clientVars, answer, greeted, executed, replies, proc>>
         /\ wire # <<>> /\ 1 \in DOMAIN wire /\ serving' = wire[1]
         /\ server = "recv" /\ server' = "handling"
         /\ \A i \in DOMAIN wire' :
              i + 1 \in DOMAIN wire /\ i > 0 /\ wire'[i] = wire[i + 1]
<1>1. wire \in Seq(Message) /\ wire # <<>> /\ wire' = Tail(wire) /\ serving' = Head(wire)
  BY DEF Take, Typed, TypeOK
<1>2. /\ 1 \in DOMAIN wire /\ serving' = wire[1]
      /\ \A i \in DOMAIN wire' :
           i + 1 \in DOMAIN wire /\ i > 0 /\ wire'[i] = wire[i + 1]
  BY <1>1, TailFacts
<1> QED
  BY <1>1, <1>2 DEF Take

(* The request that is served is executed after all the others.            *)
LEMMA ExecuteEffect ==
  ASSUME Typed, Execute
  PROVE  /\ UNCHANGED <<clientVars, serving, wire, replies, proc>>
         /\ server = "handling" /\ server' = "replying"
         /\ \A i \in DOMAIN executed' :
              \/ i \in DOMAIN executed /\ i < Len(executed) + 1
                   /\ executed'[i] = executed[i]
              \/ /\ i = Len(executed) + 1
                 /\ executed'[i] = [id |-> serving.id, op |-> serving.op, kind |-> answer']
<1>1. serving \in Message /\ answer' \in Answers
  BY DEF Execute, Typed
<1> DEFINE e == [id |-> serving.id, op |-> serving.op, kind |-> answer']
<1>2. e \in [id : Ids, op : Ops, kind : Answers]
  BY <1>1 DEF Message
<1>3. executed' = Append(executed, e)
  BY DEF Execute
<1>4. ASSUME NEW i \in DOMAIN executed'
      PROVE  \/ i \in DOMAIN executed /\ i < Len(executed) + 1 /\ executed'[i] = executed[i]
             \/ i = Len(executed) + 1 /\ executed'[i] = e
  BY <1>2, <1>3, <1>4, AppendElement DEF Typed, TypeOK
<1> QED
  BY <1>4 DEF Execute

(* The reply carries the id and the seq of the request that was served.    *)
LEMMA SendReplyEffect ==
  ASSUME Typed, SendReply
  PROVE  /\ UNCHANGED <<clientVars, greeted, executed, wire, proc>>
         /\ server = "replying" /\ server' \in {"recv", "exiting"}
         /\ \A i \in DOMAIN replies' :
              \/ i \in DOMAIN replies /\ replies'[i] = replies[i]
              \/ /\ replies'[i].id = serving.id /\ replies'[i].seq = serving.seq
                 /\ replies'[i].kind = answer
<1> DEFINE r == [id |-> serving.id, seq |-> serving.seq, kind |-> answer]
<1>1. r \in [id : Ids, seq : 0 .. SeqMod - 1, kind : Answers]
  BY DEF SendReply, Typed, Message
<1>2. replies' = Append(replies, r)
  BY DEF SendReply
<1>3. ASSUME NEW i \in DOMAIN replies'
      PROVE  \/ i \in DOMAIN replies /\ replies'[i] = replies[i]
             \/ /\ replies'[i].id = serving.id /\ replies'[i].seq = serving.seq
                /\ replies'[i].kind = answer
  <2>1. \/ i \in DOMAIN replies /\ replies'[i] = replies[i]
        \/ replies'[i] = r
    BY <1>1, <1>2, <1>3, AppendElement DEF Typed, TypeOK
  <2> QED
    BY <2>1
<1> QED
  BY <1>3 DEF SendReply

-----------------------------------------------------------------------------
(* A step keeps each part of the invariant.                                *)

(* Requests stay in order.                                                 *)
LEMMA NextOrdered ==
  ASSUME Typed, Ordered, [Next]_vars
  PROVE  Ordered'
<1>0. \A i \in DOMAIN wire' : i \in Nat
  <2>1. wire' \in Seq(Message)
    BY NextTyped DEF Typed, TypeOK
  <2>2. DOMAIN wire' = 1 .. Len(wire') /\ Len(wire') \in Nat
    BY <2>1, SeqFacts
  <2> QED
    BY <2>2
<1> USE Places
<1>1. ASSUME NEW op \in Ops, Issue(op) PROVE Ordered'
  <2> USE IssueEffect, <1>1
  <2>1. \A i \in DOMAIN wire' : wire'[i].id <= issued'
    BY DEF Ordered
  <2>2. \A i, j \in DOMAIN wire' : i < j => wire'[i].id < wire'[j].id
    BY DEF Ordered
  <2>3. Held' => /\ serving'.id <= issued'
                 /\ \A i \in DOMAIN wire' : serving'.id < wire'[i].id
    BY DEF Ordered, Held
  <2>4. ASSUME NEW i \in DOMAIN executed'
        PROVE  /\ executed'[i].id <= issued'
               /\ \A j \in DOMAIN wire' : executed'[i].id < wire'[j].id
               /\ server' = "handling" => executed'[i].id < serving'.id
    <3>1. /\ i \in DOMAIN executed /\ executed' = executed /\ server' = server
          /\ serving' = serving /\ executed[i].id <= issued /\ executed[i].id \in Nat
          /\ \A j \in DOMAIN wire : executed[i].id < wire[j].id
          /\ server = "handling" => executed[i].id < serving.id
      BY <2>4 DEF Ordered
    <3> QED
      BY <3>1
  <2>5. ExecutedInOrder'
    BY DEF Ordered, ExecutedInOrder
  <2> QED
    BY <2>1, <2>2, <2>3, <2>4, <2>5 DEF Ordered
<1>2. CASE RequestFails \/ RequestAnswered
  BY <1>2, EndEffect DEF Ordered, Held, ExecutedInOrder
<1>3. CASE ReplyDropped
  BY <1>3 DEF ReplyDropped, clientVars, serverVars, Ordered, Held, ExecutedInOrder
<1>4. CASE Take
  <2>0. /\ UNCHANGED <<issued, executed>>
        /\ 1 \in DOMAIN wire /\ serving' = wire[1]
        /\ server = "recv" /\ server' = "handling"
        /\ \A i \in DOMAIN wire' :
             i \in Nat /\ i > 0 /\ i + 1 \in DOMAIN wire /\ wire'[i] = wire[i + 1]
    BY <1>0, <1>4, TakeEffect DEF clientVars
  <2> USE <2>0
  <2>1. \A i \in DOMAIN wire' : wire'[i].id <= issued'
    BY DEF Ordered
  <2>2. \A i, j \in DOMAIN wire' : i < j => wire'[i].id < wire'[j].id
    <3>1. SUFFICES ASSUME NEW i \in DOMAIN wire', NEW j \in DOMAIN wire', i < j
                   PROVE  wire'[i].id < wire'[j].id
      OBVIOUS
    <3>2. /\ i + 1 \in DOMAIN wire /\ wire'[i] = wire[i + 1] /\ i \in Nat
          /\ j + 1 \in DOMAIN wire /\ wire'[j] = wire[j + 1] /\ j \in Nat
      BY <2>0
    <3>3. i + 1 < j + 1
      BY <3>1, <3>2
    <3> QED
      BY <3>2, <3>3 DEF Ordered
  <2>3. /\ serving'.id <= issued'
        /\ \A i \in DOMAIN wire' : serving'.id < wire'[i].id
    <3>1. 1 \in DOMAIN wire /\ serving' = wire[1] /\ serving'.id <= issued'
      BY DEF Ordered
    <3>2. ASSUME NEW i \in DOMAIN wire' PROVE serving'.id < wire'[i].id
      <4>1. i \in Nat /\ i > 0 /\ i + 1 \in DOMAIN wire /\ wire'[i] = wire[i + 1]
        BY <3>2
      <4> QED
        BY <3>1, <4>1 DEF Ordered
    <3> QED
      BY <3>1, <3>2
  <2>4. /\ \A i \in DOMAIN executed' :
             /\ executed'[i].id <= issued'
             /\ \A j \in DOMAIN wire' : executed'[i].id < wire'[j].id
             /\ executed'[i].id < serving'.id
        /\ ExecutedInOrder'
    BY DEF Ordered, ExecutedInOrder
  <2> QED
    BY <2>1, <2>2, <2>3, <2>4 DEF Ordered
<1>5. CASE Execute
  BY <1>5, ExecuteEffect DEF clientVars, Ordered, Held, ExecutedInOrder
<1>6. CASE SendReply
  BY <1>6, SendReplyEffect DEF clientVars, Ordered, Held, ExecutedInOrder
<1>7. CASE Quiet
  BY <1>7 DEF Quiet, Ordered, Held, ExecutedInOrder
<1> QED
  BY <1>1, <1>2, <1>3, <1>4, <1>5, <1>6, <1>7, Steps

(* The client's wait, the requests and the replies stay matched.           *)
LEMMA NextMatched ==
  ASSUME Typed, Ordered, Matched, [Next]_vars
  PROVE  Matched'
<1> USE Places
<1>1. ASSUME NEW op \in Ops, Issue(op) PROVE Matched'
  BY <1>1, IssueEffect DEF Ordered, Matched, Held, AnswerIsOwn, Answered
<1>2. CASE RequestFails
  <2>1. result' = [to |-> issued, from |-> 0, kind |-> "Nng"] /\ UNCHANGED replies
    BY <1>2 DEF RequestFails
  <2> QED
    BY <1>2, <2>1, EndEffect DEF Matched, Held, AnswerIsOwn, Answered
<1>3. CASE RequestAnswered
  <2>1. /\ replies # <<>> /\ replies' = Tail(replies)
        /\ Head(replies).id = awaiting
        /\ result' = [to |-> issued, from |-> Head(replies).id,
                      kind |-> IF Head(replies).seq = seq
                                 THEN Head(replies).kind ELSE "Protocol"]
    BY <1>3 DEF RequestAnswered
  <2>2. awaiting = issued
    BY <1>3, EndEffect DEF Matched
  <2>3. Head(replies).seq = seq
    BY <2>1, <2>2, RepliesShrink DEF Matched
  <2>4. Head(replies).kind \in Answers
    <3>1. Head(replies) \in [id : Ids, seq : 0 .. SeqMod - 1, kind : Answers]
      BY <2>1, TailFacts DEF Typed, TypeOK
    <3> QED
      BY <3>1
  <2>5. AnswerIsOwn'
    BY <2>1, <2>2, <2>3, <2>4 DEF AnswerIsOwn, Answered, Answers
  <2> QED
    BY <1>3, <2>1, <2>5, EndEffect, RepliesShrink DEF Matched, Held
<1>4. CASE ReplyDropped
  BY <1>4, RepliesShrink
     DEF ReplyDropped, clientVars, serverVars, Matched, Held, AnswerIsOwn, Answered
<1>5. CASE Take
  BY <1>5, TakeEffect DEF clientVars, Matched, Held, AnswerIsOwn, Answered
<1>6. CASE Execute
  BY <1>6, ExecuteEffect DEF clientVars, Matched, Held, AnswerIsOwn, Answered
<1>7. CASE SendReply
  BY <1>7, SendReplyEffect
     DEF clientVars, Ordered, Matched, Held, AnswerIsOwn, Answered
<1>8. CASE Quiet
  BY <1>8 DEF Quiet, Matched, Held, AnswerIsOwn, Answered
<1> QED
  BY <1>1, <1>2, <1>3, <1>4, <1>5, <1>6, <1>7, <1>8, Steps

(* Once the last request has its reply nothing is still to come.           *)
LEMMA NextSettled ==
  ASSUME Typed, Ordered, Matched, Settled, [Next]_vars
  PROVE  Settled'
<1> USE Places
<1>1. ASSUME NEW op \in Ops, Issue(op) PROVE Settled'
  BY <1>1, IssueEffect DEF Settled, Matched, Answered
<1>2. CASE RequestFails
  <2>1. result'.to = issued /\ result'.from = 0 /\ UNCHANGED replies
    BY <1>2 DEF RequestFails
  <2> QED
    BY <1>2, <2>1, EndEffect DEF Settled, Served, Answered
<1>3. CASE RequestAnswered
  <2>1. /\ replies # <<>> /\ replies' = Tail(replies)
        /\ Head(replies).id = awaiting /\ result'.to = issued
    BY <1>3 DEF RequestAnswered
  <2>2. awaiting = issued
    BY <1>3, EndEffect DEF Matched
  <2>3. Served
    BY <2>1, <2>2, RepliesShrink DEF Settled
  <2> QED
    BY <1>3, <2>1, <2>3, EndEffect DEF Settled, Served
<1>4. CASE ReplyDropped
  BY <1>4, RepliesShrink
     DEF ReplyDropped, clientVars, serverVars, Settled, Served, Answered
<1>5. CASE Take
  BY <1>5, TakeEffect DEF clientVars, Settled, Served, Answered
<1>6. CASE Execute
  BY <1>6, ExecuteEffect DEF clientVars, Settled, Served, Answered
<1>7. CASE SendReply
  <2>1. serving.id = issued => wire = <<>>
    <3>1. SUFFICES ASSUME serving.id = issued, wire # <<>> PROVE FALSE
      OBVIOUS
    <3>2. 1 \in DOMAIN wire
      BY <3>1, TailFacts DEF Typed, TypeOK
    <3> QED
      BY <1>7, <3>1, <3>2, SendReplyEffect DEF Ordered, Held
  <2> QED
    BY <1>7, <2>1, SendReplyEffect DEF clientVars, Settled, Served, Answered
<1>8. CASE Quiet
  BY <1>8 DEF Quiet, Settled, Served, Answered
<1> QED
  BY <1>1, <1>2, <1>3, <1>4, <1>5, <1>6, <1>7, <1>8, Steps

(* Nothing succeeds before the Hello that binds the device, and no other   *)
(* Hello after it.                                                         *)
LEMMA NextHandshake ==
  ASSUME Typed, Handshake, [Next]_vars
  PROVE  Handshake'
<1> USE Places
<1>1. ASSUME UNCHANGED <<greeted, executed>> PROVE Handshake'
  BY <1>1 DEF Handshake, HandshakeFirst
<1>2. CASE Execute
  <2> DEFINE n == Len(executed) + 1
  <2>1. PICK kind \in Answers :
          /\ serving.op = "Hello" /\ greeted => kind = "Remote"
          /\ serving.op # "Hello" /\ ~greeted => kind = "Remote"
          /\ answer' = kind
          /\ greeted' = (greeted \/ (serving.op = "Hello" /\ kind = "Ok"))
          /\ executed' = Append(executed, [id |-> serving.id, op |-> serving.op,
                                           kind |-> kind])
    BY <1>2 DEF Execute
  <2> DEFINE e == [id |-> serving.id, op |-> serving.op, kind |-> kind]
  <2>2. /\ e \in [id : Ids, op : Ops, kind : Answers]
        /\ e.op = serving.op /\ e.kind = kind
    BY <1>2 DEF Execute, Typed, Message
  <2>3. /\ DOMAIN executed' = 1 .. n
        /\ \A i \in 1 .. Len(executed) : executed'[i] = executed[i]
        /\ executed'[n] = e
    BY <2>1, <2>2, AppendFacts DEF Typed, TypeOK
  <2>4. greeted' <=> \E i \in DOMAIN executed' : executed'[i].kind = "Ok"
    <3>1. kind = "Ok" => greeted \/ serving.op = "Hello"
      BY <2>1
    <3>2. ASSUME greeted PROVE \E i \in DOMAIN executed' : executed'[i].kind = "Ok"
      BY <2>3, <3>2 DEF Handshake
    <3>3. ASSUME kind = "Ok" PROVE \E i \in DOMAIN executed' : executed'[i].kind = "Ok"
      BY <2>2, <2>3, <3>3
    <3>4. ASSUME NEW i \in DOMAIN executed', executed'[i].kind = "Ok"
          PROVE  greeted \/ kind = "Ok"
      BY <2>2, <2>3, <3>4 DEF Handshake
    <3> QED
      BY <2>1, <3>1, <3>2, <3>3, <3>4
  <2>5. HandshakeFirst'
    <3>1. SUFFICES ASSUME NEW i \in DOMAIN executed', executed'[i].kind = "Ok"
                   PROVE  executed'[i].op = "Hello"
                            <=> \A j \in 1 .. i - 1 : executed'[j].kind # "Ok"
      BY DEF HandshakeFirst
    <3>2. CASE i \in 1 .. Len(executed)
      BY <2>3, <3>1, <3>2 DEF Handshake, HandshakeFirst
    <3>3. CASE i = n
      <4>1. \A j \in 1 .. i - 1 : executed'[j] = executed[j] /\ j \in DOMAIN executed
        BY <2>3, <3>3
      <4>2. greeted <=> ~ \A j \in 1 .. i - 1 : executed'[j].kind # "Ok"
        BY <2>3, <3>3, <4>1 DEF Handshake
      <4>3. executed'[i].op = serving.op /\ kind = "Ok"
        BY <2>2, <2>3, <3>1, <3>3
      <4> QED
        BY <2>1, <4>2, <4>3
    <3> QED
      BY <2>3, <3>2, <3>3
  <2> QED
    BY <2>4, <2>5 DEF Handshake
<1>3. (\E op \in Ops : Issue(op)) \/ RequestFails \/ RequestAnswered \/ ReplyDropped
        \/ Take \/ SendReply \/ Quiet => UNCHANGED <<greeted, executed>>
  BY DEF Issue, RequestFails, RequestAnswered, ReplyDropped, Take, SendReply, Quiet,
         serverVars
<1> QED
  BY <1>1, <1>2, <1>3, Steps

(* A Rust client is closed by Reap alone, and a reaped process stays so.   *)
LEMMA NextClosed ==
  ASSUME Typed, ClosedIsReaped, [Next]_vars
  PROVE  ClosedIsReaped'
<1>1. lang' = lang
  BY DEF Next, ClientProgress, vars, clientVars, serverVars, Issue, RequestFails,
         RequestAnswered, ReplyDropped, Drop, Kill, Reap, WaitInterrupted,
         FrontendDies, Dial, Take, Execute, SendReply, Exit, ExitOnStdinEof, Crash,
         Terminated
<1>2. ASSUME client = "closed", proc = "reaped" PROVE proc' = proc
  BY <1>2 DEF Next, ClientProgress, vars, clientVars, serverVars, Issue, RequestFails,
         RequestAnswered, ReplyDropped, Drop, Kill, Reap, WaitInterrupted,
         FrontendDies, Dial, Take, Execute, SendReply, Exit, ExitOnStdinEof, Crash,
         Terminated, Alive
<1>3. ASSUME client # "closed", client' = "closed", lang = "rust" PROVE proc' = "reaped"
  <2>1. CASE Reap
    BY <2>1 DEF Reap
  <2>2. CASE \E op \in Ops : Issue(op)
    BY <1>3, <2>2, IssueEffect
  <2>3. CASE RequestFails \/ RequestAnswered
    BY <1>3, <2>3, EndEffect
  <2>4. ~Reap /\ ~RequestFails /\ ~RequestAnswered /\ ~(\E op \in Ops : Issue(op)) => FALSE
    BY <1>3 DEF Next, ClientProgress, vars, clientVars, serverVars, ReplyDropped, Drop,
         Kill, WaitInterrupted, FrontendDies, Dial, Take, Execute, SendReply, Exit,
         ExitOnStdinEof, Crash, Terminated
  <2> QED
    BY <2>1, <2>2, <2>3, <2>4
<1> QED
  BY <1>1, <1>2, <1>3 DEF ClosedIsReaped

-----------------------------------------------------------------------------
(* The theorems.                                                           *)

(* Nothing has happened yet.                                               *)
LEMMA InitIInv == Init => IInv
<1> SUFFICES ASSUME Init PROVE IInv
  OBVIOUS
<1>1. /\ DOMAIN wire = {} /\ DOMAIN replies = {} /\ DOMAIN executed = {}
      /\ result.to = 0 /\ result.from = 0 /\ result.kind = "None"
  BY DEF Init
<1>2. Ordered
  BY <1>1 DEF Init, Ordered, Held, ExecutedInOrder
<1>3. Matched
  BY <1>1 DEF Init, Matched, Held, AnswerIsOwn, Answered
<1>4. Settled
  BY <1>1 DEF Init, Settled, Answered
<1>5. Handshake
  BY <1>1 DEF Init, Handshake, HandshakeFirst
<1>6. ClosedIsReaped
  BY DEF Init, ClosedIsReaped
<1> QED
  BY <1>2, <1>3, <1>4, <1>5, <1>6, InitTyped DEF IInv

(* The invariant is inductive.                                             *)
THEOREM Inductive == Spec => []IInv
<1>1. IInv /\ [Next]_vars => IInv'
  BY NextTyped, NextOrdered, NextMatched, NextSettled, NextHandshake, NextClosed
     DEF IInv
<1> QED
  BY InitIInv, <1>1, PTL DEF Spec, Safety

(* AnswerIsOwn: a request never returns another request's answer, and the  *)
(* check of seq after nng's own matching never fails, even when seq wraps  *)
(* after one request.                                                      *)
THEOREM AnswersAreOwn == Spec => []AnswerIsOwn
<1>1. IInv => AnswerIsOwn
  BY DEF IInv, Matched
<1> QED
  BY Inductive, <1>1, PTL

(* ExecutedInOrder: handlers run in the order of the requests, at most     *)
(* once each.                                                              *)
THEOREM RunsInOrder == Spec => []ExecutedInOrder
<1>1. IInv => ExecutedInOrder
  BY DEF IInv, Ordered
<1> QED
  BY Inductive, <1>1, PTL

(* NoLateEffect: once the last request is answered, none before it is      *)
(* still to take effect.                                                   *)
THEOREM NothingLate == Spec => []NoLateEffect
<1>1. IInv => NoLateEffect
  BY DEF IInv, Settled, Served, NoLateEffect
<1> QED
  BY Inductive, <1>1, PTL

(* HandshakeFirst: the first success is a Hello, and the only Hello that   *)
(* succeeds.                                                               *)
THEOREM HandshakeIsFirst == Spec => []HandshakeFirst
<1>1. IInv => HandshakeFirst
  BY DEF IInv, Handshake
<1> QED
  BY Inductive, <1>1, PTL

(* ClosedIsReaped: a closed Rust client leaves no process and no zombie.   *)
THEOREM RustReaps == Spec => []ClosedIsReaped
<1>1. IInv => ClosedIsReaped
  BY DEF IInv
<1> QED
  BY Inductive, <1>1, PTL

-----------------------------------------------------------------------------
(***************************************************************************)
(* The refinement.  A reply tells what came of its request, and the last   *)
(* request is what was asked for last.                                     *)
(***************************************************************************)

Came(id, kind) ==
  \E i \in DOMAIN executed : executed[i].id = id /\ executed[i].kind = kind

Told ==
  /\ \A i \in DOMAIN wire : wire[i].id = issued => wire[i].op = asked
  /\ Held => (serving.id = issued => serving.op = asked)
  /\ \A i \in DOMAIN executed : executed[i].id = issued => executed[i].op = asked
  /\ server = "replying" => Came(serving.id, answer)
  /\ \A i \in DOMAIN replies : Came(replies[i].id, replies[i].kind)

(* What came of a request is not forgotten.                                *)
LEMMA ExecutedGrows ==
  ASSUME Typed, Execute
  PROVE  /\ \A i \in DOMAIN executed : i \in DOMAIN executed' /\ executed'[i] = executed[i]
         /\ Len(executed) + 1 \in DOMAIN executed'
         /\ executed'[Len(executed) + 1]
              = [id |-> serving.id, op |-> serving.op, kind |-> answer']
<1> DEFINE e == [id |-> serving.id, op |-> serving.op, kind |-> answer']
<1>1. e \in [id : Ids, op : Ops, kind : Answers]
  BY DEF Execute, Typed, Message
<1>2. executed' = Append(executed, e)
  BY DEF Execute
<1> HIDE DEF e
<1>3. executed \in Seq([id : Ids, op : Ops, kind : Answers])
  BY DEF Typed, TypeOK
<1>4. /\ DOMAIN executed = 1 .. Len(executed) /\ Len(executed) \in Nat
      /\ Len(executed') = Len(executed) + 1 /\ DOMAIN executed' = 1 .. Len(executed')
      /\ \A i \in 1 .. Len(executed) : executed'[i] = executed[i]
      /\ executed'[Len(executed) + 1] = e
  BY <1>1, <1>2, <1>3, AppendFacts
<1> QED
  BY <1>4 DEF e

(* A step keeps what was told.                                             *)
LEMMA NextTold ==
  ASSUME IInv, IInv', Told, [Next]_vars
  PROVE  Told'
<1>t. Typed /\ Typed'
  BY DEF IInv
<1>p. /\ \A i \in DOMAIN wire : wire[i].id <= issued
      /\ Held => serving.id <= issued
      /\ \A i \in DOMAIN executed : executed[i].id <= issued
      /\ issued \in Nat
      /\ \A i \in DOMAIN wire : wire[i].id \in Nat
      /\ \A i \in DOMAIN executed : executed[i].id \in Nat
      /\ Held => serving.id \in Nat
  BY <1>t, Places DEF IInv, Ordered
<1>1. ASSUME NEW op \in Ops, Issue(op) PROVE Told'
  <2>1. /\ issued' = issued + 1 /\ asked' = op
        /\ UNCHANGED <<replies, server, serving, answer, executed>>
        /\ \A i \in DOMAIN wire' :
             \/ i \in DOMAIN wire /\ wire'[i] = wire[i]
             \/ wire'[i].op = asked'
    BY <1>1, <1>t, IssueEffect DEF Issue
  <2>2. \A i \in DOMAIN wire' : wire'[i].id = issued' => wire'[i].op = asked'
    BY <1>p, <2>1
  <2>3. Held' => (serving'.id = issued' => serving'.op = asked')
    BY <1>p, <2>1 DEF Held
  <2>4. \A i \in DOMAIN executed' : executed'[i].id = issued' => executed'[i].op = asked'
    BY <1>p, <2>1
  <2> QED
    BY <2>1, <2>2, <2>3, <2>4 DEF Told, Came
<1>2. CASE RequestFails \/ RequestAnswered \/ ReplyDropped
  <2>1. UNCHANGED <<issued, asked, wire, server, serving, answer, executed>>
    BY <1>2 DEF RequestFails, RequestAnswered, ReplyDropped, clientVars, serverVars
  <2>2. \A i \in DOMAIN replies' : \E k \in DOMAIN replies : replies'[i] = replies[k]
    <3>1. replies' = replies \/ (replies # <<>> /\ replies' = Tail(replies))
      BY <1>2 DEF RequestFails, RequestAnswered, ReplyDropped
    <3> QED
      BY <1>t, <3>1, RepliesShrink
  <2>3. (\A i \in DOMAIN replies : Came(replies[i].id, replies[i].kind))'
    BY <2>1, <2>2 DEF Told, Came
  <2> QED
    BY <2>1, <2>3 DEF Told, Came, Held
<1>3. CASE Take
  <2>1. /\ UNCHANGED <<issued, asked, answer, executed, replies>>
        /\ server = "recv" /\ server' = "handling"
        /\ 1 \in DOMAIN wire /\ serving' = wire[1]
        /\ \A i \in DOMAIN wire' : i + 1 \in DOMAIN wire /\ wire'[i] = wire[i + 1]
    BY <1>3, <1>t, TakeEffect DEF clientVars
  <2> QED
    BY <2>1 DEF Told, Came, Held
<1>4. CASE Execute
  <2>1. /\ UNCHANGED <<issued, asked, serving, wire, replies>>
        /\ server = "handling" /\ server' = "replying"
        /\ \A i \in DOMAIN executed' :
             \/ i \in DOMAIN executed /\ executed'[i] = executed[i]
             \/ executed'[i] = [id |-> serving.id, op |-> serving.op, kind |-> answer']
    BY <1>4, <1>t, ExecuteEffect DEF clientVars
  <2>2. Held /\ Held'
    BY <2>1 DEF Held
  <2>3. \A i \in DOMAIN executed' : executed'[i].id = issued' => executed'[i].op = asked'
    BY <2>1, <2>2 DEF Told
  <2>4. Came(serving.id, answer)'
    <3>1. /\ Len(executed) + 1 \in DOMAIN executed'
          /\ executed'[Len(executed) + 1]
               = [id |-> serving.id, op |-> serving.op, kind |-> answer']
      BY <1>4, <1>t, ExecutedGrows
    <3> QED
      BY <2>1, <3>1 DEF Came
  <2>5. ASSUME NEW i \in DOMAIN replies
        PROVE  Came(replies[i].id, replies[i].kind)'
    <3> DEFINE id == replies[i].id
               kind == replies[i].kind
    <3>1. Came(id, kind)
      BY DEF Told
    <3>2. PICK k \in DOMAIN executed : executed[k].id = id /\ executed[k].kind = kind
      BY <3>1 DEF Came
    <3>3. k \in DOMAIN executed' /\ executed'[k] = executed[k]
      BY <1>4, <1>t, ExecutedGrows
    <3> QED
      BY <2>1, <3>2, <3>3 DEF Came
  <2> QED
    BY <2>1, <2>2, <2>3, <2>4, <2>5 DEF Told
<1>5. CASE SendReply
  <2>1. /\ UNCHANGED <<issued, asked, wire, executed>>
        /\ server = "replying" /\ server' \in {"recv", "exiting"}
        /\ \A i \in DOMAIN replies' :
             \/ i \in DOMAIN replies /\ replies'[i] = replies[i]
             \/ replies'[i].id = serving.id /\ replies'[i].kind = answer
    BY <1>5, <1>t, SendReplyEffect DEF clientVars
  <2>2. (\A i \in DOMAIN replies : Came(replies[i].id, replies[i].kind))'
    BY <2>1 DEF Told, Came
  <2> QED
    BY <2>1, <2>2 DEF Told, Held
<1>6. CASE Quiet
  <2>1. /\ UNCHANGED <<issued, asked, wire, replies, serving, answer, executed>>
        /\ server' = server \/ (server = "dialling" /\ server' = "recv")
    BY <1>6 DEF Quiet
  <2> QED
    BY <2>1 DEF Told, Came, Held
<1> QED
  BY <1>1, <1>2, <1>3, <1>4, <1>5, <1>6, Steps

LEMMA ToldInvariant == Spec => [](IInv /\ Told)
<1>1. Init => Told
  <2> SUFFICES ASSUME Init PROVE Told
    OBVIOUS
  <2>1. DOMAIN wire = {} /\ DOMAIN replies = {} /\ DOMAIN executed = {}
    BY DEF Init
  <2> QED
    BY <2>1 DEF Init, Told, Held
<1>2. IInv /\ IInv' /\ Told /\ [Next]_vars => Told'
  BY NextTold
<1> QED
  BY Inductive, <1>1, <1>2, PTL DEF Spec, Safety

(* What the caller sees does not change when the client, the calls and the *)
(* process are as they were.                                               *)
LEMMA SameCalls ==
  ASSUME UNCHANGED <<issued, asked, result, executed>>
  PROVE  UNCHANGED <<issued, asked, DoneCalls, Returned>>
BY DEF DoneCalls, Returned

LEMMA SamePending ==
  ASSUME UNCHANGED <<wire, serving, proc>>,
         server' = "handling" <=> server = "handling"
  PROVE  UNCHANGED PendingCalls
BY DEF PendingCalls, CallOf, Alive

(* A new request is the youngest that is pending.                          *)
LEMMA IssueRefines ==
  ASSUME Typed, NEW op \in Ops, Issue(op)
  PROVE  RC!CallsNext
<1> DEFINE m == [id |-> issued', seq |-> seq', op |-> op]
           call == [id |-> issued', op |-> op]
<1>1. issued' = issued + 1 /\ asked' = op /\ client = "idle" /\ UNCHANGED DoneCalls
  BY DEF Issue, serverVars, DoneCalls
<1>2. Caller = "idle"
  BY <1>1 DEF Caller
<1>3. CASE client' = "waiting" /\ wire' = Append(wire, m) /\ proc = "running"
           /\ UNCHANGED result
  <2>1. Caller' = "waiting" /\ UNCHANGED Returned
    BY <1>3 DEF Caller, Returned
  <2>2. PendingCalls' = PendingCalls \cup {call}
    <3>1. wire \in Seq(Message) /\ m \in Message
      BY NextSeqType, SessionAssumption DEF Typed, TypeOK, Issue, Message, Ids
    <3>2. CallOf(m) = call
      BY DEF CallOf
    <3> HIDE DEF m, call
    <3>3. /\ DOMAIN wire = 1 .. Len(wire) /\ Len(wire) \in Nat
          /\ DOMAIN wire' = 1 .. Len(wire) + 1
          /\ \A i \in 1 .. Len(wire) : wire'[i] = wire[i]
          /\ wire'[Len(wire) + 1] = m
      BY <1>3, <3>1, AppendFacts
    <3>4. {CallOf(wire'[i]) : i \in DOMAIN wire'}
            = {CallOf(wire[i]) : i \in DOMAIN wire} \cup {call}
      BY <3>2, <3>3
    <3>5. UNCHANGED <<server, serving, proc>>
      BY DEF Issue, serverVars
    <3> QED
      BY <1>3, <3>4, <3>5 DEF PendingCalls, Alive, CallOf
  <2>3. RC!Call(op)
    BY <1>1, <1>2, <2>1, <2>2 DEF RC!Call
  <2> QED
    BY <2>3 DEF RC!CallsNext
<1>4. CASE /\ result' = [to |-> issued', from |-> 0, kind |-> "Nng"]
           /\ AfterRequest("Nng") /\ UNCHANGED wire
  <2>1. Returned' = [to |-> issued', kind |-> "Nng"]
    BY <1>4 DEF Returned
  <2>2. Caller' = IF asked' = "Shutdown" THEN "gone" ELSE "idle"
    BY <1>4 DEF AfterRequest, Caller
  <2>3. UNCHANGED PendingCalls
    BY <1>4, SamePending DEF Issue, serverVars
  <2>4. RC!CallFails(op)
    BY <1>1, <1>2, <2>1, <2>2, <2>3 DEF RC!CallFails, RC!Ends
  <2> QED
    BY <2>4 DEF RC!CallsNext
<1> QED
  BY <1>3, <1>4 DEF Issue

(* A request that fails is given up; it stays where it is.                 *)
LEMMA FailureRefines ==
  ASSUME RequestFails
  PROVE  RC!CallsNext
<1>1. /\ UNCHANGED <<issued, asked, DoneCalls, PendingCalls>>
  BY SamePending DEF RequestFails, serverVars, DoneCalls
<1>2. Caller = "waiting" /\ Returned' = [to |-> issued, kind |-> "Nng"]
  BY DEF RequestFails, Caller, Returned
<1>3. Caller' = IF asked = "Shutdown" THEN "gone" ELSE "idle"
  BY <1>1 DEF RequestFails, AfterRequest, Caller
<1>4. RC!GiveUp
  BY <1>1, <1>2, <1>3 DEF RC!GiveUp, RC!Ends
<1> QED
  BY <1>4 DEF RC!CallsNext

(* An answer is what came of the last request.                             *)
LEMMA AnswerRefines ==
  ASSUME IInv, Told, RequestAnswered
  PROVE  RC!CallsNext
<1>1. /\ UNCHANGED <<issued, asked, DoneCalls, PendingCalls>>
  BY SamePending DEF RequestAnswered, serverVars, DoneCalls
<1>2. Typed /\ replies # <<>> /\ replies' = Tail(replies)
  BY DEF IInv, RequestAnswered
<1>3. 1 \in DOMAIN replies /\ Head(replies) = replies[1]
  BY <1>2, RepliesShrink
<1>4. replies[1].id = issued /\ replies[1].seq = seq
  BY <1>3 DEF RequestAnswered, IInv, Matched
<1>5. Came(issued, replies[1].kind)
  BY <1>3, <1>4 DEF Told
<1>6. PICK i \in DOMAIN executed : executed[i].id = issued /\ executed[i].kind = replies[1].kind
  BY <1>5 DEF Came
<1>7. executed[i] \in DoneCalls /\ executed[i].op = asked
  BY <1>6 DEF DoneCalls, Told
<1>8. Caller = "waiting" /\ Returned' = [to |-> issued, kind |-> executed[i].kind]
  BY <1>3, <1>4, <1>6 DEF RequestAnswered, Caller, Returned
<1>9. Caller' = IF asked = "Shutdown" THEN "gone" ELSE "idle"
  BY <1>1 DEF RequestAnswered, AfterRequest, Caller
<1>10. RC!Return
  BY <1>1, <1>6, <1>7, <1>8, <1>9 DEF RC!Return, RC!Ends
<1> QED
  BY <1>10 DEF RC!CallsNext

(* A request that is taken is still pending.                               *)
LEMMA TakeRefines ==
  ASSUME Typed, Take
  PROVE  UNCHANGED RC!callVars
<1>1. /\ UNCHANGED <<clientVars, executed, proc>> /\ Alive
      /\ server = "recv" /\ server' = "handling"
      /\ wire \in Seq(Message) /\ wire # <<>> /\ wire' = Tail(wire) /\ serving' = wire[1]
  BY TakeEffect DEF Take, Typed, TypeOK
<1>2. /\ DOMAIN wire = 1 .. Len(wire) /\ Len(wire) \in Nat \ {0}
      /\ DOMAIN wire' = 1 .. Len(wire) - 1
      /\ \A i \in 1 .. Len(wire) - 1 : wire'[i] = wire[i + 1]
  BY <1>1, TailFacts
<1>3. {CallOf(wire[i]) : i \in DOMAIN wire}
        = {CallOf(wire'[i]) : i \in DOMAIN wire'} \cup {CallOf(serving')}
  <2>1. ASSUME NEW i \in 1 .. Len(wire)
        PROVE  wire[i] = serving' \/ \E k \in 1 .. Len(wire) - 1 : wire[i] = wire'[k]
    <3>1. CASE i = 1
      BY <1>1, <3>1
    <3>2. CASE i # 1
      <4>1. i - 1 \in 1 .. Len(wire) - 1 /\ (i - 1) + 1 = i
        BY <1>2, <3>2
      <4> QED
        BY <1>2, <4>1
    <3> QED
      BY <3>1, <3>2
  <2>2. \A k \in 1 .. Len(wire) - 1 : k + 1 \in 1 .. Len(wire) /\ 1 \in 1 .. Len(wire)
    BY <1>2
  <2>3. 1 \in 1 .. Len(wire)
    BY <1>2
  <2> QED
    BY <1>1, <1>2, <2>1, <2>2, <2>3
<1>4. UNCHANGED PendingCalls
  BY <1>1, <1>3 DEF PendingCalls, Alive, CallOf
<1> QED
  BY <1>1, <1>4 DEF RC!callVars, Caller, DoneCalls, Returned, clientVars

(* A request takes effect when it is the oldest that is pending.           *)
LEMMA ExecuteRefines ==
  ASSUME IInv, IInv', Execute
  PROVE  RC!CallsNext
<1> DEFINE call == CallOf(serving)
           e == [id |-> serving.id, op |-> serving.op, kind |-> answer']
           behind == {CallOf(wire[i]) : i \in DOMAIN wire}
<1>1. Typed /\ Held /\ \A i \in DOMAIN wire : serving.id < wire[i].id
  BY DEF IInv, Ordered, Held, Execute
<1>2. /\ UNCHANGED <<clientVars, serving, wire, proc>> /\ Alive /\ answer' \in Answers
      /\ server = "handling" /\ server' = "replying"
  BY DEF Execute
<1>3. PendingCalls = behind \cup {call} /\ PendingCalls' = behind
  BY <1>2 DEF PendingCalls, Alive, CallOf
<1>4. call.id = serving.id /\ call.op = serving.op
  BY DEF CallOf
<1>5. \A other \in behind : serving.id < other.id
  BY <1>1 DEF CallOf
<1>6. serving.id \in Nat /\ \A other \in behind : other.id \in Nat
  BY <1>1, Places DEF CallOf
<1> HIDE DEF behind, call
<1>7. call \in PendingCalls /\ \A other \in PendingCalls : call.id <= other.id
  BY <1>3, <1>4, <1>5, <1>6
<1>8. PendingCalls' = PendingCalls \ {call}
  <2>1. call \notin behind
    BY <1>4, <1>5, <1>6
  <2> QED
    BY <1>3, <2>1
<1>9. DoneCalls' = DoneCalls \cup {e}
  <2>1. \A i \in DOMAIN executed' :
          (i \in DOMAIN executed /\ executed'[i] = executed[i]) \/ executed'[i] = e
    BY <1>1, ExecuteEffect
  <2>2. /\ \A i \in DOMAIN executed : i \in DOMAIN executed' /\ executed'[i] = executed[i]
        /\ Len(executed) + 1 \in DOMAIN executed' /\ executed'[Len(executed) + 1] = e
    BY <1>1, ExecutedGrows
  <2> HIDE DEF e
  <2> QED
    BY <2>1, <2>2 DEF DoneCalls
<1>10. answer' = "Ok" => (call.op = "Hello" <=> \A earlier \in DoneCalls : earlier.kind # "Ok")
  <2>1. greeted <=> \E d \in DoneCalls : d.kind = "Ok"
    BY DEF IInv, Handshake, DoneCalls
  <2>2. answer' = "Ok" => (serving.op = "Hello" <=> ~greeted)
    BY DEF Execute
  <2> QED
    BY <1>4, <2>1, <2>2
<1>11. UNCHANGED <<issued, asked, Caller, Returned>>
  BY <1>2 DEF clientVars, Caller, Returned
<1>12. e = [id |-> call.id, op |-> call.op, kind |-> answer']
  BY <1>4
<1> HIDE DEF e
<1>13. RC!TakeEffect(call, answer')
  BY <1>7, <1>8, <1>9, <1>10, <1>11, <1>12 DEF RC!TakeEffect
<1> QED
  BY <1>2, <1>7, <1>13 DEF RC!CallsNext, Answers

(* The process is gone, and what it had not served with it.                *)
LEMMA EndRefines ==
  ASSUME Kill \/ Exit \/ ExitOnStdinEof \/ Crash
  PROVE  RC!CallsNext
<1>1. UNCHANGED <<issued, asked, result, executed, Caller>>
  BY DEF Kill, Exit, ExitOnStdinEof, Crash, clientVars, serverVars, Caller
<1>2. PendingCalls' = {}
  BY DEF Kill, Exit, ExitOnStdinEof, Crash, PendingCalls, Alive
<1>3. RC!Lose
  BY <1>1, <1>2, SameCalls DEF RC!Lose
<1> QED
  BY <1>3 DEF RC!CallsNext

(* The caller makes no more calls.                                         *)
LEMMA LeaveRefines ==
  ASSUME Drop \/ FrontendDies
  PROVE  RC!CallsNext
<1>1. UNCHANGED <<issued, asked, result, executed, wire, serving, server, proc>>
      /\ Caller' = "gone"
  BY DEF Drop, FrontendDies, serverVars, Caller
<1>2. RC!Leave
  BY <1>1, SameCalls, SamePending DEF RC!Leave
<1> QED
  BY <1>2 DEF RC!CallsNext

(* All other steps are between these.                                      *)
LEMMA OthersStutter ==
  ASSUME \/ ReplyDropped \/ Reap \/ WaitInterrupted \/ Dial \/ SendReply
         \/ Terminated \/ UNCHANGED vars
  PROVE  UNCHANGED RC!callVars
<1>1. UNCHANGED <<issued, asked, result, executed, Caller>>
  BY DEF ReplyDropped, Reap, WaitInterrupted, Dial, SendReply, Terminated, vars,
         clientVars, serverVars, Caller
<1>2. UNCHANGED PendingCalls
  <2>1. CASE Reap
    BY <2>1 DEF Reap, PendingCalls, Alive
  <2>2. CASE ~Reap
    BY <2>2 DEF ReplyDropped, WaitInterrupted, Dial, SendReply, Terminated, vars,
                clientVars, serverVars, PendingCalls, CallOf, Alive
  <2> QED
    BY <2>1, <2>2
<1> QED
  BY <1>1, <1>2, SameCalls DEF RC!callVars

(* A CaptureClient is a caller whose calls take effect at most once and in *)
(* order, and whose answers are those of their calls, whatever times out,  *)
(* crashes or is served late (client.rs:161-179, transport.rs:25-30).      *)
THEOREM CallsAtMostOnce == Spec => RC!CallsSafety
<1>1. Init => RC!CallsInit
  <2> SUFFICES ASSUME Init PROVE RC!CallsInit
    OBVIOUS
  <2>1. DOMAIN wire = {} /\ DOMAIN executed = {} /\ server # "handling"
    BY DEF Init
  <2>2. PendingCalls = {} /\ DoneCalls = {}
    BY <2>1 DEF PendingCalls, DoneCalls
  <2> QED
    BY <2>2 DEF Init, RC!CallsInit, Caller, Returned
<1>2. (IInv /\ Told) /\ (IInv /\ Told)' /\ [Next]_vars => [RC!CallsNext]_(RC!callVars)
  <2> SUFFICES ASSUME IInv, Told, IInv', [Next]_vars
               PROVE  [RC!CallsNext]_(RC!callVars)
    OBVIOUS
  <2>1. Typed
    BY DEF IInv
  <2>2. CASE \E op \in Ops : Issue(op)
    BY <2>1, <2>2, IssueRefines
  <2>3. CASE RequestFails \/ RequestAnswered
    BY <2>3, FailureRefines, AnswerRefines
  <2>4. CASE Take
    BY <2>1, <2>4, TakeRefines
  <2>5. CASE Execute
    BY <2>5, ExecuteRefines
  <2>6. CASE Kill \/ Exit \/ ExitOnStdinEof \/ Crash
    BY <2>6, EndRefines
  <2>7. CASE Drop \/ FrontendDies
    BY <2>7, LeaveRefines
  <2>8. CASE \/ ReplyDropped \/ Reap \/ WaitInterrupted \/ Dial \/ SendReply
             \/ Terminated \/ UNCHANGED vars
    BY <2>8, OthersStutter
  <2> QED
    BY <2>2, <2>3, <2>4, <2>5, <2>6, <2>7, <2>8 DEF Next, ClientProgress
<1> QED
  BY <1>1, <1>2, ToldInvariant, PTL DEF Spec, Safety, RC!CallsSafety

=============================================================================
