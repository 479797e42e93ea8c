---------------------------- MODULE StreamSender ----------------------------
(***************************************************************************)
(* From the plugin's samples to the frontend's: the lists Hello agrees on, *)
(* StreamSender of server/events.rs, which cuts one stream of one          *)
(* acquisition into CaptureData events, and decode_payload at the other    *)
(* end.  A push may fail, after the send timeout or because the frontend   *)
(* is gone; send then returns the error and the caller may give up or go   *)
(* on.  A caller may also hand over a buffer that ends inside a sample.    *)
(*                                                                         *)
(* Beside its fields an event has at, the number of bytes handed to send   *)
(* before its first one.                                                   *)
(***************************************************************************)
EXTENDS Negotiation

CONSTANTS
  MaxPayload,     \* bytes in a chunk at most, transport::MAX_PAYLOAD
  RecvMaxSize,    \* bytes a frontend accepts in one message
  Unitsizes,      \* sample widths in bytes
  Values,         \* the bytes samples are made of
  CallSizes,      \* bytes handed to one call of send
  MaxGiven,       \* bound: bytes handed to send in one acquisition
  AcceptLists,    \* Hello.accept_encodings of the frontends there are
  SupportedLists  \* what the plugins there are can produce

(* new asserts that unitsize is positive; a sample wider than a chunk      *)
(* would make the chunk empty.  A chunk's length is a usize, and a message *)
(* may be eight times as long.                                             *)
ASSUME SenderAssumption ==
  /\ MaxPayload \in Nat \ {0} /\ MaxPayload < Limit
  /\ RecvMaxSize \in Nat /\ 2 * MaxPayload <= RecvMaxSize
  /\ MaxGiven \in Nat
  /\ Unitsizes \subseteq 1 .. MaxPayload
  /\ Values \subseteq Bytes
  /\ CallSizes \subseteq Nat \ {0}
  /\ AcceptLists \subseteq Seq(Nat) /\ SupportedLists \subseteq Seq(Nat)

VARIABLES
  accept,    \* what the frontend promised in Hello
  unitsize,  \* StreamSender.unitsize
  encoding,  \* StreamSender.encoding
  seq,       \* StreamSender.seq
  first,     \* StreamSender.first_sample
  rest,      \* bytes of the current call still to be pushed
  given,     \* bytes handed to send so far
  clean,     \* every call was of whole samples and none has failed
  pushed     \* the events on the stream

vars == <<accept, unitsize, encoding, seq, first, rest, given, clean, pushed>>

-----------------------------------------------------------------------------
(* The plugin negotiates, and sends TRANSITION only if it was accepted.    *)
Init ==
  /\ accept \in AcceptLists
  /\ unitsize \in Unitsizes
  /\ encoding \in {Packed, TransitionEncoding}
  /\ encoding = TransitionEncoding =>
       \E supported \in SupportedLists :
         Accepts(NegotiateEncodings(accept, supported), encoding)
  /\ seq = 0 /\ first = 0
  /\ rest = <<>> /\ given = <<>>
  /\ clean = TRUE
  /\ pushed = <<>>

(* Variants: chunks are cut without regard to the sample width; a call is  *)
(* pushed whole.                                                           *)
ChunkUnrounded == MaxPayload
ChunkUnlimited == MaxGiven - (MaxGiven % unitsize)

(* The bytes in a full chunk.                                              *)
Chunk == MaxPayload - (MaxPayload % unitsize)

PartLen == IF Len(rest) < Chunk THEN Len(rest) ELSE Chunk

Part == SubSeq(rest, 1, PartLen)

(* Variant: the last chunk is taken for a full one.                        *)
SampleCountOfChunk == Chunk \div unitsize

SampleCount == PartLen \div unitsize

Data ==
  [seq |-> seq, first_sample |-> first, sample_count |-> SampleCount,
   at |-> Len(given) - Len(rest), encoding |-> encoding, codec |-> NoCodec,
   payload |-> IF encoding = TransitionEncoding
                 THEN EncodeTransition(Part, unitsize) ELSE Part]

(* A call of send.                                                         *)
Send(packed) ==
  /\ rest = <<>>
  /\ Len(given) + Len(packed) <= MaxGiven
  /\ rest' = packed
  /\ given' = given \o packed
  /\ clean' = (clean /\ Len(packed) % unitsize = 0)
  /\ UNCHANGED <<accept, unitsize, encoding, seq, first, pushed>>

(* One round of the loop over chunks.                                      *)
PushChunk ==
  /\ rest # <<>>
  /\ pushed' = Append(pushed, Data)
  /\ seq' = seq + 1
  /\ first' = first + SampleCount
  /\ rest' = SubSeq(rest, PartLen + 1, Len(rest))
  /\ UNCHANGED <<accept, unitsize, encoding, given, clean>>

(* events.send returned an error: so does send, with the rest of the       *)
(* buffer unsent and neither seq nor first_sample moved.                   *)
PushFails ==
  /\ rest # <<>>
  /\ rest' = <<>>
  /\ clean' = FALSE
  /\ UNCHANGED <<accept, unitsize, encoding, seq, first, given, pushed>>

Next ==
  \/ \E n \in CallSizes : \E packed \in [1 .. n -> Values] : Send(packed)
  \/ PushChunk
  \/ PushFails

Spec == Init /\ [][Next]_vars

-----------------------------------------------------------------------------
(* A frontend gets no encoding it has not promised to decode, whatever the *)
(* plugin can produce (capture.proto:80-84, events.rs:78-79).              *)
SentIsAccepted ==
  \A i \in DOMAIN pushed : pushed[i].encoding \in ToSet(accept) \cup {Packed}

(* The bytes an event's samples are among those given.                     *)
Carried(event) ==
  SubSeq(given, event.at + 1, event.at + event.sample_count * unitsize)

(* decode_payload gives back the samples the event counts, and of a buffer *)
(* that ended inside a sample at most the bytes that are left over, which  *)
(* a PACKED event carries and nothing compares (encoding.rs:111).          *)
DecodesToGiven ==
  \A i \in DOMAIN pushed :
    LET d == DecodePayload(pushed[i], unitsize)
        samples == Carried(pushed[i])
    IN  /\ d.ok /\ IsPrefix(samples, d.packed)
        /\ Len(d.packed) - Len(samples) < unitsize
        /\ clean \/ pushed[i].encoding = TransitionEncoding => d.packed = samples

(* first_sample is the absolute index, within the acquisition, of the      *)
(* samples the event carries (stream.proto:110, events.rs:50-51), as long  *)
(* as no push failed and no buffer ended inside a sample.  What was lost   *)
(* leaves no gap, so the index of a later event may be too low, but it     *)
(* never is too high.                                                      *)
PositionIsTrue ==
  \A i \in DOMAIN pushed :
    LET position == pushed[i].first_sample * unitsize IN
    /\ position <= pushed[i].at
    /\ clean => position = pushed[i].at

(* Whatever failed, events follow each other in seq and in first_sample    *)
(* without a gap, and between calls that all succeeded they carry every    *)
(* sample handed over (events.rs:86-110).                                  *)
NothingLost ==
  /\ rest = <<>> /\ clean => Len(given) = first * unitsize
  /\ \A i \in DOMAIN pushed :
       /\ pushed[i].seq = i - 1
       /\ pushed[i].first_sample + pushed[i].sample_count
            = IF i < Len(pushed) THEN pushed[i + 1].first_sample ELSE first

(* Even when no two samples are equal, a chunk grows by one byte per       *)
(* sample at most and fits a frontend's message (encoding.rs:44-45,        *)
(* transport.rs:12-18).                                                    *)
ChunksFit ==
  \A i \in DOMAIN pushed :
    LET length == Len(pushed[i].payload) IN
    /\ length <= RecvMaxSize
    /\ clean => length <= pushed[i].sample_count * (unitsize + 1)

=============================================================================
