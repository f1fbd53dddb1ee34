-------------------------------- MODULE Codec --------------------------------
(***************************************************************************)
(* The messages of the protocol as mtrsb.ts writes and reads them, and the *)
(* client stub that carries them. The generated code repeats seven         *)
(* functions (createBase, encode, decode, fromJSON, toJSON, create,        *)
(* fromPartial) for every message type; they differ only in the fields, so *)
(* a type is its table of fields here and each function is written once.   *)
(*                                                                         *)
(* The decoder is modelled as the loop it is, with a frame for every call  *)
(* of a nested decode. Its peer may be built from a later schema. No      *)
(* program of the repository calls this code yet: server and agent use the *)
(* Go messages, the frontend the types alone.                              *)
(***************************************************************************)
EXTENDS Integers, Sequences, SequencesExt

CONSTANTS
  Samples,      \* for every type the partial objects a program builds one from
  Additions,    \* for some types, what a peer of a later schema adds: sets of cells
  MaxResponses  \* bound: messages of one streamed answer

-----------------------------------------------------------------------------
\* The message types: number, name and kind of each field.
F(no, name, kind) == [no |-> no, name |-> name, kind |-> kind]

PingRequest == << F(1, "host", "string"), F(2, "protocol", "Protocol") >>
PingResponse == << F(1, "reply", "PingReply"), F(2, "timeout", "PingTimeout"),
  F(3, "summary", "PingSummary"), F(4, "error", "Error"), F(5, "lookup", "HostLookupResult") >>
PingReply == << F(1, "rtt", "float"), F(2, "ttl", "int32"), F(3, "seq", "int32"), F(4, "bytes", "int32") >>
PingTimeout == << F(1, "seq", "int32") >>
PingSummary == << F(1, "sent", "int32"), F(2, "received", "int32") >>
HostLookupResult == << F(1, "ip", "string") >>
Error == << F(1, "message", "string"), F(2, "title", "string") >>
VersionRequest == << >>
VersionResponse == << F(1, "version", "string") >>
TracerouteRequest == << F(1, "host", "string"), F(2, "protocol", "Protocol") >>
TracerouteResponse == << F(1, "reply", "TracerouteReply"), F(2, "timeout", "PingTimeout"),
  F(3, "error", "Error"), F(4, "completed", "Empty"), F(5, "lookup", "HostLookupResult") >>
TracerouteReply == << F(1, "seq", "int32"), F(2, "ip", "string"), F(3, "rtt", "float") >>
MtrRequest == << F(1, "host", "string"), F(2, "protocol", "Protocol") >>
MtrResponse == << F(1, "pos", "uint32"), F(2, "lookup", "HostLookupResult"), F(3, "host", "MtrHostLine"),
  F(4, "transmit", "MtrTransmitLine"), F(5, "ping", "MtrPingLine"), F(6, "dns", "MtrDnsLine"),
  F(7, "error", "Error") >>
MtrHostLine == << F(1, "ip", "string") >>
MtrTransmitLine == << F(1, "seqnum", "uint32") >>
MtrPingLine == << F(1, "rtt", "float"), F(2, "seqnum", "uint32") >>
MtrDnsLine == << F(1, "hostname", "string") >>
AgentRegisterRequest == << F(1, "name", "string"), F(2, "provider", "string") >>
AgentRegisterResponse == << F(1, "success", "bool"), F(2, "message", "string"), F(3, "country", "string"),
  F(4, "location", "string"), F(5, "latitude", "float"), F(6, "longitude", "float") >>
TaskRequest == << F(1, "taskId", "string"), F(2, "taskType", "TaskType"), F(3, "ping", "PingRequest"),
  F(4, "mtr", "MtrRequest"), F(5, "traceroute", "TracerouteRequest"), F(6, "version", "VersionRequest") >>
TaskResponse == << F(1, "taskId", "string"), F(2, "taskType", "TaskType"), F(3, "ping", "PingResponse"),
  F(4, "mtr", "MtrResponse"), F(5, "traceroute", "TracerouteResponse"), F(6, "version", "VersionResponse") >>

\* google.protobuf.Empty, imported.
Empty == << >>

Schema == [ PingRequest |-> PingRequest, PingResponse |-> PingResponse, PingReply |-> PingReply,
  PingTimeout |-> PingTimeout, PingSummary |-> PingSummary, HostLookupResult |-> HostLookupResult,
  Error |-> Error, VersionRequest |-> VersionRequest, VersionResponse |-> VersionResponse,
  TracerouteRequest |-> TracerouteRequest, TracerouteResponse |-> TracerouteResponse,
  TracerouteReply |-> TracerouteReply, MtrRequest |-> MtrRequest, MtrResponse |-> MtrResponse,
  MtrHostLine |-> MtrHostLine, MtrTransmitLine |-> MtrTransmitLine, MtrPingLine |-> MtrPingLine,
  MtrDnsLine |-> MtrDnsLine, AgentRegisterRequest |-> AgentRegisterRequest,
  AgentRegisterResponse |-> AgentRegisterResponse, TaskRequest |-> TaskRequest,
  TaskResponse |-> TaskResponse, Empty |-> Empty ]

Fields(t) == ToSet(Schema[t])
Nested(f) == f.kind \in DOMAIN Schema
\* A message holds a value for every field; a nested one is <<m>>, or <<>> for
\* undefined.
Message(t, value(_)) == [n \in {f.name : f \in Fields(t)} |-> value(CHOOSE f \in Fields(t) : f.name = n)]

WireType(f) == CASE f.kind \in {"int32", "uint32", "bool", "Protocol", "TaskType"} -> 0
                 [] f.kind = "float" -> 5
                 [] OTHER -> 2
Tag(f) == 8 * f.no + WireType(f)

Default(f) == CASE f.kind = "string" -> ""
                [] f.kind = "bool" -> FALSE
                [] Nested(f) -> <<>>
                [] OTHER -> 0

createBase(t) == Message(t, Default)

\* The functions generated for a type call those of the types nested in it. Types
\* nest three deep (TaskResponse, PingResponse, PingReply), so each function is
\* defined for the innermost, whose calls have nothing to do, and from there upwards.
None(kind, x) == <<>>
Anything(kind, x) == TRUE

\* fromPartial: what the object lacks takes its default.
fromPartialOver(t, object, nested(_, _)) ==
  Message(t, LAMBDA f : IF f.name \notin DOMAIN object THEN Default(f)
                        ELSE IF Nested(f) THEN << nested(f.kind, object[f.name]) >>
                        ELSE object[f.name])
fromPartial1(t, object) == fromPartialOver(t, object, None)
fromPartial2(t, object) == fromPartialOver(t, object, fromPartial1)
fromPartial(t, object)  == fromPartialOver(t, object, fromPartial2)

-----------------------------------------------------------------------------
\* JSON: an object has the fields that are not at their default; an enumeration
\* travels by name.
Names(f) == IF f.kind = "Protocol" THEN <<"ANY", "IPV4", "IPV6">>
            ELSE <<"TASK_VERSION", "TASK_PING", "TASK_MTR", "TASK_TRACEROUTE">>
IsEnum(f) == f.kind \in {"Protocol", "TaskType"}

\* Variation: a name that is not known falls back to the first one.
enumFromJSONFirst(f, name) ==
  IF name \in ToSet(Names(f)) THEN (CHOOSE i \in DOMAIN Names(f) : Names(f)[i] = name) - 1 ELSE 0

enumToJSON(f, n) == IF n + 1 \in DOMAIN Names(f) THEN Names(f)[n + 1] ELSE "UNRECOGNIZED"
enumFromJSON(f, name) == IF name \in ToSet(Names(f)) THEN (CHOOSE i \in DOMAIN Names(f) : Names(f)[i] = name) - 1
                         ELSE -1

toJSONOver(t, m, nested(_, _)) ==
  [n \in {f.name : f \in {g \in Fields(t) : m[g.name] # Default(g)}} |->
     LET f == CHOOSE g \in Fields(t) : g.name = n
     IN  IF Nested(f) THEN nested(f.kind, m[n][1])
         ELSE IF IsEnum(f) THEN enumToJSON(f, m[n])
         ELSE m[n]]
toJSON1(t, m) == toJSONOver(t, m, None)
toJSON2(t, m) == toJSONOver(t, m, toJSON1)
toJSON(t, m)  == toJSONOver(t, m, toJSON2)

fromJSONOver(t, object, nested(_, _)) ==
  Message(t, LAMBDA f : IF f.name \notin DOMAIN object THEN Default(f)
                        ELSE IF Nested(f) THEN << nested(f.kind, object[f.name]) >>
                        ELSE IF IsEnum(f) THEN enumFromJSON(f, object[f.name])
                        ELSE object[f.name])
fromJSON1(t, object) == fromJSONOver(t, object, None)
fromJSON2(t, object) == fromJSONOver(t, object, fromJSON1)
fromJSON(t, object)  == fromJSONOver(t, object, fromJSON2)

-----------------------------------------------------------------------------
\* The wire. A field is a tag, a value and the number of cells of its content
\* that follow; those of a nested message are its fields, a string is one cell.
Cell(tag, value, len) == [tag |-> tag, value |-> value, len |-> len]

\* A float is four bytes: a double that needs more, the value 2 here, comes back
\* as the nearest single, 1.
Single(f, v) == IF f.kind = "float" /\ v = 2 THEN 1 ELSE v

\* writer.fork() ... join() puts the length of the content in front of it.
encodeField(f, v, content) ==
  IF v = Default(f) THEN <<>>
  ELSE IF Nested(f) THEN << Cell(Tag(f), 0, Len(content)) >> \o content
  ELSE << Cell(Tag(f), Single(f, v), 0) >>

\* The additions are cells that belong together, and at their top none that this
\* schema has: it lacks the number, or has it with another wire type.
WellNested(cells) ==
  \A p \in DOMAIN cells :
    /\ cells[p].len \in Nat /\ p + cells[p].len <= Len(cells)
    /\ \A q \in p + 1 .. p + cells[p].len : q + cells[q].len <= p + cells[p].len
Unknown(t, cells) ==
  \A q \in DOMAIN cells : (\A p \in 1 .. q - 1 : p + cells[p].len < q) =>
    \A f \in Fields(t) : cells[q].tag # Tag(f)

ASSUME AdditionsAssumption ==
  \A t \in DOMAIN Additions : \A added \in Additions[t] :
    /\ added \in Seq(ToSet(added)) /\ WellNested(added)
    /\ t \in DOMAIN Schema => Unknown(t, added)

\* encode of a peer that may know additions; later fields come last there, they
\* are written first here, where a wrong skip does most harm.
Write(out, part) == out \o part
encodeOver(t, m, new, nested(_, _, _)) ==
  FoldLeft(Write, IF new.type = t THEN new.bytes ELSE <<>>,
           [i \in DOMAIN Schema[t] |->
              LET f == Schema[t][i]
              IN  encodeField(f, m[f.name], nested(f.kind, m[f.name][1], new))])
NoContent(kind, x, new) == <<>>
encode1(t, m, new) == encodeOver(t, m, new, NoContent)
encode2(t, m, new) == encodeOver(t, m, new, encode1)
encode(t, m, new)  == encodeOver(t, m, new, encode2)

-----------------------------------------------------------------------------
\* The calls of the stub, and the other types with a codec that no message nests: what
\* the server and an agent exchange over their WebSocket, which both code in Go.
Methods == {"Ping", "Version", "Traceroute", "Mtr"}
Request  == [ Ping |-> "PingRequest", Version |-> "VersionRequest",
              Traceroute |-> "TracerouteRequest", Mtr |-> "MtrRequest" ]
Response == [ Ping |-> "PingResponse", Version |-> "VersionResponse",
              Traceroute |-> "TracerouteResponse", Mtr |-> "MtrResponse" ]
Posted == {"AgentRegisterRequest", "AgentRegisterResponse", "TaskRequest", "TaskResponse"}

\* A partial object has the types of its message: an enumeration is a number.
FitsOver(t, object, nested(_, _)) ==
  \A f \in Fields(t) : f.name \in DOMAIN object =>
    /\ IsEnum(f) => object[f.name] \in Int
    /\ Nested(f) => nested(f.kind, object[f.name])
Fits1(t, object) == FitsOver(t, object, Anything)
Fits2(t, object) == FitsOver(t, object, Fits1)
Fits(t, object)  == FitsOver(t, object, Fits2)

ASSUME SamplesAssumption ==
  \A t \in Posted \cup {Request[m] : m \in Methods} \cup {Response[m] : m \in Methods} :
    \A object \in Samples[t] : Fits(t, object)

-----------------------------------------------------------------------------
VARIABLES
  method,    \* of the stub: the call in progress, Post for a message of no call
  sent,      \* messages of the call, as their senders hold them
  received,  \* and as decode returned them
  bytes,     \* BinaryReader: the buffer,
  pos,       \* and its position
  stack      \* frames of decode, the innermost last

vars == <<method, sent, received, bytes, pos, stack>>

Init ==
  /\ method = "none"
  /\ sent = <<>> /\ received = <<>>
  /\ bytes = <<>> /\ pos = 0
  /\ stack = <<>>

Idle == stack = <<>>

\* encode(message).finish() goes to the other side, which calls decode.
Transfer(t) ==
  \E object \in Samples[t], later \in DOMAIN Additions :
  \E added \in Additions[later] :
    LET m == fromPartial(t, object)
        data == encode(t, m, [type |-> later, bytes |-> added])
    IN  /\ sent' = Append(sent, [type |-> t, message |-> m])
        /\ bytes' = data
        /\ pos' = 0
        /\ stack' = << [type |-> t, end |-> Len(data), message |-> createBase(t), field |-> "none"] >>

Call(m) ==
  /\ Idle /\ method = "none"
  /\ method' = m
  /\ Transfer(Request[m])
  /\ UNCHANGED received

\* A promise takes one answer, an Observable each one the worker streams.
Respond ==
  /\ Idle /\ method \in Methods
  /\ Len(sent) <= IF method = "Version" THEN 1 ELSE MaxResponses
  /\ Transfer(Response[method])
  /\ UNCHANGED <<method, received>>

\* encode and decode of a message that no call of the stub carries.
Post ==
  /\ Idle /\ method = "none"
  /\ method' = "Post"
  /\ \E t \in Posted : Transfer(t)
  /\ UNCHANGED received

\* The Rpc behind the stub ends the call; what it carries next is independent of it.
Complete ==
  /\ Idle /\ method # "none"
  /\ method' = "none"
  /\ sent' = <<>> /\ received' = <<>>
  /\ UNCHANGED <<bytes, pos, stack>>

-----------------------------------------------------------------------------
\* decode: one turn of its loop.
Frame == Last(stack)
Here == bytes[pos + 1]
More == ~Idle /\ pos < Frame.end

\* Variation: the field number decides, whatever the wire type.
ExpectedNumber(f) == Here.tag \div 8 = f.no

\* The case of the field number, and its check of the whole tag.
Expected(f) == Here.tag = Tag(f)

ReadScalar ==
  /\ More
  /\ \E f \in Fields(Frame.type) :
       /\ Expected(f) /\ ~Nested(f)
       /\ stack' = [stack EXCEPT ![Len(stack)].message[f.name] = Here.value]
  /\ pos' = pos + 1
  /\ UNCHANGED <<method, sent, received, bytes>>

\* Variation: the end of the nested message is its length, not a position.
ReadNestedNoOffset ==
  /\ More
  /\ \E f \in Fields(Frame.type) :
       /\ Expected(f) /\ Nested(f)
       /\ stack' = Append(stack, [type |-> f.kind, end |-> Here.len,
                                  message |-> createBase(f.kind), field |-> f.name])
  /\ pos' = pos + 1
  /\ UNCHANGED <<method, sent, received, bytes>>

ReadNested ==
  /\ More
  /\ \E f \in Fields(Frame.type) :
       /\ Expected(f) /\ Nested(f)
       /\ stack' = Append(stack, [type |-> f.kind, end |-> pos + 1 + Here.len,
                                  message |-> createBase(f.kind), field |-> f.name])
  /\ pos' = pos + 1
  /\ UNCHANGED <<method, sent, received, bytes>>

\* Variation: the cell of the tag is counted twice.
SkipOneMore ==
  /\ More
  /\ \A f \in Fields(Frame.type) : ~Expected(f)
  /\ pos' = pos + 2 + Here.len
  /\ UNCHANGED <<method, sent, received, bytes, stack>>

\* reader.skip(tag & 7) passes over a field with its content. The loop also ends
\* at a tag of 0 and at an end of group, which no encoder writes.
Skip ==
  /\ More
  /\ \A f \in Fields(Frame.type) : ~Expected(f)
  /\ pos' = pos + 1 + Here.len
  /\ UNCHANGED <<method, sent, received, bytes, stack>>

Return ==
  /\ ~Idle /\ pos >= Frame.end
  /\ IF Len(stack) = 1
     THEN /\ received' = Append(received, [type |-> Frame.type, message |-> Frame.message])
          /\ stack' = <<>>
     ELSE /\ stack' = [Front(stack) EXCEPT ![Len(stack) - 1].message[Frame.field] = << Frame.message >>]
          /\ UNCHANGED received
  /\ UNCHANGED <<method, sent, bytes, pos>>

Next ==
  \/ \E m \in Methods : Call(m)
  \/ Respond \/ Post \/ Complete
  \/ ReadScalar \/ ReadNested \/ Skip \/ Return

Spec == Init /\ [][Next]_vars

-----------------------------------------------------------------------------
TypeOK ==
  /\ method \in Methods \cup {"none", "Post"}
  /\ Len(received) <= Len(sent)
  /\ pos \in 0 .. Len(bytes)
  /\ \A i \in DOMAIN stack :
       /\ stack[i].type \in DOMAIN Schema
       /\ stack[i].end \in 0 .. Len(bytes)
       /\ DOMAIN stack[i].message = {f.name : f \in Fields(stack[i].type)}

\* No decode reads past the end of its message, whatever its peer knows: a
\* nested one leaves the reader exactly where its caller goes on.
ReaderInStep ==
  \A i \in DOMAIN stack :
    /\ pos <= stack[i].end
    /\ i > 1 => stack[i].end <= stack[i - 1].end

SameOver(t, a, b, nested(_, _, _)) ==
  \A f \in Fields(t) :
    IF Nested(f) THEN /\ Len(a[f.name]) = Len(b[f.name])
                      /\ a[f.name] # <<>> => nested(f.kind, a[f.name][1], b[f.name][1])
    ELSE b[f.name] = Single(f, a[f.name])
Whatever(kind, a, b) == TRUE
Same1(t, a, b) == SameOver(t, a, b, Whatever)
Same2(t, a, b) == SameOver(t, a, b, Same1)
Same(t, a, b)  == SameOver(t, a, b, Same2)

\* What decode returns is what was encoded, field by field up to the precision
\* of a float, with nothing of what a later schema adds: in particular an empty
\* member of a oneof stays present, and unknown content is not taken for fields.
Preserved ==
  \A i \in DOMAIN received :
    /\ received[i].type = sent[i].type
    /\ Same(received[i].type, sent[i].message, received[i].message)

RecognisedOver(t, m, nested(_, _)) ==
  \A f \in Fields(t) :
    /\ IsEnum(f) => m[f.name] + 1 \in DOMAIN Names(f)
    /\ Nested(f) /\ m[f.name] # <<>> => nested(f.kind, m[f.name][1])
Recognised1(t, m) == RecognisedOver(t, m, Anything)
Recognised2(t, m) == RecognisedOver(t, m, Recognised1)
Recognised(t, m)  == RecognisedOver(t, m, Recognised2)

\* A received message survives JSON, except that a number that is no name of its
\* enumeration becomes UNRECOGNIZED, once and for all, and no other name.
JsonKeeps ==
  \A i \in DOMAIN received :
    LET t == received[i].type
        m == received[i].message
        object == toJSON(t, m)
    IN  /\ toJSON(t, fromJSON(t, object)) = object
        /\ Recognised(t, m) => fromJSON(t, object) = m
=============================================================================
