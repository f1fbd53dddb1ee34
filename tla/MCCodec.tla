------------------------------ MODULE MCCodec ------------------------------
(* Codec with messages that have every field of every type at its default and  *)
(* at another value, every member of every oneof (one at a time, as the server *)
(* and the nodes build them), a double that is no single, and an enumeration   *)
(* number of a later schema.                                                   *)
EXTENDS Codec, TLC

Nothing == [a \in {} |-> 0]
One(name, objects) == {name :> o : o \in objects}

Requests == {Nothing, [host |-> "h", protocol |-> 2], [host |-> "h", protocol |-> 7]}
Timeouts == {Nothing, [seq |-> 1]}
Lookups  == {[ip |-> "ip"]}
Errors   == {[message |-> "m"], [message |-> "m", title |-> "t"]}

PingResponses ==
  One("reply", {[rtt |-> 1, seq |-> 1, bytes |-> 64], [rtt |-> 2, ttl |-> 1]})
    \cup One("timeout", Timeouts) \cup One("summary", {Nothing, [sent |-> 1, received |-> 1]})
    \cup One("error", Errors) \cup One("lookup", Lookups)
TracerouteResponses ==
  One("reply", {[seq |-> 1, ip |-> "ip", rtt |-> 2]}) \cup One("timeout", Timeouts)
    \cup One("error", Errors) \cup One("completed", {Nothing}) \cup One("lookup", Lookups)
MtrResponses ==
  {("pos" :> p) @@ o : p \in 0 .. 1,
                       o \in One("lookup", Lookups) \cup One("host", Lookups) \cup One("error", Errors)
                              \cup One("transmit", {Nothing, [seqnum |-> 1]})
                              \cup One("ping", {Nothing, [rtt |-> 2, seqnum |-> 1]})
                              \cup One("dns", {[hostname |-> "h"]})}
Versions == {Nothing, [version |-> "v"]}

Task(type, name, objects) == {[taskId |-> "id", taskType |-> type] @@ o : o \in One(name, objects)}

MCSamples == [
  PingRequest |-> Requests, TracerouteRequest |-> Requests, MtrRequest |-> Requests,
  VersionRequest |-> {Nothing},
  PingResponse |-> PingResponses, TracerouteResponse |-> TracerouteResponses,
  MtrResponse |-> MtrResponses, VersionResponse |-> Versions,
  AgentRegisterRequest |-> {[name |-> "n"], [name |-> "n", provider |-> "p"]},
  AgentRegisterResponse |-> {[message |-> "denied"],
    [success |-> TRUE, message |-> "m", country |-> "c", location |-> "l", latitude |-> 2, longitude |-> 1]},
  TaskRequest |-> Task(0, "version", {Nothing}) \cup Task(1, "ping", Requests)
    \cup Task(2, "mtr", Requests) \cup Task(3, "traceroute", Requests),
  TaskResponse |-> Task(0, "version", Versions) \cup Task(1, "ping", PingResponses)
    \cup Task(2, "mtr", MtrResponses) \cup Task(3, "traceroute", TracerouteResponses) ]

\* Field 15 of a later schema, a number or a message whose content looks like
\* fields of this one; field 1 with another wire type.
Later(value) ==
  { << Cell(8 * 15, value, 0) >>,
    << Cell(8 * 15 + 2, value, 2), Cell(8 * 1 + 2, value, 0), Cell(8 * 2, value, 0) >>,
    << Cell(8 * 1 + 1, value, 0) >> }
MCAdditions == [ none |-> {<<>>}, PingRequest |-> Later("x"), TaskResponse |-> Later("x"),
                 Empty |-> Later("x"), PingReply |-> Later(9), MtrResponse |-> Later(9) ]
=============================================================================
