------------------------------ MODULE GeoLookup ------------------------------
(***************************************************************************)
(* Where an address is: Root's getIP, which every page calls for each row  *)
(* it renders, ipHandler behind /api/ip, and the scan of the bgp.tools     *)
(* table behind that. IPv4 and IPv6 have a table and a loop each, which    *)
(* are the same; there is one here.                                        *)
(***************************************************************************)
EXTENDS Integers, Sequences, SequencesExt

CONSTANTS
  Addresses,  \* addresses that parse, as numbers
  Undefined,  \* what Ping looks up for a node that has sent no lookup
  Star,       \* "*", a hop that has not answered
  Tables      \* what table.txt may hold: sequences of [addr, size, asn]

VARIABLES
  cache,       \* v4Cache
  lookup,      \* for every address: its request, and where its scan is
  rows,        \* what the page on the screen calls getIP with
  ipLocation,  \* located addresses: their AS, or <<>> without a location
  inProgress,  \* inProgress.current
  updates,     \* calls of setIpLocation that are not rendered
  asked        \* for every address the requests made for it

vars == <<cache, lookup, rows, ipLocation, inProgress, updates, asked>>

Ips == Addresses \cup {Undefined}

-----------------------------------------------------------------------------
\* parse: a line is a network, its start as written and its last address.
LastIP(line) == (line.addr \div line.size) * line.size + line.size - 1
Parse(lines) ==
  [n \in DOMAIN lines |-> [Start |-> lines[n].addr, End |-> LastIP(lines[n]), Asn |-> lines[n].asn]]

Covers(e, ip) == e.Start <= ip /\ ip <= e.End

\* The order of the lines: by start, a network before those inside it.
Nested(c) ==
  \A m, n \in DOMAIN c : m < n =>
    /\ c[m].Start <= c[n].Start
    /\ c[n].Start <= c[m].End => c[n].End <= c[m].End

ASSUME AddressAssumption == Addresses \subseteq Int /\ Undefined \notin Int
ASSUME TableAssumption ==
  \A lines \in Tables :
    /\ Parse(lines) \in Seq([Start : Int, End : Int, Asn : Int])
    /\ Nested(Parse(lines))

Idle == [stage |-> "none", n |-> 1, asn |-> 0]

Init ==
  /\ \E lines \in Tables : cache = Parse(lines)
  /\ lookup = [ip \in Ips |-> Idle]
  /\ rows = {} /\ inProgress = {} /\ updates = <<>>
  /\ ipLocation = [ip \in {} |-> <<>>]
  /\ asked = [ip \in Ips |-> 0]

-----------------------------------------------------------------------------
\* The frontend.

\* Variation: setIpLocation({...ipLocation, [ip]: r}).
SetIpLocationStale(prev, u) ==
  [ip \in DOMAIN ipLocation \cup {u.ip} |-> IF ip = u.ip THEN u.geo ELSE ipLocation[ip]]

SetIpLocation(prev, u) ==
  [ip \in DOMAIN prev \cup {u.ip} |-> IF ip = u.ip THEN u.geo ELSE prev[ip]]

\* A render applies what is queued and calls getIP for what the page shows: an
\* address that is neither located nor in progress is asked for.
Commit(shown) ==
  LET located == FoldLeft(SetIpLocation, ipLocation, updates)
      new == (shown \ {Star}) \ (DOMAIN located \cup inProgress)
  IN  /\ rows' = shown
      /\ ipLocation' = located
      /\ updates' = <<>>
      /\ inProgress' = inProgress \cup new
      /\ asked' = [ip \in Ips |-> asked[ip] + IF ip \in new THEN 1 ELSE 0]
      /\ lookup' = [ip \in Ips |-> IF ip \in new THEN [Idle EXCEPT !.stage = "scan"] ELSE lookup[ip]]
      /\ UNCHANGED cache

\* A message of the stream adds a row, a submission or a click in the menu clears them.
Line(ip) == ip \notin rows /\ Commit(rows \cup {ip})
Leave    == rows # {} /\ Commit({})
Render   == updates # <<>> /\ Commit(rows)

\* Variation: nothing is stored for an address without a location.
AnswerOnlyKnown(ip) ==
  /\ lookup[ip].stage = "done"
  /\ lookup' = [lookup EXCEPT ![ip].stage = "answered"]
  /\ updates' \in {updates, Append(updates, [ip |-> ip, geo |-> <<lookup[ip].asn>>])}
  /\ UNCHANGED <<cache, rows, ipLocation, inProgress, asked>>

\* Variation: the answer clears the mark.
AnswerUnmarks(ip) ==
  /\ lookup[ip].stage = "done"
  /\ lookup' = [lookup EXCEPT ![ip].stage = "answered"]
  /\ updates' = Append(updates, [ip |-> ip, geo |-> <<>>])
  /\ inProgress' = inProgress \ {ip}
  /\ UNCHANGED <<cache, rows, ipLocation, asked>>

\* The answer, with or without a location (country "-").
Answer(ip) ==
  /\ lookup[ip].stage = "done"
  /\ lookup' = [lookup EXCEPT ![ip].stage = "answered"]
  /\ \E geo \in {<<>>, <<lookup[ip].asn>>} : updates' = Append(updates, [ip |-> ip, geo |-> geo])
  /\ UNCHANGED <<cache, rows, ipLocation, inProgress, asked>>

\* The geolocation failed, or the request did: there is no JSON, and the mark in
\* inProgress stays.
Fail(ip) ==
  /\ lookup[ip].stage = "done"
  /\ lookup' = [lookup EXCEPT ![ip].stage = "failed"]
  /\ UNCHANGED <<cache, rows, ipLocation, inProgress, updates, asked>>

-----------------------------------------------------------------------------
\* Ip2Asn in the handler, one entry of the table a step.
Found(ip, asn) == lookup' = [lookup EXCEPT ![ip].stage = "done", ![ip].asn = asn]
Advance(ip, asn) == lookup' = [lookup EXCEPT ![ip].n = @ + 1, ![ip].asn = asn]

Unparsable(ip) == ip = Undefined /\ Found(ip, -1)
Exhausted(ip)  == ip # Undefined /\ lookup[ip].n > Len(cache) /\ Found(ip, lookup[ip].asn)

\* Variation: the first network that covers the address is returned.
EntryFirst(ip, e) ==
  \/ Covers(e, ip) /\ Found(ip, e.Asn)
  \/ ~Covers(e, ip) /\ Advance(ip, lookup[ip].asn)

Entry(ip, e) ==
  \/ Covers(e, ip) /\ Advance(ip, e.Asn)
  \/ e.Start > ip /\ lookup[ip].asn # 0 /\ Found(ip, lookup[ip].asn)
  \/ ~Covers(e, ip) /\ ~(e.Start > ip /\ lookup[ip].asn # 0) /\ Advance(ip, lookup[ip].asn)

Scan(ip) ==
  /\ lookup[ip].stage = "scan"
  /\ \/ Unparsable(ip)
     \/ Exhausted(ip)
     \/ ip # Undefined /\ lookup[ip].n <= Len(cache) /\ Entry(ip, cache[lookup[ip].n])
  /\ UNCHANGED <<cache, rows, ipLocation, inProgress, updates, asked>>

Next ==
  \/ \E ip \in Ips \cup {Star} : Line(ip)
  \/ Leave \/ Render
  \/ \E ip \in Ips : Scan(ip) \/ Answer(ip) \/ Fail(ip)

Spec == Init /\ [][Next]_vars
FairSpec ==
  /\ Spec
  /\ WF_vars(Render)
  /\ \A ip \in Ips : WF_vars(Scan(ip) \/ Answer(ip) \/ Fail(ip))

-----------------------------------------------------------------------------
TypeOK ==
  /\ lookup \in [Ips -> [stage : {"none", "scan", "done", "answered", "failed"},
                         n : 1 .. Len(cache) + 1, asn : Int]]
  /\ rows \subseteq Ips \cup {Star}
  /\ inProgress \subseteq Ips /\ DOMAIN ipLocation \subseteq inProgress
  /\ asked \in [Ips -> Nat]

\* The AS of a network that covers ip, none inside which does.
MostSpecificAsn(ip) ==
  LET covering == {n \in DOMAIN cache : Covers(cache[n], ip)}
      Size(n) == cache[n].End - cache[n].Start
  IN  IF covering = {} THEN {0}
      ELSE {cache[n].Asn : n \in {m \in covering : \A k \in covering : Size(m) <= Size(k)}}

\* However the scans of the addresses are interleaved and however early one stops,
\* the AS it finds is that of a most specific network.
MostSpecific ==
  \A ip \in Addresses :
    lookup[ip].stage \notin {"none", "scan"} => lookup[ip].asn \in MostSpecificAsn(ip)

\* An address is asked for once while the site is open, whether the request
\* succeeds or fails, and no answer is lost: it waits to be rendered or is shown.
AskedOnceKeptForever ==
  \A ip \in Ips :
    /\ asked[ip] = IF ip \in inProgress THEN 1 ELSE 0
    /\ lookup[ip].stage = "answered" =>
         \/ ip \in DOMAIN ipLocation
         \/ \E n \in DOMAIN updates : updates[n].ip = ip

\* A row that stays gets its location, unless the request for it has failed.
AddressSettles ==
  \A ip \in Ips :
    ip \in rows ~> ip \notin rows \/ ip \in DOMAIN ipLocation \/ lookup[ip].stage = "failed"
=============================================================================
