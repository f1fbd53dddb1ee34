------------------------------ MODULE ProbePage ------------------------------
(***************************************************************************)
(* A page that shows an event stream: Ping, Traceroute, Mtr and Version.   *)
(* Its state is React's: handlers of the event source and cleanups of the  *)
(* effect only queue updates, which a later render applies; a handler of a *)
(* user event applies what is queued and its own updates at once. The      *)
(* effect of a commit runs with it, before another event of the page.      *)
(***************************************************************************)
EXTENDS Integers, Sequences, FiniteSets, SequencesExt

CONSTANTS
  Nodes,       \* names under which nodes answer
  Queries,     \* what a user can ask for: node, target, protocol, remote DNS
  NoQuery,     \* a submission whose target is empty
  Hops,        \* positions of an Mtr table
  MaxSubmits,  \* bound: submissions of a visit
  MaxLines,    \* bound: messages of one event source
  MaxQueue,    \* bound: updates the browser leaves queued
  Lists,       \* the server lists that /api/servers may answer with
  MaxAsking    \* bound: requests for it under way

ASSUME QueryAssumption == NoQuery \notin Queries
ASSUME ListAssumption == Lists \subseteq SUBSET Nodes
ASSUME BoundAssumption == MaxLines \in Nat /\ MaxAsking \in Nat \ {0}

VARIABLES
  page,      \* StreamPages, "none" on other routes, "error" when the site has crashed
  start,     \* start; of Version, that it has not ended (initEd)
  query,     \* target, node, protocol and rd
  data,      \* rows by key: the node, "hops" of a traceroute, the position
  resolved,  \* source whose lookup resolvedIP comes from, 0 for "N/A"
  updates,   \* updates queued for the next render
  effect,    \* event source the cleanup of the current effect will close, or 0
  opened,    \* event sources created since, and so the number of the last
  open,      \* event sources that are not closed
  retrying,  \* those that lost their connection and will reconnect
  asked,     \* query of the last event source
  got,       \* messages the last event source has delivered
  probes,    \* for the node of an mtr: what it sent and what of it was lost
  known,     \* nodes of Root's serverList
  asking,    \* requests for it without an answer
  submits,   \* submissions since the page was entered
  requests,  \* requests for an event stream that reached the server
  revived    \* a submission was applied together with the end of its stream

stateVars  == <<start, query, data, resolved, updates>>
sourceVars == <<effect, opened, open, retrying, asked, got, probes>>
listVars   == <<known, asking>>
countVars  == <<submits, requests, revived>>
probeVars  == <<page, stateVars, sourceVars, listVars, countVars>>

ProbePages  == {"ping", "traceroute", "mtr"}
StreamPages == ProbePages \cup {"version"}
NoRows   == [k \in {} |-> <<>>]
NoProbes == [h \in Hops |-> [tx |-> 0, rx |-> 0, noTx |-> 0, noRx |-> 0]]

Stop  == [what |-> "stop"]
Clear == [what |-> "clear"]

-----------------------------------------------------------------------------
\* The functional updates of the message handlers.
Hop(host, counter, rtt) == [host |-> host, counter |-> counter, rtt |-> rtt]

\* {...d, [k]: row}
Put(d, k, row) == [x \in DOMAIN d \cup {k} |-> IF x = k THEN row ELSE d[x]]

AddRow(d, k, row) == Put(d, k, Append(IF k \in DOMAIN d THEN d[k] ELSE <<>>, row))

\* Variation: a host line starts its row afresh.
MtrUpdateRestarts(d, k, type) ==
  IF type = "host" THEN Put(d, k, Hop("ip", 0, 0))
  ELSE LET row == IF k \in DOMAIN d THEN d[k] ELSE Hop("*", IF type = "ping" THEN 1 ELSE 0, 0)
       IN  Put(d, k, [row EXCEPT !.counter = @ + IF type = "transmit" THEN 1 ELSE 0,
                                 !.rtt = @ + IF type = "ping" THEN 1 ELSE 0])

MtrUpdate(d, k, type) ==
  CASE type = "transmit" -> IF k \in DOMAIN d THEN [d EXCEPT ![k].counter = @ + 1]
                            ELSE Put(d, k, Hop("*", 1, 0))
    [] type = "host"     -> IF k \in DOMAIN d THEN [d EXCEPT ![k].host = "ip"]
                            ELSE Put(d, k, Hop("ip", 0, 0))
    [] type = "ping"     -> IF k \in DOMAIN d THEN [d EXCEPT ![k].rtt = @ + 1]
                            ELSE Put(d, k, Hop("*", 1, 1))

\* u.type tells the handlers of the pages apart: Version keeps the last row of a
\* node, Ping and Traceroute add one.
LineUpdate(d, u) ==
  CASE u.type = "last" -> Put(d, u.key, <<u.row>>)
    [] u.type = "row"  -> AddRow(d, u.key, u.row)
    [] OTHER           -> MtrUpdate(d, u.key, u.type)

\* Ping has no resolved address to reset: there it is always 0.
Apply(s, u) ==
  CASE u.what = "stop"     -> [s EXCEPT !.start = FALSE]
    [] u.what = "clear"    -> [s EXCEPT !.data = NoRows]
    [] u.what = "submit"   -> [s EXCEPT !.start = TRUE, !.query = u.query, !.resolved = 0]
    [] u.what = "resolved" -> [s EXCEPT !.resolved = u.source]
    [] u.what = "line"     -> [s EXCEPT !.data = LineUpdate(@, u)]

-----------------------------------------------------------------------------
\* The effect, whose dependencies are start and the query.

\* What its cleanup and its next run queue.
\* Variation: the rows of the last session are kept.
EffectUpdatesKeep(runs) ==
  IF page # "version" /\ effect # 0 THEN <<Stop>> ELSE <<>>

EffectUpdates(runs) ==
  IF page = "version" THEN <<>>
  ELSE (IF effect # 0 THEN <<Stop>> ELSE <<>>) \o (IF runs THEN <<Clear>> ELSE <<>>)

\* Variation: there is no cleanup.
EffectSourcesLeak(runs) ==
  /\ opened' = opened + IF runs THEN 1 ELSE 0
  /\ open' = open \cup IF runs THEN {opened + 1} ELSE {}
  /\ retrying' = retrying
  /\ effect' = IF runs THEN opened + 1 ELSE 0
  /\ requests' = requests + IF runs THEN 1 ELSE 0

\* sse.close() of the last run, new EventSource of this one.
EffectSources(runs) ==
  /\ opened' = opened + IF runs THEN 1 ELSE 0
  /\ open' = (open \ {effect}) \cup IF runs THEN {opened + 1} ELSE {}
  /\ retrying' = retrying \ {effect}
  /\ effect' = IF runs THEN opened + 1 ELSE 0
  /\ requests' = requests + IF runs THEN 1 ELSE 0

\* The Ping table looks up every node with more than one message in serverList.
TableThrows(d, list) == page = "ping" /\ \E n \in DOMAIN d : Len(d[n]) > 1 /\ n \notin list

\* The page that was there is gone, its effect cleaned up, its queued updates
\* void; that of to starts afresh, and its sources are counted from 1 again.
\* Version asks at once, the others wait for a submission.
GoTo(to) ==
  LET n == IF to = "version" THEN 1 ELSE 0
  IN  /\ page' = to
      /\ start' = (to = "version")
      /\ query' = NoQuery /\ data' = NoRows /\ resolved' = 0 /\ updates' = <<>>
      /\ asked' = NoQuery /\ got' = <<>> /\ probes' = NoProbes /\ revived' = FALSE
      /\ open' = (open \ {effect}) \cup 1 .. n
      /\ retrying' = retrying \ {effect}
      /\ effect' = n /\ opened' = n
      /\ submits' = n /\ requests' = n

\* React renders with the given updates applied, n submissions among them, and
\* with the given serverList, and commits. An error that the render throws takes the whole site to the router's
\* error page.
Commit(us, n, list) ==
  LET s == FoldLeft(Apply, [start |-> start, query |-> query, data |-> data, resolved |-> resolved], us)
      changed == s.start # start \/ s.query # query
      runs == s.start /\ (s.query # NoQuery \/ page = "version")
  IN  IF TableThrows(s.data, list) THEN GoTo("error")
      ELSE /\ submits' = submits + n
           /\ start' = s.start /\ query' = s.query /\ data' = s.data /\ resolved' = s.resolved
           /\ IF changed
              THEN /\ updates' = EffectUpdates(runs)
                   /\ EffectSources(runs)
                   /\ asked' = IF runs THEN s.query ELSE asked
                   /\ got' = IF runs THEN <<>> ELSE got
                   /\ probes' = IF runs THEN NoProbes ELSE probes
                   /\ revived' = FALSE
              ELSE /\ updates' = <<>>
                   /\ revived' = (s.start /\ (revived \/ Contains(us, Stop)))
                   /\ UNCHANGED <<sourceVars, requests>>
           /\ UNCHANGED page

-----------------------------------------------------------------------------
Init ==
  /\ page = "none" /\ known = {} /\ asking = 1
  /\ start = FALSE /\ query = NoQuery /\ data = NoRows /\ resolved = 0 /\ updates = <<>>
  /\ effect = 0 /\ opened = 0 /\ open = {} /\ retrying = {}
  /\ asked = NoQuery /\ got = <<>> /\ probes = NoProbes
  /\ submits = 0 /\ requests = 0 /\ revived = FALSE

\* Enter in the target field, at any time, or the Start button, disabled while start.
Submit(q) ==
  /\ page \in ProbePages
  /\ submits < MaxSubmits
  /\ Commit(Append(updates, [what |-> "submit", query |-> q]), 1, known)
  /\ UNCHANGED listVars

StopClick ==
  /\ page \in ProbePages
  /\ start
  /\ Commit(Append(updates, Stop), 0, known)
  /\ UNCHANGED listVars

Render ==
  /\ updates # <<>>
  /\ Commit(updates, 0, known)
  /\ UNCHANGED listVars

\* onmessage of source e, whose closure belongs to the effect that made it.
Deliver(e, u) ==
  /\ Len(updates) < MaxQueue
  /\ updates' = Append(updates, u)
  /\ UNCHANGED <<page, start, query, data, resolved, effect, opened, open, retrying, asked,
                 listVars, countVars>>

Message(e) ==
  /\ e \in open \ retrying
  /\ Len(got) < MaxLines
  /\ \E k \in (IF page = "traceroute" THEN {"hops"} ELSE Nodes) :
       /\ page # "mtr"
       /\ got' = IF e = opened THEN Append(got, k) ELSE got
       /\ Deliver(e, [what |-> "line", key |-> k, type |-> IF page = "version" THEN "last" ELSE "row",
                      row |-> <<e, IF e = opened THEN Len(got) + 1 ELSE 0>>])
  /\ UNCHANGED probes

\* A line of mtr, which may be lost on its way: respChan of the server drops
\* what it has no room for.
MtrLine(e) ==
  /\ page = "mtr"
  /\ e \in open \ retrying
  /\ \E k \in Hops, type \in {"transmit", "host", "ping"}, lost \in BOOLEAN :
       LET p == probes[k] IN
       /\ type = "transmit" => p.tx < MaxLines
       /\ type = "host" => p.tx > 0 /\ ~lost
       /\ type = "ping" => p.rx < p.tx
       /\ lost \/ Len(got) < MaxLines
       /\ probes' = [probes EXCEPT ![k] =
            [tx   |-> p.tx + IF type = "transmit" THEN 1 ELSE 0,
             rx   |-> p.rx + IF type = "ping" THEN 1 ELSE 0,
             noTx |-> p.noTx + IF lost /\ type = "transmit" THEN 1 ELSE 0,
             noRx |-> p.noRx + IF lost /\ type = "ping" THEN 1 ELSE 0]]
       /\ IF lost THEN UNCHANGED <<page, stateVars, effect, opened, open, retrying, asked, got,
                                   listVars, countVars>>
          ELSE /\ got' = Append(got, k)
               /\ Deliver(e, [what |-> "line", key |-> k, type |-> type, row |-> <<e, 0>>])

\* The lookup that precedes the lines of a traceroute and of an mtr.
Lookup(e) ==
  /\ page \in {"traceroute", "mtr"}
  /\ e \in open \ retrying
  /\ got = <<>>
  /\ Deliver(e, [what |-> "resolved", source |-> e])
  /\ UNCHANGED <<got, probes>>

\* Variation: onerror leaves the source to its retries.
StreamEndRetries(e) ==
  /\ e \in open \ retrying
  /\ retrying' = retrying \cup {e}
  /\ UNCHANGED <<page, stateVars, effect, opened, open, asked, got, probes, listVars, countVars>>

\* onerror: the server ended the stream or refused the request, which closes the
\* source for good, or the connection broke.
StreamEnd(e) ==
  /\ e \in open \ retrying
  /\ updates' = Append(updates, Stop)
  /\ \/ retrying' = retrying \cup {e} /\ UNCHANGED open
     \/ open' = open \ {e} /\ UNCHANGED retrying
  /\ UNCHANGED <<page, start, query, data, resolved, effect, opened, asked, got, probes,
                 listVars, countVars>>

\* Browsers wait for seconds before they reconnect, a queued render takes
\* milliseconds.
Reconnect(e) ==
  /\ e \in retrying
  /\ updates = <<>>
  /\ requests <= MaxSubmits
  /\ retrying' = retrying \ {e}
  /\ requests' = requests + 1
  /\ UNCHANGED <<page, stateVars, effect, opened, open, asked, got, probes, listVars, submits, revived>>

\* The effect of Root, after each of its renders: ask while the list is empty.
Ask(list, n) == asking' = IF list = {} /\ n < MaxAsking THEN n + 1 ELSE n

\* An answer, in any order, which renders Root and, as the value of its context is
\* new, the page. Or there is none: the request failed and nothing renders.
ServerList ==
  /\ asking > 0 /\ page # "error"
  /\ \/ \E list \in Lists :
          /\ known' = list
          /\ Commit(updates, 0, list)
          /\ IF page' = "error" THEN asking' = asking - 1 ELSE Ask(list, asking - 1)
     \/ /\ known' = known /\ asking' = asking - 1
        /\ UNCHANGED <<page, stateVars, sourceVars, countVars>>

Event == \E e \in open : Message(e) \/ MtrLine(e) \/ Lookup(e) \/ StreamEnd(e) \/ Reconnect(e)
ProbeNext ==
  \/ \E q \in Queries \cup {NoQuery} : Submit(q)
  \/ StopClick \/ Render \/ Event \/ ServerList

\* Browser and React render what is queued; the server ends every stream (the
\* promise of ProbeStream), the version page's too.
ProbeFairness ==
  /\ WF_probeVars(Render)
  /\ WF_probeVars(\E e \in open : StreamEnd(e))

-----------------------------------------------------------------------------
ProbeTypeOK ==
  /\ page \in StreamPages \cup {"none", "error"}
  /\ start \in BOOLEAN /\ revived \in BOOLEAN
  /\ query \in Queries \cup {NoQuery} /\ asked \in Queries \cup {NoQuery}
  /\ DOMAIN data \subseteq Nodes \cup Hops \cup {"hops"}
  /\ effect \in {0, opened} /\ resolved \in 0 .. opened
  /\ retrying \subseteq open /\ open \subseteq 1 .. opened
  /\ Len(got) <= MaxLines
  /\ known \in Lists \cup {{}} /\ asking \in 0 .. MaxAsking

Rendered == page \in StreamPages /\ updates = <<>>

\* However submissions, stops, errors, navigation and crashes follow each other,
\* the only event source that is not closed is the one the effect will close.
OneOpenSource == open \subseteq {effect} \ {0}

\* Once everything is rendered, the buttons tell the truth: a source is open only
\* while Start is disabled, and for the query shown; Start is disabled only while
\* one is open, save for an empty target and for a submission that was applied
\* together with the end of its own stream.
ButtonTruth ==
  Rendered =>
    /\ open # {} => start /\ (page \in ProbePages => query = asked /\ asked # NoQuery)
    /\ start /\ query # NoQuery /\ ~revived => open # {}

\* The messages of the last event source for key k: rows has one row for each of
\* them, in their order.
Delivered(k) == {n \in DOMAIN got : got[n] = k}
RowsInOrder(rows, k) ==
  /\ ToSet(rows) = {<<opened, n>> : n \in Delivered(k)}
  /\ \A i, j \in DOMAIN rows : i < j => rows[i][2] < rows[j][2]

\* What is shown is exactly what the last event source delivered, each row in
\* order and once, of Version the last row of a node, and the resolved address is
\* of no earlier source.
ShowsOneSession ==
  Rendered =>
    /\ DOMAIN data = ToSet(got)
    /\ page \in {"ping", "traceroute"} => \A k \in DOMAIN data : RowsInOrder(data[k], k)
    /\ page = "version" => \A k \in DOMAIN data :
         \E n \in Delivered(k) : data[k] = << <<opened, n>> >> /\ \A m \in Delivered(k) : m <= n
    /\ resolved \in {0, opened}

\* The server is asked once per submission at most: an event source does not
\* reconnect on its own, which would run every probe again.
OneRequestPerSubmit == requests <= submits

\* The loss an Mtr row shows is off from the probes that are unanswered by no
\* more than the lines that were lost on the way; it is negative only then.
LossBounds ==
  Rendered /\ page = "mtr" =>
    \A h \in DOMAIN data :
      LET loss == data[h].counter - data[h].rtt
          p == probes[h]
      IN  /\ loss >= p.tx - p.rx - p.noTx
          /\ loss <= p.tx - p.rx + p.noRx

\* When its stream is over the page takes a submission again by itself.
StreamFreesButton ==
  page \in ProbePages /\ start /\ query # NoQuery ~> page \notin ProbePages \/ ~start \/ revived
=============================================================================
