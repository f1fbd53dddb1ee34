# mtr.sb in TLA+

A verification development for [mtr.sb](../src), a looking glass: a web page
asks for a ping, traceroute or mtr from many nodes at once, a Go server relays
the request to every node and streams the answers back as server-sent events.
Nodes are reached in two ways: *workers* are gRPC services named in the server's
configuration, *agents* dial in over a WebSocket.

## 1. The system

| component | state | operations | interacts with |
|---|---|---|---|
| probe handlers (`cmd/server/main.go` 330-964) | `clientChan`, `doneChan`, a wait group and a context per request; one goroutine per node with a `respChan` | version, ping, traceroute, mtr | browser (event stream), agent sessions (`TaskChans`, `WsLock`), workers (gRPC) |
| agent sessions (104-263) | WebSocket, `WsLock`, `TaskChans` under `TaskLock`, read deadline | register, read loop, ping loop, cleanup, `sendTaskToAgent` | agent process, server list |
| server list (73-102, 1032-1105) | `serverList` under `serverListMux` | fill from configuration, reload, add and delete by name, list | handlers, sessions |
| agent process (`cmd/agent/main.go`) | WebSocket, read deadline, one goroutine per task | register, read loop, `handleTask`, interrupt | server, worker package |
| worker package (`pkgs/worker`, `pkgs/ipfilter`) | one subprocess per probe | `Ping`, `Mtr`, `Traceroute`, `Version` | agent process or gRPC server (`cmd/worker`) |
| lookups (`ipHandler`, `whoisHandler`, `pkgs/bgptools`) | routing table read at the start | `Ip2Asn`, `Asn2Name`, whois | libraries, DNS |
| frontend (`frontend/src`) | page state, one `EventSource`, server list and address cache of Root, token and timer of Whois | submit, stop, message, error, render, navigate, `getIP` | `/api/*`, Turnstile |
| protocol (`proto/mtrsb.ts`) | none; a reader's position while it decodes | encode, decode, JSON, the client stub | servers and agents, of this or a later schema |

Hard behaviours: two kinds of locks and three kinds of channels between the
goroutines of a request, the reader and the ping loop of an agent; timeouts
racing answers; a browser that leaves at any time; agents that disconnect,
reconnect under the same name or share one; a configuration reload that takes no
lock; deadlines on both ends of the WebSocket; a concurrent writer in the agent;
parsers of subprocess output; React updates that wait for a render while an event
source goes on, ends or breaks; answers that come out of order; peers of a later schema.
`PROJECT.json` lists each with its line under `hazards`.

What makes each component correct:

- *handlers*: lines in order, none twice, nothing received is lost where nothing
  may be lost, exactly one version line per node, a stream that ends and leaves
  no goroutine and no channel behind;
- *sessions*: one writer at a time, no send on a closed channel, bounded buffers,
  a reader that lives as long as its agent;
- *server list*: every entry has a live handler or is configured, dead agents
  leave, configured nodes stay;
- *agent*: one writer at a time, tasks end; *worker*: no private target is probed,
  no defunct subprocess; *lookups*: the longest prefix wins, a location is asked for
  once and not lost; *frontend*: one open event source, the one of the last
  submission, whose lines are what is shown; buttons that tell the truth and free
  themselves; *protocol*: what is decoded is what was encoded, and nothing else.

## 2. Modules

| module | what it is |
|---|---|
| `TaskRelay` | the request path: handlers, agent sessions, workers and wire as interleaved processes |
| `ProbeStream` | what a probe request promises its browser; `TaskRelay` implements it (`ImplementsPromise`) |
| `TaskRelayProofs` | theorems about `TaskRelay`: types, the map of tasks, losses, version lines, the order of the answers, and that it keeps `ProbeStream`'s promise |
| `KeepAlive` | ping loop and read deadlines of one WebSocket in discrete time |
| `KeepAliveProofs` | theorems about `KeepAlive` |
| `AgentRegistry` | the server list: registration, cleanup by name, reload |
| `AgentRegistryProofs` | theorems about `AgentRegistry` |
| `WorkerProbe` | the probes of one agent or worker: address, filter, subprocess, scanner, and the sends of the agent's tasks on one WebSocket |
| `WorkerProbeProofs` | theorems about `WorkerProbe` |
| `ProbePage` | a page over an event stream (Ping, Traceroute, Mtr, Version): React state, effect, event source |
| `WhoisPage` | the whois page: token, lock, timer, requests |
| `Site` | the frontend: one page at a time under Root, routes, crashes, reload; composes the two |
| `SiteProofs` | theorems about `Site` |
| `GeoLookup` | the location of an address: `Root.getIP`, `ipHandler`, `Ip2Asn` |
| `GeoLookupProofs` | theorems about `GeoLookup`: the scan of `Ip2Asn`, the requests of `getIP` |
| `LeftFold` | what `FoldLeft` computes, for any operator; the proofs about queues of React updates rest on it |
| `Codec` | the messages and functions of `mtrsb.ts` and its client stub |
| `CodecProofs` | theorems about `Codec`: encode and decode, JSON |
| `MCTaskRelay`, `MCKeepAlive`, `MCWorkerProbe`, `MCGeoLookup`, `MCCodec` | definitions the configurations need (symmetry, horizon, inputs, tables, samples) |

### TaskRelay

A task is the goroutine of one request for one node; its id, a UUID in the code,
is the pair of the two. Variables and code:

- `listed`: keys of `serverList`; `link`, `ticker`, `reading`, `hand`: the
  connection of an agent, the ping loop of `agentRegisterHandler`, the goroutine
  `handleAgentMessages` and the message it holds between the lookup of the
  channel and the send, that is under `TaskLock.RLock`.
- `fromAgent`, `atAgent`, `produced`: responses on the wire in order, tasks the
  agent works on, and how many answers each has produced. Answers are numbered;
  what they say is abstracted.
- `kind`, `want`, `client`, `stream`, `ctxDone`, `web`: the request, the browser,
  where the handler is (`resolve` before the fan-out, `check` between two steps of
  `c.Stream`, `select` in its select), the context, the goroutine that pushes the
  server's own version.
- `pc`, `item`: where a task's goroutine is and the line it is pushing;
  `taskChans`, `chan`, `closed`: its entry, the contents of its `respChan`,
  whether it is closed. `out`: the lines the browser has been sent.

`WsLock` is held by whoever is at `writing`, `TaskLock` for reading by a reader
with a message in hand, so neither has a variable of its own. Steps under the
write lock of `TaskLock` or under `serverListMux` are atomic. A push into the
unbuffered `clientChan` is one step with the stream's receive. `StreamDone`
merges `wg.Wait()` and the handover of `doneChan`, which nothing can come
between: no goroutine is left to push. The four handlers differ in few places
(`OneAnswer`: the version goroutine returns after one line, has a `respChan` of
one and makes up `OFFLINE` and `TIMEOUT` lines; its task has no text, so that only a
broken link fails its send, while the targets of the others may also fail to marshal)
and share the other actions;
traceroute and mtr ask one node and look for it before the target is resolved.

### ProbeStream

The same request with nothing but its stream: it opens for some nodes, emits
lines of nodes that were asked, those of a node in increasing order and at most
one where one is owed, completes only when every node that owes a line has shown
it, and ends. The mapping (`Promise`) reads the phase from `stream`, the asked
nodes from the goroutines that were started and the lines from `out`.

### KeepAlive

Time is discrete; `Tick` may not pass a due tick of the ticker, an expired
deadline of a reader in `ReadMessage`, or a frame that has travelled `MaxDelay`.
`conn` is the connection as the server's writes see it: the first write to a
socket the peer has closed still succeeds and provokes the reset (`PingLoopWrite`,
`TaskWrite`). Pings are answered by the library's default handler, and only pong
handlers move deadlines. The assumptions are what the constants of the code
satisfy: a period of 30 s, timeouts of 60 s, frames that take less than 15 s.

### AgentRegistry

A session is one connection to `/api/agent/register` and the handler that serves
it; `serverList` maps a name to a session, to `Grpc` (a configured node) or to
`None`. `Cleanup` deletes the name whoever has it. `Reload` empties the map and
`LoadNode` fills it, interleaved with the handlers because `initServerList` takes
no lock.

### WorkerProbe

`Ping`, `Mtr` and `Traceroute` are one function up to the program they run and the
lines they parse, so a task is one state machine with a `kind`. It runs in a
goroutine of an agent (`handleTask`, stream servers that wrap one
`TaskStreamWriter` each but share its connection) or of a gRPC worker; `program`
says which.

- `pc`, `hand`: where the goroutine is and the message it is sending; `send` is
  before, `writing` inside the write of the transport. `target`: the address it
  chose; `Resolve` is everything from the lookup to the first message.
- `ctx`: the context of the subprocess, from `Background` in an agent (only the
  timer ends it) and from the call in a worker (`Hangup` ends it too); `child`:
  the subprocess, `ended` until `cmd.Wait` reaps it; `answers`, `pipe`: the answers
  it has written, numbered, and the lines not yet read.
- The parsers are abstracted to what they make of a line: an answer (`n > 0`),
  nothing (`Skip`), or an index out of range (`Cut`, which `ping` and `mtr` do not
  survive: `ScanPanics`, nothing recovers it).
- An answer with text that is not UTF-8 (`Odd`; the numbers of a ping are never)
  fails in the marshalling of its send (`ScanOdd`): an agent ignores the error and
  goes on, in a worker gRPC ends the call. `answers` counts the others.
- `sent`: the messages that reached the transport. `hurt`: tasks whose send
  overlapped another's on the agent's connection, or whose call is gone. The
  library forbids concurrent writers and detects some of them: an overlapped
  message may be delivered, lost (`SendEnd`) or end the process (`WriterPanics`).
- `conn`: the agent's WebSocket as the sends see it. It breaks before the read loop
  notices (`Break`), or `main` writes a Close frame, whoever else is writing
  (`Interrupt`), and returns when the read loop has ended or a second later
  (`AgentExit`). In between the tasks go on, and every send is lost. `Dies` is what
  the end of the process does to all of them.

### ProbePage

`page` is the route; `start`, `query`, `data`, `resolved` are the page's state,
`updates` what handlers and cleanups have queued for the next render. `Commit` is a
render with its effect: it applies the queue (`Apply`), and if `start` or the query
has changed, runs the cleanup of the last effect (close its source, queue
`setStart(false)`) and the effect (queue `setData({})`, open a source). `effect` is
the source that the next cleanup closes; `open`, `retrying` what the browser has.
Ping, Traceroute and Mtr differ in the update of a message (`AddRow`, `MtrUpdate`)
and share the rest; Version opens its source when it is entered. `Submit` is Enter
(possible at any time) or the button, `StreamEnd` is `onerror`: the stream is over
and the source closed, or the connection broke and the browser will reconnect
(`Reconnect`). `TableThrows` is Ping's lookup of a node that `serverList` lacks; React
takes the site down. An answer to Root renders the page at once (`ServerList`). `known`
and `asking` are Root's list and its requests under
way: the effect of Root asks after each render while the list is empty, and an
answer may be late, empty or missing. `got`, `asked`, `probes`, `submits`, `requests`,
`revived` only record what happened, for the properties.

What is assumed of React and the browser: the effect of a commit runs with it;
a user event applies everything queued before it; a queued render comes before a
reconnection (milliseconds against seconds). A message, an answer or a timer of a
page that is gone changes nothing.

### WhoisPage and Site

The effect of Whois (`Effect`) runs with every change of what it reads. `Click`
submits and starts the timer of `LockTime` units, `Enter` only submits; `Unlock` is the
timer, `Tick` a unit of time, `Solve` a token, first or renewed, `Answer` any end of a
request. `ran` is how long the timer has run, `since` the time since the last request,
`sentAt` and `borrowed` the unlocks before it and whether a timer ran already. `locked`
records that Enter was pressed without a timer, after which nothing unlocks the page. `Site`
puts Root over the pages: `Navigate` unmounts one page and mounts the next, `Reload`
follows a crash.

### GeoLookup

`rows` is what the page on the screen calls `getIP` with in its render; `ipLocation`,
`inProgress` and `updates` are Root's state, its ref and the calls of
`setIpLocation` that wait. `Commit` is a render: it applies the queue and asks for
what is neither located nor in progress. `lookup` follows a request: its scan of
`cache` one entry a step (`Scan`: covered, later than the address with an AS found, or
neither), then `Answer`, with or without a location, or `Fail`, which leaves the mark.
The table holds the networks in order, one inside another or apart (`Nested`),
which is how CIDR blocks lie and what `Ip2Asn` relies on; `Parse` is the conversion
of a line. IPv4 and IPv6 have a loop each, the same one.

### Codec

The generated code repeats seven functions for each of 22 message types; they
differ only in the fields, so a type is a table of fields (`Schema`) and each function
is written once. The functions of a type call those of the types nested in it; types
nest three deep (`TaskResponse`, `PingResponse`, `PingReply`), so a function is
defined for the innermost (`encode1`) and from there upwards (`encode2`, `encode`), each
by one definition with the level below as a parameter (`encodeOver`). A message on the
wire is a sequence of cells: a tag, a value, and
how many cells of content follow. `decode` is a state machine: `stack` has a frame for
each nested call with the position where it ends, and a turn of the loop reads a
scalar, enters a nested message, skips what it does not know or returns. `Additions`
is what a peer of a later schema writes that this one lacks, or has with another
type. No program of the repository calls these functions yet: the frontend imports
types only, and what server and agent exchange is coded by the Go runtime from the same
schema. The module says that the generated TypeScript may be used, not that it is.

### How the modules fit together

`TaskRelay` sees of a probe that it produces numbered answers in order and ends
(`AgentReply`, `Recv`, `RecvEnd`): `WellFormedConversation` and `ProbeReturns` are
that promise on the other side of the wire. It sees of an agent's session that the
reader lives while the agent does: `RunningAgentIsHeard`. And `AgentRegistry`
details what it keeps in `listed`. `ProbeStream` is also what `ProbePage` knows of a
stream: its lines, some dropped, and that it ends. The rows of a page are the `rows`
of `GeoLookup`; the two are not composed, since a location changes nothing that
`ProbePage` keeps.

## 3. Runs

Run with `tlc -config <cfg> <module>`.

| run | module | shows |
|---|---|---|
| `relay` | `MCTaskRelay` | one browser, one agent, one worker, all endpoints, a `respChan` of 1 and two answers per task so that it overflows: types and capacity, `InOrder`, `VersionAnswersEveryNode`, `WorkerLinesLossless`; under fairness `EntriesReaped` and the refinement `ImplementsPromise`, which includes that the stream ends |
| `contention` | `MCTaskRelay` | two requests on one agent: `NoSendOnClosed`, `OneWriterPerConn`, `EndedMeansDrained` |
| `timeout` | `MCTaskRelay` | `TimeoutEndsTasks` fails: a push has no `ctx.Done()` branch |
| `web` | `MCTaskRelay` | `WebVersionShown` fails: the goroutine is outside the wait group |
| `keepalive` | `MCKeepAlive` | `RunningAgentIsHeard` over five pings, `DelistedInTime` after an exit, an interrupt or the deadline of the agent, with or without a task written meanwhile |
| `keptalive` | `MCKeepAlive` | `KeptAlive` fails with the code's deadlines: no pong ever reaches the agent |
| `registry` | `AgentRegistry` | `ListedHandlerAlive`, `ConfiguredNodesListed`, `ListIsExact`, `DeadAgentDelisted` |
| `reload` | `AgentRegistry` | `ReloadKeepsAgents` fails: the map is replaced |
| `probe` | `MCWorkerProbe` | two tasks of an agent or two calls to a worker: `OnlyPublicTargets`, `NoDefunct`, `AnswersAccountedFor` (also on a connection that breaks or is closed under the tasks), `WellFormedConversation`; under fairness `ProbeReturns`: a probe ends by its own timer, whatever the subprocess does |
| `codec` | `MCCodec` | `ReaderInStep`: no decode leaves its message, so a nested one ends where its caller goes on; `Preserved`: decode returns what was encoded; `JsonKeeps`: a message survives JSON |
| `site` | `Site` | `OneOpenSource`, `ButtonTruth`, `ShowsOneSession`, `OneRequestPerSubmit`, `LossBounds`, `RequestsTenSecondsApart`; under fairness `StreamFreesButton`, `LockEnds` |
| `geo` | `MCGeoLookup` | `MostSpecific`: the AS of an address is that of the longest prefix; `AskedOnceKeptForever`, and under fairness `AddressSettles` |

*Bounds.* One request against one agent and one worker already has every race
between a goroutine, the reader, the ping loop, the stream and the context; a
second request adds contention for the two locks of the agent and for its map,
which `contention` has. No code treats more requests or nodes than that
differently. `ChanCap` 1 (100 in the code) and `MaxReplies` 2 make the channel
fill; the theorems hold for all values. Three sessions on two names have an entry
overwritten while its first owner still runs and a third session with a name of
its own; one reload can hit every state of them, and a second starts from a state
the first can produce. `KeepAlive` has a unit of 10 s, so a ping every 3, a
deadline of 6 and frames of at most 1; the session of `keepalive` lasts 15 (an
agent more patient than the code's, to see the deadline move several times) and
the horizon leaves time for the delisting. `probe` has two tasks, since an overlap
needs two, and inputs that reach every outcome of the address choice (a
private address before and behind a public one, a missing family, a protocol
that is none), on an agent in every pair of different ones; the calls of a worker, which
share nothing but the process, are paired with a version. One answer per subprocess is
enough to lose one; that none is lost before one that arrives needs two, and is what
`NoAnswerLost` proves for any number. `codec` has a sample
of every type with each field at its default and at another value, every member of a
oneof (empty ones too), an enumeration number of a later schema and a number that is
no single; later fields stand first and look like this schema's fields, where a
wrong skip shows. Streams of a single answer suffice, as calls of decode share nothing.
`site` has two submissions and two messages per source: the second session's rows
can be mixed with the first's, a row be appended to, a hop lose one line of two; the
site is navigated without bound, and the counters start again with each page. The ten
seconds of the whois page are two units, so that a request can fall between the start of
a timer and its end. Of two nodes one is never in the server list. `geo` scans every
ordered table of up to four
of the seven networks of a space of four addresses, several ASes for one network
included, for an address that is the end of one network and the start of another.

*Fairness.* `FairSpec` of `TaskRelay` assumes that the Go scheduler runs a
goroutine that can run (WF), that its mutexes, which hand over to a waiter that
has starved for 1 ms, are acquired by a waiter in the end (SF on the steps that
lock), that timers fire, that a write to a socket returns and that a gRPC call
ends with its context. Nothing is assumed of the agent, the worker before the
timeout, or the browser. The stream's select is fair as a whole (`StreamSelect`):
one ready case is taken, not each. `FairSpec` of `AgentRegistry` assumes that a
ping on a broken connection fails in the end and that handlers and the loading
loop make progress. `FairSpec` of `WorkerProbe` assumes that goroutines run, writes
return, and the timer fires and the kill that follows it works (one condition, since
the first enables the second); a subprocess need not write or exit by itself. `FairSpec`
of `Site` assumes that React renders what is queued,
that the server ends every stream (`ImplementsPromise`, of which `relay` is the check)
and that on the whois page time passes and the timer fires; not that a connection
breaks, that a user
does anything or that a token is renewed. `FairSpec` of `GeoLookup` assumes that React
renders, a scan goes on, and a request is answered or fails.

*Deadlock* is checked in every run; `Quiescent` and `Over` are the states in which
the relay, the registry and the probes may rest.

## 4. Proofs

`tlapm TaskRelayProofs.tla` (and likewise the other proof modules) checks the
theorems for every value of the constants that satisfies the assumptions, which
are only that the capacities are positive, that the node sets are disjoint, that
the entries of the map are distinguishable, the margins of `KeepAlive`, that
`NoQuery` and `NoWhois` are no queries, and that the bounds of the pages are
natural numbers (`BoundAssumption`, `WhoisAssumption`; one request for the server
list must fit in `MaxAsking`, as Root makes one when it mounts). `Codec` assumes of
what a later schema adds that it is whole fields, whose lengths are those of their
content, and that none has the number and the wire type of a field of this schema
(`AdditionsAssumption`): protobuf's rule that a number is not used again with another
meaning; and of a partial object that its enumerations are numbers
(`SamplesAssumption`), as `DeepPartial` requires in TypeScript.

Every safety property of a passing run is the conclusion of a theorem.

**The relay** (`TaskRelayProofs`)

- `TypeCorrect`: `TypeOK` is inductive as it stands.
- `EntriesCorrect`: `EntriesInv` ties the program counter of a task to its entry
  and its channel: the entry exists exactly from `send` to `unregister`, the
  channel is closed only once the goroutine has left, a message in a reader's hand
  belongs to an entry, a task at a lock's critical section excludes the others,
  and a stream that has ended has only finished tasks. `NoSendOnClosed`,
  `OneWriterPerConn` and `EndedMeansDrained` are its consequences: none of them is
  inductive without the others, since deleting the entry under the write lock is
  what makes the later close safe.
- `NoWorkerLineLost`: every number up to `produced` of a worker's task is in the
  stream or is the line being pushed. A push needs a stream in its select, so the
  invariant survives the end of the stream.
- `VersionAnswered`: `VersionInv` counts a node's lines by where its goroutine is:
  none before the push, exactly one after it.
- `AnswersInOrder`: an answer passes five places: the wire, the reader's hand,
  `respChan`, the line being pushed, the stream. `OrderInv` says that every number in
  one place is below those in the places behind it (`Chain`), that numbers rise
  within a place, and that none is above `produced`. Each step moves a number to
  the next place or drops it (`ChainReceives`, `ChainQueues`, ...), which is why
  a full channel and a broken connection lose answers but never reorder them. For the
  goroutines that answer once, `VersionInv` does it.
- `RelayKeepsPromise`: `TaskRelay` implements the safety half of `ProbeStream`: the
  initial states map to its initial state (`PromiseInit`), and every step, of any
  goroutine, is one of its steps or a stutter (`PromiseStep`). It needs all the
  invariants above: the order, so that a line may be emitted; the version count, so that
  a stream completes only when each node that owes a line has shown it; the
  entries, so that no line follows the end.

**A session, the list, a probe** (`KeepAliveProofs`, `AgentRegistryProofs`,
`WorkerProbeProofs`)

- `SessionCorrect`: while the agent runs, its last ping has been answered (the
  deadline is a full timeout after it), or is on its way, or its pong is; a round
  trip is over before the next tick (`InTime`), so the deadline is always ahead.
  After the exit the invariant bounds the next tick by the state of the
  connection: one write may still succeed, the next fails. `AgentHeard` and
  `DeadDelisted` follow. The margins are assumptions, not numbers.
- `RegistryCorrect`: the three list properties together with "nothing is loading
  before a reload" are inductive relative to the types. `NoDeadEntry` holds although
  cleanup goes by name because a registration always overwrites: an entry is
  its last registrant's.
- `ProbesCorrect`: `ProbeInv` says that a subprocess exists exactly while its
  goroutine scans, sends a line or waits, and that a goroutine that may start one, or
  still has its `lookup` message in hand, has checked its target. Each step
  changes one task (`AloneSuffices`). `PublicTargets` needs that the address chosen
  is the first that fits (`TargetFits`), for name lists of any length, which rests
  on the least-number principle (`LeastNumber`), derived from the library's
  well-foundedness of `<`. `ChildrenReaped` is the other consequence.
- `ConversationsWellFormed`: `ConvInv` says what a goroutine has sent by where it is,
  with the message in its hand: the numbers sent rise and are below the one in
  hand, which is below those in the pipe. A send that overlaps another's delivers its
  own message or loses it, so what is delivered keeps its order.
- `NoAnswerLost`: while the process runs, every answer of an undisturbed task has been
  sent, is in hand or in the pipe, or was lost on a connection that is not up, and then
  nothing behind it was sent. The order of a conversation (`ConvInv`) makes the last part
  inductive: what is in hand is above everything sent, and after a loss nothing is.

**The lookups** (`GeoLookupProofs`)

- `MostSpecificAlways`: a scan that has read `m` entries holds the AS of the last of
  them that covers its address (`LastCovering`). In a table in order the last network
  that covers an address lies inside the others (`LastIsMostSpecific`), and behind an
  entry that starts after the address none covers it, so stopping early loses nothing
  (`EntryKeeps`). The table is any that satisfies `TableAssumption`.
- `AskedOnceAlways`: `KeptInv` says that an address in progress has been asked for
  once, and that once it is answered its location is in the state or queued. A
  render locates exactly the addresses that were located or queued
  (`RenderedAddresses`), because `setIpLocation` takes the previous state and not the
  one its callback closed over. `GeoWellTyped` is the type invariant.

**The frontend** (`SiteProofs`). The properties of a page are about what a render shows,
and between two renders handlers queue updates. `Pending` is the page once everything
that is queued is rendered: the queue folded over the state. A message appends one
update, so it changes `Pending` by that update alone (`OneMoreQueued`), and a commit
without a new effect makes `Pending` what is shown and changes nothing else. Of
`PageIInv`:

- `SourceInv`: sources are numbered, the effect's is the last and only that one is
  open: every commit that opens one closes the last effect's, and leaving a page,
  by the menu or by a crash, closes it too: `OneOpenSourceAlways`.
- `PageInv`, `QueueInv`: the effect has a source exactly while there is something to
  ask for, and if it is closed then a stop is queued; no submission waits in the
  queue, so the pending `start` is `start` unless a stop is queued:
  `ButtonTruthAlways`.
- `RequestInv`: requests never exceed submissions, and leave room for the one that a
  broken source would make by reconnecting, unless the stop that closes it is
  already queued: `OneRequestAlways`.
- `RowsInv`: the pending rows are complete (`Complete`): of a ping or a traceroute
  they hold each delivered message of their node once, in order, with the number of
  the last source, and of a version page the last one: `ShowsOneSessionAlways`. What
  is on the screen while updates are queued is bounded by it, and so nothing of an
  earlier session comes back after the `setData({})` of a new effect.
- `LossInv`: the counters of a pending hop are those of the lines delivered for it,
  and of one more if the line that made the row answered a probe whose own line was
  lost (`Counts`): `LossBoundsAlways`.
- `RequestsTenSecondsApartAlways`: a request is never sent before the timer has fired
  since the last one (`unlocks > sentAt`), because only `Unlock` clears `isProcessing`;
  and ten seconds after the last one, because of the invariant that its timer has not run
  longer than `since`. The exception is in the code: the timer belongs to the
  click, so a request that Enter sends while the timer of a click without a target runs
  (`borrowed`) is unlocked with that click, and the next may follow it at once.
- `SiteWellTyped`: the types of the page, of Root's list and of the whois page.

**The protocol** (`CodecProofs`). The encoder is a fold over the fields of a type and
the decoder a loop with a stack of calls; neither is an inverse of the other by its
form. Between them is a `Layout`: offsets between which the bytes hold each field of a
message, the content of a nested one laid out in the same way.

- `encode` writes a layout (`OutLaid`, then one level after another up to `Encoded3`),
  behind the additions of a later schema if they belong to the type.
- `DecodeInv`: every frame of the stack is at a place between two fields of the layout
  of its message, or within the additions, and has taken exactly the fields before
  that place (`Read`); the frame above it is the nested message of its next field.
  `Skip` meets only additions: a field of this schema is `Expected` where the layout
  has one, and an unknown one is passed over with its content, for its lengths are
  those of its content. A nested call ends at the offset where its caller goes on, so
  `Return` takes the caller to the next place. `ReaderInStepAlways` and
  `CodecWellTyped` follow; `PreservedAlways` is the state of the outermost frame at
  its last place.
- `JsonKeepsAlways`: what is sent has numbers as enumerations at every depth, and what
  is received, or still being decoded, has one value in each nested field that is set
  (`JsonInv`); `Preserved` carries the numbers from the one to the other. `fromJSON`
  after `toJSON` is then the identity on each field that is recognised, and keeps
  `UNRECOGNIZED` where an enumeration is not; a field at its default is absent in
  between and comes back as the default.

**Folds** (`LeftFold`). `FoldLeft` of the community modules is defined through a
function that is chosen by its recursion. `FoldSteps` shows that one exists, by the
least number for which it does not, and with it `FoldNothing` and `FoldOneMore`: a fold
of nothing is its base, of a queue with one more update that update applied to
the fold of the rest. `SiteProofs` and `GeoLookupProofs` instantiate the module with
their update; what a queue of any length does then follows step by step.

**Only model-checked.** Liveness under fairness, which the prover cannot reason about:
`EntriesReaped`, `DeadAgentDelisted`, `ProbeReturns`, `StreamFreesButton`, `LockEnds`,
`AddressSettles`, and the part of `ImplementsPromise` that says that a stream ends.

## 5. Not modelled

- A host that disappears without a word, to which writes go on succeeding until TCP gives
  up: `KeepAlive` has ends that the other side's kernel answers with a reset, and
  `DelistedInTime` is about those.
- A peer that stops reading without closing blocks `WriteMessage` (there is no
  write deadline) with `WsLock` held: the models assume that a write returns.
- A concurrent access to the Go map `serverList` ends the process;
  `log.Fatalf` on a bad certificate does. The models assume that neither happens.
- The configuration is constant in `TaskRelay`, sessions join once: the server
  list is `AgentRegistry`'s subject. A node that comes back is a new node there.
- What an answer says, and which texts parse to one; which addresses are private is
  a parameter. The statistics of a row, the geolocation library, the names of ASes,
  the checks of a whois query and its token, the rate limiter, start-up code, the
  generated Go code and layout.
- Bytes that no encoder writes (a tag of 0, an end of group, a length past the end),
  and a oneof with two members: no program here builds one.
- Pages opened by a link with a query in it, which only fills the form, and the second
  mount of React's StrictMode, which production builds leave out.
- Late answers: a whois answer that comes after the next submission replaces its
  output (`Answer` has the step); no property claims otherwise. While no node is
  listed Root asks for the list again and again; that this ends is up to the nodes.

## 6. Plan

Done: the modules of section 2 and their proofs as listed. Next, in this order:

1. A stalled write in `TaskRelay`: a peer that stops reading with `WsLock` held.
2. The composition of the registry with the relay: a task in flight while its
   agent is replaced or reloaded away, and the theorems about it.
3. The guards of `whoisHandler`, the rate limiter as the handlers use it.
