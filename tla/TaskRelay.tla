------------------------------ MODULE TaskRelay ------------------------------
(***************************************************************************)
(* The request path of the web server: a browser asks for a version, ping, *)
(* traceroute or mtr; the handler starts one goroutine per node, each      *)
(* goroutine obtains its node's answers, over the WebSocket of an agent or *)
(* over a gRPC call to a worker, and passes them through the unbuffered    *)
(* clientChan to the one loop that writes the event stream.                *)
(*                                                                         *)
(* A task is the goroutine of one request for one node; its task id        *)
(* (a fresh UUID in the code) is the pair <<request, node>>.               *)
(***************************************************************************)
EXTENDS Integers, Sequences, FiniteSets

CONSTANTS
  Requests,    \* HTTP requests, each served by one handler goroutine
  Agents,      \* nodes behind a WebSocket registered by cmd/agent
  Workers,     \* gRPC nodes of the configuration, always in serverList
  Web,         \* the node label of the server's own version line
  Kinds,       \* the endpoints clients call in this instance
  ChanCap,     \* capacity of a streaming task's respChan (100 in the code)
  MaxReplies   \* bound: answers a node produces for one streaming task

ASSUME CapAssumption == ChanCap \in Nat \ {0} /\ MaxReplies \in Nat \ {0}
ASSUME NodeAssumption == /\ Agents \cap Workers = {}
                         /\ Web \notin Agents \cup Workers
ASSUME KindAssumption == Kinds \subseteq {"version", "ping", "traceroute", "mtr"}

Nodes == Agents \cup Workers
Task  == Requests \X Nodes

\* Lines a version goroutine makes up when it has no answer.
Offline  == -1
TimedOut == -2

Line == [node : Nodes \cup {Web}, n : Int]
\* A TaskResponse of agent a: the n-th answer of the task it names.
Msg(a)  == [task : Requests \X {a}, n : Nat]
Message == [task : Requests \X Agents, n : Nat]

VARIABLES
  listed,     \* keys of serverList
  link,       \* TCP connection under an agent's WebSocket: new, up, down
  ticker,     \* ping loop of agentRegisterHandler: off, idle, writing, cleanup, gone
  reading,    \* agents whose handleAgentMessages goroutine is running
  hand,       \* message whose channel the reader found, held under TaskLock.RLock
  fromAgent,  \* TaskResponses on the wire, first sent first
  atAgent,    \* tasks an agent is handling
  produced,   \* answers the node has sent for a task
  kind,       \* endpoint a request calls
  want,       \* nodes the fan-out loop of a request keeps
  client,     \* browser side of a request: connected, gone
  stream,     \* handler: idle, resolve, check, select, then ended, left or rejected
  ctxDone,    \* requests whose context is done
  web,        \* goroutine that pushes the server's own version: none, push, exited
  pc,         \* where the goroutine of a task is
  item,       \* line a task is pushing into clientChan
  taskChans,  \* tasks with an entry in their agent's TaskChans
  chan,       \* contents of a task's respChan
  closed,     \* tasks whose respChan has been closed
  out         \* lines written to the browser

agentVars  == <<listed, link, ticker>>
readerVars == <<reading, hand>>
wireVars   == <<fromAgent, atAgent, produced>>
reqVars    == <<kind, want, client>>
streamVars == <<stream, ctxDone, web, out>>
taskVars   == <<pc, item>>
chanVars   == <<taskChans, chan, closed>>
vars == <<agentVars, readerVars, wireVars, reqVars, streamVars, taskVars, chanVars>>

\* A version goroutine returns after its first line and its respChan holds one
\* answer; those of the other endpoints loop over a respChan of 100.
OneAnswer(t) == kind[t[1]] = "version"
Cap(t)       == IF OneAnswer(t) THEN 1 ELSE ChanCap
Replies(t)   == IF OneAnswer(t) THEN 1 ELSE MaxReplies

\* Both locks live in the program counters of those that hold them.
WsLocked(a) == ticker[a] = "writing" \/ \E r \in Requests : pc[<<r, a>>] = "writing"
RLocked(a)  == hand[a] # {}

Finished(t) == pc[t] \in {"idle", "exited"}
Over(r)     == stream[r] \in {"ended", "left", "rejected"}

Init ==
  /\ listed = Workers
  /\ link = [a \in Agents |-> "new"]
  /\ ticker = [a \in Agents |-> "off"]
  /\ reading = {}
  /\ hand = [a \in Agents |-> {}]
  /\ fromAgent = [a \in Agents |-> <<>>]
  /\ atAgent = {}
  /\ produced = [t \in Task |-> 0]
  /\ kind \in [Requests -> Kinds]
  /\ want = [r \in Requests |-> {}]
  /\ client = [r \in Requests |-> "connected"]
  /\ stream = [r \in Requests |-> "idle"]
  /\ ctxDone = {}
  /\ web = [r \in Requests |-> "none"]
  /\ pc = [t \in Task |-> "idle"]
  /\ item = [t \in Task |-> 0]
  /\ taskChans = {}
  /\ chan = [t \in Task |-> <<>>]
  /\ closed = {}
  /\ out = [r \in Requests |-> <<>>]

-----------------------------------------------------------------------------
\* The agent's session.

\* The upgrade and the registration exchange are over: the entry is added and
\* the reader and the ping loop start.
AgentJoin(a) ==
  /\ link[a] = "new"
  /\ link' = [link EXCEPT ![a] = "up"]
  /\ listed' = listed \cup {a}
  /\ reading' = reading \cup {a}
  /\ ticker' = [ticker EXCEPT ![a] = "idle"]
  /\ UNCHANGED <<hand, wireVars, reqVars, streamVars, taskVars, chanVars>>

\* The agent process ends or the connection breaks; what was on the wire
\* arrives up to some message.
AgentDown(a) ==
  /\ link[a] = "up"
  /\ link' = [link EXCEPT ![a] = "down"]
  /\ \E k \in 0 .. Len(fromAgent[a]) :
       fromAgent' = [fromAgent EXCEPT ![a] = SubSeq(@, 1, k)]
  /\ UNCHANGED <<listed, ticker, readerVars, atAgent, produced, reqVars,
                 streamVars, taskVars, chanVars>>

\* case <-ticker.C: take WsLock ...
PingBegin(a) ==
  /\ ticker[a] = "idle"
  /\ ~WsLocked(a)
  /\ ticker' = [ticker EXCEPT ![a] = "writing"]
  /\ UNCHANGED <<listed, link, readerVars, wireVars, reqVars, streamVars,
                 taskVars, chanVars>>

\* ... write the ping and release it; a write on a broken connection may still
\* succeed, into the socket buffer.
PingEnd(a) ==
  /\ ticker[a] = "writing"
  /\ \/ ticker' = [ticker EXCEPT ![a] = "idle"]
     \/ link[a] = "down" /\ ticker' = [ticker EXCEPT ![a] = "cleanup"]
  /\ UNCHANGED <<listed, link, readerVars, wireVars, reqVars, streamVars,
                 taskVars, chanVars>>

Cleanup(a) ==
  /\ ticker[a] = "cleanup"
  /\ ticker' = [ticker EXCEPT ![a] = "gone"]
  /\ listed' = listed \ {a}
  /\ UNCHANGED <<link, readerVars, wireVars, reqVars, streamVars, taskVars, chanVars>>

\* handleTask on the agent sends the next answer of a task.
AgentReply(t) ==
  /\ t \in atAgent
  /\ link[t[2]] = "up"
  /\ produced[t] < Replies(t)
  /\ produced' = [produced EXCEPT ![t] = @ + 1]
  /\ fromAgent' = [fromAgent EXCEPT ![t[2]] =
                     Append(@, [task |-> t, n |-> produced[t] + 1])]
  /\ UNCHANGED <<agentVars, readerVars, atAgent, reqVars, streamVars,
                 taskVars, chanVars>>

-----------------------------------------------------------------------------
\* handleAgentMessages: read, look the channel up under RLock, send or drop.

ReaderTake(a) ==
  /\ a \in reading /\ ~RLocked(a)
  /\ fromAgent[a] # <<>>
  /\ fromAgent' = [fromAgent EXCEPT ![a] = Tail(@)]
  /\ LET m == Head(fromAgent[a])
     IN  hand' = [hand EXCEPT ![a] = IF m.task \in taskChans THEN {m} ELSE {}]
  /\ UNCHANGED <<agentVars, reading, atAgent, produced, reqVars, streamVars,
                 taskVars, chanVars>>

\* Variation: a send without the default branch's loss.
ReaderSendUnbounded(a) ==
  /\ \E m \in hand[a] : chan' = [chan EXCEPT ![m.task] = Append(@, m.n)]
  /\ hand' = [hand EXCEPT ![a] = {}]
  /\ UNCHANGED <<agentVars, reading, wireVars, reqVars, streamVars, taskVars,
                 taskChans, closed>>

\* The send never blocks: a full channel loses the message.
ReaderSend(a) ==
  /\ \E m \in hand[a] :
       chan' = IF Len(chan[m.task]) < Cap(m.task)
               THEN [chan EXCEPT ![m.task] = Append(@, m.n)]
               ELSE chan
  /\ hand' = [hand EXCEPT ![a] = {}]
  /\ UNCHANGED <<agentVars, reading, wireVars, reqVars, streamVars, taskVars,
                 taskChans, closed>>

\* ReadMessage fails: the connection is down or the read deadline has passed.
ReaderExit(a) ==
  /\ a \in reading /\ ~RLocked(a)
  /\ reading' = reading \ {a}
  /\ UNCHANGED <<agentVars, hand, wireVars, reqVars, streamVars, taskVars, chanVars>>

-----------------------------------------------------------------------------
\* The handler.

Open(r, nodes) ==
  /\ stream[r] = "idle"
  /\ want' = [want EXCEPT ![r] = nodes]
  /\ stream' = [stream EXCEPT ![r] = "resolve"]
  /\ UNCHANGED <<agentVars, readerVars, wireVars, kind, client, ctxDone, web,
                 out, taskVars, chanVars>>

VersionRequest(r)    == kind[r] = "version" /\ Open(r, Nodes)
PingRequest(r)       == kind[r] = "ping" /\ Open(r, Nodes)
\* The node is looked for before the name of the target is resolved; by the
\* time of the fan-out it may have left.
TracerouteRequest(r) == kind[r] = "traceroute" /\ \E n \in listed : Open(r, {n})
MtrRequest(r)        == kind[r] = "mtr" /\ \E n \in listed : Open(r, {n})

\* Unknown node, protocol that is no number, name that does not resolve: 400.
Reject(r) ==
  /\ kind[r] # "version"
  /\ stream[r] \in {"idle", "resolve"}
  /\ stream' = [stream EXCEPT ![r] = "rejected"]
  /\ UNCHANGED <<agentVars, readerVars, wireVars, reqVars, ctxDone, web, out,
                 taskVars, chanVars>>

\* The loop over serverList under serverListMux.RLock.
Fanout(r) ==
  /\ stream[r] = "resolve"
  /\ pc' = [t \in Task |->
              IF t[1] = r /\ t[2] \in want[r] \cap listed
              THEN IF t[2] \in Agents THEN "register" ELSE "call"
              ELSE pc[t]]
  /\ web' = [web EXCEPT ![r] = IF kind[r] = "version" THEN "push" ELSE "none"]
  /\ stream' = [stream EXCEPT ![r] = "check"]
  /\ UNCHANGED <<agentVars, readerVars, wireVars, reqVars, ctxDone, out, item, chanVars>>

ClientGone(r) ==
  /\ stream[r] # "idle" /\ ~Over(r)
  /\ client[r] = "connected"
  /\ client' = [client EXCEPT ![r] = "gone"]
  /\ UNCHANGED <<agentVars, readerVars, wireVars, kind, want, streamVars,
                 taskVars, chanVars>>

\* The timer of context.WithTimeout, or the browser's disconnection.
CtxEnd(r) ==
  /\ stream[r] \in {"check", "select"}
  /\ r \notin ctxDone
  /\ ctxDone' = ctxDone \cup {r}
  /\ UNCHANGED <<agentVars, readerVars, wireVars, reqVars, stream, web, out,
                 taskVars, chanVars>>

\* c.Stream looks at clientGone only between two steps. Returning runs the
\* deferred cancel().
StreamCheck(r) ==
  /\ stream[r] = "check"
  /\ \/ /\ client[r] = "gone"
        /\ stream' = [stream EXCEPT ![r] = "left"]
        /\ ctxDone' = ctxDone \cup {r}
     \/ /\ client[r] = "connected"
        /\ stream' = [stream EXCEPT ![r] = "select"]
        /\ UNCHANGED ctxDone
  /\ UNCHANGED <<agentVars, readerVars, wireVars, reqVars, web, out, taskVars, chanVars>>

\* Variation: the stream also ends on ctx.Done().
StreamDoneEarly(r) ==
  /\ stream[r] = "select"
  /\ r \in ctxDone
  /\ stream' = [stream EXCEPT ![r] = "ended"]
  /\ UNCHANGED <<agentVars, readerVars, wireVars, reqVars, ctxDone, web, out, taskVars, chanVars>>

\* wg.Wait() has returned and doneChan is received from.
StreamDone(r) ==
  /\ stream[r] = "select"
  /\ \A n \in Nodes : Finished(<<r, n>>)
  /\ stream' = [stream EXCEPT ![r] = "ended"]
  /\ ctxDone' = ctxDone \cup {r}
  /\ UNCHANGED <<agentVars, readerVars, wireVars, reqVars, web, out, taskVars, chanVars>>

\* Variation: the line is sent whether or not the stream is receiving.
WriteAnyTime(r, line) ==
  /\ out' = [out EXCEPT ![r] = Append(@, line)]
  /\ stream' = stream

\* clientChan is unbuffered: a push is a rendezvous with the stream's select.
Write(r, line) ==
  /\ stream[r] = "select"
  /\ out' = [out EXCEPT ![r] = Append(@, line)]
  /\ stream' = [stream EXCEPT ![r] = "check"]

\* The goroutine of the server's own version is not counted by the WaitGroup.
WebPush(r) ==
  /\ web[r] = "push"
  /\ Write(r, [node |-> Web, n |-> 1])
  /\ web' = [web EXCEPT ![r] = "exited"]
  /\ UNCHANGED <<agentVars, readerVars, wireVars, reqVars, ctxDone, taskVars, chanVars>>

-----------------------------------------------------------------------------
\* The goroutine of a task for an agent.

Goto(t, from, to) == pc[t] = from /\ pc' = [pc EXCEPT ![t] = to]

Register(t) ==
  /\ Goto(t, "register", "send")
  /\ ~RLocked(t[2])
  /\ taskChans' = taskChans \cup {t}
  /\ UNCHANGED <<agentVars, readerVars, wireVars, reqVars, streamVars, item, chan, closed>>

\* Variation: sendTaskToAgent without WsLock.
SendBeginUnlocked(t) ==
  /\ Goto(t, "send", "writing")
  /\ UNCHANGED <<agentVars, readerVars, wireVars, reqVars, streamVars, item, chanVars>>

\* sendTaskToAgent: take WsLock, write, release.
SendBegin(t) ==
  /\ Goto(t, "send", "writing")
  /\ ~WsLocked(t[2])
  /\ UNCHANGED <<agentVars, readerVars, wireVars, reqVars, streamVars, item, chanVars>>

SendOk(t) ==
  /\ Goto(t, "writing", "wait")
  /\ atAgent' = IF link[t[2]] = "up" THEN atAgent \cup {t} ELSE atAgent
  /\ UNCHANGED <<agentVars, readerVars, fromAgent, produced, reqVars, streamVars,
                 item, chanVars>>

\* The write fails; or a host that is not UTF-8 cannot be encoded, which a version
\* request, that has none, is spared. A version goroutine reports the node OFFLINE,
\* the others just return.
SendFail(t) ==
  /\ Goto(t, "writing", IF OneAnswer(t) THEN "push" ELSE "unregister")
  /\ link[t[2]] = "down" \/ ~OneAnswer(t)
  /\ item' = [item EXCEPT ![t] = IF OneAnswer(t) THEN Offline ELSE @]
  /\ UNCHANGED <<agentVars, readerVars, wireVars, reqVars, streamVars, chanVars>>

\* An answer of a type other than the task's would be ignored; an agent of this
\* repository sends none.
Receive(t) ==
  /\ Goto(t, "wait", "push")
  /\ chan[t] # <<>>
  /\ item' = [item EXCEPT ![t] = Head(chan[t])]
  /\ chan' = [chan EXCEPT ![t] = Tail(@)]
  /\ UNCHANGED <<agentVars, readerVars, wireVars, reqVars, streamVars, taskChans, closed>>

\* Variation: no TIMEOUT line.
GiveUpSilently(t) ==
  /\ t[1] \in ctxDone
  /\ Goto(t, "wait", "unregister")
  /\ UNCHANGED <<agentVars, readerVars, wireVars, reqVars, streamVars, item, chanVars>>

\* Variation: the return does not run the deferred function.
GiveUpNoDefer(t) ==
  /\ t[1] \in ctxDone
  /\ Goto(t, "wait", IF OneAnswer(t) THEN "push" ELSE "exited")
  /\ item' = [item EXCEPT ![t] = IF OneAnswer(t) THEN TimedOut ELSE @]
  /\ UNCHANGED <<agentVars, readerVars, wireVars, reqVars, streamVars, chanVars>>

\* The select picks at random between a ready answer and a done context.
GiveUp(t) ==
  /\ t[1] \in ctxDone
  /\ Goto(t, "wait", IF OneAnswer(t) THEN "push" ELSE "unregister")
  /\ item' = [item EXCEPT ![t] = IF OneAnswer(t) THEN TimedOut ELSE @]
  /\ UNCHANGED <<agentVars, readerVars, wireVars, reqVars, streamVars, chanVars>>

\* Variation: the entry is deleted without TaskLock.
UnregisterUnlocked(t) ==
  /\ Goto(t, "unregister", "close")
  /\ taskChans' = taskChans \ {t}
  /\ UNCHANGED <<agentVars, readerVars, wireVars, reqVars, streamVars, item, chan, closed>>

\* The deferred function: delete the entry under TaskLock, then close.
Unregister(t) ==
  /\ Goto(t, "unregister", "close")
  /\ ~RLocked(t[2])
  /\ taskChans' = taskChans \ {t}
  /\ UNCHANGED <<agentVars, readerVars, wireVars, reqVars, streamVars, item, chan, closed>>

CloseChan(t) ==
  /\ Goto(t, "close", "exited")
  /\ closed' = closed \cup {t}
  /\ UNCHANGED <<agentVars, readerVars, wireVars, reqVars, streamVars, item, taskChans, chan>>

-----------------------------------------------------------------------------
\* The goroutine of a task for a gRPC worker.

\* The call fails: worker unreachable or context done.
CallFail(t) ==
  /\ Goto(t, "call", IF OneAnswer(t) THEN "push" ELSE "exited")
  /\ item' = [item EXCEPT ![t] = IF OneAnswer(t) THEN Offline ELSE @]
  /\ UNCHANGED <<agentVars, readerVars, wireVars, reqVars, streamVars, chanVars>>

\* Version is unary and its answer is the call's; the others open a stream.
CallOk(t) ==
  /\ Goto(t, "call", IF OneAnswer(t) THEN "push" ELSE "recv")
  /\ item' = [item EXCEPT ![t] = IF OneAnswer(t) THEN 1 ELSE @]
  /\ produced' = [produced EXCEPT ![t] = IF OneAnswer(t) THEN 1 ELSE @]
  /\ UNCHANGED <<agentVars, readerVars, fromAgent, atAgent, reqVars, streamVars, chanVars>>

Recv(t) ==
  /\ Goto(t, "recv", "push")
  /\ produced[t] < MaxReplies
  /\ produced' = [produced EXCEPT ![t] = @ + 1]
  /\ item' = [item EXCEPT ![t] = produced[t] + 1]
  /\ UNCHANGED <<agentVars, readerVars, fromAgent, atAgent, reqVars, streamVars, chanVars>>

\* io.EOF, or the stream is broken or cancelled.
RecvEnd(t) ==
  /\ Goto(t, "recv", "exited")
  /\ UNCHANGED <<agentVars, readerVars, wireVars, reqVars, streamVars, item, chanVars>>

-----------------------------------------------------------------------------
\* Variation: a version goroutine goes on waiting after its line.
AfterPushLoops(t) ==
  CASE t[2] \in Agents                    -> "wait"
    [] t[2] \in Workers /\ OneAnswer(t)  -> "exited"
    [] t[2] \in Workers /\ ~OneAnswer(t) -> "recv"

\* clientChan <- line, then the next turn of the loop or the return.
AfterPush(t) ==
  CASE t[2] \in Agents  /\ OneAnswer(t)  -> "unregister"
    [] t[2] \in Agents  /\ ~OneAnswer(t) -> "wait"
    [] t[2] \in Workers /\ OneAnswer(t)  -> "exited"
    [] t[2] \in Workers /\ ~OneAnswer(t) -> "recv"

\* Variation: a line nobody is receiving is dropped.
PushOrDrop(t) ==
  /\ Goto(t, "push", AfterPush(t))
  /\ \/ Write(t[1], [node |-> t[2], n |-> item[t]])
     \/ stream[t[1]] = "check" /\ UNCHANGED <<stream, out>>
  /\ UNCHANGED <<agentVars, readerVars, wireVars, reqVars, ctxDone, web, item, chanVars>>

Push(t) ==
  /\ Goto(t, "push", AfterPush(t))
  /\ Write(t[1], [node |-> t[2], n |-> item[t]])
  /\ UNCHANGED <<agentVars, readerVars, wireVars, reqVars, ctxDone, web, item, chanVars>>

\* Every request has been answered: the server waits for the next one.
Quiescent == (\A r \in Requests : Over(r)) /\ UNCHANGED vars

SessionStep(a) == AgentJoin(a) \/ AgentDown(a) \/ PingBegin(a) \/ PingEnd(a) \/ Cleanup(a)
ReaderStep(a)  == ReaderTake(a) \/ ReaderSend(a) \/ ReaderExit(a)
RequestStep(r) ==
  \/ VersionRequest(r) \/ PingRequest(r) \/ TracerouteRequest(r) \/ MtrRequest(r)
  \/ Reject(r) \/ ClientGone(r)
StreamStep(r)  == Fanout(r) \/ StreamCheck(r) \/ StreamDone(r)
AgentTaskStep(t)  ==
  \/ Register(t) \/ SendBegin(t) \/ SendOk(t) \/ SendFail(t)
  \/ Receive(t) \/ GiveUp(t) \/ Unregister(t) \/ CloseChan(t)
WorkerTaskStep(t) == CallFail(t) \/ CallOk(t) \/ Recv(t) \/ RecvEnd(t)

Next ==
  \/ \E a \in Agents : SessionStep(a) \/ ReaderStep(a)
  \/ \E r \in Requests : RequestStep(r) \/ StreamStep(r) \/ CtxEnd(r) \/ WebPush(r)
  \/ \E t \in Task : AgentTaskStep(t) \/ WorkerTaskStep(t) \/ Push(t) \/ AgentReply(t)
  \/ Quiescent

Spec == Init /\ [][Next]_vars

-----------------------------------------------------------------------------
\* Type invariant. An agent's goroutine and a worker's go through different
\* places, and a respChan never holds more than its capacity.
AgentPc  == {"idle", "register", "send", "writing", "wait", "push", "unregister",
             "close", "exited"}
WorkerPc == {"idle", "call", "recv", "push", "exited"}

SessionTypes ==
  /\ listed \subseteq Nodes
  /\ link \in [Agents -> {"new", "up", "down"}]
  /\ ticker \in [Agents -> {"off", "idle", "writing", "cleanup", "gone"}]
  /\ reading \subseteq Agents

WireTypes ==
  /\ hand \in [Agents -> SUBSET Message]
  /\ fromAgent \in [Agents -> Seq(Message)]
  /\ \A a \in Agents : hand[a] \subseteq Msg(a) /\ fromAgent[a] \in Seq(Msg(a))
  /\ atAgent \subseteq Requests \X Agents
  /\ produced \in [Task -> Nat]

RequestTypes ==
  /\ kind \in [Requests -> Kinds]
  /\ want \in [Requests -> SUBSET Nodes]
  /\ client \in [Requests -> {"connected", "gone"}]
  /\ stream \in [Requests -> {"idle", "resolve", "check", "select",
                              "ended", "left", "rejected"}]
  /\ ctxDone \subseteq Requests
  /\ web \in [Requests -> {"none", "push", "exited"}]
  /\ out \in [Requests -> Seq(Line)]

TaskTypes ==
  /\ pc \in [Task -> AgentPc \cup WorkerPc]
  /\ \A t \in Task : pc[t] \in IF t[2] \in Agents THEN AgentPc ELSE WorkerPc
  /\ item \in [Task -> Int]

ChanTypes ==
  /\ taskChans \subseteq Requests \X Agents
  /\ closed \subseteq Requests \X Agents
  /\ chan \in [Task -> Seq(Nat)]
  /\ \A t \in Task : Len(chan[t]) <= Cap(t)

TypeOK == SessionTypes /\ WireTypes /\ RequestTypes /\ TaskTypes /\ ChanTypes

\* The reader of an agent never sends on a respChan its goroutine has closed,
\* which would panic and take the whole server down: the deferred function
\* deletes the entry before it closes, and the reader sends under the lock it
\* looked the entry up with.
NoSendOnClosed == \A a \in Agents : \A m \in hand[a] : m.task \notin closed

\* At most one goroutine is inside WriteMessage of an agent's WebSocket: the
\* connection supports one concurrent writer, and the ping loop and the tasks
\* of every request share it.
OneWriterPerConn ==
  \A a \in Agents :
    /\ ticker[a] = "writing" => \A r \in Requests : pc[<<r, a>>] # "writing"
    /\ \A r, s \in Requests :
         pc[<<r, a>>] = "writing" /\ pc[<<s, a>>] = "writing" => r = s

\* The browser sees the answers of a node in the order the node sent them, each
\* at most once, though some may be missing.
InOrder ==
  \A r \in Requests : \A i, j \in DOMAIN out[r] :
    i < j /\ out[r][i].node = out[r][j].node => out[r][i].n < out[r][j].n

\* A version stream that ends by itself has shown exactly one line for every
\* node the handler asked: its version, OFFLINE or TIMEOUT.
VersionAnswersEveryNode ==
  \A r \in Requests : kind[r] = "version" /\ stream[r] = "ended" =>
    \A n \in Nodes : pc[<<r, n>>] # "idle" =>
      \E i \in DOMAIN out[r] :
        \A j \in DOMAIN out[r] : out[r][j].node = n <=> i = j

\* A stream that ends by itself leaves nothing behind: every goroutine the wait
\* group counts has returned and no agent holds an entry of the request.
EndedMeansDrained ==
  \A r \in Requests : stream[r] = "ended" =>
    \A n \in Nodes : Finished(<<r, n>>) /\ <<r, n>> \notin taskChans

\* What a goroutine has received from a worker's stream is in the browser's
\* stream, except for a line it is about to push: unlike the path over
\* respChan, this one never drops.
WorkerLinesLossless ==
  \A t \in Requests \X Workers : \A k \in 1 .. produced[t] :
    \/ \E i \in DOMAIN out[t[1]] : out[t[1]][i] = [node |-> t[2], n |-> k]
    \/ pc[t] = "push" /\ item[t] = k

-----------------------------------------------------------------------------
\* Fairness: what the Go scheduler, the timers and the network stack do in
\* time. Both mutexes are starvation-free, hence SF on the steps that lock.
\* Nothing is assumed of browsers and agents, a write to a socket returns, and
\* a gRPC stream ends at the latest when its context is done.
StreamSelect(r) == StreamDone(r) \/ WebPush(r) \/ \E n \in Nodes : Push(<<r, n>>)

AgentFairness(a) ==
  /\ WF_vars(PingEnd(a)) /\ WF_vars(Cleanup(a))
  /\ WF_vars(ReaderTake(a)) /\ WF_vars(ReaderSend(a))

RequestFairness(r) ==
  /\ WF_vars(Fanout(r)) /\ WF_vars(CtxEnd(r))
  /\ WF_vars(StreamCheck(r)) /\ WF_vars(StreamSelect(r))

AgentTaskFairness(t) ==
  /\ SF_vars(Register(t)) /\ SF_vars(SendBegin(t)) /\ SF_vars(Unregister(t))
  /\ WF_vars(SendOk(t) \/ SendFail(t)) /\ WF_vars(Receive(t) \/ GiveUp(t))
  /\ WF_vars(CloseChan(t))

WorkerTaskFairness(t) ==
  /\ WF_vars(CallFail(t) \/ CallOk(t))
  /\ WF_vars(t[1] \in ctxDone /\ RecvEnd(t))

FairSpec ==
  /\ Spec
  /\ \A a \in Agents : AgentFairness(a)
  /\ \A r \in Requests : RequestFairness(r)
  /\ \A t \in Requests \X Agents : AgentTaskFairness(t)
  /\ \A t \in Requests \X Workers : WorkerTaskFairness(t)

\* The entry of a task is removed from its agent's TaskChans, unless the stream
\* was left by the browser while the goroutine had a line to push.
EntriesReaped ==
  \A t \in Requests \X Agents :
    t \in taskChans ~> \/ t \notin taskChans
                       \/ stream[t[1]] = "left" /\ pc[t] = "push"

\* The timeout the handlers set ends every goroutine they started.
TimeoutEndsTasks ==
  \A t \in Task : t[1] \in ctxDone ~> Finished(t)

\* A version stream that ends by itself has shown the version of the web server.
WebVersionShown ==
  \A r \in Requests : kind[r] = "version" /\ stream[r] = "ended" =>
    \E i \in DOMAIN out[r] : out[r][i].node = Web

-----------------------------------------------------------------------------
\* The relay implements the promise of ProbeStream. The stream of the promise
\* opens with the fan-out; a goroutine that was started is a node that was asked.
Phase(r) ==
  CASE stream[r] \in {"idle", "resolve"} -> "idle"
    [] stream[r] = "rejected"            -> "refused"
    [] stream[r] \in {"check", "select"} -> "open"
    [] stream[r] = "ended"               -> "complete"
    [] stream[r] = "left"                -> "left"

Promise == INSTANCE ProbeStream WITH
  Self    <- Web,
  Numbers <- TimedOut .. MaxReplies,
  oneLine <- {r \in Requests : kind[r] = "version"},
  phase   <- [r \in Requests |-> Phase(r)],
  asked   <- [r \in Requests |-> {n \in Nodes : pc[<<r, n>>] # "idle"}],
  lines   <- out

\* Every behaviour of the relay, seen through its event streams, is one of
\* ProbeStream: what is written and when, and that a stream once opened ends,
\* whatever the agents, the workers and the browser do.
ImplementsPromise == Promise!Spec
=============================================================================
