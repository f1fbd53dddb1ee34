----------------------------- MODULE WorkerProbe -----------------------------
(***************************************************************************)
(* The probes one process runs for the server, each in a goroutine of its  *)
(* own: choose an address, refuse private ones, run ping, mtr or           *)
(* traceroute, send what the parser makes of its lines. The process is an  *)
(* agent, whose tasks all write one WebSocket without a lock, or a worker, *)
(* whose calls have a gRPC stream each.                                    *)
(***************************************************************************)
EXTENDS Integers, Sequences

CONSTANTS
  Tasks,      \* tasks or calls
  Addresses,  \* what names resolve to
  V4,         \* the IPv4 addresses among them
  Private,    \* those that ipfilter.IsPrivateIP refuses
  None,       \* no address
  Inputs,     \* what tasks ask for: kind, protocol and the answer of the resolver
  MaxAnswers  \* bound: lines of a subprocess that parse to an answer

Kinds     == {"ping", "mtr", "traceroute", "version"}
\* "other" is any number that is none of the three.
Protocols == {"ANY", "IPV4", "IPV6", "other"}

ASSUME AddressAssumption == /\ V4 \subseteq Addresses /\ Private \subseteq Addresses
                            /\ None \notin Addresses
ASSUME InputAssumption ==
  Inputs \subseteq [kind : Kinds, protocol : Protocols, ips : Seq(Addresses)]
ASSUME BoundAssumption == MaxAnswers \in Nat

VARIABLES
  program,  \* agent or worker
  process,  \* running, crashed, exited
  input,    \* what a task asks for
  pc,       \* where its goroutine is
  hand,     \* message it is sending
  target,   \* address it has chosen
  ctx,      \* context of its subprocess: none, live, done
  child,    \* the subprocess: none, running, ended, reaped
  answers,  \* answers the subprocess has written that can be encoded
  pipe,     \* lines in the pipe: n > 0 is the n-th of these answers
  conn,     \* the agent's WebSocket as its writes see it: up, broken, closed
  sent,     \* messages that reached the transport
  hurt      \* tasks whose writes overlapped another's or whose call is gone

taskVars  == <<input, pc, hand, target>>
childVars == <<ctx, child, answers, pipe>>
wireVars  == <<conn, sent, hurt>>
vars == <<program, process, taskVars, childVars, wireVars>>

\* What a line may be for the parser beside such an answer: a line that gives none,
\* one with fields missing, an answer that quotes a text which is not UTF-8: protobuf
\* does not encode it.
Skip == 0
Cut  == -1
Odd  == -2

Msg(what, n) == [what |-> what, n |-> n]
Message == [what : {"version", "noTarget", "badTarget", "lookup", "line"}, n : Nat]

IsPrivateIP(a) == a \in Private

Fits(protocol, a) ==
  \/ protocol = "ANY"
  \/ protocol = "IPV4" /\ a \in V4
  \/ protocol = "IPV6" /\ a \notin V4

\* The first address of the answer that fits.
Target(i) ==
  IF \E k \in DOMAIN i.ips : Fits(i.protocol, i.ips[k])
  THEN i.ips[CHOOSE k \in DOMAIN i.ips :
               /\ Fits(i.protocol, i.ips[k])
               /\ \A j \in 1 .. k - 1 : ~ Fits(i.protocol, i.ips[j])]
  ELSE None

Init ==
  /\ program \in {"agent", "worker"}
  /\ process = "running"
  /\ input \in [Tasks -> Inputs]
  /\ pc = [t \in Tasks |-> "idle"]
  /\ hand = [t \in Tasks |-> {}]
  /\ target = [t \in Tasks |-> None]
  /\ ctx = [t \in Tasks |-> "none"]
  /\ child = [t \in Tasks |-> "none"]
  /\ answers = [t \in Tasks |-> 0]
  /\ pipe = [t \in Tasks |-> <<>>]
  /\ conn = "up"
  /\ sent = [t \in Tasks |-> <<>>]
  /\ hurt = {}

Goto(t, from, to) == /\ process = "running"
                     /\ pc[t] = from /\ pc' = [pc EXCEPT ![t] = to]

\* server.Send of a message.
Say(t, from, m) ==
  /\ Goto(t, from, "send")
  /\ hand' = [hand EXCEPT ![t] = {m}]

\* Variation: a missing target is reported, but the probe goes on.
AfterNoReturn(m) ==
  CASE m.what \in {"lookup", "noTarget"}   -> "start"
    [] m.what = "line"                     -> "scan"
    [] m.what \in {"version", "badTarget"} -> "returned"

\* The process ends, and with it every goroutine, pipe and context.
Dies(how) ==
  /\ process = "running" /\ process' = how
  /\ pc' = [t \in Tasks |-> "gone"]
  /\ hand' = [t \in Tasks |-> {}]
  /\ pipe' = [t \in Tasks |-> <<>>]
  /\ ctx' = [t \in Tasks |-> "done"]
  /\ UNCHANGED <<program, input, target, child, answers, wireVars>>

\* Where the goroutine goes on after a send, of which it ignores the error.
After(m) ==
  CASE m.what = "lookup" -> "start"
    [] m.what = "line"   -> "scan"
    [] m.what \in {"version", "noTarget", "badTarget"} -> "returned"

-----------------------------------------------------------------------------
Arrive(t) ==
  /\ Goto(t, "idle", "resolve")
  /\ UNCHANGED <<program, process, input, hand, target, childVars, wireVars>>

SendVersion(t) ==
  /\ input[t].kind = "version"
  /\ Say(t, "resolve", Msg("version", 0))
  /\ UNCHANGED <<program, process, input, target, childVars, wireVars>>

\* Variation: the filter looks at the first address of the name.
ResolveFilterFirst(t) ==
  /\ input[t].kind # "version"
  /\ LET a == Target(input[t]) IN
       /\ target' = [target EXCEPT ![t] = a]
       /\ CASE a = None                    -> Say(t, "resolve", Msg("noTarget", 0))
            [] a # None /\ IsPrivateIP(input[t].ips[1])
                                           -> Say(t, "resolve", Msg("badTarget", 0))
            [] OTHER                       -> Say(t, "resolve", Msg("lookup", 0))
  /\ UNCHANGED <<program, process, input, childVars, wireVars>>

\* Ping, Mtr, Traceroute up to the first message.
Resolve(t) ==
  /\ input[t].kind # "version"
  /\ LET a == Target(input[t]) IN
       /\ target' = [target EXCEPT ![t] = a]
       /\ CASE a = None       -> Say(t, "resolve", Msg("noTarget", 0))
            [] IsPrivateIP(a) -> Say(t, "resolve", Msg("badTarget", 0))
            [] OTHER          -> Say(t, "resolve", Msg("lookup", 0))
  /\ UNCHANGED <<program, process, input, childVars, wireVars>>

\* Variation: the subprocess has no context.
StartNoContext(t) ==
  /\ \/ Goto(t, "start", "returned") /\ UNCHANGED <<ctx, child>>
     \/ /\ Goto(t, "start", "scan")
        /\ child' = [child EXCEPT ![t] = "running"]
        /\ UNCHANGED ctx
  /\ UNCHANGED <<program, process, input, hand, target, answers, pipe, wireVars>>

\* cmd.Start fails, always if the context is done already, and the error is only
\* returned; or the subprocess runs under a context with a timer.
Start(t) ==
  /\ \/ Goto(t, "start", "returned") /\ UNCHANGED <<ctx, child>>
     \/ /\ Goto(t, "start", "scan")
        /\ ctx[t] = "none" /\ ctx' = [ctx EXCEPT ![t] = "live"]
        /\ child' = [child EXCEPT ![t] = "running"]
  /\ UNCHANGED <<program, process, input, hand, target, answers, pipe, wireVars>>

-----------------------------------------------------------------------------
\* A send. On an agent the write may overlap that of another task.

Writing == {t \in Tasks : pc[t] = "writing"}

SendBegin(t) ==
  /\ Goto(t, "send", "writing")
  /\ hurt' = IF program = "agent" /\ Writing # {} THEN hurt \cup Writing \cup {t} ELSE hurt
  /\ UNCHANGED <<program, process, input, hand, target, childVars, conn, sent>>

\* Variation: the message is kept.
SendEndKeeps(t) ==
  /\ \E m \in hand[t] :
       /\ Goto(t, "writing", After(m))
       /\ sent' = [sent EXCEPT ![t] = Append(@, m)]
  /\ UNCHANGED <<program, process, input, hand, target, childVars, conn, hurt>>

\* Nothing written to a broken connection, or after the Close frame, arrives. The
\* error is ignored.
SendEnd(t) ==
  /\ \E m \in hand[t] :
       /\ Goto(t, "writing", After(m))
       /\ \/ conn = "up" /\ sent' = [sent EXCEPT ![t] = Append(@, m)]
          \/ conn # "up" /\ sent' = sent
          \/ t \in hurt /\ sent' = sent
  /\ hand' = [hand EXCEPT ![t] = {}]
  /\ UNCHANGED <<program, process, input, target, childVars, conn, hurt>>

\* The library panics when it notices that two goroutines write.
WriterPanics(t) ==
  /\ program = "agent"
  /\ pc[t] = "writing" /\ t \in hurt
  /\ Dies("crashed")

\* The server cancels the call: the context of the probe derives from it.
Hangup(t) ==
  /\ process = "running" /\ program = "worker"
  /\ pc[t] \notin {"idle", "returned"} /\ t \notin hurt
  /\ hurt' = hurt \cup {t}
  /\ ctx' = [ctx EXCEPT ![t] = "done"]
  /\ UNCHANGED <<program, process, taskVars, child, answers, pipe, conn, sent>>

\* The agent's connection breaks; the read loop has not noticed yet.
Break ==
  /\ process = "running" /\ program = "agent"
  /\ conn = "up" /\ conn' = "broken"
  /\ UNCHANGED <<program, process, taskVars, childVars, sent, hurt>>

\* The main goroutine writes a Close frame, whoever else is writing; it waits for
\* the end of the read loop, for a second at most, while the tasks run on.
Interrupt ==
  /\ process = "running" /\ program = "agent"
  /\ conn # "closed" /\ conn' = "closed"
  /\ hurt' = hurt \cup Writing
  /\ UNCHANGED <<program, process, taskVars, childVars, sent>>

\* The agent's read loop has ended, or the second has passed; the tasks end with it.
AgentExit == program = "agent" /\ Dies("exited")

-----------------------------------------------------------------------------
\* The subprocess and the timer.

ChildWrite(t) ==
  /\ process = "running" /\ child[t] = "running"
  /\ \/ /\ answers[t] < MaxAnswers
        /\ answers' = [answers EXCEPT ![t] = @ + 1]
        /\ pipe' = [pipe EXCEPT ![t] = Append(@, answers[t] + 1)]
     \/ \E line \in {Skip, Cut, Odd} :
          /\ line = Odd => input[t].kind # "ping"  \* ping's answers are numbers
          /\ pipe[t] = <<>>
          /\ pipe' = [pipe EXCEPT ![t] = <<line>>]
          /\ UNCHANGED answers
  /\ UNCHANGED <<program, process, taskVars, ctx, child, wireVars>>

ChildExit(t) ==
  /\ process = "running" /\ child[t] = "running"
  /\ child' = [child EXCEPT ![t] = "ended"]
  /\ UNCHANGED <<program, process, taskVars, ctx, answers, pipe, wireVars>>

Timeout(t) ==
  /\ process = "running" /\ ctx[t] = "live"
  /\ ctx' = [ctx EXCEPT ![t] = "done"]
  /\ UNCHANGED <<program, process, taskVars, child, answers, pipe, wireVars>>

\* exec.CommandContext kills the subprocess when the context is done.
Kill(t) ==
  /\ process = "running" /\ child[t] = "running"
  /\ ctx[t] = "done"
  /\ child' = [child EXCEPT ![t] = "ended"]
  /\ UNCHANGED <<program, process, taskVars, ctx, answers, pipe, wireVars>>

-----------------------------------------------------------------------------
\* The scanner.

Line(t) == Head(pipe[t])
Read(t) == pipe[t] # <<>> /\ pipe' = [pipe EXCEPT ![t] = Tail(@)]

ScanAnswer(t) ==
  /\ Read(t) /\ Line(t) > 0
  /\ Say(t, "scan", Msg("line", Line(t)))
  /\ UNCHANGED <<program, process, input, target, ctx, child, answers, wireVars>>

\* The send fails before it writes, and the error is ignored; gRPC ends the call.
ScanOdd(t) ==
  /\ Read(t) /\ Line(t) = Odd
  /\ Goto(t, "scan", "scan")
  /\ \/ program = "agent"  /\ UNCHANGED <<hurt, ctx>>
     \/ program = "worker" /\ hurt' = hurt \cup {t} /\ ctx' = [ctx EXCEPT ![t] = "done"]
  /\ UNCHANGED <<program, process, input, hand, target, child, answers, conn, sent>>

\* traceroute's parser survives every line.
ScanSkip(t) ==
  /\ Read(t)
  /\ Line(t) = Skip \/ (Line(t) = Cut /\ input[t].kind = "traceroute")
  /\ Goto(t, "scan", "scan")
  /\ UNCHANGED <<program, process, input, hand, target, ctx, child, answers, wireVars>>

\* The parsers of ping and mtr index the missing field: the process panics.
ScanPanics(t) ==
  /\ pc[t] = "scan" /\ pipe[t] # <<>>
  /\ Line(t) = Cut /\ input[t].kind # "traceroute"
  /\ Dies("crashed")

\* Variation: Wait is called as soon as the subprocess has ended; it closes the
\* pipe.
ScanEndEarly(t) ==
  /\ Goto(t, "scan", "wait")
  /\ child[t] = "ended"
  /\ pipe' = [pipe EXCEPT ![t] = <<>>]
  /\ UNCHANGED <<program, process, input, hand, target, ctx, child, answers, wireVars>>

\* End of file.
ScanEnd(t) ==
  /\ Goto(t, "scan", "wait")
  /\ child[t] = "ended" /\ pipe[t] = <<>>
  /\ UNCHANGED <<program, process, input, hand, target, childVars, wireVars>>

\* Variation: the function returns without cmd.Wait.
WaitForgotten(t) ==
  /\ Goto(t, "wait", "returned")
  /\ UNCHANGED <<program, process, input, hand, target, childVars, wireVars>>

\* cmd.Wait reaps the subprocess, and the deferred cancel ends its context.
Wait(t) ==
  /\ Goto(t, "wait", "returned")
  /\ child[t] = "ended"
  /\ child' = [child EXCEPT ![t] = "reaped"]
  /\ ctx' = [ctx EXCEPT ![t] = "done"]
  /\ UNCHANGED <<program, process, input, hand, target, answers, pipe, wireVars>>

Quiescent ==
  /\ process # "running" \/ \A t \in Tasks : pc[t] = "returned"
  /\ UNCHANGED vars

Goroutine(t) ==
  \/ SendVersion(t) \/ Resolve(t) \/ Start(t) \/ SendBegin(t) \/ SendEnd(t)
  \/ ScanAnswer(t) \/ ScanOdd(t) \/ ScanSkip(t) \/ ScanPanics(t) \/ ScanEnd(t) \/ Wait(t)

Next ==
  \/ \E t \in Tasks :
       \/ Arrive(t) \/ Goroutine(t) \/ WriterPanics(t) \/ Hangup(t)
       \/ ChildWrite(t) \/ ChildExit(t) \/ Timeout(t) \/ Kill(t)
  \/ Break \/ Interrupt \/ AgentExit
  \/ Quiescent

Spec == Init /\ [][Next]_vars

-----------------------------------------------------------------------------
TypeOK ==
  /\ program \in {"agent", "worker"} /\ process \in {"running", "crashed", "exited"}
  /\ input \in [Tasks -> Inputs]
  /\ pc \in [Tasks -> {"idle", "resolve", "send", "writing", "start", "scan", "wait", "returned",
                    "gone"}]
  /\ hand \in [Tasks -> SUBSET Message]
  /\ \A t \in Tasks : hand[t] # {} <=> pc[t] \in {"send", "writing"}
  /\ target \in [Tasks -> Addresses \cup {None}]
  /\ ctx \in [Tasks -> {"none", "live", "done"}]
  /\ child \in [Tasks -> {"none", "running", "ended", "reaped"}]
  /\ answers \in [Tasks -> 0 .. MaxAnswers]
  /\ pipe \in [Tasks -> Seq(Int)]
  /\ conn \in {"up", "broken", "closed"}
  /\ sent \in [Tasks -> Seq(Message)]
  /\ hurt \subseteq Tasks

\* A subprocess only ever probes an address that is public and of the family the
\* task asked for, whatever else the name resolves to.
OnlyPublicTargets ==
  \A t \in Tasks : child[t] # "none" =>
    /\ target[t] \in Addresses \ Private
    /\ Fits(input[t].protocol, target[t])

\* No subprocess becomes defunct: a probe that has returned has waited for it.
NoDefunct ==
  \A t \in Tasks : pc[t] = "returned" => child[t] \in {"none", "reaped"}

\* While the process runs, and the writes of a task are not disturbed, every answer
\* of its subprocess that can be encoded is sent, in hand or still in the pipe. Only
\* a broken or closed connection loses one, and then every later one too: the server
\* never sees an answer behind a gap.
AnswersAccountedFor ==
  \A t \in Tasks : t \notin hurt /\ process = "running" =>
    \A k \in 1 .. answers[t] :
      \/ \E i \in DOMAIN sent[t] : sent[t][i] = Msg("line", k)
      \/ Msg("line", k) \in hand[t]
      \/ \E i \in DOMAIN pipe[t] : pipe[t][i] = k
      \/ conn # "up" /\ \A i \in DOMAIN sent[t] : sent[t][i].n < k

\* A task's messages begin with one that says what it probes or why it does not;
\* a refusal is the only one; the answers come in the order of the lines, none
\* twice. Messages may be missing when writes are disturbed.
WellFormedConversation ==
  \A t \in Tasks :
    /\ t \notin hurt /\ sent[t] # <<>> => sent[t][1].what # "line"
    /\ \A i, j \in DOMAIN sent[t] : i < j =>
         /\ sent[t][i].what \in {"lookup", "line"}
         /\ sent[t][j].what = "line"
         /\ sent[t][i].n < sent[t][j].n

-----------------------------------------------------------------------------
\* The scheduler runs goroutines, the timer fires, a write to the transport
\* returns. Nothing is assumed of the subprocess but that a signal kills it.
Fairness ==
  \A t \in Tasks : WF_vars(Goroutine(t)) /\ WF_vars(Timeout(t) \/ Kill(t))

FairSpec == Spec /\ Fairness

\* A probe that has begun returns, however long the subprocess runs and whoever
\* still listens, unless the process ends first.
ProbeReturns ==
  \A t \in Tasks : pc[t] # "idle" ~> pc[t] = "returned" \/ process # "running"
=============================================================================
