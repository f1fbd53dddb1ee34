------------------------------ MODULE KeepAlive ------------------------------
(***************************************************************************)
(* The keep-alive of one agent's WebSocket in discrete time: the ping loop *)
(* and the read deadline of the server, the read deadline of the agent,    *)
(* the pings and pongs between them. Both ends set their first deadline    *)
(* when the registration exchange is over, at time 0.                      *)
(***************************************************************************)
EXTENDS Integers

CONSTANTS
  PingPeriod,    \* period of the ticker (30 s)
  ServerTimeout, \* what the server allows between two pongs (60 s)
  AgentTimeout,  \* what the agent allows (60 s)
  MaxDelay,      \* bound: time a frame takes from one end to the other
  Horizon        \* bound: time at which TLC stops; Nat in the proofs

ASSUME PeriodAssumption == PingPeriod \in Nat \ {0} /\ MaxDelay \in Nat \ {0}
ASSUME MarginAssumption == /\ ServerTimeout \in Nat /\ AgentTimeout \in Nat
                           /\ PingPeriod > 2 * MaxDelay
                           /\ ServerTimeout > PingPeriod + 2 * MaxDelay
ASSUME HorizonAssumption == Horizon \subseteq Nat

VARIABLES
  now,
  agent,           \* the agent process: running, exited
  exitTime,        \* when it exited
  interrupted,     \* SIGINT or a crash of the process ended it
  conn,            \* as seen by the server's writes: up, closed by the peer, reset
  nextPing,        \* next tick of the ticker
  pings, pongs,    \* sending times of the frames in flight
  agentDeadline,   \* read deadlines, moved by pong handlers only
  serverDeadline,
  reader,          \* handleAgentMessages: reading, stopped
  handler          \* agentRegisterHandler: loop, then gone with its list entry

agentVars  == <<agent, exitTime, interrupted, agentDeadline>>
serverVars == <<nextPing, serverDeadline, reader, handler>>
vars == <<now, conn, pings, pongs, agentVars, serverVars>>

Init ==
  /\ now = 0
  /\ agent = "running" /\ exitTime = 0 /\ interrupted = FALSE
  /\ conn = "up"
  /\ nextPing = PingPeriod
  /\ pings = {} /\ pongs = {}
  /\ agentDeadline = AgentTimeout /\ serverDeadline = ServerTimeout
  /\ reader = "reading" /\ handler = "loop"

\* Time passes when nothing is overdue: a tick, an expired deadline, a frame
\* that has travelled for MaxDelay.
Tick ==
  /\ now + 1 \in Horizon
  /\ handler = "loop" => now < nextPing
  /\ agent = "running" => now < agentDeadline
  /\ reader = "reading" => now < serverDeadline
  /\ agent = "running" => \A p \in pings : now < p + MaxDelay
  /\ reader = "reading" => \A p \in pongs : now < p + MaxDelay
  /\ now' = now + 1
  /\ UNCHANGED <<conn, pings, pongs, agentVars, serverVars>>

\* Variation: the error of the write is ignored.
PingLoopWriteUnchecked ==
  /\ handler = "loop" /\ now = nextPing
  /\ nextPing' = nextPing + PingPeriod
  /\ IF conn = "up"
     THEN pings' = pings \cup {now} /\ conn' = conn
     ELSE pings' = pings /\ conn' = "reset"
  /\ UNCHANGED <<now, pongs, agentVars, serverDeadline, reader, handler>>

\* case <-ticker.C with a write that succeeds. The first write after the peer
\* has closed still does, and provokes the reset.
PingLoopWrite ==
  /\ handler = "loop" /\ now = nextPing
  /\ conn # "reset"
  /\ nextPing' = nextPing + PingPeriod
  /\ IF conn = "up"
     THEN pings' = pings \cup {now} /\ conn' = conn
     ELSE pings' = pings /\ conn' = "reset"
  /\ UNCHANGED <<now, pongs, agentVars, serverDeadline, reader, handler>>

\* The write fails: the entry is deleted and the connection closed.
PingLoopFail ==
  /\ handler = "loop" /\ now = nextPing
  /\ conn # "up"
  /\ handler' = "gone"
  /\ conn' = "reset"
  /\ reader' = "stopped"
  /\ UNCHANGED <<now, pings, pongs, agentVars, nextPing, serverDeadline>>

\* Variation: the agent does not answer pings.
AgentPingIgnored(p) ==
  /\ agent = "running" /\ p \in pings
  /\ pings' = pings \ {p}
  /\ UNCHANGED <<now, conn, pongs, agentVars, serverVars>>

\* ReadMessage on the agent meets a ping: gorilla's default handler answers it.
\* Neither sets the read deadline.
AgentPing(p) ==
  /\ agent = "running" /\ p \in pings
  /\ pings' = pings \ {p}
  /\ pongs' = pongs \cup {now}
  /\ UNCHANGED <<now, conn, agentVars, serverVars>>

\* Variation: the deadline is set in the past.
ServerPongPast(p) ==
  /\ reader = "reading" /\ p \in pongs
  /\ pongs' = pongs \ {p}
  /\ serverDeadline' = now - ServerTimeout
  /\ UNCHANGED <<now, conn, pings, agentVars, nextPing, reader, handler>>

\* The server's pong handler.
ServerPong(p) ==
  /\ reader = "reading" /\ p \in pongs
  /\ pongs' = pongs \ {p}
  /\ serverDeadline' = now + ServerTimeout
  /\ UNCHANGED <<now, conn, pings, agentVars, nextPing, reader, handler>>

\* The agent process is over and its end of the connection closes.
AgentExit(why) ==
  /\ agent = "running"
  /\ agent' = "exited" /\ exitTime' = now
  /\ interrupted' = why
  /\ conn' = "closed"
  /\ UNCHANGED <<now, pings, pongs, agentDeadline, serverVars>>

\* ReadMessage on the agent fails; nothing redials.
AgentExpire == now >= agentDeadline /\ AgentExit(FALSE)

AgentInterrupt == AgentExit(TRUE)

\* ReadMessage on the server fails, at the deadline or at the end of file; only
\* the reader returns, the ping loop goes on.
ReaderExpire ==
  /\ reader = "reading"
  /\ now >= serverDeadline \/ agent = "exited"
  /\ reader' = "stopped"
  /\ UNCHANGED <<now, conn, pings, pongs, agentVars, nextPing, serverDeadline, handler>>

\* A task written to a peer that has closed provokes the reset too.
TaskWrite ==
  /\ handler = "loop" /\ conn = "closed"
  /\ conn' = "reset"
  /\ UNCHANGED <<now, pings, pongs, agentVars, serverVars>>

\* The session is over, or TLC's horizon is reached.
Over == (handler = "gone" \/ now + 1 \notin Horizon) /\ UNCHANGED vars

Next ==
  \/ Tick \/ PingLoopWrite \/ PingLoopFail
  \/ \E p \in pings : AgentPing(p)
  \/ \E p \in pongs : ServerPong(p)
  \/ AgentExpire \/ AgentInterrupt \/ ReaderExpire \/ TaskWrite \/ Over

Spec == Init /\ [][Next]_vars

-----------------------------------------------------------------------------
TypeOK ==
  /\ now \in Nat /\ nextPing \in Nat /\ exitTime \in Nat
  /\ agentDeadline \in Nat /\ serverDeadline \in Nat
  /\ pings \subseteq Nat /\ pongs \subseteq Nat
  /\ agent \in {"running", "exited"} /\ interrupted \in BOOLEAN
  /\ conn \in {"up", "closed", "reset"}
  /\ reader \in {"reading", "stopped"} /\ handler \in {"loop", "gone"}

\* The server goes on reading, and so hears the answers to its tasks, as long as
\* the agent runs: a pong always arrives before the deadline the last one set.
RunningAgentIsHeard == agent = "running" => reader = "reading"

\* An agent that has exited is off the list two periods of the ticker later.
DelistedInTime ==
  agent = "exited" /\ handler = "loop" => now <= exitTime + 2 * PingPeriod

\* Pings and pongs keep the connection of an agent alive.
KeptAlive == agent = "exited" => interrupted
=============================================================================
