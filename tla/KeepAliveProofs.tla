--------------------------- MODULE KeepAliveProofs ---------------------------
(***************************************************************************)
(* Proofs about KeepAlive: the server's reader outlives no running agent,  *)
(* and a dead agent is delisted within two periods, for every period,      *)
(* timeout and delay with the margins assumed there, and for all time.     *)
(***************************************************************************)
EXTENDS KeepAlive, TLAPS

LEMMA InitTypes == ASSUME Init PROVE TypeOK
  BY PeriodAssumption, MarginAssumption DEF Init, TypeOK

LEMMA TypesStep == ASSUME TypeOK, [Next]_vars PROVE TypeOK'
<1> USE PeriodAssumption, MarginAssumption DEF TypeOK, agentVars, serverVars
<1>1. CASE Tick
  BY <1>1 DEF Tick
<1>2. CASE PingLoopWrite
  <2>1. nextPing' \in Nat /\ UNCHANGED <<now, pongs, agentVars, serverDeadline, reader, handler>>
    BY <1>2 DEF PingLoopWrite
  <2>2. pings' \subseteq Nat /\ conn' \in {"up", "closed", "reset"}
    BY <1>2 DEF PingLoopWrite
  <2> QED
    BY <2>1, <2>2
<1>3. CASE PingLoopFail
  BY <1>3 DEF PingLoopFail
<1>4. ASSUME NEW p \in pings, AgentPing(p) PROVE TypeOK'
  BY <1>4 DEF AgentPing
<1>5. ASSUME NEW p \in pongs, ServerPong(p) PROVE TypeOK'
  BY <1>5 DEF ServerPong
<1>6. CASE AgentExpire \/ AgentInterrupt
  BY <1>6 DEF AgentExpire, AgentInterrupt, AgentExit
<1>7. CASE ReaderExpire \/ TaskWrite
  BY <1>7 DEF ReaderExpire, TaskWrite
<1>8. CASE UNCHANGED vars
  BY <1>8 DEF vars
<1> QED
  BY <1>1, <1>2, <1>3, <1>4, <1>5, <1>6, <1>7, <1>8 DEF Next, Over

-----------------------------------------------------------------------------
\* Time of the last tick of the ticker, 0 before the first.
LastPing == nextPing - PingPeriod

\* The answer to the ping before the last one has moved the deadline.
Covered == serverDeadline >= LastPing - PingPeriod + ServerTimeout

\* What is known of the last ping: it has been answered, or it is on its way, or
\* its pong is.
Answered == serverDeadline >= LastPing + ServerTimeout
PingOut  == Covered /\ LastPing \in pings
PongOut  == Covered /\ \E q \in pongs : LastPing <= q /\ q <= LastPing + MaxDelay

ClockInv == handler = "loop" => now <= nextPing

\* While the agent runs nothing has been closed, no frame is older than MaxDelay
\* and the deadline is at least a round trip behind the last ping.
RunningInv ==
  agent = "running" =>
    /\ conn = "up" /\ handler = "loop" /\ reader = "reading"
    /\ LastPing <= now
    /\ \A p \in pings \cup pongs : now <= p + MaxDelay
    /\ Answered \/ PingOut \/ PongOut

\* Once it has exited, one write succeeds at most.
ExitInv ==
  agent = "exited" /\ handler = "loop" =>
    \/ conn = "closed" /\ nextPing <= exitTime + PingPeriod
    \/ conn = "reset"  /\ nextPing <= exitTime + 2 * PingPeriod

SessionInv == ClockInv /\ RunningInv /\ ExitInv

LEMMA InitSession == ASSUME Init PROVE SessionInv
  BY PeriodAssumption, MarginAssumption
     DEF Init, SessionInv, ClockInv, RunningInv, ExitInv, Answered, LastPing

\* A round trip is over before the next tick, and before the deadline.
LEMMA InTime ==
  ASSUME TypeOK, SessionInv, agent = "running"
  PROVE  /\ now < serverDeadline
         /\ now = nextPing => Answered
<1> USE PeriodAssumption, MarginAssumption DEF TypeOK, LastPing
<1>1. now <= nextPing
  BY DEF SessionInv, ClockInv, RunningInv
<1>2. CASE Answered
  BY <1>1, <1>2 DEF Answered
<1>3. CASE PingOut
  <2>1. now <= LastPing + MaxDelay
    BY <1>3 DEF PingOut, SessionInv, RunningInv
  <2> QED
    BY <1>3, <2>1 DEF PingOut, Covered
<1>4. CASE PongOut
  <2>1. PICK q \in pongs : LastPing <= q /\ q <= LastPing + MaxDelay
    BY <1>4 DEF PongOut
  <2>2. now <= q + MaxDelay
    BY DEF SessionInv, RunningInv
  <2> QED
    BY <1>4, <2>1, <2>2 DEF PongOut, Covered
<1> QED
  BY <1>2, <1>3, <1>4 DEF SessionInv, RunningInv

LEMMA SessionStep ==
  ASSUME TypeOK, SessionInv, [Next]_vars
  PROVE  SessionInv'
<1> USE PeriodAssumption, MarginAssumption DEF TypeOK, agentVars, serverVars
<1>1. CASE Tick
  <2>1. ClockInv'
    BY <1>1 DEF Tick, SessionInv, ClockInv
  <2>2. RunningInv'
    BY <1>1 DEF Tick, SessionInv, RunningInv, Answered, PingOut, PongOut, Covered, LastPing
  <2>3. ExitInv'
    BY <1>1 DEF Tick, SessionInv, ExitInv
  <2> QED
    BY <2>1, <2>2, <2>3 DEF SessionInv
<1>2. CASE PingLoopWrite
  <2>1. ClockInv'
    BY <1>2 DEF PingLoopWrite, SessionInv, ClockInv
  <2>2. RunningInv'
    <3> SUFFICES ASSUME agent = "running" PROVE RunningInv'
      BY <1>2 DEF PingLoopWrite, RunningInv
    <3>1. Answered
      BY <1>2, InTime DEF PingLoopWrite
    <3>2. conn = "up" /\ handler = "loop" /\ reader = "reading"
      BY DEF SessionInv, RunningInv
    <3>3. LastPing' = now /\ LastPing = now - PingPeriod
      BY <1>2 DEF PingLoopWrite, LastPing
    <3>4. PingOut'
      BY <1>2, <3>1, <3>2, <3>3 DEF PingLoopWrite, PingOut, Covered, Answered
    <3>5. \A p \in (pings \cup pongs)' : now' <= p + MaxDelay
      <4>1. pings' = pings \cup {now} /\ pongs' = pongs /\ now' = now
        BY <1>2, <3>2 DEF PingLoopWrite
      <4>2. \A p \in pings \cup pongs : now <= p + MaxDelay
        BY DEF SessionInv, RunningInv
      <4> QED
        BY <4>1, <4>2
    <3> QED
      BY <1>2, <3>2, <3>3, <3>4, <3>5 DEF PingLoopWrite, RunningInv
  <2>3. ExitInv'
    BY <1>2 DEF PingLoopWrite, SessionInv, ExitInv
  <2> QED
    BY <2>1, <2>2, <2>3 DEF SessionInv
<1>3. CASE PingLoopFail
  BY <1>3 DEF PingLoopFail, SessionInv, ClockInv, RunningInv, ExitInv
<1>4. ASSUME NEW p \in pings, AgentPing(p) PROVE SessionInv'
  <2>1. ClockInv' /\ ExitInv'
    BY <1>4 DEF AgentPing, SessionInv, ClockInv, ExitInv
  <2>2. RunningInv'
    <3>1. LastPing' = LastPing /\ (Covered <=> Covered') /\ (Answered <=> Answered')
      BY <1>4 DEF AgentPing, LastPing, Covered, Answered
    <3>2. CASE Answered
      BY <1>4, <3>1, <3>2 DEF AgentPing, SessionInv, RunningInv
    <3>3. CASE PingOut
      <4>1. CASE p = LastPing
        <5>1. now \in pongs' /\ LastPing <= now /\ now <= LastPing + MaxDelay
          BY <1>4, <4>1 DEF AgentPing, SessionInv, RunningInv
        <5>2. PongOut'
          BY <3>1, <3>3, <5>1 DEF PongOut, PingOut
        <5> QED
          BY <1>4, <3>1, <5>2 DEF AgentPing, SessionInv, RunningInv
      <4>2. CASE p # LastPing
        BY <1>4, <3>1, <3>3, <4>2 DEF AgentPing, SessionInv, RunningInv, PingOut
      <4> QED
        BY <4>1, <4>2
    <3>4. CASE PongOut
      <4>1. PongOut'
        BY <1>4, <3>1, <3>4 DEF AgentPing, PongOut
      <4> QED
        BY <1>4, <3>1, <4>1 DEF AgentPing, SessionInv, RunningInv
    <3> QED
      BY <1>4, <3>2, <3>3, <3>4 DEF AgentPing, SessionInv, RunningInv
  <2> QED
    BY <2>1, <2>2 DEF SessionInv
<1>5. ASSUME NEW p \in pongs, ServerPong(p) PROVE SessionInv'
  <2>1. ClockInv' /\ ExitInv'
    BY <1>5 DEF ServerPong, SessionInv, ClockInv, ExitInv
  <2>2. RunningInv'
    BY <1>5 DEF ServerPong, SessionInv, RunningInv, Answered, LastPing
  <2> QED
    BY <2>1, <2>2 DEF SessionInv
<1>6. CASE AgentExpire \/ AgentInterrupt
  BY <1>6 DEF AgentExpire, AgentInterrupt, AgentExit, SessionInv, ClockInv, RunningInv, ExitInv,
              LastPing
<1>7. CASE ReaderExpire
  <2>1. agent # "running"
    BY <1>7, InTime DEF ReaderExpire
  <2> QED
    BY <1>7, <2>1 DEF ReaderExpire, SessionInv, ClockInv, RunningInv, ExitInv
<1>8. CASE TaskWrite
  BY <1>8 DEF TaskWrite, SessionInv, ClockInv, RunningInv, ExitInv
<1>9. CASE UNCHANGED vars
  BY <1>9 DEF vars, SessionInv, ClockInv, RunningInv, ExitInv, Answered, PingOut, PongOut, Covered,
              LastPing
<1> QED
  BY <1>1, <1>2, <1>3, <1>4, <1>5, <1>6, <1>7, <1>8, <1>9 DEF Next, Over

-----------------------------------------------------------------------------
\* The types and the session's invariant hold in every state.
THEOREM SessionCorrect == Spec => [](TypeOK /\ SessionInv)
<1>1. Init => TypeOK /\ SessionInv
  BY InitTypes, InitSession
<1>2. TypeOK /\ SessionInv /\ [Next]_vars => (TypeOK /\ SessionInv)'
  BY TypesStep, SessionStep
<1> QED
  BY <1>1, <1>2, PTL DEF Spec

\* The server's read deadline never ends handleAgentMessages while the agent
\* runs: a ticker period and a round trip fit into it.
THEOREM AgentHeard == Spec => []RunningAgentIsHeard
<1>1. TypeOK /\ SessionInv => RunningAgentIsHeard
  BY DEF SessionInv, RunningInv, RunningAgentIsHeard
<1> QED
  BY <1>1, SessionCorrect, PTL

\* The ping loop takes an agent that has exited off the list within two periods.
THEOREM DeadDelisted == Spec => []DelistedInTime
<1>1. TypeOK /\ SessionInv => DelistedInTime
  BY PeriodAssumption DEF TypeOK, SessionInv, ClockInv, ExitInv, DelistedInTime
<1> QED
  BY <1>1, SessionCorrect, PTL
=============================================================================
