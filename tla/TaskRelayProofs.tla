--------------------------- MODULE TaskRelayProofs ---------------------------
(***************************************************************************)
(* Theorems about TaskRelay for every number of requests, agents and       *)
(* workers, every channel capacity and every number of answers: its types  *)
(* and safety, then that it keeps the order of a node's answers, then that *)
(* it implements the safety half of ProbeStream.                           *)
(***************************************************************************)
EXTENDS TaskRelay, SequenceTheorems, TLAPS

USE CapAssumption, NodeAssumption, KindAssumption

-----------------------------------------------------------------------------
\* Types.

LEMMA AgentTask ==
  ASSUME TaskTypes, NEW t \in Task,
         pc[t] \in {"register", "send", "writing", "wait", "unregister", "close"}
  PROVE  t \in Requests \X Agents /\ t[2] \in Agents
BY DEF TaskTypes, Task, Nodes, WorkerPc

LEMMA WorkerTask ==
  ASSUME TaskTypes, NEW t \in Task, pc[t] \in {"call", "recv"}
  PROVE  t[2] \in Workers
BY DEF TaskTypes, Task, Nodes, AgentPc

\* A step of a goroutine to a place of its kind of node keeps the types.
LEMMA GotoType ==
  ASSUME TaskTypes, NEW t \in Task, NEW from, NEW to, Goto(t, from, to),
         to \in IF t[2] \in Agents THEN AgentPc ELSE WorkerPc,
         item' \in [Task -> Int]
  PROVE  TaskTypes'
<1>1. pc' \in [Task -> AgentPc \cup WorkerPc]
  BY DEF Goto, TaskTypes
<1>2. ASSUME NEW u \in Task
      PROVE  pc'[u] \in IF u[2] \in Agents THEN AgentPc ELSE WorkerPc
  <2>1. CASE u = t
    BY <2>1 DEF Goto, TaskTypes
  <2>2. CASE u # t
    BY <2>2 DEF Goto, TaskTypes
  <2> QED
    BY <2>1, <2>2
<1> QED
  BY <1>1, <1>2 DEF TaskTypes

LEMMA TypeStep == TypeOK /\ [Next]_vars => TypeOK'
<1> SUFFICES ASSUME TypeOK, [Next]_vars PROVE TypeOK'
  OBVIOUS
<1> SessionTypes /\ WireTypes /\ RequestTypes /\ TaskTypes /\ ChanTypes
  BY DEF TypeOK
<1> USE DEF agentVars, readerVars, wireVars, reqVars, streamVars, taskVars, chanVars,
            Task, Nodes, Cap, OneAnswer
<1>1. ASSUME NEW a \in Agents, AgentJoin(a) PROVE TypeOK'
  <2>1. SessionTypes'
    BY <1>1 DEF AgentJoin, SessionTypes
  <2>2. WireTypes' /\ RequestTypes' /\ TaskTypes' /\ ChanTypes'
    BY <1>1 DEF AgentJoin, WireTypes, RequestTypes, TaskTypes, ChanTypes
  <2> QED
    BY <2>1, <2>2 DEF TypeOK
<1>2. ASSUME NEW a \in Agents, AgentDown(a) PROVE TypeOK'
  <2>1. SessionTypes'
    BY <1>2 DEF AgentDown, SessionTypes
  <2>2. WireTypes'
    BY <1>2 DEF AgentDown, WireTypes
  <2>3. RequestTypes' /\ TaskTypes' /\ ChanTypes'
    BY <1>2 DEF AgentDown, RequestTypes, TaskTypes, ChanTypes
  <2> QED
    BY <2>1, <2>2, <2>3 DEF TypeOK
<1>3. ASSUME NEW a \in Agents, PingBegin(a) PROVE TypeOK'
  <2>1. SessionTypes'
    BY <1>3 DEF PingBegin, SessionTypes
  <2>2. WireTypes' /\ RequestTypes' /\ TaskTypes' /\ ChanTypes'
    BY <1>3 DEF PingBegin, WireTypes, RequestTypes, TaskTypes, ChanTypes
  <2> QED
    BY <2>1, <2>2 DEF TypeOK
<1>4. ASSUME NEW a \in Agents, PingEnd(a) PROVE TypeOK'
  <2>1. SessionTypes'
    BY <1>4 DEF PingEnd, SessionTypes
  <2>2. WireTypes' /\ RequestTypes' /\ TaskTypes' /\ ChanTypes'
    BY <1>4 DEF PingEnd, WireTypes, RequestTypes, TaskTypes, ChanTypes
  <2> QED
    BY <2>1, <2>2 DEF TypeOK
<1>5. ASSUME NEW a \in Agents, Cleanup(a) PROVE TypeOK'
  <2>1. SessionTypes'
    BY <1>5 DEF Cleanup, SessionTypes
  <2>2. WireTypes' /\ RequestTypes' /\ TaskTypes' /\ ChanTypes'
    BY <1>5 DEF Cleanup, WireTypes, RequestTypes, TaskTypes, ChanTypes
  <2> QED
    BY <2>1, <2>2 DEF TypeOK
<1>6. ASSUME NEW a \in Agents, ReaderTake(a) PROVE TypeOK'
  <2>1. WireTypes'
    BY <1>6 DEF ReaderTake, WireTypes
  <2>2. SessionTypes' /\ RequestTypes' /\ TaskTypes' /\ ChanTypes'
    BY <1>6 DEF ReaderTake, SessionTypes, RequestTypes, TaskTypes, ChanTypes
  <2> QED
    BY <2>1, <2>2 DEF TypeOK
<1>7. ASSUME NEW a \in Agents, ReaderSend(a) PROVE TypeOK'
  <2>1. WireTypes'
    BY <1>7 DEF ReaderSend, WireTypes
  <2>2. ChanTypes'
    <3>1. PICK m \in hand[a] :
            chan' = IF Len(chan[m.task]) < Cap(m.task)
                    THEN [chan EXCEPT ![m.task] = Append(@, m.n)]
                    ELSE chan
      BY <1>7 DEF ReaderSend
    <3>2. m.task \in Task /\ m.n \in Nat
      BY DEF WireTypes, Message
    <3>3. Cap(m.task)' = Cap(m.task) /\ UNCHANGED <<kind, taskChans, closed>>
      BY <1>7 DEF ReaderSend
    <3>4. CASE Len(chan[m.task]) < Cap(m.task)
      <4>1. chan' \in [Task -> Seq(Nat)]
        BY <3>1, <3>2, <3>4 DEF ChanTypes
      <4>2. ASSUME NEW u \in Task PROVE Len(chan'[u]) <= Cap(u)
        <5>1. CASE u = m.task
          <6>1. chan'[u] = Append(chan[u], m.n) /\ chan[u] \in Seq(Nat)
            BY <3>1, <3>2, <3>4, <5>1 DEF ChanTypes
          <6>2. Len(chan'[u]) = Len(chan[u]) + 1
            BY <3>2, <6>1, AppendProperties
          <6> QED
            BY <3>4, <5>1, <6>1, <6>2, CapAssumption
        <5>2. CASE u # m.task
          BY <3>1, <3>2, <3>4, <5>2 DEF ChanTypes
        <5> QED
          BY <5>1, <5>2
      <4> QED
        BY <3>3, <4>1, <4>2 DEF ChanTypes
    <3>5. CASE ~(Len(chan[m.task]) < Cap(m.task))
      BY <3>1, <3>3, <3>5 DEF ChanTypes
    <3> QED
      BY <3>4, <3>5
  <2>3. SessionTypes' /\ RequestTypes' /\ TaskTypes'
    BY <1>7 DEF ReaderSend, SessionTypes, RequestTypes, TaskTypes
  <2> QED
    BY <2>1, <2>2, <2>3 DEF TypeOK
<1>8. ASSUME NEW a \in Agents, ReaderExit(a) PROVE TypeOK'
  <2>1. SessionTypes'
    BY <1>8 DEF ReaderExit, SessionTypes
  <2>2. WireTypes' /\ RequestTypes' /\ TaskTypes' /\ ChanTypes'
    BY <1>8 DEF ReaderExit, WireTypes, RequestTypes, TaskTypes, ChanTypes
  <2> QED
    BY <2>1, <2>2 DEF TypeOK
<1>9. ASSUME NEW r \in Requests, VersionRequest(r) PROVE TypeOK'
  <2>1. RequestTypes'
    BY <1>9 DEF VersionRequest, Open, RequestTypes
  <2>2. SessionTypes' /\ WireTypes' /\ TaskTypes' /\ ChanTypes'
    BY <1>9 DEF VersionRequest, Open, SessionTypes, WireTypes, TaskTypes, ChanTypes
  <2> QED
    BY <2>1, <2>2 DEF TypeOK
<1>10. ASSUME NEW r \in Requests, PingRequest(r) PROVE TypeOK'
  <2>1. RequestTypes'
    BY <1>10 DEF PingRequest, Open, RequestTypes
  <2>2. SessionTypes' /\ WireTypes' /\ TaskTypes' /\ ChanTypes'
    BY <1>10 DEF PingRequest, Open, SessionTypes, WireTypes, TaskTypes, ChanTypes
  <2> QED
    BY <2>1, <2>2 DEF TypeOK
<1>11. ASSUME NEW r \in Requests, TracerouteRequest(r) PROVE TypeOK'
  <2>1. RequestTypes'
    <3>1. PICK x \in listed : Open(r, {x})
      BY <1>11 DEF TracerouteRequest
    <3> QED
      BY <3>1 DEF Open, SessionTypes, RequestTypes
  <2>2. SessionTypes' /\ WireTypes' /\ TaskTypes' /\ ChanTypes'
    BY <1>11 DEF TracerouteRequest, Open, SessionTypes, WireTypes, TaskTypes, ChanTypes
  <2> QED
    BY <2>1, <2>2 DEF TypeOK
<1>12. ASSUME NEW r \in Requests, MtrRequest(r) PROVE TypeOK'
  <2>1. RequestTypes'
    <3>1. PICK x \in listed : Open(r, {x})
      BY <1>12 DEF MtrRequest
    <3> QED
      BY <3>1 DEF Open, SessionTypes, RequestTypes
  <2>2. SessionTypes' /\ WireTypes' /\ TaskTypes' /\ ChanTypes'
    BY <1>12 DEF MtrRequest, Open, SessionTypes, WireTypes, TaskTypes, ChanTypes
  <2> QED
    BY <2>1, <2>2 DEF TypeOK
<1>13. ASSUME NEW r \in Requests, Reject(r) PROVE TypeOK'
  <2>1. RequestTypes'
    BY <1>13 DEF Reject, RequestTypes
  <2>2. SessionTypes' /\ WireTypes' /\ TaskTypes' /\ ChanTypes'
    BY <1>13 DEF Reject, SessionTypes, WireTypes, TaskTypes, ChanTypes
  <2> QED
    BY <2>1, <2>2 DEF TypeOK
<1>14. ASSUME NEW r \in Requests, Fanout(r) PROVE TypeOK'
  <2>1. RequestTypes'
    BY <1>14 DEF Fanout, RequestTypes
  <2>2. TaskTypes'
    BY <1>14 DEF Fanout, TaskTypes, AgentPc, WorkerPc
  <2>3. SessionTypes' /\ WireTypes' /\ ChanTypes'
    BY <1>14 DEF Fanout, SessionTypes, WireTypes, ChanTypes
  <2> QED
    BY <2>1, <2>2, <2>3 DEF TypeOK
<1>15. ASSUME NEW r \in Requests, ClientGone(r) PROVE TypeOK'
  <2>1. RequestTypes'
    BY <1>15 DEF ClientGone, RequestTypes
  <2>2. SessionTypes' /\ WireTypes' /\ TaskTypes' /\ ChanTypes'
    BY <1>15 DEF ClientGone, SessionTypes, WireTypes, TaskTypes, ChanTypes
  <2> QED
    BY <2>1, <2>2 DEF TypeOK
<1>16. ASSUME NEW r \in Requests, CtxEnd(r) PROVE TypeOK'
  <2>1. RequestTypes'
    BY <1>16 DEF CtxEnd, RequestTypes
  <2>2. SessionTypes' /\ WireTypes' /\ TaskTypes' /\ ChanTypes'
    BY <1>16 DEF CtxEnd, SessionTypes, WireTypes, TaskTypes, ChanTypes
  <2> QED
    BY <2>1, <2>2 DEF TypeOK
<1>17. ASSUME NEW r \in Requests, StreamCheck(r) PROVE TypeOK'
  <2>1. RequestTypes'
    BY <1>17 DEF StreamCheck, RequestTypes
  <2>2. SessionTypes' /\ WireTypes' /\ TaskTypes' /\ ChanTypes'
    BY <1>17 DEF StreamCheck, SessionTypes, WireTypes, TaskTypes, ChanTypes
  <2> QED
    BY <2>1, <2>2 DEF TypeOK
<1>18. ASSUME NEW r \in Requests, StreamDone(r) PROVE TypeOK'
  <2>1. RequestTypes'
    BY <1>18 DEF StreamDone, RequestTypes
  <2>2. SessionTypes' /\ WireTypes' /\ TaskTypes' /\ ChanTypes'
    BY <1>18 DEF StreamDone, SessionTypes, WireTypes, TaskTypes, ChanTypes
  <2> QED
    BY <2>1, <2>2 DEF TypeOK
<1>19. ASSUME NEW r \in Requests, WebPush(r) PROVE TypeOK'
  <2>1. RequestTypes'
    <3>1. [node |-> Web, n |-> 1] \in Line
      BY DEF Line
    <3> QED
      BY <1>19, <3>1 DEF WebPush, Write, RequestTypes
  <2>2. SessionTypes' /\ WireTypes' /\ TaskTypes' /\ ChanTypes'
    BY <1>19 DEF WebPush, Write, SessionTypes, WireTypes, TaskTypes, ChanTypes
  <2> QED
    BY <2>1, <2>2 DEF TypeOK
<1>20. ASSUME NEW t \in Task, Register(t) PROVE TypeOK'
  <2>1. t \in Requests \X Agents /\ t[2] \in Agents
    BY <1>20, AgentTask DEF Register, Goto
  <2>2. TaskTypes'
    BY <1>20, <2>1, GotoType DEF Register, TaskTypes, AgentPc, WorkerPc
  <2>3. ChanTypes'
    BY <1>20, <2>1 DEF Register, Goto, ChanTypes
  <2>4. SessionTypes' /\ WireTypes' /\ RequestTypes'
    BY <1>20 DEF Register, SessionTypes, WireTypes, RequestTypes
  <2> QED
    BY <2>2, <2>3, <2>4 DEF TypeOK
<1>21. ASSUME NEW t \in Task, SendBegin(t) PROVE TypeOK'
  <2>1. t \in Requests \X Agents /\ t[2] \in Agents
    BY <1>21, AgentTask DEF SendBegin, Goto
  <2>2. TaskTypes'
    BY <1>21, <2>1, GotoType DEF SendBegin, TaskTypes, AgentPc, WorkerPc
  <2>3. SessionTypes' /\ WireTypes' /\ RequestTypes' /\ ChanTypes'
    BY <1>21 DEF SendBegin, SessionTypes, WireTypes, RequestTypes, ChanTypes
  <2> QED
    BY <2>2, <2>3 DEF TypeOK
<1>22. ASSUME NEW t \in Task, SendOk(t) PROVE TypeOK'
  <2>1. t \in Requests \X Agents /\ t[2] \in Agents
    BY <1>22, AgentTask DEF SendOk, Goto
  <2>2. TaskTypes'
    BY <1>22, <2>1, GotoType DEF SendOk, TaskTypes, AgentPc, WorkerPc
  <2>3. WireTypes'
    BY <1>22, <2>1 DEF SendOk, Goto, WireTypes
  <2>4. SessionTypes' /\ RequestTypes' /\ ChanTypes'
    BY <1>22 DEF SendOk, SessionTypes, RequestTypes, ChanTypes
  <2> QED
    BY <2>2, <2>3, <2>4 DEF TypeOK
<1>23. ASSUME NEW t \in Task, SendFail(t) PROVE TypeOK'
  <2>1. t \in Requests \X Agents /\ t[2] \in Agents
    BY <1>23, AgentTask DEF SendFail, Goto
  <2>2. TaskTypes'
    BY <1>23, <2>1, GotoType DEF SendFail, Offline, TaskTypes, AgentPc, WorkerPc
  <2>3. SessionTypes' /\ WireTypes' /\ RequestTypes' /\ ChanTypes'
    BY <1>23 DEF SendFail, SessionTypes, WireTypes, RequestTypes, ChanTypes
  <2> QED
    BY <2>2, <2>3 DEF TypeOK
<1>24. ASSUME NEW t \in Task, Receive(t) PROVE TypeOK'
  <2>1. t \in Requests \X Agents /\ t[2] \in Agents
    BY <1>24, AgentTask DEF Receive, Goto
  <2>2. TaskTypes'
    BY <1>24, <2>1, GotoType DEF Receive, TaskTypes, AgentPc, WorkerPc, ChanTypes
  <2>3. ChanTypes'
    BY <1>24, <2>1 DEF Receive, Goto, ChanTypes
  <2>4. SessionTypes' /\ WireTypes' /\ RequestTypes'
    BY <1>24 DEF Receive, SessionTypes, WireTypes, RequestTypes
  <2> QED
    BY <2>2, <2>3, <2>4 DEF TypeOK
<1>25. ASSUME NEW t \in Task, GiveUp(t) PROVE TypeOK'
  <2>1. t \in Requests \X Agents /\ t[2] \in Agents
    BY <1>25, AgentTask DEF GiveUp, Goto
  <2>2. TaskTypes'
    BY <1>25, <2>1, GotoType DEF GiveUp, TimedOut, TaskTypes, AgentPc, WorkerPc
  <2>3. SessionTypes' /\ WireTypes' /\ RequestTypes' /\ ChanTypes'
    BY <1>25 DEF GiveUp, SessionTypes, WireTypes, RequestTypes, ChanTypes
  <2> QED
    BY <2>2, <2>3 DEF TypeOK
<1>26. ASSUME NEW t \in Task, Unregister(t) PROVE TypeOK'
  <2>1. t \in Requests \X Agents /\ t[2] \in Agents
    BY <1>26, AgentTask DEF Unregister, Goto
  <2>2. TaskTypes'
    BY <1>26, <2>1, GotoType DEF Unregister, TaskTypes, AgentPc, WorkerPc
  <2>3. ChanTypes'
    BY <1>26, <2>1 DEF Unregister, Goto, ChanTypes
  <2>4. SessionTypes' /\ WireTypes' /\ RequestTypes'
    BY <1>26 DEF Unregister, SessionTypes, WireTypes, RequestTypes
  <2> QED
    BY <2>2, <2>3, <2>4 DEF TypeOK
<1>27. ASSUME NEW t \in Task, CloseChan(t) PROVE TypeOK'
  <2>1. t \in Requests \X Agents /\ t[2] \in Agents
    BY <1>27, AgentTask DEF CloseChan, Goto
  <2>2. TaskTypes'
    BY <1>27, <2>1, GotoType DEF CloseChan, TaskTypes, AgentPc, WorkerPc
  <2>3. ChanTypes'
    BY <1>27, <2>1 DEF CloseChan, Goto, ChanTypes
  <2>4. SessionTypes' /\ WireTypes' /\ RequestTypes'
    BY <1>27 DEF CloseChan, SessionTypes, WireTypes, RequestTypes
  <2> QED
    BY <2>2, <2>3, <2>4 DEF TypeOK
<1>28. ASSUME NEW t \in Task, CallFail(t) PROVE TypeOK'
  <2>1. t[2] \in Workers
    BY <1>28, WorkerTask DEF CallFail, Goto
  <2>2. TaskTypes'
    BY <1>28, <2>1, GotoType DEF CallFail, Offline, TaskTypes, AgentPc, WorkerPc
  <2>3. SessionTypes' /\ WireTypes' /\ RequestTypes' /\ ChanTypes'
    BY <1>28 DEF CallFail, SessionTypes, WireTypes, RequestTypes, ChanTypes
  <2> QED
    BY <2>2, <2>3 DEF TypeOK
<1>29. ASSUME NEW t \in Task, CallOk(t) PROVE TypeOK'
  <2>1. t[2] \in Workers
    BY <1>29, WorkerTask DEF CallOk, Goto
  <2>2. TaskTypes'
    BY <1>29, <2>1, GotoType DEF CallOk, TaskTypes, AgentPc, WorkerPc
  <2>3. WireTypes'
    BY <1>29, <2>1 DEF CallOk, Goto, WireTypes
  <2>4. SessionTypes' /\ RequestTypes' /\ ChanTypes'
    BY <1>29 DEF CallOk, SessionTypes, RequestTypes, ChanTypes
  <2> QED
    BY <2>2, <2>3, <2>4 DEF TypeOK
<1>30. ASSUME NEW t \in Task, Recv(t) PROVE TypeOK'
  <2>1. t[2] \in Workers
    BY <1>30, WorkerTask DEF Recv, Goto
  <2>2. TaskTypes'
    BY <1>30, <2>1, GotoType DEF Recv, TaskTypes, AgentPc, WorkerPc, WireTypes
  <2>3. WireTypes'
    BY <1>30, <2>1 DEF Recv, Goto, WireTypes
  <2>4. SessionTypes' /\ RequestTypes' /\ ChanTypes'
    BY <1>30 DEF Recv, SessionTypes, RequestTypes, ChanTypes
  <2> QED
    BY <2>2, <2>3, <2>4 DEF TypeOK
<1>31. ASSUME NEW t \in Task, RecvEnd(t) PROVE TypeOK'
  <2>1. t[2] \in Workers
    BY <1>31, WorkerTask DEF RecvEnd, Goto
  <2>2. TaskTypes'
    BY <1>31, <2>1, GotoType DEF RecvEnd, TaskTypes, AgentPc, WorkerPc
  <2>3. SessionTypes' /\ WireTypes' /\ RequestTypes' /\ ChanTypes'
    BY <1>31 DEF RecvEnd, SessionTypes, WireTypes, RequestTypes, ChanTypes
  <2> QED
    BY <2>2, <2>3 DEF TypeOK
<1>32. ASSUME NEW t \in Task, Push(t) PROVE TypeOK'
  <2>1. TaskTypes'
    BY <1>32, GotoType DEF Push, AfterPush, TaskTypes, AgentPc, WorkerPc
  <2>2. RequestTypes'
    <3>1. [node |-> t[2], n |-> item[t]] \in Line
      BY DEF TaskTypes, Line
    <3> QED
      BY <1>32, <3>1 DEF Push, Write, RequestTypes
  <2>3. SessionTypes' /\ WireTypes' /\ ChanTypes'
    BY <1>32 DEF Push, Write, SessionTypes, WireTypes, ChanTypes
  <2> QED
    BY <2>1, <2>2, <2>3 DEF TypeOK
<1>33. ASSUME NEW t \in Task, AgentReply(t) PROVE TypeOK'
  <2>1. WireTypes'
    <3>1. [task |-> t, n |-> produced[t] + 1] \in Msg(t[2]) \cap Message
      BY <1>33 DEF AgentReply, WireTypes, Msg, Message
    <3> QED
      BY <1>33, <3>1 DEF AgentReply, WireTypes
  <2>2. SessionTypes' /\ RequestTypes' /\ TaskTypes' /\ ChanTypes'
    BY <1>33 DEF AgentReply, SessionTypes, RequestTypes, TaskTypes, ChanTypes
  <2> QED
    BY <2>1, <2>2 DEF TypeOK
<1>34. CASE UNCHANGED vars
  BY <1>34 DEF vars, TypeOK, SessionTypes, WireTypes, RequestTypes, TaskTypes, ChanTypes
<1>35. QED
  BY <1>1, <1>2, <1>3, <1>4, <1>5, <1>6, <1>7, <1>8, <1>9, <1>10, <1>11, <1>12, <1>13, <1>14, <1>15, <1>16, <1>17, <1>18, <1>19, <1>20, <1>21, <1>22, <1>23, <1>24, <1>25, <1>26, <1>27, <1>28, <1>29, <1>30, <1>31, <1>32, <1>33, <1>34
  DEF Next, SessionStep, ReaderStep, RequestStep, StreamStep, AgentTaskStep,
      WorkerTaskStep, Quiescent

-----------------------------------------------------------------------------
\* Entries of TaskChans.

\* An entry of TaskChans belongs to a goroutine between the insertion and the
\* deferred deletion, and its channel is open; a channel is closed by a
\* goroutine that is done; the reader holds a message only of an entry; a stream
\* that has not opened has no goroutines and one that has ended has none left.
EntriesInv ==
  /\ \A t \in taskChans : /\ pc[t] \in {"send", "writing", "wait", "push", "unregister"}
                          /\ t \notin closed
  /\ \A t \in closed : pc[t] = "exited"
  /\ \A a \in Agents : \A m \in hand[a] : m.task \in taskChans
  /\ \A t \in Task : /\ stream[t[1]] \in {"idle", "resolve", "rejected"} => pc[t] = "idle"
                     /\ stream[t[1]] = "ended" => Finished(t)

LEMMA EntriesStep == TypeOK /\ EntriesInv /\ [Next]_vars => EntriesInv'
<1> SUFFICES ASSUME TypeOK, EntriesInv, [Next]_vars PROVE EntriesInv'
  OBVIOUS
<1> SessionTypes /\ WireTypes /\ RequestTypes /\ TaskTypes /\ ChanTypes
  BY DEF TypeOK
<1> USE DEF agentVars, readerVars, wireVars, reqVars, streamVars, taskVars, chanVars,
            EntriesInv, Finished, WireTypes, TaskTypes, ChanTypes
<1>1. ASSUME NEW a \in Agents, AgentJoin(a) PROVE EntriesInv'
  BY <1>1 DEF AgentJoin
<1>2. ASSUME NEW a \in Agents, AgentDown(a) PROVE EntriesInv'
  BY <1>2 DEF AgentDown
<1>3. ASSUME NEW a \in Agents, PingBegin(a) PROVE EntriesInv'
  BY <1>3 DEF PingBegin
<1>4. ASSUME NEW a \in Agents, PingEnd(a) PROVE EntriesInv'
  BY <1>4 DEF PingEnd
<1>5. ASSUME NEW a \in Agents, Cleanup(a) PROVE EntriesInv'
  BY <1>5 DEF Cleanup
<1>6. ASSUME NEW a \in Agents, ReaderTake(a) PROVE EntriesInv'
  BY <1>6 DEF ReaderTake
<1>7. ASSUME NEW a \in Agents, ReaderSend(a) PROVE EntriesInv'
  BY <1>7 DEF ReaderSend
<1>8. ASSUME NEW a \in Agents, ReaderExit(a) PROVE EntriesInv'
  BY <1>8 DEF ReaderExit
<1>9. ASSUME NEW r \in Requests, VersionRequest(r) PROVE EntriesInv'
  BY <1>9 DEF VersionRequest, Open
<1>10. ASSUME NEW r \in Requests, PingRequest(r) PROVE EntriesInv'
  BY <1>10 DEF PingRequest, Open
<1>11. ASSUME NEW r \in Requests, TracerouteRequest(r) PROVE EntriesInv'
  BY <1>11 DEF TracerouteRequest, Open
<1>12. ASSUME NEW r \in Requests, MtrRequest(r) PROVE EntriesInv'
  BY <1>12 DEF MtrRequest, Open
<1>13. ASSUME NEW r \in Requests, Reject(r) PROVE EntriesInv'
  BY <1>13 DEF Reject
<1>14. ASSUME NEW r \in Requests, Fanout(r) PROVE EntriesInv'
  <2>1. \A t \in Task : t[1] = r => pc[t] = "idle"
    BY <1>14 DEF Fanout
  <2>2. \A t \in taskChans \cup closed : t[1] # r /\ pc'[t] = pc[t]
    BY <1>14, <2>1 DEF Fanout, Task, Nodes
  <2>3. \A t \in Task : t[1] # r => pc'[t] = pc[t] /\ stream'[t[1]] = stream[t[1]]
    BY <1>14 DEF Fanout, RequestTypes, Task
  <2>4. stream'[r] = "check" /\ UNCHANGED <<taskChans, closed, hand>>
    BY <1>14 DEF Fanout, RequestTypes
  <2> QED
    BY <2>2, <2>3, <2>4
<1>15. ASSUME NEW r \in Requests, ClientGone(r) PROVE EntriesInv'
  BY <1>15 DEF ClientGone
<1>16. ASSUME NEW r \in Requests, CtxEnd(r) PROVE EntriesInv'
  BY <1>16 DEF CtxEnd
<1>17. ASSUME NEW r \in Requests, StreamCheck(r) PROVE EntriesInv'
  BY <1>17 DEF StreamCheck, RequestTypes, Task
<1>18. ASSUME NEW r \in Requests, StreamDone(r) PROVE EntriesInv'
  <2>1. \A t \in Task : t[1] = r => Finished(t)
    BY <1>18 DEF StreamDone, Task
  <2> QED
    BY <1>18, <2>1 DEF StreamDone, RequestTypes, Task
<1>19. ASSUME NEW r \in Requests, WebPush(r) PROVE EntriesInv'
  BY <1>19 DEF WebPush, Write
<1>20. ASSUME NEW t \in Task, Register(t) PROVE EntriesInv'
  BY <1>20 DEF Register, Goto
<1>21. ASSUME NEW t \in Task, SendBegin(t) PROVE EntriesInv'
  BY <1>21 DEF SendBegin, Goto
<1>22. ASSUME NEW t \in Task, SendOk(t) PROVE EntriesInv'
  BY <1>22 DEF SendOk, Goto
<1>23. ASSUME NEW t \in Task, SendFail(t) PROVE EntriesInv'
  BY <1>23 DEF SendFail, Goto
<1>24. ASSUME NEW t \in Task, Receive(t) PROVE EntriesInv'
  BY <1>24 DEF Receive, Goto
<1>25. ASSUME NEW t \in Task, GiveUp(t) PROVE EntriesInv'
  BY <1>25 DEF GiveUp, Goto
<1>26. ASSUME NEW t \in Task, Unregister(t) PROVE EntriesInv'
  <2>1. t \in Requests \X Agents /\ t[2] \in Agents
    BY <1>26, AgentTask DEF Unregister, Goto
  <2>2. ASSUME NEW a \in Agents, NEW m \in hand[a] PROVE m.task # t
    <3>0. m \in Msg(a)
      OBVIOUS
    <3>1. m.task[2] = a
      BY <3>0 DEF Msg
    <3> QED
      BY <1>26, <3>1 DEF Unregister, RLocked
  <2> QED
    BY <1>26, <2>1, <2>2 DEF Unregister, Goto
<1>27. ASSUME NEW t \in Task, CloseChan(t) PROVE EntriesInv'
  BY <1>27 DEF CloseChan, Goto
<1>28. ASSUME NEW t \in Task, CallFail(t) PROVE EntriesInv'
  BY <1>28 DEF CallFail, Goto
<1>29. ASSUME NEW t \in Task, CallOk(t) PROVE EntriesInv'
  BY <1>29 DEF CallOk, Goto
<1>30. ASSUME NEW t \in Task, Recv(t) PROVE EntriesInv'
  BY <1>30 DEF Recv, Goto
<1>31. ASSUME NEW t \in Task, RecvEnd(t) PROVE EntriesInv'
  BY <1>31 DEF RecvEnd, Goto
<1>32. ASSUME NEW t \in Task, Push(t) PROVE EntriesInv'
  <2>1. CASE t \in taskChans
    <3>1. AfterPush(t) \in {"unregister", "wait"}
      BY <2>1, NodeAssumption DEF AfterPush
    <3> QED
      BY <1>32, <2>1, <3>1 DEF Push, Goto, Write, RequestTypes, Task
  <2>2. CASE t \notin taskChans
    BY <1>32, <2>2 DEF Push, Goto, Write, RequestTypes, Task
  <2> QED
    BY <2>1, <2>2
<1>33. ASSUME NEW t \in Task, AgentReply(t) PROVE EntriesInv'
  BY <1>33 DEF AgentReply
<1>34. CASE UNCHANGED vars
  BY <1>34 DEF vars
<1>35. QED
  BY <1>1, <1>2, <1>3, <1>4, <1>5, <1>6, <1>7, <1>8, <1>9, <1>10, <1>11, <1>12, <1>13, <1>14, <1>15, <1>16, <1>17, <1>18, <1>19, <1>20, <1>21, <1>22, <1>23, <1>24, <1>25, <1>26, <1>27, <1>28, <1>29, <1>30, <1>31, <1>32, <1>33, <1>34
  DEF Next, SessionStep, ReaderStep, RequestStep, StreamStep, AgentTaskStep,
      WorkerTaskStep, Quiescent

-----------------------------------------------------------------------------
\* Writers of a WebSocket.

LEMMA AfterPushPlace ==
  ASSUME NEW t \in Task
  PROVE  AfterPush(t) \in {"unregister", "wait", "exited", "recv"}
<1>1. t[2] \in Agents \/ t[2] \in Workers
  BY DEF Task, Nodes
<1> QED
  BY <1>1, NodeAssumption DEF AfterPush

LEMMA WriterStep == TypeOK /\ OneWriterPerConn /\ [Next]_vars => OneWriterPerConn'
<1> SUFFICES ASSUME TypeOK, OneWriterPerConn, [Next]_vars PROVE OneWriterPerConn'
  OBVIOUS
<1> SessionTypes /\ WireTypes /\ RequestTypes /\ TaskTypes /\ ChanTypes
  BY DEF TypeOK
<1> USE DEF agentVars, readerVars, wireVars, reqVars, streamVars, taskVars, chanVars,
            OneWriterPerConn, WsLocked, TaskTypes, Task, Nodes
<1>1. ASSUME NEW a \in Agents, AgentJoin(a) PROVE OneWriterPerConn'
  BY <1>1 DEF AgentJoin
<1>2. ASSUME NEW a \in Agents, AgentDown(a) PROVE OneWriterPerConn'
  BY <1>2 DEF AgentDown
<1>3. ASSUME NEW a \in Agents, PingBegin(a) PROVE OneWriterPerConn'
  <2>1. \A r \in Requests : pc[<<r, a>>] # "writing"
    BY <1>3 DEF PingBegin, WsLocked
  <2>2. UNCHANGED pc /\ \A b \in Agents : b # a => ticker'[b] = ticker[b]
    BY <1>3 DEF PingBegin, SessionTypes
  <2> QED
    BY <2>1, <2>2
<1>4. ASSUME NEW a \in Agents, PingEnd(a) PROVE OneWriterPerConn'
  BY <1>4 DEF PingEnd, SessionTypes
<1>5. ASSUME NEW a \in Agents, Cleanup(a) PROVE OneWriterPerConn'
  BY <1>5 DEF Cleanup
<1>6. ASSUME NEW a \in Agents, ReaderTake(a) PROVE OneWriterPerConn'
  BY <1>6 DEF ReaderTake
<1>7. ASSUME NEW a \in Agents, ReaderSend(a) PROVE OneWriterPerConn'
  BY <1>7 DEF ReaderSend
<1>8. ASSUME NEW a \in Agents, ReaderExit(a) PROVE OneWriterPerConn'
  BY <1>8 DEF ReaderExit
<1>9. ASSUME NEW r \in Requests, VersionRequest(r) PROVE OneWriterPerConn'
  BY <1>9 DEF VersionRequest, Open
<1>10. ASSUME NEW r \in Requests, PingRequest(r) PROVE OneWriterPerConn'
  BY <1>10 DEF PingRequest, Open
<1>11. ASSUME NEW r \in Requests, TracerouteRequest(r) PROVE OneWriterPerConn'
  BY <1>11 DEF TracerouteRequest, Open
<1>12. ASSUME NEW r \in Requests, MtrRequest(r) PROVE OneWriterPerConn'
  BY <1>12 DEF MtrRequest, Open
<1>13. ASSUME NEW r \in Requests, Reject(r) PROVE OneWriterPerConn'
  BY <1>13 DEF Reject
<1>14. ASSUME NEW r \in Requests, Fanout(r) PROVE OneWriterPerConn'
  BY <1>14 DEF Fanout
<1>15. ASSUME NEW r \in Requests, ClientGone(r) PROVE OneWriterPerConn'
  BY <1>15 DEF ClientGone
<1>16. ASSUME NEW r \in Requests, CtxEnd(r) PROVE OneWriterPerConn'
  BY <1>16 DEF CtxEnd
<1>17. ASSUME NEW r \in Requests, StreamCheck(r) PROVE OneWriterPerConn'
  BY <1>17 DEF StreamCheck
<1>18. ASSUME NEW r \in Requests, StreamDone(r) PROVE OneWriterPerConn'
  BY <1>18 DEF StreamDone
<1>19. ASSUME NEW r \in Requests, WebPush(r) PROVE OneWriterPerConn'
  BY <1>19 DEF WebPush, Write
<1>20. ASSUME NEW t \in Task, Register(t) PROVE OneWriterPerConn'
  BY <1>20 DEF Register, Goto
<1>21. ASSUME NEW t \in Task, SendBegin(t) PROVE OneWriterPerConn'
  <2>1. t[2] \in Agents
    BY <1>21, AgentTask DEF SendBegin, Goto
  <2>2. /\ ticker[t[2]] # "writing" /\ UNCHANGED ticker
        /\ \A r \in Requests : pc[<<r, t[2]>>] # "writing"
    BY <1>21, <2>1 DEF SendBegin
  <2>3. \A u \in Task : u # t => pc'[u] = pc[u]
    BY <1>21 DEF SendBegin, Goto
  <2>4. \A u \in Task : u[2] = t[2] /\ pc'[u] = "writing" => u = t
    BY <2>2, <2>3
  <2>5. \A u \in Task : u[2] # t[2] => pc'[u] = pc[u]
    BY <2>3
  <2> QED
    BY <2>1, <2>2, <2>4, <2>5
<1>22. ASSUME NEW t \in Task, SendOk(t) PROVE OneWriterPerConn'
  BY <1>22 DEF SendOk, Goto
<1>23. ASSUME NEW t \in Task, SendFail(t) PROVE OneWriterPerConn'
  BY <1>23 DEF SendFail, Goto
<1>24. ASSUME NEW t \in Task, Receive(t) PROVE OneWriterPerConn'
  BY <1>24 DEF Receive, Goto
<1>25. ASSUME NEW t \in Task, GiveUp(t) PROVE OneWriterPerConn'
  BY <1>25 DEF GiveUp, Goto
<1>26. ASSUME NEW t \in Task, Unregister(t) PROVE OneWriterPerConn'
  BY <1>26 DEF Unregister, Goto
<1>27. ASSUME NEW t \in Task, CloseChan(t) PROVE OneWriterPerConn'
  BY <1>27 DEF CloseChan, Goto
<1>28. ASSUME NEW t \in Task, CallFail(t) PROVE OneWriterPerConn'
  BY <1>28 DEF CallFail, Goto
<1>29. ASSUME NEW t \in Task, CallOk(t) PROVE OneWriterPerConn'
  BY <1>29 DEF CallOk, Goto
<1>30. ASSUME NEW t \in Task, Recv(t) PROVE OneWriterPerConn'
  BY <1>30 DEF Recv, Goto
<1>31. ASSUME NEW t \in Task, RecvEnd(t) PROVE OneWriterPerConn'
  BY <1>31 DEF RecvEnd, Goto
<1>32. ASSUME NEW t \in Task, Push(t) PROVE OneWriterPerConn'
  <2>1. \A u \in Task : pc'[u] = "writing" => pc[u] = "writing"
    BY <1>32, AfterPushPlace DEF Push, Goto
  <2> QED
    BY <1>32, <2>1 DEF Push
<1>33. ASSUME NEW t \in Task, AgentReply(t) PROVE OneWriterPerConn'
  BY <1>33 DEF AgentReply
<1>34. CASE UNCHANGED vars
  BY <1>34 DEF vars
<1>35. QED
  BY <1>1, <1>2, <1>3, <1>4, <1>5, <1>6, <1>7, <1>8, <1>9, <1>10, <1>11, <1>12, <1>13, <1>14, <1>15, <1>16, <1>17, <1>18, <1>19, <1>20, <1>21, <1>22, <1>23, <1>24, <1>25, <1>26, <1>27, <1>28, <1>29, <1>30, <1>31, <1>32, <1>33, <1>34
  DEF Next, SessionStep, ReaderStep, RequestStep, StreamStep, AgentTaskStep,
      WorkerTaskStep, Quiescent

-----------------------------------------------------------------------------
\* Lines of an event stream.

LEMMA Appended ==
  ASSUME NEW S, NEW s \in Seq(S), NEW e \in S
  PROVE  /\ \A i \in DOMAIN s : i \in DOMAIN Append(s, e) /\ Append(s, e)[i] = s[i]
         /\ \E i \in DOMAIN Append(s, e) : Append(s, e)[i] = e
         /\ \A i \in DOMAIN Append(s, e) :
              i \in DOMAIN s \/ (i = Len(s) + 1 /\ Append(s, e)[i] = e)
<1>1. /\ DOMAIN s = 1 .. Len(s) /\ Len(s) \in Nat
      /\ DOMAIN Append(s, e) = 1 .. Len(s) + 1
      /\ Append(s, e)[Len(s) + 1] = e
      /\ \A i \in 1 .. Len(s) : Append(s, e)[i] = s[i]
  BY AppendProperties, LenProperties
<1>2. \A i \in DOMAIN s : i \in DOMAIN Append(s, e) /\ Append(s, e)[i] = s[i]
  BY <1>1
<1>3. \E i \in DOMAIN Append(s, e) : Append(s, e)[i] = e
  BY <1>1
<1>4. ASSUME NEW i \in DOMAIN Append(s, e)
      PROVE  i \in DOMAIN s \/ (i = Len(s) + 1 /\ Append(s, e)[i] = e)
  BY <1>1
<1> QED
  BY <1>2, <1>3, <1>4

\* A line appended to a stream leaves the earlier ones where they are.
LEMMA AppendedLine ==
  ASSUME RequestTypes, NEW r \in Requests, NEW l \in Line,
         out'[r] = Append(out[r], l),
         \A s \in Requests : s # r => out'[s] = out[s]
  PROVE  /\ \A s \in Requests : \A i \in DOMAIN out[s] :
              i \in DOMAIN out'[s] /\ out'[s][i] = out[s][i]
         /\ \E i \in DOMAIN out'[r] : out'[r][i] = l
         /\ \A s \in Requests : \A i \in DOMAIN out'[s] :
              i \in DOMAIN out[s] \/ (s = r /\ i = Len(out[r]) + 1 /\ out'[s][i] = l)
<1>1. out[r] \in Seq(Line)
  BY DEF RequestTypes
<1>3. \A i \in DOMAIN out[r] : i \in DOMAIN out'[r] /\ out'[r][i] = out[r][i]
  BY <1>1, Appended
<1>4. \E i \in DOMAIN out'[r] : out'[r][i] = l
  BY <1>1, Appended
<1>5. \A i \in DOMAIN out'[r] :
        i \in DOMAIN out[r] \/ (i = Len(out[r]) + 1 /\ out'[r][i] = l)
  BY <1>1, Appended
<1>6. ASSUME NEW s \in Requests, NEW i \in DOMAIN out[s]
      PROVE  i \in DOMAIN out'[s] /\ out'[s][i] = out[s][i]
  BY <1>3
<1>7. ASSUME NEW s \in Requests, NEW i \in DOMAIN out'[s]
      PROVE  i \in DOMAIN out[s] \/ (s = r /\ i = Len(out[r]) + 1 /\ out'[s][i] = l)
  BY <1>5
<1> QED
  BY <1>4, <1>6, <1>7
LEMMA PushedLine ==
  ASSUME RequestTypes, TaskTypes, NEW t \in Task, Push(t)
  PROVE  /\ \A s \in Requests : \A i \in DOMAIN out[s] :
              i \in DOMAIN out'[s] /\ out'[s][i] = out[s][i]
         /\ \E i \in DOMAIN out'[t[1]] : out'[t[1]][i] = [node |-> t[2], n |-> item[t]]
         /\ \A s \in Requests : \A i \in DOMAIN out'[s] :
              \/ i \in DOMAIN out[s]
              \/ /\ s = t[1] /\ i = Len(out[s]) + 1
                 /\ out'[s][i] = [node |-> t[2], n |-> item[t]]
<1> DEFINE l == [node |-> t[2], n |-> item[t]]
<1>1. t[1] \in Requests /\ l \in Line
  BY DEF Task, Nodes, TaskTypes, Line
<1>2. /\ out'[t[1]] = Append(out[t[1]], l)
      /\ \A s \in Requests : s # t[1] => out'[s] = out[s]
  BY <1>1 DEF Push, Write, RequestTypes
<1> HIDE DEF l
<1>3. /\ \A s \in Requests : \A i \in DOMAIN out[s] :
           i \in DOMAIN out'[s] /\ out'[s][i] = out[s][i]
      /\ \E i \in DOMAIN out'[t[1]] : out'[t[1]][i] = l
      /\ \A s \in Requests : \A i \in DOMAIN out'[s] :
           i \in DOMAIN out[s] \/ (s = t[1] /\ i = Len(out[t[1]]) + 1 /\ out'[s][i] = l)
  BY <1>1, <1>2, AppendedLine
<1> QED
  BY <1>3 DEF l

LEMMA WebLine ==
  ASSUME RequestTypes, NEW r \in Requests, WebPush(r)
  PROVE  /\ \A s \in Requests : \A i \in DOMAIN out[s] :
              i \in DOMAIN out'[s] /\ out'[s][i] = out[s][i]
         /\ \A s \in Requests : \A i \in DOMAIN out'[s] :
              \/ i \in DOMAIN out[s]
              \/ s = r /\ i = Len(out[s]) + 1 /\ out'[s][i] = [node |-> Web, n |-> 1]
<1>1. [node |-> Web, n |-> 1] \in Line
  BY DEF Line
<1>2. /\ out'[r] = Append(out[r], [node |-> Web, n |-> 1])
      /\ \A s \in Requests : s # r => out'[s] = out[s]
  BY DEF WebPush, Write, RequestTypes
<1> QED
  BY <1>1, <1>2, AppendedLine

LEMMA LinesKept ==
  ASSUME WorkerLinesLossless, UNCHANGED <<item, produced>>,
         \A s \in Requests : \A i \in DOMAIN out[s] :
           i \in DOMAIN out'[s] /\ out'[s][i] = out[s][i],
         \A u \in Task : pc[u] = "push" =>
           \/ pc'[u] = "push"
           \/ \E i \in DOMAIN out'[u[1]] :
                out'[u[1]][i] = [node |-> u[2], n |-> item[u]]
  PROVE  WorkerLinesLossless'
<1> SUFFICES ASSUME NEW u \in Requests \X Workers, NEW k \in 1 .. produced[u]
             PROVE  \/ \E i \in DOMAIN out'[u[1]] : out'[u[1]][i] = [node |-> u[2], n |-> k]
                    \/ pc'[u] = "push" /\ item[u] = k
  BY DEF WorkerLinesLossless
<1>1. u \in Task /\ u[1] \in Requests
  BY DEF Task, Nodes
<1>2. CASE pc[u] = "push" /\ item[u] = k
  BY <1>1, <1>2
<1>3. CASE \E i \in DOMAIN out[u[1]] : out[u[1]][i] = [node |-> u[2], n |-> k]
  BY <1>1, <1>3
<1> QED
  BY <1>2, <1>3 DEF WorkerLinesLossless

LEMMA LosslessStep ==
  TypeOK /\ EntriesInv /\ WorkerLinesLossless /\ [Next]_vars => WorkerLinesLossless'
<1> SUFFICES ASSUME TypeOK, EntriesInv, WorkerLinesLossless, [Next]_vars PROVE WorkerLinesLossless'
  OBVIOUS
<1> SessionTypes /\ WireTypes /\ RequestTypes /\ TaskTypes /\ ChanTypes
  BY DEF TypeOK
<1> USE DEF agentVars, readerVars, wireVars, reqVars, streamVars, taskVars, chanVars,
            WorkerLinesLossless, TaskTypes, WireTypes, RequestTypes, Task, Nodes, OneAnswer, Offline
<1>1. ASSUME NEW a \in Agents, AgentJoin(a) PROVE WorkerLinesLossless'
  BY <1>1 DEF AgentJoin
<1>2. ASSUME NEW a \in Agents, AgentDown(a) PROVE WorkerLinesLossless'
  BY <1>2 DEF AgentDown
<1>3. ASSUME NEW a \in Agents, PingBegin(a) PROVE WorkerLinesLossless'
  BY <1>3 DEF PingBegin
<1>4. ASSUME NEW a \in Agents, PingEnd(a) PROVE WorkerLinesLossless'
  BY <1>4 DEF PingEnd
<1>5. ASSUME NEW a \in Agents, Cleanup(a) PROVE WorkerLinesLossless'
  BY <1>5 DEF Cleanup
<1>6. ASSUME NEW a \in Agents, ReaderTake(a) PROVE WorkerLinesLossless'
  BY <1>6 DEF ReaderTake
<1>7. ASSUME NEW a \in Agents, ReaderSend(a) PROVE WorkerLinesLossless'
  BY <1>7 DEF ReaderSend
<1>8. ASSUME NEW a \in Agents, ReaderExit(a) PROVE WorkerLinesLossless'
  BY <1>8 DEF ReaderExit
<1>9. ASSUME NEW r \in Requests, VersionRequest(r) PROVE WorkerLinesLossless'
  BY <1>9 DEF VersionRequest, Open
<1>10. ASSUME NEW r \in Requests, PingRequest(r) PROVE WorkerLinesLossless'
  BY <1>10 DEF PingRequest, Open
<1>11. ASSUME NEW r \in Requests, TracerouteRequest(r) PROVE WorkerLinesLossless'
  BY <1>11 DEF TracerouteRequest, Open
<1>12. ASSUME NEW r \in Requests, MtrRequest(r) PROVE WorkerLinesLossless'
  BY <1>12 DEF MtrRequest, Open
<1>13. ASSUME NEW r \in Requests, Reject(r) PROVE WorkerLinesLossless'
  BY <1>13 DEF Reject
<1>14. ASSUME NEW r \in Requests, Fanout(r) PROVE WorkerLinesLossless'
  <2>1. \A t \in Task : t[1] = r => pc[t] = "idle"
    BY <1>14 DEF Fanout, EntriesInv
  <2>2. \A t \in Task : pc[t] = "push" => pc'[t] = "push"
    BY <1>14, <2>1 DEF Fanout
  <2>3. UNCHANGED <<item, produced, out>>
    BY <1>14 DEF Fanout
  <2> QED
    BY <2>2, <2>3, LinesKept
<1>15. ASSUME NEW r \in Requests, ClientGone(r) PROVE WorkerLinesLossless'
  BY <1>15 DEF ClientGone
<1>16. ASSUME NEW r \in Requests, CtxEnd(r) PROVE WorkerLinesLossless'
  BY <1>16 DEF CtxEnd
<1>17. ASSUME NEW r \in Requests, StreamCheck(r) PROVE WorkerLinesLossless'
  BY <1>17 DEF StreamCheck
<1>18. ASSUME NEW r \in Requests, StreamDone(r) PROVE WorkerLinesLossless'
  BY <1>18 DEF StreamDone
<1>19. ASSUME NEW r \in Requests, WebPush(r) PROVE WorkerLinesLossless'
  <2>1. \A s \in Requests : \A i \in DOMAIN out[s] :
          i \in DOMAIN out'[s] /\ out'[s][i] = out[s][i]
    BY <1>19, WebLine
  <2>2. UNCHANGED <<pc, item, produced>>
    BY <1>19 DEF WebPush
  <2> QED
    BY <2>1, <2>2, LinesKept
<1>20. ASSUME NEW t \in Task, Register(t) PROVE WorkerLinesLossless'
  BY <1>20 DEF Register, Goto
<1>21. ASSUME NEW t \in Task, SendBegin(t) PROVE WorkerLinesLossless'
  BY <1>21 DEF SendBegin, Goto
<1>22. ASSUME NEW t \in Task, SendOk(t) PROVE WorkerLinesLossless'
  BY <1>22 DEF SendOk, Goto
<1>23. ASSUME NEW t \in Task, SendFail(t) PROVE WorkerLinesLossless'
  BY <1>23 DEF SendFail, Goto
<1>24. ASSUME NEW t \in Task, Receive(t) PROVE WorkerLinesLossless'
  BY <1>24 DEF Receive, Goto
<1>25. ASSUME NEW t \in Task, GiveUp(t) PROVE WorkerLinesLossless'
  BY <1>25 DEF GiveUp, Goto
<1>26. ASSUME NEW t \in Task, Unregister(t) PROVE WorkerLinesLossless'
  BY <1>26 DEF Unregister, Goto
<1>27. ASSUME NEW t \in Task, CloseChan(t) PROVE WorkerLinesLossless'
  BY <1>27 DEF CloseChan, Goto
<1>28. ASSUME NEW t \in Task, CallFail(t) PROVE WorkerLinesLossless'
  BY <1>28 DEF CallFail, Goto
<1>29. ASSUME NEW t \in Task, CallOk(t) PROVE WorkerLinesLossless'
  BY <1>29 DEF CallOk, Goto
<1>30. ASSUME NEW t \in Task, Recv(t) PROVE WorkerLinesLossless'
  <2>1. /\ UNCHANGED out /\ pc[t] = "recv"
        /\ \A u \in Task : u # t => /\ pc'[u] = pc[u] /\ item'[u] = item[u]
                                    /\ produced'[u] = produced[u]
    BY <1>30 DEF Recv, Goto
  <2>2. /\ pc'[t] = "push" /\ item'[t] = produced[t] + 1
        /\ produced'[t] = produced[t] + 1 /\ produced[t] \in Nat
    BY <1>30 DEF Recv, Goto
  <2> SUFFICES ASSUME NEW u \in Requests \X Workers, NEW k \in 1 .. produced'[u]
               PROVE  \/ \E i \in DOMAIN out[u[1]] : out[u[1]][i] = [node |-> u[2], n |-> k]
                      \/ pc'[u] = "push" /\ item'[u] = k
    BY <2>1
  <2>3. CASE u # t
    BY <2>1, <2>3
  <2>4. CASE u = t /\ k = produced[t] + 1
    BY <2>2, <2>4
  <2>5. CASE u = t /\ k # produced[t] + 1
    <3>1. k \in 1 .. produced[t]
      BY <2>2, <2>5
    <3>2. k \in 1 .. produced[u]
      BY <2>5, <3>1
    <3>3. pc[u] # "push"
      BY <2>1, <2>5
    <3> QED
      BY <3>2, <3>3
  <2> QED
    BY <2>3, <2>4, <2>5
<1>31. ASSUME NEW t \in Task, RecvEnd(t) PROVE WorkerLinesLossless'
  BY <1>31 DEF RecvEnd, Goto
<1>32. ASSUME NEW t \in Task, Push(t) PROVE WorkerLinesLossless'
  <2>1. /\ \A s \in Requests : \A i \in DOMAIN out[s] :
             i \in DOMAIN out'[s] /\ out'[s][i] = out[s][i]
        /\ \E i \in DOMAIN out'[t[1]] : out'[t[1]][i] = [node |-> t[2], n |-> item[t]]
    BY <1>32, PushedLine
  <2>2. UNCHANGED <<item, produced>>
    BY <1>32 DEF Push
  <2>3. ASSUME NEW u \in Task, pc[u] = "push"
        PROVE  \/ pc'[u] = "push"
               \/ \E i \in DOMAIN out'[u[1]] :
                    out'[u[1]][i] = [node |-> u[2], n |-> item[u]]
    <3>1. CASE u = t
      BY <2>1, <3>1
    <3>2. CASE u # t
      BY <1>32, <2>3, <3>2 DEF Push, Goto
    <3> QED
      BY <3>1, <3>2
  <2>4. \A s \in Requests : \A i \in DOMAIN out[s] :
          i \in DOMAIN out'[s] /\ out'[s][i] = out[s][i]
    BY <2>1
  <2> HIDE DEF WorkerLinesLossless, Task
  <2> QED
    BY <2>2, <2>3, <2>4, LinesKept
<1>33. ASSUME NEW t \in Task, AgentReply(t) PROVE WorkerLinesLossless'
  <2>1. t \notin Requests \X Workers
    BY <1>33, NodeAssumption DEF AgentReply
  <2> QED
    BY <1>33, <2>1 DEF AgentReply
<1>34. CASE UNCHANGED vars
  BY <1>34 DEF vars
<1>35. QED
  BY <1>1, <1>2, <1>3, <1>4, <1>5, <1>6, <1>7, <1>8, <1>9, <1>10, <1>11, <1>12, <1>13, <1>14, <1>15, <1>16, <1>17, <1>18, <1>19, <1>20, <1>21, <1>22, <1>23, <1>24, <1>25, <1>26, <1>27, <1>28, <1>29, <1>30, <1>31, <1>32, <1>33, <1>34
  DEF Next, SessionStep, ReaderStep, RequestStep, StreamStep, AgentTaskStep,
      WorkerTaskStep, Quiescent

-----------------------------------------------------------------------------
\* Lines of a version stream.

\* No line of a version goroutine's node is in the stream before its push, and
\* exactly one is afterwards.
NoLine(t) == \A j \in DOMAIN out[t[1]] : out[t[1]][j].node # t[2]
Answered(t) ==
  \E i \in DOMAIN out[t[1]] : \A j \in DOMAIN out[t[1]] : out[t[1]][j].node = t[2] <=> i = j

BeforeLine == {"idle", "register", "send", "writing", "wait", "call", "push"}

VersionTask(t) ==
  /\ pc[t] # "recv"
  /\ IF pc[t] \in BeforeLine THEN NoLine(t) ELSE Answered(t)


VersionInv == \A t \in Task : kind[t[1]] = "version" => VersionTask(t)

LEMMA AfterPushVersion ==
  ASSUME NEW t \in Task, kind[t[1]] = "version"
  PROVE  AfterPush(t) \in {"unregister", "exited"}
<1>1. t[2] \in Agents \/ t[2] \in Workers
  BY DEF Task, Nodes
<1> QED
  BY <1>1, NodeAssumption DEF AfterPush, OneAnswer

LEMMA OtherLine ==
  ASSUME NEW u \in Task,
         \A i \in DOMAIN out[u[1]] : i \in DOMAIN out'[u[1]] /\ out'[u[1]][i] = out[u[1]][i],
         \A i \in DOMAIN out'[u[1]] : i \in DOMAIN out[u[1]] \/ out'[u[1]][i].node # u[2]
  PROVE  (NoLine(u) => NoLine(u)') /\ (Answered(u) => Answered(u)')
<1>1. u[1] \in Requests
  BY DEF Task
<1>2. ASSUME NoLine(u) PROVE NoLine(u)'
  BY <1>1, <1>2 DEF NoLine
<1>3. ASSUME Answered(u) PROVE Answered(u)'
  <2>1. PICK i \in DOMAIN out[u[1]] :
               \A j \in DOMAIN out[u[1]] : out[u[1]][j].node = u[2] <=> i = j
    BY <1>3 DEF Answered
  <2>2. i \in DOMAIN out'[u[1]] /\ out'[u[1]][i].node = u[2]
    BY <1>1, <2>1
  <2>3. ASSUME NEW j \in DOMAIN out'[u[1]] PROVE out'[u[1]][j].node = u[2] <=> i = j
    BY <1>1, <2>1, <2>2
  <2> QED
    BY <2>2, <2>3 DEF Answered
<1> QED
  BY <1>2, <1>3

LEMMA OwnLine ==
  ASSUME RequestTypes, TaskTypes, NEW t \in Task, Push(t), NoLine(t)
  PROVE  Answered(t)'
<1> DEFINE l == [node |-> t[2], n |-> item[t]]
<1>1. t[1] \in Requests /\ l.node = t[2]
  BY DEF Task
<1>2. /\ \A i \in DOMAIN out[t[1]] : i \in DOMAIN out'[t[1]] /\ out'[t[1]][i] = out[t[1]][i]
      /\ \E i \in DOMAIN out'[t[1]] : out'[t[1]][i] = l
      /\ \A i \in DOMAIN out'[t[1]] : i \in DOMAIN out[t[1]] \/ i = Len(out[t[1]]) + 1
  BY <1>1, PushedLine
<1> HIDE DEF l
<1>3. PICK i \in DOMAIN out'[t[1]] : out'[t[1]][i] = l
  BY <1>2
<1>4. ASSUME NEW j \in DOMAIN out'[t[1]] PROVE out'[t[1]][j].node = t[2] <=> i = j
  <2>1. \A k \in DOMAIN out'[t[1]] : out'[t[1]][k].node = t[2] => k = Len(out[t[1]]) + 1
    BY <1>2 DEF NoLine
  <2> QED
    BY <1>1, <1>3, <2>1
<1> QED
  BY <1>3, <1>4 DEF Answered

\* A step that shows no line and moves no version goroutine past its line.
Silent ==
  /\ UNCHANGED <<kind, out>>
  /\ \A u \in Task : kind[u[1]] = "version" /\ pc[u] # "recv" =>
       pc'[u] # "recv" /\ (pc[u] \in BeforeLine <=> pc'[u] \in BeforeLine)

LEMMA SilentStep == VersionInv /\ Silent => VersionInv'
<1> SUFFICES ASSUME VersionInv, Silent, NEW u \in Task, kind'[u[1]] = "version"
             PROVE  VersionTask(u)'
  BY DEF VersionInv
<1>1. VersionTask(u)
  BY DEF VersionInv, Silent
<1>2. pc'[u] # "recv" /\ (pc[u] \in BeforeLine <=> pc'[u] \in BeforeLine)
  BY <1>1 DEF VersionTask, Silent
<1>3. (NoLine(u) => NoLine(u)') /\ (Answered(u) => Answered(u)')
  BY DEF Silent, NoLine, Answered
<1> QED
  BY <1>1, <1>2, <1>3 DEF VersionTask

LEMMA WebPushVersion ==
  ASSUME RequestTypes, VersionInv, NEW r \in Requests, WebPush(r)
  PROVE  VersionInv'
<1> SUFFICES ASSUME NEW u \in Task, kind'[u[1]] = "version"
             PROVE  VersionTask(u)'
  BY DEF VersionInv
<1>1. UNCHANGED <<kind, pc>>
  BY DEF WebPush, reqVars, taskVars
<1>2. u[1] \in Requests /\ u[2] # Web
  BY NodeAssumption DEF Task, Nodes
<1>3. \A i \in DOMAIN out[u[1]] : i \in DOMAIN out'[u[1]] /\ out'[u[1]][i] = out[u[1]][i]
  BY <1>2, WebLine
<1>4. \A i \in DOMAIN out'[u[1]] : i \in DOMAIN out[u[1]] \/ out'[u[1]][i].node # u[2]
  BY <1>2, WebLine
<1>5. (NoLine(u) => NoLine(u)') /\ (Answered(u) => Answered(u)')
  BY <1>3, <1>4, OtherLine
<1> QED
  BY <1>1, <1>5 DEF VersionInv, VersionTask

LEMMA PushVersion ==
  ASSUME RequestTypes, TaskTypes, VersionInv, NEW t \in Task, Push(t)
  PROVE  VersionInv'
<1> SUFFICES ASSUME NEW u \in Task, kind'[u[1]] = "version"
             PROVE  VersionTask(u)'
  BY DEF VersionInv
<1>1. UNCHANGED kind /\ pc[t] = "push" /\ pc' = [pc EXCEPT ![t] = AfterPush(t)]
  BY DEF Push, Goto, reqVars
<1>2. VersionTask(u)
  BY <1>1 DEF VersionInv
<1>3. CASE u = t
  <2>1. NoLine(t)
    BY <1>1, <1>2, <1>3 DEF VersionTask, BeforeLine
  <2>2. Answered(t)'
    BY <2>1, OwnLine
  <2>3. pc'[t] \in {"unregister", "exited"}
    BY <1>1, <1>3, AfterPushVersion DEF TaskTypes
  <2> QED
    BY <1>3, <2>2, <2>3 DEF VersionTask, BeforeLine
<1>4. CASE u # t
  <2>1. u[1] \in Requests /\ (u[1] # t[1] \/ u[2] # t[2])
    BY <1>4 DEF Task
  <2>2. \A i \in DOMAIN out[u[1]] : i \in DOMAIN out'[u[1]] /\ out'[u[1]][i] = out[u[1]][i]
    BY <2>1, PushedLine
  <2>3. ASSUME NEW i \in DOMAIN out'[u[1]], i \notin DOMAIN out[u[1]]
        PROVE  out'[u[1]][i].node # u[2]
    <3>1. u[1] = t[1] /\ out'[u[1]][i] = [node |-> t[2], n |-> item[t]]
      BY <2>1, <2>3, PushedLine
    <3>2. out'[u[1]][i].node = t[2]
      BY <3>1
    <3> QED
      BY <2>1, <3>1, <3>2
  <2>4. (NoLine(u) => NoLine(u)') /\ (Answered(u) => Answered(u)')
    BY <2>2, <2>3, OtherLine
  <2>5. pc'[u] = pc[u]
    BY <1>1, <1>4 DEF TaskTypes
  <2> QED
    BY <1>2, <2>4, <2>5 DEF VersionTask
<1> QED
  BY <1>3, <1>4

LEMMA VersionStep == TypeOK /\ EntriesInv /\ VersionInv /\ [Next]_vars => VersionInv'
<1> SUFFICES ASSUME TypeOK, EntriesInv, VersionInv, [Next]_vars PROVE VersionInv'
  OBVIOUS
<1> SessionTypes /\ WireTypes /\ RequestTypes /\ TaskTypes /\ ChanTypes
  BY DEF TypeOK
<1> USE DEF agentVars, readerVars, wireVars, reqVars, streamVars, taskVars, chanVars,
            Silent, BeforeLine, TaskTypes, OneAnswer
<1>1. ASSUME NEW a \in Agents, AgentJoin(a) PROVE Silent
  BY <1>1 DEF AgentJoin
<1>2. ASSUME NEW a \in Agents, AgentDown(a) PROVE Silent
  BY <1>2 DEF AgentDown
<1>3. ASSUME NEW a \in Agents, PingBegin(a) PROVE Silent
  BY <1>3 DEF PingBegin
<1>4. ASSUME NEW a \in Agents, PingEnd(a) PROVE Silent
  BY <1>4 DEF PingEnd
<1>5. ASSUME NEW a \in Agents, Cleanup(a) PROVE Silent
  BY <1>5 DEF Cleanup
<1>6. ASSUME NEW a \in Agents, ReaderTake(a) PROVE Silent
  BY <1>6 DEF ReaderTake
<1>7. ASSUME NEW a \in Agents, ReaderSend(a) PROVE Silent
  BY <1>7 DEF ReaderSend
<1>8. ASSUME NEW a \in Agents, ReaderExit(a) PROVE Silent
  BY <1>8 DEF ReaderExit
<1>9. ASSUME NEW r \in Requests, VersionRequest(r) PROVE Silent
  BY <1>9 DEF VersionRequest, Open
<1>10. ASSUME NEW r \in Requests, PingRequest(r) PROVE Silent
  BY <1>10 DEF PingRequest, Open
<1>11. ASSUME NEW r \in Requests, TracerouteRequest(r) PROVE Silent
  BY <1>11 DEF TracerouteRequest, Open
<1>12. ASSUME NEW r \in Requests, MtrRequest(r) PROVE Silent
  BY <1>12 DEF MtrRequest, Open
<1>13. ASSUME NEW r \in Requests, Reject(r) PROVE Silent
  BY <1>13 DEF Reject
<1>14. ASSUME NEW r \in Requests, Fanout(r) PROVE Silent
  <2>1. \A u \in Task : u[1] = r => pc[u] = "idle" /\ pc'[u] \in {"idle", "register", "call"}
    BY <1>14 DEF Fanout, EntriesInv
  <2>2. \A u \in Task : u[1] # r => pc'[u] = pc[u]
    BY <1>14 DEF Fanout
  <2>3. UNCHANGED <<kind, out>>
    BY <1>14 DEF Fanout
  <2> QED
    BY <2>1, <2>2, <2>3
<1>15. ASSUME NEW r \in Requests, ClientGone(r) PROVE Silent
  BY <1>15 DEF ClientGone
<1>16. ASSUME NEW r \in Requests, CtxEnd(r) PROVE Silent
  BY <1>16 DEF CtxEnd
<1>17. ASSUME NEW r \in Requests, StreamCheck(r) PROVE Silent
  BY <1>17 DEF StreamCheck
<1>18. ASSUME NEW r \in Requests, StreamDone(r) PROVE Silent
  BY <1>18 DEF StreamDone
<1>19. ASSUME NEW r \in Requests, WebPush(r) PROVE VersionInv'
  BY <1>19, WebPushVersion
<1>20. ASSUME NEW t \in Task, Register(t) PROVE Silent
  BY <1>20 DEF Register, Goto
<1>21. ASSUME NEW t \in Task, SendBegin(t) PROVE Silent
  BY <1>21 DEF SendBegin, Goto
<1>22. ASSUME NEW t \in Task, SendOk(t) PROVE Silent
  BY <1>22 DEF SendOk, Goto
<1>23. ASSUME NEW t \in Task, SendFail(t) PROVE Silent
  BY <1>23 DEF SendFail, Goto
<1>24. ASSUME NEW t \in Task, Receive(t) PROVE Silent
  BY <1>24 DEF Receive, Goto
<1>25. ASSUME NEW t \in Task, GiveUp(t) PROVE Silent
  BY <1>25 DEF GiveUp, Goto
<1>26. ASSUME NEW t \in Task, Unregister(t) PROVE Silent
  BY <1>26 DEF Unregister, Goto
<1>27. ASSUME NEW t \in Task, CloseChan(t) PROVE Silent
  BY <1>27 DEF CloseChan, Goto
<1>28. ASSUME NEW t \in Task, CallFail(t) PROVE Silent
  BY <1>28 DEF CallFail, Goto
<1>29. ASSUME NEW t \in Task, CallOk(t) PROVE Silent
  BY <1>29 DEF CallOk, Goto
<1>30. ASSUME NEW t \in Task, Recv(t) PROVE Silent
  BY <1>30 DEF Recv, Goto
<1>31. ASSUME NEW t \in Task, RecvEnd(t) PROVE Silent
  BY <1>31 DEF RecvEnd, Goto
<1>32. ASSUME NEW t \in Task, Push(t) PROVE VersionInv'
  BY <1>32, PushVersion
<1>33. ASSUME NEW t \in Task, AgentReply(t) PROVE Silent
  BY <1>33 DEF AgentReply
<1>34. UNCHANGED vars => Silent
  BY DEF vars
<1>35. QED
  BY <1>1, <1>2, <1>3, <1>4, <1>5, <1>6, <1>7, <1>8, <1>9, <1>10, <1>11, <1>12, <1>13, <1>14, <1>15, <1>16, <1>17, <1>18, <1>19, <1>20, <1>21, <1>22, <1>23, <1>24, <1>25, <1>26, <1>27, <1>28, <1>29, <1>30, <1>31, <1>32, <1>33, <1>34
  , SilentStep
  DEF Next, SessionStep, ReaderStep, RequestStep, StreamStep, AgentTaskStep,
      WorkerTaskStep, Quiescent

-----------------------------------------------------------------------------
\* The theorems.

LEMMA InitInv ==
  Init => TypeOK /\ EntriesInv /\ OneWriterPerConn /\ WorkerLinesLossless /\ VersionInv
<1> SUFFICES ASSUME Init
             PROVE  TypeOK /\ EntriesInv /\ OneWriterPerConn /\ WorkerLinesLossless /\ VersionInv
  OBVIOUS
<1> USE DEF Init, Task, Nodes
<1>1. SessionTypes /\ WireTypes
  BY DEF SessionTypes, WireTypes
<1>2. RequestTypes
  BY DEF RequestTypes
<1>3. TaskTypes
  BY DEF TaskTypes, AgentPc, WorkerPc
<1>4. ChanTypes
  BY <1>2, CapAssumption DEF ChanTypes, Cap
<1>5. EntriesInv
  BY DEF EntriesInv
<1>6. OneWriterPerConn
  BY DEF OneWriterPerConn
<1>7. WorkerLinesLossless
  BY DEF WorkerLinesLossless
<1>8. VersionInv
  BY DEF VersionInv, VersionTask, BeforeLine, NoLine
<1> QED
  BY <1>1, <1>2, <1>3, <1>4, <1>5, <1>6, <1>7, <1>8 DEF TypeOK

\* Every variable stays in its type, and every respChan within its capacity.
THEOREM TypeCorrect == Spec => []TypeOK
BY InitInv, TypeStep, PTL DEF Spec

\* The strengthening the other theorems rest on.
THEOREM EntriesCorrect == Spec => []EntriesInv
BY InitInv, EntriesStep, TypeCorrect, PTL DEF Spec

\* The reader of an agent never sends on a closed respChan (main.go:235-244
\* against the deferred function of a task, 524-529).
THEOREM SafeClose == Spec => []NoSendOnClosed
<1>1. EntriesInv => NoSendOnClosed
  BY DEF EntriesInv, NoSendOnClosed
<1> QED
  BY <1>1, EntriesCorrect, PTL

\* At most one goroutine writes to the WebSocket of an agent (WsLock,
\* main.go:199-205 and 250).
THEOREM ExclusiveWriter == Spec => []OneWriterPerConn
BY InitInv, WriterStep, TypeCorrect, PTL DEF Spec

\* A stream that ends by itself leaves no goroutine of its wait group and no
\* entry behind (wg.Wait, main.go:604-607).
THEOREM StreamsDrain == Spec => []EndedMeansDrained
<1>1. TypeOK /\ EntriesInv => EndedMeansDrained
  <2> SUFFICES ASSUME TypeOK, EntriesInv, NEW r \in Requests, stream[r] = "ended", NEW n \in Nodes
               PROVE  Finished(<<r, n>>) /\ <<r, n>> \notin taskChans
    BY DEF EndedMeansDrained
  <2>1. <<r, n>> \in Task
    BY DEF Task
  <2>2. Finished(<<r, n>>)
    BY <2>1 DEF EntriesInv
  <2> QED
    BY <2>2 DEF Finished, EntriesInv
<1> QED
  BY <1>1, TypeCorrect, EntriesCorrect, PTL

\* No line a goroutine received from a worker is lost on its way into the event
\* stream.
THEOREM NoWorkerLineLost == Spec => []WorkerLinesLossless
BY InitInv, LosslessStep, TypeCorrect, EntriesCorrect, PTL DEF Spec

\* A version stream that ends by itself shows exactly one line for every node
\* that was asked.
THEOREM VersionAnswered == Spec => []VersionAnswersEveryNode
<1>1. TypeOK /\ EntriesInv /\ VersionInv => VersionAnswersEveryNode
  <2> SUFFICES ASSUME TypeOK, EntriesInv, VersionInv, NEW r \in Requests, kind[r] = "version",
                      stream[r] = "ended", NEW n \in Nodes, pc[<<r, n>>] # "idle"
               PROVE  Answered(<<r, n>>)
    BY DEF VersionAnswersEveryNode, Answered
  <2>1. <<r, n>> \in Task
    BY DEF Task
  <2>2. pc[<<r, n>>] = "exited"
    BY <2>1 DEF EntriesInv, Finished
  <2>3. VersionTask(<<r, n>>)
    BY <2>1 DEF VersionInv
  <2> QED
    BY <2>2, <2>3 DEF VersionTask, BeforeLine
<1>2. Spec => []VersionInv
  BY InitInv, VersionStep, TypeCorrect, EntriesCorrect, PTL DEF Spec
<1> QED
  BY <1>1, <1>2, TypeCorrect, EntriesCorrect, PTL

-----------------------------------------------------------------------------
(* The answers of a task pass five places on their way to the browser: the     *)
(* wire, the reader's hand, respChan, the line the goroutine is pushing and    *)
(* the lines of the stream. A goroutine for a worker has only the last two.    *)

Remote(t) == t[2] \in Agents

ShownAt(t) == {i \in DOMAIN out[t[1]] : out[t[1]][i].node = t[2]}
WireAt(t)  == {i \in DOMAIN fromAgent[t[2]] : fromAgent[t[2]][i].task = t}

Shown(t)  == {out[t[1]][i].n : i \in ShownAt(t)}
Pushed(t) == {item[t] : x \in {y \in {t} : pc[y] = "push"}}
Queued(t) == IF Remote(t) THEN {chan[t][i] : i \in DOMAIN chan[t]} ELSE {}
Held(t)   == IF Remote(t) THEN {m.n : m \in {x \in hand[t[2]] : x.task = t}} ELSE {}
Wired(t)  == IF Remote(t) THEN {fromAgent[t[2]][i].n : i \in WireAt(t)} ELSE {}

\* Every number in one place is below every number in the places behind it.
Before(S, T) == \A x \in S, y \in T : x < y
Chain(shown, pushed, queued, held, wired) ==
  /\ Before(shown, pushed \cup queued \cup held \cup wired)
  /\ Before(pushed, queued \cup held \cup wired)
  /\ Before(queued, held \cup wired)
  /\ Before(held, wired)

InChain(t)   == Chain(Shown(t), Pushed(t), Queued(t), Held(t), Wired(t))
UnderWay(t)  == Shown(t) \cup Pushed(t) \cup Queued(t) \cup Held(t) \cup Wired(t)
AllProduced(t) == \A k \in UnderWay(t) : k \in Int /\ k <= produced[t]

\* Within a place the numbers rise.
ShownRising(t) == \A i, j \in ShownAt(t) : i < j => out[t[1]][i].n < out[t[1]][j].n
QueueRising(t) == \A i, j \in DOMAIN chan[t] : i < j => chan[t][i] < chan[t][j]
WireRising(t)  == \A i, j \in WireAt(t) : i < j => fromAgent[t[2]][i].n < fromAgent[t[2]][j].n

Ordered(t) ==
  /\ InChain(t) /\ AllProduced(t) /\ ShownRising(t)
  /\ Remote(t) => QueueRising(t) /\ WireRising(t)

\* A version goroutine has at most one line, whose number may stand for none.
Streaming == {t \in Task : ~ OneAnswer(t)}
OrderInv  == \A t \in Streaming : Ordered(t)

\* The web server's own line is written once, and no line before the fan-out.
WebInv ==
  \A r \in Requests :
    /\ stream[r] \in {"idle", "resolve", "rejected"} => out[r] = <<>>
    /\ \A i, j \in DOMAIN out[r] :
         out[r][i].node = Web => web[r] = "exited" /\ (out[r][j].node = Web => i = j)

\* No number is beyond what the promise lets a node produce.
Numbers == TimedOut .. MaxReplies
NumbersInv ==
  /\ \A t \in Task : /\ produced[t] <= MaxReplies /\ item[t] \in Numbers
                     /\ \A i \in DOMAIN chan[t] : chan[t][i] \in Numbers
  /\ \A a \in Agents : /\ \A m \in hand[a] : m.n \in Numbers
                       /\ \A i \in DOMAIN fromAgent[a] : fromAgent[a][i].n \in Numbers

-----------------------------------------------------------------------------
\* What a step may do to the chain.

LEMMA ChainShrinks ==
  ASSUME NEW a, NEW b, NEW c, NEW d, NEW e, Chain(a, b, c, d, e),
         NEW b2 \in SUBSET b, NEW e2 \in SUBSET e
  PROVE  Chain(a, b2, c, d, e2)
  BY DEF Chain, Before

\* The line that is pushed is shown.
LEMMA ChainShows ==
  ASSUME NEW a, NEW b, NEW c, NEW d, NEW e, Chain(a, b, c, d, e)
  PROVE  Chain(a \cup b, {}, c, d, e)
  BY DEF Chain, Before

\* The head of the queue is received.
LEMMA ChainReceives ==
  ASSUME NEW a, NEW c, NEW d, NEW e, Chain(a, {}, c, d, e),
         NEW h \in c, NEW c2 \in SUBSET c, Before({h}, c2)
  PROVE  Chain(a, {h}, c2, d, e)
  BY DEF Chain, Before

\* What the reader holds is queued, or lost.
LEMMA ChainQueues ==
  ASSUME NEW a, NEW b, NEW c, NEW d, NEW e, Chain(a, b, c, d, e),
         NEW c2 \in SUBSET (c \cup d)
  PROVE  Chain(a, b, c2, {}, e)
  BY DEF Chain, Before

\* The head of the wire is taken, or dropped.
LEMMA ChainTakes ==
  ASSUME NEW a, NEW b, NEW c, NEW d, NEW e, Chain(a, b, c, d, e),
         NEW h \in e, NEW d2 \in SUBSET {h}, NEW e2 \in SUBSET e, Before({h}, e2)
  PROVE  Chain(a, b, c, d2, e2)
  BY DEF Chain, Before

\* The node produces the next number.
LEMMA ChainGrows ==
  ASSUME NEW a, NEW b, NEW c, NEW d, NEW e, Chain(a, b, c, d, e),
         NEW p, Before(a \cup b \cup c \cup d \cup e, {p})
  PROVE  Chain(a, b, c, d, e \cup {p})
  BY DEF Chain, Before

\* A task that shows no line and receives no answer.
LEMMA OrderedUnseen ==
  ASSUME NEW u \in Task, Ordered(u),
         \A i \in ShownAt(u) : i \in ShownAt(u)' /\ out'[u[1]][i] = out[u[1]][i],
         \A i \in ShownAt(u)' : i \in ShownAt(u),
         pc'[u] = "push" => pc[u] = "push" /\ item'[u] = item[u],
         produced'[u] = produced[u],
         Remote(u) => /\ chan'[u] = chan[u] /\ hand'[u[2]] = hand[u[2]]
                      /\ fromAgent'[u[2]] = fromAgent[u[2]]
  PROVE  Ordered(u)'
<1>1. /\ Shown(u)' = Shown(u)
      /\ ShownRising(u)'
  <2>1. Shown(u)' \subseteq Shown(u) /\ Shown(u) \subseteq Shown(u)'
    BY DEF Shown
  <2>2. ShownRising(u)'
    BY DEF ShownRising, Ordered
  <2> QED
    BY <2>1, <2>2
<1>2. Queued(u)' = Queued(u) /\ Held(u)' = Held(u)
  <2>1. CASE Remote(u)
    <3>1. Remote(u)' /\ chan'[u] = chan[u] /\ hand'[u[2]] = hand[u[2]]
      BY <2>1 DEF Remote
    <3> QED
      BY <2>1, <3>1 DEF Queued, Held
  <2>2. CASE ~ Remote(u)
    BY <2>2 DEF Queued, Held, Remote
  <2> QED
    BY <2>1, <2>2
<1>3. Remote(u) => WireAt(u)' = WireAt(u) /\ (WireRising(u)' <=> WireRising(u))
  BY DEF WireAt, WireRising
<1>4. Wired(u)' = Wired(u)
  BY <1>3 DEF Wired, Remote
<1>5. Pushed(u)' \subseteq Pushed(u)
  BY DEF Pushed
<1>6. InChain(u)'
  BY <1>1, <1>2, <1>4, <1>5, ChainShrinks DEF Ordered, InChain
<1>7. AllProduced(u)'
  BY <1>1, <1>2, <1>4, <1>5 DEF Ordered, AllProduced, UnderWay
<1>8. Remote(u)' => QueueRising(u)'
  BY DEF Ordered, QueueRising, Remote
<1> QED
  BY <1>1, <1>3, <1>6, <1>7, <1>8 DEF Ordered, Remote

\* A task nothing happens to.
LEMMA OrderedStays ==
  ASSUME NEW u \in Task, Ordered(u), out'[u[1]] = out[u[1]],
         pc'[u] = "push" => pc[u] = "push" /\ item'[u] = item[u],
         produced'[u] = produced[u],
         Remote(u) => /\ chan'[u] = chan[u] /\ hand'[u[2]] = hand[u[2]]
                      /\ fromAgent'[u[2]] = fromAgent[u[2]]
  PROVE  Ordered(u)'
<1>1. /\ \A i \in ShownAt(u) : i \in ShownAt(u)' /\ out'[u[1]][i] = out[u[1]][i]
      /\ \A i \in ShownAt(u)' : i \in ShownAt(u)
  BY DEF ShownAt
<1> QED
  BY <1>1, OrderedUnseen

-----------------------------------------------------------------------------
\* The steps that move an answer, one lemma each. TypeOK is taken apart once.

LEMMA Types ==
  ASSUME TypeOK
  PROVE  /\ \A a \in Agents : fromAgent[a] \in Seq(Msg(a)) /\ hand[a] \subseteq Msg(a)
         /\ \A t \in Task : /\ chan[t] \in Seq(Nat) /\ item[t] \in Int /\ produced[t] \in Nat
                            /\ t[1] \in Requests /\ t[2] \in Nodes /\ out[t[1]] \in Seq(Line)
         /\ \A a \in Agents : \A m \in Msg(a) : m.task \in Task /\ m.task[2] = a /\ m.n \in Nat
  BY DEF TypeOK, WireTypes, ChanTypes, TaskTypes, RequestTypes, Task, Nodes, Msg

\* Nothing moves. A version goroutine may choose its line.
Quiet ==
  /\ UNCHANGED <<kind, out, chan, hand, fromAgent>>
  /\ \A u \in Streaming : /\ produced'[u] = produced[u]
                          /\ pc'[u] = "push" => pc[u] = "push" /\ item'[u] = item[u]

LEMMA QuietOrder == OrderInv /\ Quiet => OrderInv'
<1> SUFFICES ASSUME OrderInv, Quiet, NEW u \in Streaming PROVE Ordered(u)'
  BY DEF OrderInv, Quiet, Streaming, OneAnswer
<1>1. u \in Task /\ Ordered(u)
  BY DEF OrderInv, Streaming
<1> QED
  BY <1>1, OrderedStays DEF Quiet

\* A connection that breaks loses the end of the wire.
LEMMA DownOrder ==
  ASSUME TypeOK, OrderInv, NEW a \in Agents, AgentDown(a)
  PROVE  OrderInv'
<1>1. /\ UNCHANGED <<kind, out, chan, hand, produced, pc, item>>
      /\ \A b \in Agents \ {a} : fromAgent'[b] = fromAgent[b]
  BY DEF AgentDown, readerVars, reqVars, streamVars, taskVars, chanVars, TypeOK, WireTypes
<1>2. PICK k \in 0 .. Len(fromAgent[a]) : fromAgent'[a] = SubSeq(fromAgent[a], 1, k)
  BY DEF AgentDown, TypeOK, WireTypes
<1>3. \A i \in DOMAIN fromAgent'[a] : i \in DOMAIN fromAgent[a] /\ fromAgent'[a][i] = fromAgent[a][i]
  BY <1>2, Types, SubSeqProperties, LenProperties
<1> SUFFICES ASSUME NEW u \in Streaming PROVE Ordered(u)'
  BY <1>1 DEF OrderInv, Streaming, OneAnswer
<1>4. u \in Task /\ Ordered(u)
  BY DEF OrderInv, Streaming
<1>5. CASE u[2] # a
  BY <1>1, <1>4, <1>5, OrderedStays DEF Remote
<1>6. CASE u[2] = a
  <2>1. /\ Shown(u)' = Shown(u) /\ Pushed(u)' = Pushed(u) /\ Queued(u)' = Queued(u)
        /\ Held(u)' = Held(u) /\ (ShownRising(u)' <=> ShownRising(u))
        /\ (QueueRising(u)' <=> QueueRising(u))
    BY <1>1 DEF Shown, ShownAt, Pushed, Queued, Held, Remote, ShownRising, QueueRising
  <2>2. \A i \in WireAt(u)' : i \in WireAt(u) /\ fromAgent'[a][i] = fromAgent[a][i]
    BY <1>3, <1>6 DEF WireAt
  <2>3. Wired(u)' \subseteq Wired(u)
    BY <1>6, <2>2 DEF Wired, Remote
  <2>4. WireRising(u)'
    BY <1>4, <1>6, <2>2 DEF WireRising, Ordered, Remote
  <2>5. InChain(u)'
    BY <1>4, <2>1, <2>3, ChainShrinks DEF InChain, Ordered
  <2>6. AllProduced(u)'
    BY <1>1, <1>4, <2>1, <2>3 DEF AllProduced, UnderWay, Ordered
  <2> QED
    BY <1>4, <2>1, <2>4, <2>5, <2>6 DEF Ordered, Remote
<1> QED
  BY <1>5, <1>6

\* The reader takes the message at the head of the wire.
LEMMA TakeOrder ==
  ASSUME TypeOK, OrderInv, NEW a \in Agents, ReaderTake(a)
  PROVE  OrderInv'
<1>1. /\ UNCHANGED <<kind, out, chan, produced, pc, item>>
      /\ \A b \in Agents \ {a} : fromAgent'[b] = fromAgent[b] /\ hand'[b] = hand[b]
      /\ hand[a] = {}
  BY DEF ReaderTake, RLocked, reqVars, streamVars, taskVars, chanVars, TypeOK, WireTypes
<1>2. PICK m : m = Head(fromAgent[a]) /\ hand'[a] \subseteq {m}
  BY DEF ReaderTake, TypeOK, WireTypes
<1>3. /\ 1 \in DOMAIN fromAgent[a] /\ fromAgent[a][1] = m /\ m \in Msg(a)
      /\ \A i \in DOMAIN fromAgent'[a] :
           /\ i \in Nat \ {0} /\ i + 1 \in DOMAIN fromAgent[a]
           /\ fromAgent'[a][i] = fromAgent[a][i + 1]
  <2>1. /\ fromAgent[a] \in Seq(Msg(a)) /\ fromAgent[a] # <<>>
        /\ fromAgent'[a] = Tail(fromAgent[a])
    BY Types DEF ReaderTake, TypeOK, WireTypes
  <2> QED
    BY <1>2, <2>1, HeadTailProperties, LenProperties
<1> SUFFICES ASSUME NEW u \in Streaming PROVE Ordered(u)'
  BY <1>1 DEF OrderInv, Streaming, OneAnswer
<1>4. u \in Task /\ Ordered(u)
  BY DEF OrderInv, Streaming
<1>5. CASE u[2] # a
  BY <1>1, <1>4, <1>5, OrderedStays DEF Remote
<1>6. CASE u[2] = a
  <2>1. /\ Shown(u)' = Shown(u) /\ Pushed(u)' = Pushed(u) /\ Queued(u)' = Queued(u)
        /\ (ShownRising(u)' <=> ShownRising(u)) /\ (QueueRising(u)' <=> QueueRising(u))
    BY <1>1 DEF Shown, ShownAt, Pushed, Queued, Remote, ShownRising, QueueRising
  <2>2. \A i \in WireAt(u)' :
          i \in Nat \ {0} /\ i + 1 \in WireAt(u) /\ fromAgent'[a][i] = fromAgent[a][i + 1]
    BY <1>3, <1>6 DEF WireAt
  <2>3. Wired(u)' \subseteq Wired(u)
    BY <1>6, <2>2 DEF Wired, Remote
  <2>4. WireRising(u)'
    <3> SUFFICES ASSUME NEW i \in WireAt(u)', NEW j \in WireAt(u)', i < j
                 PROVE  fromAgent'[a][i].n < fromAgent'[a][j].n
      BY <1>6 DEF WireRising
    <3>1. i + 1 \in WireAt(u) /\ j + 1 \in WireAt(u) /\ i + 1 < j + 1
      BY <2>2
    <3>2. fromAgent[a][i + 1].n < fromAgent[a][j + 1].n
      BY <1>4, <1>6, <3>1 DEF WireRising, Ordered, Remote
    <3> QED
      BY <2>2, <3>2
  <2>5. CASE m.task = u
    <3>1. m.n \in Wired(u) /\ 1 \in WireAt(u)
      BY <1>3, <1>6, <2>5 DEF Wired, WireAt, Remote
    <3>2. Held(u)' \subseteq {m.n}
      BY <1>2, <1>6 DEF Held
    <3>3. Before({m.n}, Wired(u)')
      <4>1. ASSUME NEW i \in WireAt(u)' PROVE m.n < fromAgent'[a][i].n
        <5>1. i + 1 \in WireAt(u) /\ 1 < i + 1
          BY <2>2
        <5>2. fromAgent[a][1].n < fromAgent[a][i + 1].n
          BY <1>4, <1>6, <3>1, <5>1 DEF WireRising, Ordered, Remote
        <5> QED
          BY <1>3, <2>2, <5>2
      <4> QED
        BY <1>6, <4>1 DEF Before, Wired
    <3>4. InChain(u)'
      BY <1>4, <2>1, <2>3, <3>1, <3>2, <3>3, ChainTakes DEF InChain, Ordered
    <3>5. AllProduced(u)'
      BY <1>1, <1>4, <2>1, <2>3, <3>1, <3>2 DEF AllProduced, UnderWay, Ordered
    <3> QED
      BY <1>4, <2>1, <2>4, <3>4, <3>5 DEF Ordered, Remote
  <2>6. CASE m.task # u
    <3>1. Held(u) = {} /\ Held(u)' = {}
      BY <1>1, <1>2, <1>6, <2>6 DEF Held
    <3>2. InChain(u)'
      BY <1>4, <2>1, <2>3, <3>1, ChainShrinks DEF InChain, Ordered
    <3>3. AllProduced(u)'
      BY <1>1, <1>4, <2>1, <2>3, <3>1 DEF AllProduced, UnderWay, Ordered
    <3> QED
      BY <1>4, <2>1, <2>4, <3>2, <3>3 DEF Ordered, Remote
  <2> QED
    BY <2>5, <2>6
<1> QED
  BY <1>5, <1>6

\* The reader puts the message it holds into the queue, or loses it.
LEMMA SendOrder ==
  ASSUME TypeOK, OrderInv, NEW a \in Agents, ReaderSend(a)
  PROVE  OrderInv'
<1>1. PICK m \in hand[a] : chan' = IF Len(chan[m.task]) < Cap(m.task)
                                   THEN [chan EXCEPT ![m.task] = Append(@, m.n)]
                                   ELSE chan
  BY DEF ReaderSend
<1>2. /\ UNCHANGED <<kind, out, fromAgent, produced, pc, item>>
      /\ \A b \in Agents \ {a} : hand'[b] = hand[b]
      /\ hand'[a] = {}
  BY DEF ReaderSend, wireVars, reqVars, streamVars, taskVars, TypeOK, WireTypes
<1>3. m.task \in Task /\ m.task[2] = a /\ m.n \in Nat /\ chan[m.task] \in Seq(Nat)
  BY Types
<1>4. /\ \A u \in Task \ {m.task} : chan'[u] = chan[u]
      /\ \/ chan'[m.task] = chan[m.task]
         \/ chan'[m.task] = Append(chan[m.task], m.n)
  BY <1>1, <1>3 DEF TypeOK, ChanTypes
<1> SUFFICES ASSUME NEW u \in Streaming PROVE Ordered(u)'
  BY <1>2 DEF OrderInv, Streaming, OneAnswer
<1>5. u \in Task /\ Ordered(u)
  BY DEF OrderInv, Streaming
<1>6. CASE u[2] # a
  BY <1>2, <1>3, <1>4, <1>5, <1>6, OrderedStays DEF Remote
<1>7. CASE u[2] = a
  <2>1. /\ Shown(u)' = Shown(u) /\ Pushed(u)' = Pushed(u) /\ Wired(u)' = Wired(u)
        /\ (ShownRising(u)' <=> ShownRising(u)) /\ (WireRising(u)' <=> WireRising(u))
        /\ Held(u)' = {}
    BY <1>2, <1>7
    DEF Shown, ShownAt, Pushed, Wired, WireAt, Held, Remote, ShownRising, WireRising
  <2>2. Queued(u)' \subseteq Queued(u) \cup Held(u) /\ QueueRising(u)'
    <3>1. CASE chan'[u] = chan[u]
      BY <1>5, <1>7, <3>1 DEF Queued, QueueRising, Ordered, Remote
    <3>2. CASE u = m.task /\ chan'[u] = Append(chan[u], m.n)
      <4>1. m.n \in Held(u)
        BY <1>7, <3>2 DEF Held, Remote
      <4>2. /\ DOMAIN chan[u] \subseteq Nat
            /\ \A i \in DOMAIN chan'[u] :
                 \/ i \in DOMAIN chan[u] /\ chan'[u][i] = chan[u][i]
                 \/ /\ chan'[u][i] = m.n /\ i = Len(chan[u]) + 1 /\ Len(chan[u]) \in Nat
                    /\ \A j \in DOMAIN chan[u] : j < i
        BY <1>3, <3>2, AppendProperties, LenProperties
      <4>3. \A i \in DOMAIN chan[u] : chan[u][i] < m.n
        BY <1>5, <1>7, <4>1 DEF Ordered, InChain, Chain, Before, Queued, Remote
      <4>4. QueueRising(u)'
        <5> SUFFICES ASSUME NEW i \in DOMAIN chan'[u], NEW j \in DOMAIN chan'[u], i < j
                     PROVE  chan'[u][i] < chan'[u][j]
          BY DEF QueueRising
        <5>1. i \in DOMAIN chan[u] /\ chan'[u][i] = chan[u][i]
          BY <4>2
        <5> QED
          BY <1>5, <1>7, <4>2, <4>3, <5>1 DEF Ordered, QueueRising, Remote
      <4> QED
        BY <1>7, <4>1, <4>2, <4>4 DEF Queued, Remote
    <3> QED
      BY <1>4, <1>5, <3>1, <3>2
  <2>3. InChain(u)'
    BY <1>5, <2>1, <2>2, ChainQueues DEF InChain, Ordered
  <2>4. AllProduced(u)'
    BY <1>2, <1>5, <2>1, <2>2 DEF AllProduced, UnderWay, Ordered
  <2> QED
    BY <1>5, <1>7, <2>1, <2>2, <2>3, <2>4 DEF Ordered, Remote
<1> QED
  BY <1>6, <1>7

\* The agent sends the next answer of a task.
LEMMA ReplyOrder ==
  ASSUME TypeOK, OrderInv, NEW t \in Task, AgentReply(t)
  PROVE  OrderInv'
<1>1. PICK m : m = [task |-> t, n |-> produced[t] + 1]
  OBVIOUS
<1>2. t[2] \in Agents /\ m.task = t /\ m.n = produced[t] + 1
  BY <1>1 DEF AgentReply, TypeOK, WireTypes
<1>3. /\ UNCHANGED <<kind, out, chan, hand, pc, item>>
      /\ \A b \in Agents \ {t[2]} : fromAgent'[b] = fromAgent[b]
      /\ fromAgent'[t[2]] = Append(fromAgent[t[2]], m)
      /\ \A u \in Task \ {t} : produced'[u] = produced[u]
      /\ produced'[t] = produced[t] + 1
  BY <1>1, <1>2 DEF AgentReply, readerVars, reqVars, streamVars, taskVars, chanVars, TypeOK, WireTypes
<1>4. /\ DOMAIN fromAgent[t[2]] \subseteq Nat
      /\ \A i \in DOMAIN fromAgent[t[2]] :
           i \in DOMAIN fromAgent'[t[2]] /\ fromAgent'[t[2]][i] = fromAgent[t[2]][i]
      /\ \A i \in DOMAIN fromAgent'[t[2]] :
           \/ i \in DOMAIN fromAgent[t[2]] /\ fromAgent'[t[2]][i] = fromAgent[t[2]][i]
           \/ /\ fromAgent'[t[2]][i] = m /\ i = Len(fromAgent[t[2]]) + 1
              /\ Len(fromAgent[t[2]]) \in Nat
              /\ \A j \in DOMAIN fromAgent[t[2]] : j < i
  BY <1>2, <1>3, Types, AppendProperties, LenProperties
<1> SUFFICES ASSUME NEW u \in Streaming PROVE Ordered(u)'
  BY <1>3 DEF OrderInv, Streaming, OneAnswer
<1>5. u \in Task /\ Ordered(u)
  BY DEF OrderInv, Streaming
<1>6. CASE u[2] # t[2]
  BY <1>2, <1>3, <1>5, <1>6, OrderedStays DEF Remote
<1>7. CASE u[2] = t[2]
  <2>1. /\ Shown(u)' = Shown(u) /\ Pushed(u)' = Pushed(u) /\ Queued(u)' = Queued(u)
        /\ Held(u)' = Held(u) /\ (ShownRising(u)' <=> ShownRising(u))
        /\ (QueueRising(u)' <=> QueueRising(u))
    BY <1>3 DEF Shown, ShownAt, Pushed, Queued, Held, Remote, ShownRising, QueueRising
  <2>2. CASE u # t
    <3>1. WireAt(u)' = WireAt(u) /\ \A i \in WireAt(u) : fromAgent'[u[2]][i] = fromAgent[u[2]][i]
      <4>1. \A i \in WireAt(u) : /\ i \in WireAt(u)'
                                 /\ fromAgent'[u[2]][i] = fromAgent[u[2]][i]
        BY <1>4, <1>7 DEF WireAt
      <4>2. \A i \in WireAt(u)' : i \in DOMAIN fromAgent'[t[2]] /\ fromAgent'[t[2]][i].task = u
        BY <1>7 DEF WireAt
      <4>3. \A i \in WireAt(u)' : i \in WireAt(u)
        BY <1>2, <1>4, <1>7, <2>2, <4>2 DEF WireAt
      <4> QED
        BY <4>1, <4>3
    <3>2. Wired(u)' = Wired(u)
      <4>1. Wired(u)' \subseteq Wired(u) /\ Wired(u) \subseteq Wired(u)'
        BY <3>1 DEF Wired, Remote
      <4> QED
        BY <4>1
    <3>3. WireRising(u)'
      BY <1>2, <1>5, <1>7, <3>1 DEF WireRising, Ordered, Remote
    <3>4. InChain(u)' /\ AllProduced(u)'
      BY <1>3, <1>5, <2>1, <2>2, <3>2 DEF Ordered, InChain, AllProduced, UnderWay
    <3> QED
      BY <1>5, <2>1, <3>3, <3>4 DEF Ordered, Remote
  <2>3. CASE u = t
    <3>1. \A i \in WireAt(t)' :
            \/ i \in WireAt(t) /\ fromAgent'[t[2]][i] = fromAgent[t[2]][i]
            \/ /\ fromAgent'[t[2]][i] = m /\ i = Len(fromAgent[t[2]]) + 1
               /\ Len(fromAgent[t[2]]) \in Nat
               /\ \A j \in WireAt(t) : j < i
      BY <1>4 DEF WireAt
    <3>2. Wired(t)' \subseteq Wired(t) \cup {m.n}
      BY <1>2, <3>1 DEF Wired, Remote
    <3>3. Before(UnderWay(t), {m.n})
      <4>1. \A k \in UnderWay(t) : k \in Int /\ k <= produced[t]
        BY <1>5, <2>3 DEF Ordered, AllProduced
      <4>2. produced[t] \in Nat
        BY Types
      <4> QED
        BY <1>2, <4>1, <4>2 DEF Before
    <3>4. WireRising(t)'
      <4> SUFFICES ASSUME NEW i \in WireAt(t)', NEW j \in WireAt(t)', i < j
                   PROVE  fromAgent'[t[2]][i].n < fromAgent'[t[2]][j].n
        BY DEF WireRising
      <4>1. i \in WireAt(t) /\ fromAgent'[t[2]][i] = fromAgent[t[2]][i]
        <5>1. i \in Nat /\ j \in Nat
          BY <1>4, <3>1 DEF WireAt
        <5>2. ASSUME i = Len(fromAgent[t[2]]) + 1, \A k \in WireAt(t) : k < i PROVE FALSE
          <6>1. j \in WireAt(t) \/ j = i
            BY <3>1, <5>2
          <6> QED
            BY <5>1, <5>2, <6>1
        <5> QED
          BY <3>1, <5>2
      <4>2. fromAgent[t[2]][i].n \in UnderWay(t)
        BY <1>2, <4>1 DEF UnderWay, Wired, Remote
      <4>3. fromAgent[t[2]][i].n < m.n
        BY <3>3, <4>2 DEF Before
      <4> QED
        BY <1>2, <1>5, <2>3, <3>1, <4>1, <4>3 DEF Ordered, WireRising, Remote
    <3>5. InChain(t)'
      <4>1. Chain(Shown(t), Pushed(t), Queued(t), Held(t), Wired(t) \cup {m.n})
        BY <1>5, <2>3, <3>3, ChainGrows DEF Ordered, InChain, UnderWay
      <4> QED
        BY <2>1, <2>3, <3>2, <4>1, ChainShrinks DEF InChain
    <3>6. AllProduced(t)'
      <4>1. UnderWay(t)' \subseteq UnderWay(t) \cup {m.n}
        BY <2>1, <2>3, <3>2 DEF UnderWay
      <4>2. produced[t] \in Nat /\ \A k \in UnderWay(t) : k \in Int /\ k <= produced[t]
        BY <1>5, <2>3, Types DEF Ordered, AllProduced
      <4> QED
        BY <1>2, <1>3, <4>1, <4>2 DEF AllProduced
    <3> QED
      BY <1>2, <1>5, <2>1, <2>3, <3>4, <3>5, <3>6 DEF Ordered, Remote
  <2> QED
    BY <2>2, <2>3
<1> QED
  BY <1>6, <1>7

\* A goroutine receives the head of its queue.
LEMMA ReceiveOrder ==
  ASSUME TypeOK, OrderInv, NEW t \in Task, Receive(t)
  PROVE  OrderInv'
<1>1. /\ UNCHANGED <<kind, out, hand, fromAgent, produced>>
      /\ \A u \in Task \ {t} : chan'[u] = chan[u] /\ pc'[u] = pc[u] /\ item'[u] = item[u]
      /\ pc[t] = "wait" /\ chan[t] # <<>> /\ chan'[t] = Tail(chan[t])
      /\ item'[t] = Head(chan[t])
  BY DEF Receive, Goto, readerVars, wireVars, reqVars, streamVars, TypeOK, TaskTypes, ChanTypes
<1>2. Remote(t)
  BY <1>1, AgentTask DEF TypeOK, Remote
<1>3. /\ 1 \in DOMAIN chan[t] /\ item'[t] = chan[t][1]
      /\ \A i \in DOMAIN chan'[t] : /\ i \in Nat \ {0} /\ i + 1 \in DOMAIN chan[t]
                                    /\ chan'[t][i] = chan[t][i + 1]
  BY <1>1, Types, HeadTailProperties, LenProperties
<1> SUFFICES ASSUME NEW u \in Streaming PROVE Ordered(u)'
  BY <1>1 DEF OrderInv, Streaming, OneAnswer
<1>4. u \in Task /\ Ordered(u)
  BY DEF OrderInv, Streaming
<1>5. CASE u # t
  BY <1>1, <1>4, <1>5, OrderedStays
<1>6. CASE u = t
  <2>1. /\ Shown(t)' = Shown(t) /\ Wired(t)' = Wired(t) /\ Held(t)' = Held(t)
        /\ (ShownRising(t)' <=> ShownRising(t)) /\ (WireRising(t)' <=> WireRising(t))
    BY <1>1 DEF Shown, ShownAt, Wired, WireAt, Held, Remote, ShownRising, WireRising
  <2>2. PICK h : h = chan[t][1]
    OBVIOUS
  <2>3. h \in Queued(t) /\ Pushed(t) = {} /\ Pushed(t)' \subseteq {h}
    BY <1>1, <1>2, <1>3, <2>2 DEF Queued, Pushed, Remote
  <2>4. Queued(t)' \subseteq Queued(t)
    BY <1>2, <1>3 DEF Queued, Remote
  <2>5. \A i \in DOMAIN chan'[t] : h < chan'[t][i]
    BY <1>2, <1>3, <1>4, <1>6, <2>2 DEF Ordered, QueueRising
  <2>6. Before({h}, Queued(t)')
    BY <1>2, <2>5 DEF Before, Queued, Remote
  <2>7. Chain(Shown(t)', {h}, Queued(t)', Held(t)', Wired(t)')
    BY <1>4, <1>6, <2>1, <2>3, <2>4, <2>6, ChainReceives DEF InChain, Ordered
  <2>8. InChain(t)'
    BY <2>3, <2>7, ChainShrinks DEF InChain
  <2>9. AllProduced(t)'
    BY <1>1, <1>4, <1>6, <2>1, <2>3, <2>4 DEF AllProduced, UnderWay, Ordered
  <2>10. QueueRising(t)'
    <3> SUFFICES ASSUME NEW i \in DOMAIN chan'[t], NEW j \in DOMAIN chan'[t], i < j
                 PROVE  chan'[t][i] < chan'[t][j]
      BY DEF QueueRising
    <3>1. i + 1 \in DOMAIN chan[t] /\ j + 1 \in DOMAIN chan[t] /\ i + 1 < j + 1
      BY <1>3
    <3> QED
      BY <1>2, <1>3, <1>4, <1>6, <3>1 DEF Ordered, QueueRising
  <2> QED
    BY <1>2, <1>4, <1>6, <2>1, <2>8, <2>9, <2>10 DEF Ordered, Remote
<1> QED
  BY <1>5, <1>6

\* A goroutine receives the next answer of its worker.
LEMMA RecvOrder ==
  ASSUME TypeOK, OrderInv, NEW t \in Task, Recv(t)
  PROVE  OrderInv'
<1>1. /\ UNCHANGED <<kind, out, chan, hand, fromAgent>>
      /\ \A u \in Task \ {t} : pc'[u] = pc[u] /\ item'[u] = item[u] /\ produced'[u] = produced[u]
      /\ pc[t] = "recv" /\ item'[t] = produced[t] + 1 /\ produced'[t] = produced[t] + 1
  BY DEF Recv, Goto, readerVars, reqVars, streamVars, chanVars, TypeOK, TaskTypes, WireTypes
<1>2. ~ Remote(t)
  BY <1>1, WorkerTask DEF TypeOK, Remote
<1> SUFFICES ASSUME NEW u \in Streaming PROVE Ordered(u)'
  BY <1>1 DEF OrderInv, Streaming, OneAnswer
<1>3. u \in Task /\ Ordered(u)
  BY DEF OrderInv, Streaming
<1>4. CASE u # t
  BY <1>1, <1>3, <1>4, OrderedStays
<1>5. CASE u = t
  <2>1. Shown(t)' = Shown(t) /\ (ShownRising(t)' <=> ShownRising(t))
    BY <1>1 DEF Shown, ShownAt, ShownRising
  <2>2. PICK k : k = produced[t] + 1
    OBVIOUS
  <2>3. Pushed(t)' \subseteq {k}
    BY <1>1, <2>2 DEF Pushed
  <2>4. /\ Queued(t)' = {} /\ Held(t)' = {} /\ Wired(t)' = {}
    BY <1>2 DEF Queued, Held, Wired, Remote
  <2>5. \A n \in Shown(t) : n \in Int /\ n < k
    BY <1>3, <1>5, <2>2, Types DEF Ordered, AllProduced, UnderWay
  <2>6. InChain(t)'
    BY <2>1, <2>3, <2>4, <2>5 DEF InChain, Chain, Before
  <2>7. AllProduced(t)'
    <3>1. produced[t] \in Nat /\ produced'[t] = k
      BY <1>1, <2>2, Types
    <3>2. UnderWay(t)' \subseteq Shown(t) \cup {k}
      BY <2>1, <2>3, <2>4 DEF UnderWay
    <3> QED
      BY <2>2, <2>5, <3>1, <3>2 DEF AllProduced
  <2> QED
    BY <1>2, <1>3, <1>5, <2>1, <2>6, <2>7 DEF Ordered, Remote
<1> QED
  BY <1>4, <1>5

\* A goroutine shows its line.
LEMMA PushOrder ==
  ASSUME TypeOK, OrderInv, NEW t \in Task, Push(t)
  PROVE  OrderInv'
<1>1. /\ UNCHANGED <<kind, chan, hand, fromAgent, produced, item>>
      /\ \A u \in Task \ {t} : pc'[u] = pc[u]
      /\ pc[t] = "push" /\ pc'[t] # "push"
  BY AfterPushPlace DEF Push, Goto, readerVars, wireVars, reqVars, chanVars, TypeOK, TaskTypes
<1>2. PICK l : l = [node |-> t[2], n |-> item[t]]
  OBVIOUS
<1>3. /\ \A s \in Requests : \A i \in DOMAIN out[s] :
           i \in DOMAIN out'[s] /\ out'[s][i] = out[s][i]
      /\ \A s \in Requests : \A i \in DOMAIN out'[s] :
           \/ i \in DOMAIN out[s]
           \/ s = t[1] /\ i = Len(out[s]) + 1 /\ out'[s][i] = l
  BY <1>2, PushedLine DEF TypeOK
<1> SUFFICES ASSUME NEW u \in Streaming PROVE Ordered(u)'
  BY <1>1 DEF OrderInv, Streaming, OneAnswer
<1>4. u \in Task /\ Ordered(u) /\ u[1] \in Requests /\ out[u[1]] \in Seq(Line)
  BY Types DEF OrderInv, Streaming
<1>5. \A i \in ShownAt(u) : i \in ShownAt(u)' /\ out'[u[1]][i] = out[u[1]][i]
  BY <1>3, <1>4 DEF ShownAt
<1>6. CASE u # t
  <2>1. u[1] # t[1] \/ u[2] # t[2]
    BY <1>4, <1>6 DEF Task
  <2>2. \A i \in ShownAt(u)' : i \in DOMAIN out'[u[1]] /\ out'[u[1]][i].node = u[2]
    BY DEF ShownAt
  <2>3. \A i \in ShownAt(u)' : i \in ShownAt(u)
    BY <1>2, <1>3, <1>4, <2>1, <2>2 DEF ShownAt
  <2> QED
    BY <1>1, <1>4, <1>5, <1>6, <2>3, OrderedUnseen
<1>7. CASE u = t
  <2>1. /\ Queued(t)' = Queued(t) /\ Held(t)' = Held(t) /\ Wired(t)' = Wired(t)
        /\ (QueueRising(t)' <=> QueueRising(t)) /\ (WireRising(t)' <=> WireRising(t))
        /\ Pushed(t) = {item[t]} /\ Pushed(t)' = {}
    BY <1>1 DEF Queued, Held, Wired, WireAt, Remote, QueueRising, WireRising, Pushed
  <2>2. /\ DOMAIN out[t[1]] = 1 .. Len(out[t[1]]) /\ Len(out[t[1]]) \in Nat
        /\ \A i \in ShownAt(t) : i \in DOMAIN out[t[1]]
    BY <1>4, <1>7, LenProperties DEF ShownAt
  <2>3. \A i \in ShownAt(t)' :
          \/ i \in ShownAt(t) /\ out'[t[1]][i] = out[t[1]][i]
          \/ i = Len(out[t[1]]) + 1 /\ out'[t[1]][i].n = item[t]
    BY <1>2, <1>3, <1>4, <1>7 DEF ShownAt
  <2>4. Shown(t)' \subseteq Shown(t) \cup Pushed(t)
    BY <2>1, <2>3 DEF Shown
  <2>5. \A i \in ShownAt(t) : out[t[1]][i].n < item[t]
    BY <1>4, <1>7, <2>1 DEF Ordered, InChain, Chain, Before, Shown
  <2>6. ShownRising(t)'
    <3> SUFFICES ASSUME NEW i \in ShownAt(t)', NEW j \in ShownAt(t)', i < j
                 PROVE  out'[t[1]][i].n < out'[t[1]][j].n
      BY DEF ShownRising
    <3>1. i \in ShownAt(t) /\ out'[t[1]][i] = out[t[1]][i]
      BY <2>2, <2>3
    <3> QED
      BY <1>4, <1>7, <2>3, <2>5, <3>1 DEF Ordered, ShownRising
  <2>7. Chain(Shown(t) \cup Pushed(t), {}, Queued(t), Held(t), Wired(t))
    BY <1>4, <1>7, ChainShows DEF Ordered, InChain
  <2>8. InChain(t)'
    BY <2>1, <2>4, <2>7 DEF InChain, Chain, Before
  <2>9. AllProduced(t)'
    BY <1>1, <1>4, <1>7, <2>1, <2>4 DEF Ordered, AllProduced, UnderWay
  <2> QED
    BY <1>4, <1>7, <2>1, <2>6, <2>8, <2>9 DEF Ordered, Remote
<1> QED
  BY <1>6, <1>7

\* The web server shows its own line.
LEMMA WebOrder ==
  ASSUME TypeOK, OrderInv, NEW r \in Requests, WebPush(r)
  PROVE  OrderInv'
<1>1. UNCHANGED <<kind, pc, chan, hand, fromAgent, produced, item>>
  BY DEF WebPush, readerVars, wireVars, reqVars, taskVars, chanVars
<1>2. /\ \A s \in Requests : \A i \in DOMAIN out[s] :
           i \in DOMAIN out'[s] /\ out'[s][i] = out[s][i]
      /\ \A s \in Requests : \A i \in DOMAIN out'[s] : i \in DOMAIN out[s] \/ out'[s][i].node = Web
  BY WebLine DEF TypeOK
<1> SUFFICES ASSUME NEW u \in Streaming PROVE Ordered(u)'
  BY <1>1 DEF OrderInv, Streaming, OneAnswer
<1>3. u \in Task /\ Ordered(u) /\ u[1] \in Requests /\ u[2] # Web
  BY Types DEF OrderInv, Streaming, Nodes
<1>4. \A i \in ShownAt(u) : i \in ShownAt(u)' /\ out'[u[1]][i] = out[u[1]][i]
  BY <1>2, <1>3 DEF ShownAt
<1>5. \A i \in ShownAt(u)' : i \in DOMAIN out'[u[1]] /\ out'[u[1]][i].node = u[2]
  BY DEF ShownAt
<1>6. \A i \in ShownAt(u)' : i \in ShownAt(u)
  BY <1>2, <1>3, <1>5 DEF ShownAt
<1> QED
  BY <1>1, <1>3, <1>4, <1>6, OrderedUnseen

LEMMA OrderStep == TypeOK /\ OrderInv /\ [Next]_vars => OrderInv'
<1> SUFFICES ASSUME TypeOK, OrderInv, [Next]_vars PROVE OrderInv'
  OBVIOUS
<1>1. ASSUME NEW a \in Agents, AgentJoin(a) \/ PingBegin(a) \/ PingEnd(a) \/ Cleanup(a) \/ ReaderExit(a)
      PROVE  Quiet
  BY <1>1 DEF AgentJoin, PingBegin, PingEnd, Cleanup, ReaderExit, readerVars, wireVars,
              reqVars, streamVars, taskVars, chanVars, Quiet
<1>2. ASSUME NEW r \in Requests, NEW nodes, Open(r, nodes) PROVE Quiet
  BY <1>2 DEF Open, readerVars, wireVars, taskVars, chanVars, Quiet
<1>3. ASSUME NEW r \in Requests, RequestStep(r) PROVE Quiet
  BY <1>2, <1>3 DEF RequestStep, VersionRequest, PingRequest, TracerouteRequest, MtrRequest, Reject,
                    ClientGone, readerVars, wireVars, reqVars, streamVars, taskVars, chanVars, Quiet
<1>4. ASSUME NEW r \in Requests, Fanout(r) PROVE Quiet
  <2>1. UNCHANGED <<kind, out, chan, hand, fromAgent, produced, item>>
    BY <1>4 DEF Fanout, readerVars, wireVars, reqVars, chanVars
  <2>2. \A u \in Task : pc'[u] = pc[u] \/ pc'[u] \in {"register", "call"}
    BY <1>4 DEF Fanout
  <2> QED
    BY <2>1, <2>2 DEF Quiet, Streaming
<1>5. ASSUME NEW r \in Requests, CtxEnd(r) \/ StreamCheck(r) \/ StreamDone(r) PROVE Quiet
  BY <1>5 DEF CtxEnd, StreamCheck, StreamDone, readerVars, wireVars, reqVars, taskVars, chanVars, Quiet
<1>6. ASSUME NEW t \in Task, NEW from, NEW to, Goto(t, from, to), to # "push" \/ OneAnswer(t)
      PROVE  \A u \in Streaming : pc'[u] = "push" => u # t /\ pc[u] = "push"
  BY <1>6 DEF Goto, Streaming, TypeOK, TaskTypes
<1>7. ASSUME NEW t \in Task,
             Register(t) \/ SendBegin(t) \/ SendOk(t) \/ Unregister(t) \/ CloseChan(t) \/ RecvEnd(t)
      PROVE  Quiet
  <2>1. PICK from, to : Goto(t, from, to) /\ to # "push"
    BY <1>7 DEF Register, SendBegin, SendOk, Unregister, CloseChan, RecvEnd
  <2>2. UNCHANGED <<kind, out, chan, hand, fromAgent, produced, item>>
    BY <1>7 DEF Register, SendBegin, SendOk, Unregister, CloseChan, RecvEnd, readerVars, wireVars,
                reqVars, streamVars, chanVars
  <2>3. \A u \in Streaming : pc'[u] = "push" => pc[u] = "push"
    BY <1>6, <2>1
  <2> QED
    BY <2>2, <2>3 DEF Quiet
<1>8. ASSUME NEW t \in Task, SendFail(t) \/ GiveUp(t) \/ CallFail(t) \/ CallOk(t) PROVE Quiet
  <2>1. PICK from, to : Goto(t, from, to) /\ (to # "push" \/ OneAnswer(t))
    BY <1>8 DEF SendFail, GiveUp, CallFail, CallOk
  <2>2. UNCHANGED <<kind, out, chan, hand, fromAgent>>
    BY <1>8 DEF SendFail, GiveUp, CallFail, CallOk, readerVars, wireVars, reqVars, streamVars, chanVars
  <2>3. \A u \in Streaming : produced'[u] = produced[u]
    BY <1>8 DEF SendFail, GiveUp, CallFail, CallOk, wireVars, Streaming, TypeOK, WireTypes
  <2>4. \A u \in Streaming : u # t => item'[u] = item[u]
    BY <1>8 DEF SendFail, GiveUp, CallFail, CallOk, Streaming, TypeOK, TaskTypes
  <2>5. \A u \in Streaming : pc'[u] = "push" => u # t /\ pc[u] = "push"
    BY <1>6, <2>1
  <2> QED
    BY <2>2, <2>3, <2>4, <2>5 DEF Quiet
<1>9. UNCHANGED vars => Quiet
  BY DEF vars, readerVars, wireVars, reqVars, streamVars, taskVars, chanVars, Quiet
<1> QED
  BY <1>1, <1>3, <1>4, <1>5, <1>7, <1>8, <1>9, QuietOrder, DownOrder, TakeOrder, SendOrder,
     ReplyOrder, ReceiveOrder, RecvOrder, PushOrder, WebOrder
  DEF Next, SessionStep, ReaderStep, StreamStep, AgentTaskStep, WorkerTaskStep, Quiescent

-----------------------------------------------------------------------------
\* The web server's line.

LEMMA WebStep == TypeOK /\ WebInv /\ [Next]_vars => WebInv'
<1> SUFFICES ASSUME TypeOK, WebInv, [Next]_vars PROVE WebInv'
  OBVIOUS
<1> DEFINE Early == {"idle", "resolve", "rejected"}
<1>0. /\ stream \in [Requests -> {"idle", "resolve", "check", "select", "ended", "left", "rejected"}]
      /\ web \in [Requests -> {"none", "push", "exited"}]
  BY DEF TypeOK, RequestTypes
<1>1. ASSUME UNCHANGED <<web, out>>, \A r \in Requests : stream'[r] \in Early => stream[r] \in Early
      PROVE  WebInv'
  BY <1>1 DEF WebInv
<1>2. ASSUME UNCHANGED <<stream, web, out>> PROVE WebInv'
  BY <1>1, <1>2
<1>3. ASSUME NEW a \in Agents, SessionStep(a) \/ ReaderStep(a) PROVE WebInv'
  BY <1>2, <1>3 DEF SessionStep, ReaderStep, AgentJoin, AgentDown, PingBegin, PingEnd, Cleanup,
                    ReaderTake, ReaderSend, ReaderExit, streamVars
<1>4. ASSUME NEW r \in Requests, NEW nodes, Open(r, nodes) PROVE WebInv'
  BY <1>0, <1>1, <1>4 DEF Open
<1>5. ASSUME NEW r \in Requests, RequestStep(r) \/ CtxEnd(r) \/ StreamCheck(r) \/ StreamDone(r)
      PROVE  WebInv'
  <2>1. CASE Reject(r) \/ ClientGone(r) \/ CtxEnd(r) \/ StreamCheck(r) \/ StreamDone(r)
    <3>1. UNCHANGED <<web, out>>
      BY <2>1 DEF Reject, ClientGone, CtxEnd, StreamCheck, StreamDone, streamVars
    <3>2. \A s \in Requests : stream'[s] \in Early => stream[s] \in Early
      BY <1>0, <2>1 DEF Reject, ClientGone, CtxEnd, StreamCheck, StreamDone, streamVars
    <3> QED
      BY <1>1, <3>1, <3>2
  <2> QED
    BY <1>4, <1>5, <2>1
    DEF RequestStep, VersionRequest, PingRequest, TracerouteRequest, MtrRequest
<1>6. ASSUME NEW r \in Requests, Fanout(r) PROVE WebInv'
  <2>1. out[r] = <<>> /\ out' = out
    BY <1>6 DEF Fanout, WebInv
  <2>2. /\ stream'[r] = "check"
        /\ \A s \in Requests \ {r} : stream'[s] = stream[s] /\ web'[s] = web[s]
    BY <1>0, <1>6 DEF Fanout
  <2> QED
    BY <2>1, <2>2 DEF WebInv
<1>7. ASSUME NEW r \in Requests, WebPush(r) PROVE WebInv'
  <2>1. /\ stream[r] = "select" /\ stream'[r] = "check" /\ web[r] = "push" /\ web'[r] = "exited"
        /\ \A s \in Requests \ {r} : stream'[s] = stream[s] /\ web'[s] = web[s] /\ out'[s] = out[s]
    BY <1>0, <1>7 DEF WebPush, Write, TypeOK, RequestTypes
  <2>2. /\ \A i \in DOMAIN out[r] : out'[r][i] = out[r][i]
        /\ \A i \in DOMAIN out'[r] : i \in DOMAIN out[r] \/ i = Len(out[r]) + 1
    BY <1>7, WebLine DEF TypeOK
  <2>3. \A i \in DOMAIN out[r] : out[r][i].node # Web
    BY <2>1 DEF WebInv
  <2>4. \A i, j \in DOMAIN out'[r] : out'[r][i].node = Web /\ out'[r][j].node = Web => i = j
    BY <2>2, <2>3
  <2> QED
    BY <2>1, <2>4 DEF WebInv
<1>8. ASSUME NEW t \in Task, Push(t) PROVE WebInv'
  <2>1. t[1] \in Requests /\ t[2] # Web
    BY Types DEF Nodes
  <2>2. /\ stream[t[1]] = "select" /\ stream'[t[1]] = "check" /\ web' = web
        /\ \A s \in Requests \ {t[1]} : stream'[s] = stream[s] /\ out'[s] = out[s]
    BY <1>0, <1>8, <2>1 DEF Push, Write, TypeOK, RequestTypes
  <2>3. /\ \A i \in DOMAIN out[t[1]] : out'[t[1]][i] = out[t[1]][i]
        /\ \A i \in DOMAIN out'[t[1]] : i \in DOMAIN out[t[1]] \/ out'[t[1]][i].node = t[2]
    <3>1. PICK l : l = [node |-> t[2], n |-> item[t]]
      OBVIOUS
    <3>2. /\ \A i \in DOMAIN out[t[1]] : out'[t[1]][i] = out[t[1]][i]
          /\ \A i \in DOMAIN out'[t[1]] : i \in DOMAIN out[t[1]] \/ out'[t[1]][i] = l
      BY <1>8, <2>1, <3>1, PushedLine DEF TypeOK
    <3> QED
      BY <3>1, <3>2
  <2> QED
    BY <2>1, <2>2, <2>3 DEF WebInv
<1>9. ASSUME NEW t \in Task, AgentTaskStep(t) \/ WorkerTaskStep(t) \/ AgentReply(t) PROVE WebInv'
  BY <1>2, <1>9
  DEF AgentTaskStep, WorkerTaskStep, AgentReply, Register, SendBegin, SendOk, SendFail, Receive,
      GiveUp, Unregister, CloseChan, CallFail, CallOk, Recv, RecvEnd, streamVars
<1>10. CASE UNCHANGED vars
  BY <1>2, <1>10 DEF vars, streamVars
<1> QED
  BY <1>3, <1>5, <1>6, <1>7, <1>8, <1>9, <1>10 DEF Next, StreamStep, Quiescent

-----------------------------------------------------------------------------
\* The numbers of the lines.

LEMMA NumbersOnWire ==
  ASSUME TypeOK, NumbersInv, NEW a \in Agents, AgentDown(a) \/ ReaderTake(a)
  PROVE  \A b \in Agents : /\ \A m \in hand'[b] : m.n \in Numbers
                           /\ \A i \in DOMAIN fromAgent'[b] : fromAgent'[b][i].n \in Numbers
<1> SUFFICES ASSUME NEW b \in Agents
             PROVE  /\ \A m \in hand'[b] : m.n \in Numbers
                    /\ \A i \in DOMAIN fromAgent'[b] : fromAgent'[b][i].n \in Numbers
  OBVIOUS
<1>1. fromAgent[b] \in Seq(Msg(b))
  BY Types
<1>2. CASE b # a
  BY <1>2 DEF AgentDown, ReaderTake, readerVars, TypeOK, WireTypes, NumbersInv
<1>3. CASE b = a /\ AgentDown(a)
  <2>1. PICK k \in 0 .. Len(fromAgent[a]) : fromAgent'[a] = SubSeq(fromAgent[a], 1, k)
    BY <1>3 DEF AgentDown, TypeOK, WireTypes
  <2>2. \A i \in DOMAIN fromAgent'[a] : i \in DOMAIN fromAgent[a] /\ fromAgent'[a][i] = fromAgent[a][i]
    BY <1>1, <1>3, <2>1, SubSeqProperties, LenProperties
  <2>3. hand'[a] = hand[a]
    BY <1>3 DEF AgentDown, readerVars
  <2> QED
    BY <1>3, <2>2, <2>3 DEF NumbersInv
<1>4. CASE b = a /\ ReaderTake(a)
  <2>1. /\ fromAgent[a] # <<>> /\ fromAgent'[a] = Tail(fromAgent[a])
        /\ hand'[a] \subseteq {Head(fromAgent[a])}
    BY <1>4 DEF ReaderTake, TypeOK, WireTypes
  <2>2. /\ 1 \in DOMAIN fromAgent[a] /\ hand'[a] \subseteq {fromAgent[a][1]}
        /\ \A i \in DOMAIN fromAgent'[a] :
             i + 1 \in DOMAIN fromAgent[a] /\ fromAgent'[a][i] = fromAgent[a][i + 1]
    BY <1>1, <1>4, <2>1, HeadTailProperties, LenProperties
  <2> QED
    BY <1>4, <2>2 DEF NumbersInv
<1> QED
  BY <1>2, <1>3, <1>4

LEMMA NumbersStep == TypeOK /\ NumbersInv /\ [Next]_vars => NumbersInv'
<1> SUFFICES ASSUME TypeOK, NumbersInv, [Next]_vars PROVE NumbersInv'
  OBVIOUS
<1>0. /\ 0 \in Numbers /\ 1 \in Numbers /\ Offline \in Numbers /\ TimedOut \in Numbers
      /\ \A k \in Nat : k <= MaxReplies => k \in Numbers
  BY DEF Numbers, Offline, TimedOut
<1>1. ASSUME UNCHANGED <<produced, item, chan, hand, fromAgent>> PROVE NumbersInv'
  BY <1>1 DEF NumbersInv
<1>2. ASSUME NEW a \in Agents,
             AgentJoin(a) \/ PingBegin(a) \/ PingEnd(a) \/ Cleanup(a) \/ ReaderExit(a)
      PROVE  NumbersInv'
  BY <1>1, <1>2 DEF AgentJoin, PingBegin, PingEnd, Cleanup, ReaderExit, readerVars, wireVars,
                    taskVars, chanVars
<1>3. ASSUME NEW a \in Agents, AgentDown(a) \/ ReaderTake(a) PROVE NumbersInv'
  <2>1. UNCHANGED <<produced, item, chan>>
    BY <1>3 DEF AgentDown, ReaderTake, taskVars, chanVars
  <2> QED
    BY <1>3, <2>1, NumbersOnWire DEF NumbersInv
<1>4. ASSUME NEW a \in Agents, ReaderSend(a) PROVE NumbersInv'
  <2>1. PICK m \in hand[a] : chan' = IF Len(chan[m.task]) < Cap(m.task)
                                     THEN [chan EXCEPT ![m.task] = Append(@, m.n)]
                                     ELSE chan
    BY <1>4 DEF ReaderSend
  <2>2. /\ m.task \in Task /\ m.n \in Nat /\ m.n \in Numbers /\ chan[m.task] \in Seq(Nat)
    BY Types DEF NumbersInv
  <2>3. \A t \in Task : chan'[t] = chan[t] \/ (t = m.task /\ chan'[t] = Append(chan[t], m.n))
    BY <2>1 DEF TypeOK, ChanTypes
  <2>4. ASSUME NEW t \in Task, NEW i \in DOMAIN chan'[t] PROVE chan'[t][i] \in Numbers
    <3>1. CASE chan'[t] = chan[t]
      BY <2>4, <3>1 DEF NumbersInv
    <3>2. CASE t = m.task /\ chan'[t] = Append(chan[t], m.n)
      <4>1. chan'[t][i] = m.n \/ (i \in DOMAIN chan[t] /\ chan'[t][i] = chan[t][i])
        BY <2>2, <2>4, <3>2, AppendProperties, LenProperties
      <4> QED
        BY <2>2, <4>1 DEF NumbersInv
    <3> QED
      BY <2>3, <3>1, <3>2
  <2>5. UNCHANGED <<produced, item, fromAgent>> /\ \A b \in Agents : hand'[b] \subseteq hand[b]
    BY <1>4 DEF ReaderSend, wireVars, taskVars, TypeOK, WireTypes
  <2> QED
    BY <2>4, <2>5 DEF NumbersInv
<1>5. ASSUME NEW t \in Task, AgentReply(t) PROVE NumbersInv'
  <2>1. PICK m : m = [task |-> t, n |-> produced[t] + 1]
    OBVIOUS
  <2>2. produced[t] + 1 <= MaxReplies /\ produced[t] \in Nat /\ t[2] \in Agents
    BY <1>5 DEF AgentReply, Replies, TypeOK, WireTypes
  <2>3. m.n \in Numbers /\ m \in Msg(t[2])
    BY <1>0, <2>1, <2>2 DEF Msg, Task
  <2>4. /\ \A u \in Task : produced'[u] = produced[u] \/ produced'[u] = produced[t] + 1
        /\ UNCHANGED <<item, chan, hand>>
        /\ \A b \in Agents : \/ fromAgent'[b] = fromAgent[b]
                             \/ b = t[2] /\ fromAgent'[b] = Append(fromAgent[b], m)
    BY <1>5, <2>1 DEF AgentReply, readerVars, taskVars, chanVars, TypeOK, WireTypes
  <2>5. ASSUME NEW b \in Agents, NEW i \in DOMAIN fromAgent'[b] PROVE fromAgent'[b][i].n \in Numbers
    <3>1. CASE fromAgent'[b] = fromAgent[b]
      BY <2>5, <3>1 DEF NumbersInv
    <3>2. CASE b = t[2] /\ fromAgent'[b] = Append(fromAgent[b], m)
      <4>0. fromAgent[b] \in Seq(Msg(b))
        BY Types
      <4>1. fromAgent'[b][i] = m \/ (i \in DOMAIN fromAgent[b] /\ fromAgent'[b][i] = fromAgent[b][i])
        BY <2>3, <2>5, <3>2, <4>0, AppendProperties, LenProperties
      <4> QED
        BY <2>3, <4>1 DEF NumbersInv
    <3> QED
      BY <2>4, <3>1, <3>2
  <2> QED
    BY <2>2, <2>4, <2>5 DEF NumbersInv
<1>6. ASSUME UNCHANGED <<chan, hand, fromAgent>>,
             NEW t \in Task, NEW k \in Numbers, NEW p \in Int, p <= MaxReplies,
             \A u \in Task : u # t => item'[u] = item[u] /\ produced'[u] = produced[u],
             item'[t] = k, produced'[t] = p
      PROVE  NumbersInv'
  BY <1>6 DEF NumbersInv
<1>7. ASSUME NEW t \in Task, SendFail(t) \/ GiveUp(t) \/ CallFail(t) \/ CallOk(t) \/ Recv(t)
      PROVE  NumbersInv'
  <2>1. UNCHANGED <<chan, hand, fromAgent>>
    BY <1>7 DEF SendFail, GiveUp, CallFail, CallOk, Recv, readerVars, wireVars, chanVars
  <2>2. \A u \in Task : u # t => item'[u] = item[u] /\ produced'[u] = produced[u]
    BY <1>7 DEF SendFail, GiveUp, CallFail, CallOk, Recv, wireVars, TypeOK, WireTypes, TaskTypes
  <2>3. /\ item[t] \in Numbers /\ produced[t] <= MaxReplies /\ produced[t] \in Nat
    BY DEF NumbersInv, TypeOK, WireTypes
  <2>4. CASE Recv(t)
    <3>1. /\ produced[t] + 1 <= MaxReplies
          /\ item'[t] = produced[t] + 1 /\ produced'[t] = produced[t] + 1
      BY <2>3, <2>4 DEF Recv, TypeOK, WireTypes, TaskTypes
    <3> QED
      BY <1>0, <1>6, <2>1, <2>2, <2>3, <3>1
  <2>5. CASE SendFail(t) \/ GiveUp(t) \/ CallFail(t) \/ CallOk(t)
    <3>1. item'[t] \in {item[t], Offline, TimedOut, 1} /\ produced'[t] \in {produced[t], 1}
      BY <2>5 DEF SendFail, GiveUp, CallFail, CallOk, wireVars, TypeOK, WireTypes, TaskTypes
    <3> QED
      BY <1>0, <1>6, <2>1, <2>2, <2>3, <3>1
  <2> QED
    BY <1>7, <2>4, <2>5
<1>8. ASSUME NEW t \in Task, Receive(t) PROVE NumbersInv'
  <2>1. /\ chan[t] # <<>> /\ item'[t] = Head(chan[t]) /\ chan'[t] = Tail(chan[t])
        /\ \A u \in Task \ {t} : item'[u] = item[u] /\ chan'[u] = chan[u]
        /\ UNCHANGED <<produced, hand, fromAgent>>
    BY <1>8 DEF Receive, readerVars, wireVars, TypeOK, TaskTypes, ChanTypes
  <2>2. /\ 1 \in DOMAIN chan[t] /\ item'[t] = chan[t][1]
        /\ \A i \in DOMAIN chan'[t] : i + 1 \in DOMAIN chan[t] /\ chan'[t][i] = chan[t][i + 1]
    BY <2>1, Types, HeadTailProperties, LenProperties
  <2>3. \A u \in Task : /\ item'[u] \in Numbers
                       /\ \A i \in DOMAIN chan'[u] : chan'[u][i] \in Numbers
    <3> SUFFICES ASSUME NEW u \in Task
                 PROVE  /\ item'[u] \in Numbers
                        /\ \A i \in DOMAIN chan'[u] : chan'[u][i] \in Numbers
      OBVIOUS
    <3>1. CASE u = t
      BY <2>2, <3>1 DEF NumbersInv
    <3>2. CASE u # t
      BY <2>1, <3>2 DEF NumbersInv
    <3> QED
      BY <3>1, <3>2
  <2> QED
    BY <2>1, <2>3 DEF NumbersInv
<1>9. ASSUME NEW r \in Requests,
             RequestStep(r) \/ StreamStep(r) \/ CtxEnd(r) \/ WebPush(r)
      PROVE  UNCHANGED <<produced, item, chan, hand, fromAgent>>
  BY <1>9 DEF RequestStep, VersionRequest, PingRequest, TracerouteRequest, MtrRequest, Open, Reject,
              ClientGone, StreamStep, Fanout, StreamCheck, StreamDone, CtxEnd, WebPush,
              readerVars, wireVars, taskVars, chanVars
<1>10. ASSUME NEW t \in Task, Register(t) \/ SendBegin(t) \/ SendOk(t) \/ Unregister(t)
                              \/ CloseChan(t) \/ RecvEnd(t) \/ Push(t)
      PROVE  UNCHANGED <<produced, item, chan, hand, fromAgent>>
  BY <1>10 DEF Register, SendBegin, SendOk, Unregister, CloseChan, RecvEnd, Push,
               readerVars, wireVars, chanVars
<1>11. CASE UNCHANGED vars
  BY <1>1, <1>11 DEF vars, readerVars, wireVars, taskVars, chanVars
<1> QED
  BY <1>1, <1>2, <1>3, <1>4, <1>5, <1>7, <1>8, <1>9, <1>10, <1>11
  DEF Next, SessionStep, ReaderStep, AgentTaskStep, WorkerTaskStep, Quiescent

-----------------------------------------------------------------------------
\* The order of the answers.

LEMMA InitOrder == Init => OrderInv /\ WebInv /\ NumbersInv
<1> SUFFICES ASSUME Init PROVE OrderInv /\ WebInv /\ NumbersInv
  OBVIOUS
<1>1. ASSUME NEW t \in Streaming PROVE Ordered(t)
  <2>1. t \in Task /\ t[1] \in Requests /\ (Remote(t) => t[2] \in Agents)
    BY <1>1 DEF Streaming, Task, Remote
  <2>2. /\ out[t[1]] = <<>> /\ pc[t] = "idle" /\ chan[t] = <<>>
        /\ Remote(t) => hand[t[2]] = {} /\ fromAgent[t[2]] = <<>>
    BY <2>1 DEF Init
  <2>3. ShownAt(t) = {} /\ (Remote(t) => WireAt(t) = {})
    BY <2>2 DEF ShownAt, WireAt
  <2>4. Shown(t) = {} /\ Pushed(t) = {} /\ Queued(t) = {} /\ Held(t) = {} /\ Wired(t) = {}
    BY <2>2, <2>3 DEF Shown, Pushed, Queued, Held, Wired
  <2> QED
    BY <2>2, <2>3, <2>4 DEF Ordered, InChain, Chain, Before, AllProduced, UnderWay, ShownRising,
                            QueueRising, WireRising
<1>2. WebInv
  BY DEF Init, WebInv
<1>3. NumbersInv
  BY DEF Init, NumbersInv, Numbers, TimedOut
<1> QED
  BY <1>1, <1>2, <1>3 DEF OrderInv

RelayInv == TypeOK /\ EntriesInv /\ VersionInv /\ OrderInv /\ WebInv /\ NumbersInv

LEMMA RelayCorrect == Spec => []RelayInv
BY InitInv, InitOrder, TypeStep, EntriesStep, VersionStep, OrderStep, WebStep, NumbersStep, PTL
DEF Spec, RelayInv

\* The browser sees the answers of a node in the order the node sent them and
\* none twice, over a connection that breaks, a respChan that drops and a
\* clientChan that many goroutines share (main.go:223-247, 530-602).
THEOREM AnswersInOrder == Spec => []InOrder
<1>1. RelayInv => InOrder
  <2> SUFFICES ASSUME RelayInv, NEW r \in Requests, NEW i \in DOMAIN out[r], NEW j \in DOMAIN out[r],
                      i < j, out[r][i].node = out[r][j].node
               PROVE  out[r][i].n < out[r][j].n
    BY DEF InOrder
  <2>1. out[r] \in Seq(Line)
    BY DEF RelayInv, TypeOK, RequestTypes
  <2>2. i \in Int /\ j \in Int /\ out[r][i] \in Line
    BY <2>1, LenProperties, ElementOfSeq
  <2>3. out[r][i].node \in Nodes \cup {Web} /\ i # j
    BY <2>2 DEF Line
  <2>4. out[r][i].node # Web
    BY <2>3 DEF RelayInv, WebInv
  <2>5. PICK t \in Task : t[1] = r /\ t[2] = out[r][i].node
    <3>1. PICK t : t = <<r, out[r][i].node>>
      OBVIOUS
    <3>2. t \in Task /\ t[1] = r /\ t[2] = out[r][i].node
      BY <2>3, <2>4, <3>1 DEF Task
    <3> QED
      BY <3>2
  <2>6. CASE OneAnswer(t)
    <3>1. NoLine(t) \/ Answered(t)
      BY <2>5, <2>6 DEF OneAnswer, RelayInv, VersionInv, VersionTask
    <3> QED
      BY <2>3, <2>5, <3>1 DEF NoLine, Answered
  <2>7. CASE ~ OneAnswer(t)
    <3>1. ShownRising(t)
      BY <2>5, <2>7 DEF RelayInv, OrderInv, Streaming, Ordered
    <3> QED
      BY <2>5, <3>1 DEF ShownRising, ShownAt
  <2> QED
    BY <2>6, <2>7
<1> QED
  BY <1>1, RelayCorrect, PTL

-----------------------------------------------------------------------------
\* The promise of ProbeStream. Seen through the mapping, a step of the relay
\* stutters, or is the step of one stream.

Asked(r) == {n \in Nodes : pc[<<r, n>>] # "idle"}

\* What the mapping hides: locks, channels, wires and the goroutines' places.
Hidden ==
  /\ UNCHANGED <<kind, out>>
  /\ \A r \in Requests : Phase(r)' = Phase(r) /\ Asked(r)' = Asked(r)

LEMMA HiddenStutters == Hidden => UNCHANGED Promise!vars
  BY DEF Hidden, Promise!vars, Asked

\* A goroutine that has started does not become idle.
LEMMA GotoAsked ==
  ASSUME TaskTypes, NEW t \in Task, NEW from, NEW to, Goto(t, from, to),
         from # "idle", to # "idle", NEW r \in Requests
  PROVE  Asked(r)' = Asked(r)
<1>1. \A n \in Nodes : (pc'[<<r, n>>] = "idle") <=> (pc[<<r, n>>] = "idle")
  BY DEF Goto, TaskTypes
<1> QED
  BY <1>1 DEF Asked

\* One stream changes its phase.
LEMMA PhaseMoves ==
  ASSUME NEW r \in Requests, NEW p, Phase(r)' = p,
         \A s \in Requests \ {r} : Phase(s)' = Phase(s)
  PROVE  [s \in Requests |-> Phase(s)'] = [[s \in Requests |-> Phase(s)] EXCEPT ![r] = p]
  OBVIOUS

LEMMA RefusePromised ==
  ASSUME TypeOK, NEW r \in Requests, Reject(r)
  PROVE  Promise!Refuse(r)
<1>1. /\ UNCHANGED <<kind, out, pc>>
      /\ stream[r] \in {"idle", "resolve"} /\ stream'[r] = "rejected"
      /\ \A s \in Requests \ {r} : stream'[s] = stream[s]
  BY DEF Reject, reqVars, taskVars, TypeOK, RequestTypes
<1>2. /\ Phase(r) = "idle" /\ Phase(r)' = "refused"
      /\ \A s \in Requests \ {r} : Phase(s)' = Phase(s)
  BY <1>1 DEF Phase
<1>3. \A s \in Requests : Asked(s)' = Asked(s)
  BY <1>1 DEF Asked
<1> QED
  BY <1>1, <1>2, <1>3, PhaseMoves DEF Promise!Refuse, Asked

LEMMA OpenPromised ==
  ASSUME TypeOK, NEW r \in Requests, Fanout(r)
  PROVE  Promise!Open(r)
<1>1. /\ UNCHANGED <<kind, out>>
      /\ stream[r] = "resolve" /\ stream'[r] = "check"
      /\ \A s \in Requests \ {r} : stream'[s] = stream[s]
      /\ \A s \in Requests \ {r}, n \in Nodes : pc'[<<s, n>>] = pc[<<s, n>>]
  BY DEF Fanout, reqVars, TypeOK, RequestTypes, Task
<1>2. /\ Phase(r) = "idle" /\ Phase(r)' = "open"
      /\ \A s \in Requests \ {r} : Phase(s)' = Phase(s)
  BY <1>1 DEF Phase
<1>3. PICK nodes : nodes = Asked(r)'
  OBVIOUS
<1>4. nodes \in SUBSET Nodes /\ \A s \in Requests \ {r} : Asked(s)' = Asked(s)
  BY <1>1, <1>3 DEF Asked
<1>5. [s \in Requests |-> Asked(s)'] = [[s \in Requests |-> Asked(s)] EXCEPT ![r] = nodes]
  BY <1>3, <1>4
<1> QED
  BY <1>1, <1>2, <1>4, <1>5, PhaseMoves DEF Promise!Open, Asked

LEMMA LeavePromised ==
  ASSUME TypeOK, NEW r \in Requests, StreamCheck(r), stream'[r] = "left"
  PROVE  Promise!Leave(r)
<1>1. /\ UNCHANGED <<kind, out, pc>>
      /\ stream[r] = "check"
      /\ \A s \in Requests \ {r} : stream'[s] = stream[s]
  BY DEF StreamCheck, reqVars, taskVars, TypeOK, RequestTypes
<1>2. /\ Phase(r) = "open" /\ Phase(r)' = "left"
      /\ \A s \in Requests \ {r} : Phase(s)' = Phase(s)
  BY <1>1 DEF Phase
<1>3. \A s \in Requests : Asked(s)' = Asked(s)
  BY <1>1 DEF Asked
<1> QED
  BY <1>1, <1>2, <1>3, PhaseMoves DEF Promise!Leave, Asked

\* A version stream ends when every goroutine has returned, after its line.
LEMMA CompletePromised ==
  ASSUME RelayInv, NEW r \in Requests, StreamDone(r)
  PROVE  Promise!Complete(r)
<1>1. /\ UNCHANGED <<kind, out, pc>>
      /\ stream[r] = "select" /\ stream'[r] = "ended"
      /\ \A s \in Requests \ {r} : stream'[s] = stream[s]
  BY DEF StreamDone, reqVars, taskVars, RelayInv, TypeOK, RequestTypes
<1>2. /\ Phase(r) = "open" /\ Phase(r)' = "complete"
      /\ \A s \in Requests \ {r} : Phase(s)' = Phase(s)
  BY <1>1 DEF Phase
<1>3. \A s \in Requests : Asked(s)' = Asked(s)
  BY <1>1 DEF Asked
<1>4. ASSUME kind[r] = "version", NEW n \in Asked(r)
      PROVE  \E i \in DOMAIN out[r] : out[r][i].node = n
  <2>1. PICK t : t = <<r, n>>
    OBVIOUS
  <2>2. t \in Task /\ t[1] = r /\ t[2] = n /\ pc[t] = "exited"
    BY <1>4, <2>1 DEF StreamDone, Finished, Asked, Task
  <2>3. Answered(t)
    BY <1>4, <2>2 DEF RelayInv, VersionInv, VersionTask, BeforeLine
  <2> QED
    BY <2>2, <2>3 DEF Answered
<1> QED
  BY <1>1, <1>2, <1>3, <1>4, PhaseMoves DEF Promise!Complete, Asked

\* A stream shows a line.
LEMMA EmitPromised ==
  ASSUME TypeOK, NEW r \in Requests, NEW l \in [node : Nodes \cup {Web}, n : Numbers],
         Write(r, l), UNCHANGED kind, \A s \in Requests : Asked(s)' = Asked(s),
         l.node \in Asked(r) \cup {Web},
         \A i \in DOMAIN out[r] :
           out[r][i].node = l.node => out[r][i].n < l.n /\ kind[r] # "version"
  PROVE  Promise!Emit(r)
<1>1. /\ stream[r] = "select" /\ stream'[r] = "check"
      /\ out' = [out EXCEPT ![r] = Append(@, l)]
      /\ \A s \in Requests \ {r} : stream'[s] = stream[s]
  BY DEF Write, TypeOK, RequestTypes
<1>2. Phase(r) = "open" /\ \A s \in Requests : Phase(s)' = Phase(s)
  BY <1>1 DEF Phase
<1> QED
  BY <1>1, <1>2 DEF Promise!Emit, Promise!Lines, Asked, Numbers

\* Of a version goroutine no line has been shown; what the others have shown
\* has lower numbers.
LEMMA PushPromised ==
  ASSUME RelayInv, NEW t \in Task, Push(t)
  PROVE  Promise!Emit(t[1])
<1> DEFINE r == t[1]
<1>1. PICK l : l = [node |-> t[2], n |-> item[t]]
  OBVIOUS
<1>2. r \in Requests /\ t[2] \in Nodes /\ t = <<r, t[2]>> /\ TypeOK
  BY DEF Task, RelayInv
<1>3. l \in [node : Nodes \cup {Web}, n : Numbers] /\ l.node = t[2] /\ l.n = item[t]
  BY <1>1, <1>2 DEF RelayInv, NumbersInv
<1>4. Write(r, l) /\ UNCHANGED kind /\ pc[t] = "push"
  BY <1>1 DEF Push, Goto, reqVars
<1>5. \A s \in Requests : Asked(s)' = Asked(s)
  <2>1. AfterPush(t) # "idle"
    BY <1>2 DEF AfterPush, Nodes
  <2> QED
    BY <1>2, <2>1, GotoAsked DEF Push, TypeOK
<1>6. l.node \in Asked(r)
  BY <1>2, <1>3, <1>4 DEF Asked
<1>7. ASSUME NEW i \in DOMAIN out[r], out[r][i].node = l.node
      PROVE  out[r][i].n < l.n /\ kind[r] # "version"
  <2>1. kind[r] # "version"
    <3>1. kind[r] = "version" => NoLine(t)
      BY <1>4 DEF RelayInv, VersionInv, VersionTask, BeforeLine
    <3> QED
      BY <1>3, <1>7, <3>1 DEF NoLine
  <2>2. Ordered(t)
    BY <2>1 DEF RelayInv, OrderInv, Streaming, OneAnswer
  <2>3. out[r][i].n \in Shown(t) /\ item[t] \in Pushed(t)
    BY <1>3, <1>4, <1>7 DEF Shown, ShownAt, Pushed
  <2> QED
    BY <1>3, <2>1, <2>2, <2>3 DEF Ordered, InChain, Chain, Before
<1> HIDE DEF r
<1> QED
  BY <1>2, <1>3, <1>4, <1>5, <1>6, <1>7, EmitPromised DEF r

LEMMA WebPushPromised ==
  ASSUME RelayInv, NEW r \in Requests, WebPush(r)
  PROVE  Promise!Emit(r)
<1>1. PICK l : l = [node |-> Web, n |-> 1]
  OBVIOUS
<1>2. l \in [node : Nodes \cup {Web}, n : Numbers] /\ l.node = Web
  BY <1>1 DEF Numbers, TimedOut
<1>3. Write(r, l) /\ UNCHANGED <<kind, pc>> /\ web[r] = "push"
  BY <1>1 DEF WebPush, reqVars, taskVars
<1>4. \A i \in DOMAIN out[r] : out[r][i].node # Web
  BY <1>3 DEF RelayInv, WebInv
<1>5. \A s \in Requests : Asked(s)' = Asked(s)
  BY <1>3 DEF Asked
<1> QED
  BY <1>2, <1>3, <1>4, <1>5, EmitPromised DEF RelayInv

LEMMA PromiseStep == RelayInv /\ [Next]_vars => [Promise!Next]_(Promise!vars)
<1> SUFFICES ASSUME RelayInv, [Next]_vars PROVE [Promise!Next]_(Promise!vars)
  OBVIOUS
<1>0. TypeOK /\ TaskTypes /\ RequestTypes
  BY DEF RelayInv, TypeOK
<1>1. ASSUME UNCHANGED <<kind, out, stream, pc>> PROVE Hidden
  BY <1>1 DEF Hidden, Phase, Asked
<1>2. ASSUME NEW a \in Agents, SessionStep(a) \/ ReaderStep(a) PROVE Hidden
  BY <1>1, <1>2 DEF SessionStep, ReaderStep, AgentJoin, AgentDown, PingBegin, PingEnd, Cleanup,
                    ReaderTake, ReaderSend, ReaderExit, reqVars, streamVars, taskVars
<1>3. ASSUME UNCHANGED <<kind, out, pc>>, NEW r \in Requests, stream[r] # stream'[r],
             \A s \in Requests \ {r} : stream'[s] = stream[s],
             \/ stream[r] = "idle" /\ stream'[r] = "resolve"
             \/ stream[r] = "check" /\ stream'[r] = "select"
      PROVE  Hidden
  BY <1>3 DEF Hidden, Phase, Asked
<1>4. ASSUME NEW r \in Requests, NEW nodes, Open(r, nodes) PROVE Hidden
  BY <1>0, <1>3, <1>4 DEF Open, taskVars, RequestTypes
<1>5. ASSUME NEW r \in Requests, RequestStep(r) PROVE Hidden \/ Promise!Refuse(r)
  <2>1. CASE Reject(r)
    BY <1>0, <2>1, RefusePromised
  <2>2. CASE ClientGone(r)
    BY <1>1, <2>2 DEF ClientGone, streamVars, taskVars
  <2> QED
    BY <1>4, <1>5, <2>1, <2>2
    DEF RequestStep, VersionRequest, PingRequest, TracerouteRequest, MtrRequest
<1>6. ASSUME NEW r \in Requests, StreamCheck(r) PROVE Hidden \/ Promise!Leave(r)
  <2>1. CASE stream'[r] = "left"
    BY <1>0, <1>6, <2>1, LeavePromised
  <2>2. CASE stream'[r] # "left"
    <3>1. /\ UNCHANGED <<kind, out, pc>> /\ stream[r] = "check" /\ stream'[r] = "select"
          /\ \A s \in Requests \ {r} : stream'[s] = stream[s]
      BY <1>0, <1>6, <2>2 DEF StreamCheck, reqVars, taskVars, RequestTypes
    <3> QED
      BY <1>3, <3>1
  <2> QED
    BY <2>1, <2>2
<1>7. ASSUME NEW r \in Requests, StreamStep(r) \/ CtxEnd(r) \/ WebPush(r)
      PROVE  Hidden \/ \E s \in Requests : \/ Promise!Open(s) \/ Promise!Leave(s)
                                           \/ Promise!Complete(s) \/ Promise!Emit(s)
  <2>1. CASE CtxEnd(r)
    BY <1>1, <2>1 DEF CtxEnd, reqVars, taskVars
  <2> QED
    BY <1>0, <1>6, <1>7, <2>1, OpenPromised, CompletePromised, WebPushPromised DEF StreamStep
<1>8. ASSUME NEW t \in Task, AgentTaskStep(t) \/ WorkerTaskStep(t) PROVE Hidden
  <2>1. PICK from, to : Goto(t, from, to) /\ from # "idle" /\ to # "idle"
    BY <1>8 DEF AgentTaskStep, WorkerTaskStep, Register, SendBegin, SendOk, SendFail, Receive, GiveUp,
                Unregister, CloseChan, CallFail, CallOk, Recv, RecvEnd
  <2>2. \A r \in Requests : Asked(r)' = Asked(r)
    BY <1>0, <2>1, GotoAsked
  <2>3. UNCHANGED <<kind, out, stream>>
    BY <1>8 DEF AgentTaskStep, WorkerTaskStep, Register, SendBegin, SendOk, SendFail, Receive, GiveUp,
                Unregister, CloseChan, CallFail, CallOk, Recv, RecvEnd, reqVars, streamVars
  <2> QED
    BY <2>2, <2>3 DEF Hidden, Phase
<1>9. ASSUME NEW t \in Task, Push(t) PROVE \E s \in Requests : Promise!Emit(s)
  BY <1>9, PushPromised, Types, <1>0
<1>10. ASSUME NEW t \in Task, AgentReply(t) PROVE Hidden
  BY <1>1, <1>10 DEF AgentReply, reqVars, streamVars, taskVars
<1>11. UNCHANGED vars => Hidden
  BY <1>1 DEF vars, reqVars, streamVars, taskVars
<1>12. Hidden \/ \E s \in Requests : \/ Promise!Refuse(s) \/ Promise!Open(s) \/ Promise!Leave(s)
                                     \/ Promise!Complete(s) \/ Promise!Emit(s)
  BY <1>2, <1>5, <1>7, <1>8, <1>9, <1>10, <1>11 DEF Next, Quiescent
<1> QED
  BY <1>12, HiddenStutters DEF Promise!Next

LEMMA PromiseInit == Init => Promise!Init
<1> SUFFICES ASSUME Init PROVE Promise!Init
  OBVIOUS
<1>1. \A r \in Requests : Phase(r) = "idle" /\ Asked(r) = {}
  BY DEF Init, Phase, Asked, Task
<1> QED
  BY <1>1 DEF Init, Promise!Init, Asked

\* The relay implements the safety half of ProbeStream: streams open, show,
\* complete and are left as promised, and every other step of any goroutine is
\* invisible to the browser. That an open stream ends is the liveness half,
\* which rests on fairness.
THEOREM RelayKeepsPromise == Spec => Promise!Init /\ [][Promise!Next]_(Promise!vars)
BY RelayCorrect, PromiseInit, PromiseStep, PTL DEF Spec
=============================================================================
