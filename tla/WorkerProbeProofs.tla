-------------------------- MODULE WorkerProbeProofs --------------------------
(***************************************************************************)
(* Proofs about WorkerProbe, for any number of tasks, addresses and lines: *)
(* its types, that only public addresses of the right family are probed,   *)
(* and that every subprocess is waited for.                                *)
(***************************************************************************)
EXTENDS WorkerProbe, SequenceTheorems, WellFoundedInduction, TLAPS

\* Every set of numbers that is not empty has a least element.
LEMMA LeastNumber ==
  ASSUME NEW F \in SUBSET Nat, F # {}
  PROVE  \E k \in F : \A j \in F : k <= j
<1> DEFINE R == OpToRel(<, Nat)
<1>1. PICK k \in F : \A j \in F : ~ (<<j, k>> \in R)
  <2>1. IsWellFoundedOn(R, Nat)
    BY NatLessThanWellFounded
  <2> HIDE DEF R
  <2> QED
    BY <2>1, WFMin
<1>2. \A j \in F : j < k => <<j, k>> \in R
  BY DEF OpToRel
<1>3. \A j \in F : ~ (j < k)
  <2> HIDE DEF R
  <2> QED
    BY <1>1, <1>2, Zenon
<1> QED
  BY <1>3

\* The chosen address is one of the name's and fits, or there is none.
LEMMA TargetFits ==
  ASSUME NEW i \in Inputs
  PROVE  /\ Target(i) \in Addresses \cup {None}
         /\ Target(i) # None => Fits(i.protocol, Target(i))
<1> DEFINE D == DOMAIN i.ips
           F == {k \in D : Fits(i.protocol, i.ips[k])}
           First(k) == /\ Fits(i.protocol, i.ips[k])
                       /\ \A j \in 1 .. k - 1 : ~ Fits(i.protocol, i.ips[j])
<1>1. D = 1 .. Len(i.ips) /\ Len(i.ips) \in Nat /\ \A k \in D : i.ips[k] \in Addresses
  BY InputAssumption
<1>2. ASSUME F # {} PROVE \E k \in D : First(k)
  <2>1. F \subseteq Nat
    BY <1>1
  <2>2. PICK k \in F : \A j \in F : k <= j
    BY <1>2, <2>1, LeastNumber
  <2>3. \A j \in 1 .. k - 1 : j \in D /\ ~ (k <= j)
    BY <1>1, <2>2
  <2> QED
    BY <2>2, <2>3
<1>3. CASE F = {}
  BY <1>3 DEF Target
<1>4. CASE F # {}
  <2>1. (CHOOSE k \in D : First(k)) \in D /\ First(CHOOSE k \in D : First(k))
    BY <1>2, <1>4
  <2>2. Target(i) = i.ips[CHOOSE k \in D : First(k)]
    BY <1>4 DEF Target
  <2> QED
    BY <1>1, <2>1, <2>2
<1> QED
  BY <1>3, <1>4

-----------------------------------------------------------------------------
LEMMA InitTypes == Init => TypeOK
<1> SUFFICES ASSUME Init PROVE TypeOK
  OBVIOUS
<1>1. \A t \in Tasks : hand[t] # {} <=> pc[t] \in {"send", "writing"}
  BY DEF Init
<1>2. answers \in [Tasks -> 0 .. MaxAnswers]
  BY BoundAssumption DEF Init
<1>3. pipe \in [Tasks -> Seq(Int)] /\ sent \in [Tasks -> Seq(Message)]
  BY DEF Init
<1> QED
  BY <1>1, <1>2, <1>3 DEF Init, TypeOK

LEMMA TypesStep == TypeOK /\ [Next]_vars => TypeOK'
<1> SUFFICES ASSUME TypeOK, [Next]_vars PROVE TypeOK'
  OBVIOUS
<1> USE DEF TypeOK
<1>1. ASSUME NEW t \in Tasks, Arrive(t) \/ Start(t) \/ SendBegin(t)
      PROVE  TypeOK'
  BY <1>1 DEF Arrive, Start, SendBegin, Writing, Goto, childVars, wireVars
<1>2. ASSUME NEW t \in Tasks, SendVersion(t)
      PROVE  TypeOK'
  <2>1. Msg("version", 0) \in Message
    BY DEF Msg, Message
  <2> QED
    BY <1>2, <2>1 DEF SendVersion, Say, Goto, childVars, wireVars
<1>3. ASSUME NEW t \in Tasks, Resolve(t)
      PROVE  TypeOK'
  <2>1. Target(input[t]) \in Addresses \cup {None}
    BY TargetFits
  <2>2. PICK what \in {"noTarget", "badTarget", "lookup"} : Say(t, "resolve", Msg(what, 0))
    BY <1>3 DEF Resolve
  <2>3. Msg(what, 0) \in Message
    BY DEF Msg, Message
  <2> QED
    BY <1>3, <2>1, <2>2, <2>3 DEF Resolve, Say, Goto, childVars, wireVars
<1>4. ASSUME NEW t \in Tasks, SendEnd(t)
      PROVE  TypeOK'
  <2>1. PICK m \in hand[t] : /\ Goto(t, "writing", After(m))
                             /\ \/ sent' = [sent EXCEPT ![t] = Append(@, m)]
                                \/ sent' = sent
    BY <1>4 DEF SendEnd
  <2>2. m \in Message
    OBVIOUS
  <2>3. After(m) \in {"start", "scan", "returned"}
    BY <2>2 DEF After, Message
  <2>4. Append(sent[t], m) \in Seq(Message)
    BY <2>2
  <2>5. sent' \in [Tasks -> Seq(Message)]
    BY <2>1, <2>4
  <2> QED
    BY <1>4, <2>1, <2>3, <2>5 DEF SendEnd, Goto, childVars
<1>5. ASSUME NEW t \in Tasks, Hangup(t) \/ ChildExit(t) \/ Timeout(t) \/ Kill(t)
      PROVE  TypeOK'
  BY <1>5 DEF Hangup, ChildExit, Timeout, Kill, taskVars, childVars, wireVars
<1>6. ASSUME NEW t \in Tasks, ChildWrite(t)
      PROVE  TypeOK'
  <2>1. Append(pipe[t], answers[t] + 1) \in Seq(Int)
    OBVIOUS
  <2>2. \A line \in {Skip, Cut, Odd} : <<line>> \in Seq(Int)
    BY DEF Skip, Cut, Odd
  <2>3. PICK s \in Seq(Int) : pipe' = [pipe EXCEPT ![t] = s]
    BY <1>6, <2>1, <2>2 DEF ChildWrite
  <2>4. pipe' \in [Tasks -> Seq(Int)]
    BY <2>3
  <2>5. answers[t] \in 0 .. MaxAnswers
    OBVIOUS
  <2>6. answers[t] < MaxAnswers => answers[t] + 1 \in 0 .. MaxAnswers
    BY <2>5, BoundAssumption
  <2>7. answers' \in [Tasks -> 0 .. MaxAnswers]
    BY <1>6, <2>6 DEF ChildWrite
  <2> QED
    BY <1>6, <2>4, <2>7 DEF ChildWrite, taskVars, wireVars
<1>7. ASSUME NEW t \in Tasks, ScanAnswer(t)
      PROVE  TypeOK'
  <2>1. pipe' \in [Tasks -> Seq(Int)] /\ Line(t) \in Int
    BY <1>7 DEF ScanAnswer, Read, Line
  <2>2. Msg("line", Line(t)) \in Message
    BY <1>7, <2>1 DEF ScanAnswer, Msg, Message
  <2> QED
    BY <1>7, <2>1, <2>2 DEF ScanAnswer, Say, Goto, wireVars
<1>8. ASSUME NEW t \in Tasks, ScanSkip(t) \/ ScanOdd(t)
      PROVE  TypeOK'
  <2>1. pipe[t] \in Seq(Int) /\ pipe[t] # <<>>
    BY <1>8 DEF ScanSkip, ScanOdd, Read
  <2>2. Tail(pipe[t]) \in Seq(Int)
    BY <2>1
  <2>3. pipe' \in [Tasks -> Seq(Int)]
    BY <1>8, <2>2 DEF ScanSkip, ScanOdd, Read
  <2>4. hurt' \subseteq Tasks /\ ctx' \in [Tasks -> {"none", "live", "done"}]
    <3>1. CASE ScanSkip(t)
      BY <3>1 DEF ScanSkip, wireVars
    <3>2. CASE ScanOdd(t)
      BY <3>2 DEF ScanOdd
    <3> QED
      BY <1>8, <3>1, <3>2
  <2>5. pc' = pc
    BY <1>8 DEF ScanSkip, ScanOdd, Goto
  <2>6. UNCHANGED <<program, process, input, hand, target, child, answers, conn, sent>>
    BY <1>8 DEF ScanSkip, ScanOdd, wireVars
  <2> QED
    BY <2>3, <2>4, <2>5, <2>6
<1>9. ASSUME NEW t \in Tasks, ScanEnd(t) \/ Wait(t)
      PROVE  TypeOK'
  BY <1>9 DEF ScanEnd, Wait, Goto, childVars, wireVars
<1>10. CASE Break \/ Interrupt
  BY <1>10 DEF Break, Interrupt, Writing, taskVars, childVars
<1>12. ASSUME NEW how \in {"crashed", "exited"}, Dies(how)
       PROVE  TypeOK'
  BY <1>12 DEF Dies, wireVars
<1>13. CASE AgentExit \/ \E t \in Tasks : WriterPanics(t) \/ ScanPanics(t)
  BY <1>12, <1>13 DEF AgentExit, WriterPanics, ScanPanics
<1>11. CASE Quiescent \/ UNCHANGED vars
  BY <1>11 DEF Quiescent, vars, taskVars, childVars, wireVars
<1> QED
  BY <1>1, <1>2, <1>3, <1>4, <1>5, <1>6, <1>7, <1>8, <1>9, <1>10, <1>11, <1>13 DEF Next, Goroutine

\* Every state is well typed, and a goroutine has a message in hand exactly while
\* it is sending one.
THEOREM ProbesWellTyped == Spec => []TypeOK
  BY InitTypes, TypesStep, PTL DEF Spec

-----------------------------------------------------------------------------
(* A subprocess exists exactly while its goroutine reads or sends its lines    *)
(* or waits for it, and the target was checked before the goroutine could     *)
(* start one.                                                                  *)

Started(t) == child[t] \in {"running", "ended"}

ChildInv(t) ==
  /\ pc[t] \in {"idle", "resolve", "start"} => child[t] = "none"
  /\ pc[t] \in {"scan", "wait"} => Started(t)
  /\ pc[t] = "returned" => child[t] \in {"none", "reaped"}
  /\ \A m \in hand[t] : IF m.what = "line" THEN Started(t) ELSE child[t] = "none"

Checked(t) == /\ target[t] \in Addresses \ Private
              /\ Fits(input[t].protocol, target[t])

TargetInv(t) ==
  (\/ pc[t] = "start"
   \/ \E m \in hand[t] : m.what = "lookup"
   \/ child[t] # "none") => Checked(t)

ProbeInv == \A t \in Tasks : ChildInv(t) /\ TargetInv(t)

\* A step of task t leaves the other tasks as they are.
Alone(t) == \A u \in Tasks \ {t} :
  /\ pc'[u] = pc[u] /\ hand'[u] = hand[u] /\ child'[u] = child[u]
  /\ target'[u] = target[u] /\ input'[u] = input[u]

LEMMA AloneSuffices ==
  ASSUME ProbeInv, NEW t \in Tasks, Alone(t), ChildInv(t)', TargetInv(t)'
  PROVE  ProbeInv'
<1> SUFFICES ASSUME NEW u \in Tasks PROVE ChildInv(u)' /\ TargetInv(u)'
  BY DEF ProbeInv
<1>1. CASE u = t
  BY <1>1
<1>2. CASE u # t
  BY <1>2 DEF ProbeInv, ChildInv, TargetInv, Started, Checked, Alone, Fits
<1> QED
  BY <1>1, <1>2

LEMMA ProbeInvInit == Init => ProbeInv
  BY DEF Init, ProbeInv, ChildInv, TargetInv

LEMMA ProbeInvStep == TypeOK /\ ProbeInv /\ [Next]_vars => ProbeInv'
<1> SUFFICES ASSUME TypeOK, ProbeInv, [Next]_vars PROVE ProbeInv'
  OBVIOUS
<1>0. ASSUME NEW t \in Tasks
      PROVE  /\ ChildInv(t) /\ TargetInv(t)
             /\ hand[t] \subseteq Message
             /\ hand[t] # {} <=> pc[t] \in {"send", "writing"}
  BY DEF ProbeInv, TypeOK
<1> USE DEF ChildInv, TargetInv, Started, Checked
<1>1. ASSUME NEW t \in Tasks, Arrive(t) \/ SendBegin(t) \/ ScanSkip(t) \/ ScanOdd(t) \/ ScanEnd(t)
      PROVE  ProbeInv'
  <2>1. Alone(t)
    BY <1>1 DEF Alone, Arrive, SendBegin, ScanSkip, ScanOdd, ScanEnd, Goto, childVars, TypeOK
  <2>2. ChildInv(t)' /\ TargetInv(t)'
    BY <1>1, <1>0 DEF Arrive, SendBegin, ScanSkip, ScanOdd, ScanEnd, Goto, childVars, TypeOK
  <2> QED
    BY <2>1, <2>2, AloneSuffices
<1>2. ASSUME NEW t \in Tasks, SendVersion(t)
      PROVE  ProbeInv'
  <2>1. Alone(t)
    BY <1>2 DEF Alone, SendVersion, Say, Goto, childVars, TypeOK
  <2>2. ChildInv(t)' /\ TargetInv(t)'
    BY <1>2, <1>0 DEF SendVersion, Say, Goto, Msg, childVars, TypeOK
  <2> QED
    BY <2>1, <2>2, AloneSuffices
<1>3. ASSUME NEW t \in Tasks, Resolve(t)
      PROVE  ProbeInv'
  <2>1. PICK what \in {"noTarget", "badTarget", "lookup"} :
          /\ Say(t, "resolve", Msg(what, 0))
          /\ what = "lookup" => /\ Target(input[t]) # None
                                /\ Target(input[t]) \notin Private
    BY <1>3 DEF Resolve, IsPrivateIP
  <2>2. target' = [target EXCEPT ![t] = Target(input[t])] /\ input' = input /\ child' = child
    BY <1>3 DEF Resolve, childVars
  <2>3. Alone(t)
    BY <2>1, <2>2 DEF Alone, Say, Goto, TypeOK
  <2>4. what = "lookup" => Checked(t)'
    <3>1. Target(input[t]) # None => /\ Target(input[t]) \in Addresses
                                     /\ Fits(input[t].protocol, Target(input[t]))
      BY TargetFits DEF TypeOK
    <3>2. target'[t] = Target(input[t]) /\ input'[t] = input[t]
      BY <2>2 DEF TypeOK
    <3> QED
      BY <2>1, <3>1, <3>2 DEF Fits
  <2>5. /\ pc[t] = "resolve" /\ pc'[t] = "send" /\ child'[t] = "none"
        /\ hand'[t] = {Msg(what, 0)}
    BY <1>0, <2>1, <2>2 DEF Say, Goto, TypeOK
  <2>6. ChildInv(t)' /\ TargetInv(t)'
    <3> HIDE DEF Checked
    <3> QED
      BY <2>4, <2>5 DEF Msg
  <2> QED
    BY <2>3, <2>6, AloneSuffices
<1>4. ASSUME NEW t \in Tasks, Start(t)
      PROVE  ProbeInv'
  <2>1. Alone(t)
    BY <1>4 DEF Alone, Start, Goto, TypeOK
  <2>2. ChildInv(t)' /\ TargetInv(t)'
    BY <1>4, <1>0 DEF Start, Goto, TypeOK
  <2> QED
    BY <2>1, <2>2, AloneSuffices
<1>5. ASSUME NEW t \in Tasks, SendEnd(t)
      PROVE  ProbeInv'
  <2>1. PICK m \in hand[t] : Goto(t, "writing", After(m))
    BY <1>5 DEF SendEnd
  <2>2. hand' = [hand EXCEPT ![t] = {}] /\ child' = child /\ target' = target /\ input' = input
    BY <1>5 DEF SendEnd, childVars
  <2>3. Alone(t)
    BY <2>1, <2>2 DEF Alone, Goto, TypeOK
  <2>4. /\ m.what = "lookup" => After(m) = "start"
        /\ m.what = "line" => After(m) = "scan"
        /\ m.what \notin {"lookup", "line"} => After(m) = "returned"
    BY <1>0 DEF After, Message
  <2>5. pc'[t] = After(m) /\ hand'[t] = {} /\ child'[t] = child[t]
    BY <2>1, <2>2 DEF Goto, TypeOK
  <2>6. Checked(t) => Checked(t)'
    BY <2>2
  <2>7. ChildInv(t)' /\ TargetInv(t)'
    <3> HIDE DEF Checked
    <3> QED
      BY <1>0, <2>4, <2>5, <2>6
  <2> QED
    BY <2>3, <2>7, AloneSuffices
<1>6. ASSUME NEW t \in Tasks, ScanAnswer(t)
      PROVE  ProbeInv'
  <2>1. Alone(t)
    BY <1>6 DEF Alone, ScanAnswer, Say, Goto, TypeOK
  <2>2. ChildInv(t)' /\ TargetInv(t)'
    BY <1>6, <1>0 DEF ScanAnswer, Say, Goto, Msg, TypeOK
  <2> QED
    BY <2>1, <2>2, AloneSuffices
<1>7. ASSUME NEW t \in Tasks, ChildExit(t) \/ Kill(t) \/ Wait(t)
      PROVE  ProbeInv'
  <2>1. Alone(t)
    BY <1>7 DEF Alone, ChildExit, Kill, Wait, Goto, taskVars, TypeOK
  <2>2. ChildInv(t)' /\ TargetInv(t)'
    BY <1>7, <1>0 DEF ChildExit, Kill, Wait, Goto, taskVars, TypeOK
  <2> QED
    BY <2>1, <2>2, AloneSuffices
<1>8. ASSUME UNCHANGED <<taskVars, child>>
      PROVE  ProbeInv'
  BY <1>8 DEF ProbeInv, taskVars, Fits
<1>9. ASSUME NEW t \in Tasks,
             Hangup(t) \/ ChildWrite(t) \/ Timeout(t)
      PROVE  ProbeInv'
  BY <1>8, <1>9 DEF Hangup, ChildWrite, Timeout, childVars
<1>10. CASE Break \/ Interrupt \/ Quiescent \/ UNCHANGED vars
  BY <1>8, <1>10 DEF Break, Interrupt, Quiescent, vars, childVars
<1>11. ASSUME NEW how, Dies(how)
       PROVE  ProbeInv'
  BY <1>11 DEF Dies, ProbeInv, Fits
<1>12. CASE AgentExit \/ \E t \in Tasks : WriterPanics(t) \/ ScanPanics(t)
  BY <1>11, <1>12 DEF AgentExit, WriterPanics, ScanPanics
<1> QED
  BY <1>1, <1>2, <1>3, <1>4, <1>5, <1>6, <1>7, <1>9, <1>10, <1>12 DEF Next, Goroutine

\* The inductive invariant holds in every state.
THEOREM ProbesCorrect == Spec => []ProbeInv
  BY ProbesWellTyped, ProbeInvInit, ProbeInvStep, PTL DEF Spec

\* Only public addresses of the family that was asked for are probed, whatever a
\* name resolves to and however calls overlap.
THEOREM PublicTargets == Spec => []OnlyPublicTargets
<1>1. TypeOK /\ ProbeInv => OnlyPublicTargets
  BY DEF ProbeInv, TargetInv, Checked, OnlyPublicTargets
<1> QED
  BY <1>1, ProbesWellTyped, ProbesCorrect, PTL

\* A probe that has returned has waited for its subprocess, even if it was killed,
\* its call was cancelled or a message could not be sent.
THEOREM ChildrenReaped == Spec => []NoDefunct
<1>1. ProbeInv => NoDefunct
  BY DEF ProbeInv, ChildInv, NoDefunct
<1> QED
  BY <1>1, ProbesCorrect, PTL

-----------------------------------------------------------------------------
(* The conversation of a task. What is said before the subprocess runs is      *)
(* the first message, and the numbers grow from the messages that were sent    *)
(* over the one in hand to the lines in the pipe.                              *)

IsLine(m) == m.what = "line"

\* A goroutine has at most one message in hand.
OneInHand(t) == \A m, n \in hand[t] : m = n

\* Where a goroutine is and what it has said so far.
SaidInv(t) ==
  /\ pc[t] \in {"idle", "resolve"} => sent[t] = <<>>
  /\ \A m \in hand[t] : ~ IsLine(m) => sent[t] = <<>> /\ m.n = 0
  /\ (pc[t] \in {"start", "scan"} \/ \E m \in hand[t] : IsLine(m)) =>
       /\ \A i \in DOMAIN sent[t] : sent[t][i].what \in {"lookup", "line"}
       /\ t \notin hurt /\ conn = "up" => sent[t] # <<>>

\* Above everything sent, and everything in hand.
AboveSent(t, n) == \A i \in DOMAIN sent[t] : sent[t][i].n < n
AboveHand(t, n) == \A m \in hand[t] : IsLine(m) => m.n < n

NumberInv(t) ==
  /\ AboveSent(t, answers[t] + 1) /\ AboveHand(t, answers[t] + 1)
  /\ \A m \in hand[t] : IsLine(m) => AboveSent(t, m.n)
  /\ \A j \in DOMAIN pipe[t] :
       pipe[t][j] > 0 => AboveSent(t, pipe[t][j]) /\ AboveHand(t, pipe[t][j])
  /\ \A i, j \in DOMAIN pipe[t] :
       i < j /\ pipe[t][i] > 0 /\ pipe[t][j] > 0 => pipe[t][i] < pipe[t][j]
  /\ \A j \in DOMAIN pipe[t] : pipe[t][j] <= answers[t]

WellFormed(t) ==
  /\ t \notin hurt /\ sent[t] # <<>> => sent[t][1].what # "line"
  /\ \A i, j \in DOMAIN sent[t] : i < j =>
       /\ sent[t][i].what \in {"lookup", "line"}
       /\ sent[t][j].what = "line"
       /\ sent[t][i].n < sent[t][j].n

ConvInv == \A t \in Tasks : OneInHand(t) /\ SaidInv(t) /\ NumberInv(t) /\ WellFormed(t)

LEMMA TailOf ==
  ASSUME NEW s \in Seq(Int), s # <<>>
  PROVE  /\ 1 \in DOMAIN s /\ Head(s) = s[1] /\ DOMAIN s \subseteq Nat
         /\ \A i \in DOMAIN Tail(s) : /\ i \in Nat \ {0} /\ i + 1 \in DOMAIN s
                                      /\ Tail(s)[i] = s[i + 1]
         /\ \A i \in DOMAIN s \ {1} : /\ i - 1 \in DOMAIN Tail(s)
                                      /\ Tail(s)[i - 1] = s[i]
  BY HeadTailProperties, LenProperties

LEMMA AppendOf ==
  ASSUME NEW S, NEW s \in Seq(S), NEW e \in S
  PROVE  /\ Append(s, e) # <<>> /\ DOMAIN s \subseteq Nat
         /\ \A i \in DOMAIN s : i \in DOMAIN Append(s, e) /\ Append(s, e)[i] = s[i]
         /\ \E i \in DOMAIN Append(s, e) : Append(s, e)[i] = e
         /\ \A i \in DOMAIN Append(s, e) :
              \/ i \in DOMAIN s /\ Append(s, e)[i] = s[i]
              \/ /\ Append(s, e)[i] = e /\ i = Len(s) + 1 /\ Len(s) \in Nat
                 /\ \A j \in DOMAIN s : j < i
  BY AppendProperties, LenProperties

\* A step of task t leaves the conversations of the others as they are.
Apart(t) == \A u \in Tasks \ {t} :
  /\ pc'[u] = pc[u] /\ hand'[u] = hand[u] /\ sent'[u] = sent[u]
  /\ answers'[u] = answers[u] /\ pipe'[u] = pipe[u]
  /\ u \in hurt => u \in hurt'

TaskConv(t) == OneInHand(t) /\ SaidInv(t) /\ NumberInv(t) /\ WellFormed(t)

LEMMA ApartSuffices ==
  ASSUME ConvInv, NEW t \in Tasks, Apart(t), conn' = "up" => conn = "up", TaskConv(t)'
  PROVE  ConvInv'
<1> SUFFICES ASSUME NEW u \in Tasks PROVE TaskConv(u)'
  BY DEF ConvInv, TaskConv
<1>1. CASE u = t
  BY <1>1
<1>2. CASE u # t
  <2>1. TaskConv(u)
    BY DEF ConvInv, TaskConv
  <2>2. /\ pc'[u] = pc[u] /\ hand'[u] = hand[u] /\ sent'[u] = sent[u]
        /\ answers'[u] = answers[u] /\ pipe'[u] = pipe[u]
        /\ u \in hurt => u \in hurt'
    BY <1>2 DEF Apart
  <2>3. OneInHand(u)' /\ SaidInv(u)'
    BY <2>1, <2>2 DEF TaskConv, OneInHand, SaidInv, IsLine
  <2>4. NumberInv(u)'
    BY <2>1, <2>2 DEF TaskConv, NumberInv, AboveSent, AboveHand, IsLine
  <2>5. WellFormed(u)'
    BY <2>1, <2>2 DEF TaskConv, WellFormed
  <2> QED
    BY <2>3, <2>4, <2>5 DEF TaskConv
<1> QED
  BY <1>1, <1>2

LEMMA ConvInvInit == Init => ConvInv
<1> SUFFICES ASSUME Init, NEW t \in Tasks PROVE TaskConv(t)
  BY DEF ConvInv, TaskConv
<1>1. hand[t] = {} /\ sent[t] = <<>> /\ pipe[t] = <<>> /\ pc[t] = "idle"
  BY DEF Init
<1>2. OneInHand(t) /\ SaidInv(t)
  BY <1>1 DEF OneInHand, SaidInv
<1>3. NumberInv(t)
  BY <1>1 DEF NumberInv, AboveSent, AboveHand
<1>4. WellFormed(t)
  BY <1>1 DEF WellFormed
<1> QED
  BY <1>2, <1>3, <1>4 DEF TaskConv

\* A step that says nothing and takes no line.
LEMMA QuietKeeps ==
  ASSUME TypeOK, ConvInv, UNCHANGED <<hand, sent, answers, pipe>>, hurt \subseteq hurt',
         conn' = "up" => conn = "up",
         \A t \in Tasks : \/ pc'[t] = pc[t]
                          \/ pc[t] = "idle" /\ pc'[t] = "resolve"
                          \/ pc[t] = "start" /\ pc'[t] = "scan"
                          \/ pc'[t] \in {"writing", "wait", "returned"}
  PROVE  ConvInv'
<1> SUFFICES ASSUME NEW t \in Tasks PROVE TaskConv(t)'
  BY DEF ConvInv, TaskConv
<1>1. OneInHand(t)' /\ SaidInv(t)'
  BY DEF ConvInv, OneInHand, SaidInv, IsLine
<1>2. NumberInv(t)'
  BY DEF ConvInv, NumberInv, AboveSent, AboveHand, IsLine
<1>3. WellFormed(t)'
  BY DEF ConvInv, WellFormed
<1> QED
  BY <1>1, <1>2, <1>3 DEF TaskConv

\* The first message.
LEMMA FirstSayKeeps ==
  ASSUME TypeOK, ConvInv, NEW t \in Tasks, NEW m, m.n = 0, ~ IsLine(m),
         Say(t, "resolve", m), UNCHANGED <<sent, answers, pipe, conn, hurt>>
  PROVE  ConvInv'
<1>1. Apart(t)
  BY DEF Apart, Say, Goto, TypeOK
<1>2. /\ pc[t] = "resolve" /\ pc'[t] = "send" /\ hand'[t] = {m} /\ hand[t] = {}
      /\ sent'[t] = sent[t] /\ answers'[t] = answers[t] /\ pipe'[t] = pipe[t]
  BY DEF Say, Goto, TypeOK
<1>3. sent[t] = <<>>
  BY <1>2 DEF ConvInv, SaidInv
<1>4. OneInHand(t)' /\ SaidInv(t)'
  BY <1>2, <1>3 DEF OneInHand, SaidInv, IsLine
<1>5. NumberInv(t)'
  BY <1>2 DEF ConvInv, NumberInv, AboveSent, AboveHand, IsLine
<1>6. WellFormed(t)'
  BY <1>2, <1>3 DEF WellFormed
<1> QED
  BY <1>1, <1>4, <1>5, <1>6, ApartSuffices DEF TaskConv

\* The line at the head of the pipe is taken, into the hand or out of the way.
LEMMA TakeKeeps ==
  ASSUME TypeOK, ConvInv, NEW t \in Tasks, Read(t), pc[t] = "scan",
         UNCHANGED <<sent, answers, conn>>, hurt \subseteq hurt',
         \/ hand' = hand /\ pc' = pc
         \/ Say(t, "scan", Msg("line", Line(t))) /\ Line(t) > 0
  PROVE  ConvInv'
<1>1. Apart(t)
  BY DEF Apart, Say, Goto, Read, TypeOK
<1>2. /\ pipe[t] \in Seq(Int) /\ pipe[t] # <<>> /\ pipe'[t] = Tail(pipe[t])
      /\ sent'[t] = sent[t] /\ answers'[t] = answers[t] /\ hand[t] = {}
      /\ answers[t] \in Nat
  <2>1. pipe[t] \in Seq(Int) /\ hand[t] = {} /\ answers[t] \in 0 .. MaxAnswers
    BY DEF TypeOK
  <2>2. pipe[t] # <<>> /\ pipe'[t] = Tail(pipe[t])
    BY DEF Read, TypeOK
  <2> QED
    BY <2>1, <2>2, BoundAssumption
<1>3. /\ 1 \in DOMAIN pipe[t] /\ Line(t) = pipe[t][1]
      /\ DOMAIN pipe[t] \subseteq Nat
      /\ \A i \in DOMAIN pipe'[t] : /\ i \in Nat \ {0} /\ i + 1 \in DOMAIN pipe[t]
                                    /\ pipe'[t][i] = pipe[t][i + 1]
  BY <1>2, TailOf DEF Line
<1>4. OneInHand(t) /\ SaidInv(t) /\ NumberInv(t) /\ WellFormed(t)
  BY DEF ConvInv
<1>5. \A j \in DOMAIN pipe'[t] : pipe'[t][j] > 0 =>
        /\ AboveSent(t, pipe'[t][j])
        /\ pipe[t][1] > 0 => pipe[t][1] < pipe'[t][j]
  BY <1>3, <1>4 DEF NumberInv
<1>6. /\ \A i, j \in DOMAIN pipe'[t] :
           i < j /\ pipe'[t][i] > 0 /\ pipe'[t][j] > 0 => pipe'[t][i] < pipe'[t][j]
      /\ \A j \in DOMAIN pipe'[t] : pipe'[t][j] <= answers[t]
  BY <1>3, <1>4 DEF NumberInv
<1>7. AboveSent(t, answers[t] + 1)
  BY <1>4 DEF NumberInv
<1>8. CASE hand' = hand /\ pc' = pc
  <2>1. OneInHand(t)' /\ SaidInv(t)' /\ WellFormed(t)'
    BY <1>2, <1>4, <1>8 DEF OneInHand, SaidInv, WellFormed, IsLine
  <2>2. hand'[t] = {}
    BY <1>2, <1>8
  <2>3. NumberInv(t)'
    BY <1>2, <1>5, <1>6, <1>7, <2>2 DEF NumberInv, AboveSent, AboveHand
  <2> QED
    BY <1>1, <2>1, <2>3, ApartSuffices DEF TaskConv
<1>9. CASE Say(t, "scan", Msg("line", Line(t))) /\ Line(t) > 0
  <2>0. PICK m : m = Msg("line", Line(t))
    OBVIOUS
  <2>1. m.what = "line" /\ m.n = pipe[t][1] /\ m.n > 0
    BY <1>3, <1>9, <2>0 DEF Msg
  <2>2. hand'[t] = {m} /\ pc'[t] = "send"
    BY <1>9, <2>0 DEF Say, Goto, TypeOK
  <2>3. OneInHand(t)' /\ SaidInv(t)' /\ WellFormed(t)'
    BY <1>2, <1>4, <2>1, <2>2 DEF OneInHand, SaidInv, WellFormed, IsLine
  <2>4. AboveSent(t, m.n) /\ m.n < answers[t] + 1
    BY <1>2, <1>3, <1>4, <2>1 DEF NumberInv
  <2>5. /\ AboveSent(t, answers[t] + 1)' /\ AboveSent(t, m.n)'
        /\ \A j \in DOMAIN pipe'[t] : pipe'[t][j] > 0 => AboveSent(t, pipe[t][j])'
    BY <1>2, <1>5, <1>7, <2>4 DEF AboveSent
  <2>6. /\ AboveHand(t, answers[t] + 1)'
        /\ \A j \in DOMAIN pipe'[t] : pipe'[t][j] > 0 => AboveHand(t, pipe[t][j])'
    BY <1>2, <1>5, <2>1, <2>2, <2>4 DEF AboveHand
  <2>7. NumberInv(t)'
    BY <1>2, <1>6, <2>2, <2>5, <2>6 DEF NumberInv
  <2> QED
    BY <1>1, <2>3, <2>7, ApartSuffices DEF TaskConv
<1> QED
  BY <1>8, <1>9

\* A message reaches the transport, or is lost by a write that was disturbed.
LEMMA SaidKeeps ==
  ASSUME TypeOK, ConvInv, NEW t \in Tasks, SendEnd(t)
  PROVE  ConvInv'
<1>1. PICK m \in hand[t] : /\ Goto(t, "writing", After(m))
                           /\ \/ conn = "up" /\ sent' = [sent EXCEPT ![t] = Append(@, m)]
                              \/ conn # "up" /\ sent' = sent
                              \/ t \in hurt /\ sent' = sent
  BY DEF SendEnd
<1>2. /\ hand'[t] = {} /\ answers'[t] = answers[t] /\ pipe'[t] = pipe[t]
      /\ pc'[t] = After(m) /\ hurt' = hurt /\ conn' = conn /\ m \in Message
  BY <1>1 DEF SendEnd, Goto, childVars, TypeOK
<1>3. Apart(t)
  BY <1>1 DEF Apart, SendEnd, Goto, childVars, TypeOK
<1>4. OneInHand(t) /\ SaidInv(t) /\ NumberInv(t) /\ WellFormed(t)
  BY DEF ConvInv
<1>5. /\ m.what = "lookup" => After(m) = "start"
      /\ m.what = "line" => After(m) = "scan"
      /\ m.what \notin {"lookup", "line"} => After(m) = "returned"
  BY <1>2 DEF After, Message
<1>6. sent[t] \in Seq(Message) /\ answers[t] \in Nat
  BY BoundAssumption DEF TypeOK
<1>7. \/ sent'[t] = Append(sent[t], m) /\ conn = "up"
      \/ sent'[t] = sent[t] /\ (t \in hurt \/ conn # "up")
  BY <1>1 DEF TypeOK
<1>8. /\ \A i \in DOMAIN sent'[t] :
           \/ i \in DOMAIN sent[t] /\ sent'[t][i] = sent[t][i]
           \/ sent'[t][i] = m
      /\ t \notin hurt /\ conn = "up" => sent'[t] # <<>>
  BY <1>2, <1>6, <1>7, AppendOf
<1>9. NumberInv(t)'
  <2>1. m.n < answers[t] + 1 /\ \A j \in DOMAIN pipe[t] : pipe[t][j] > 0 => m.n < pipe[t][j]
    <3>1. CASE IsLine(m)
      BY <1>4, <3>1 DEF NumberInv, AboveHand
    <3>2. CASE ~ IsLine(m)
      BY <1>4, <1>6, <3>2 DEF SaidInv
    <3> QED
      BY <3>1, <3>2
  <2>2. AboveSent(t, answers[t] + 1)'
    BY <1>2, <1>4, <1>8, <2>1 DEF NumberInv, AboveSent
  <2>3. \A j \in DOMAIN pipe'[t] : pipe'[t][j] > 0 => AboveSent(t, pipe[t][j])'
    BY <1>2, <1>4, <1>8, <2>1 DEF NumberInv, AboveSent
  <2>4. /\ AboveHand(t, answers[t] + 1)'
        /\ \A j \in DOMAIN pipe'[t] : pipe'[t][j] > 0 => AboveHand(t, pipe[t][j])'
    BY <1>2 DEF AboveHand
  <2> QED
    BY <1>2, <1>4, <2>2, <2>3, <2>4 DEF NumberInv
<1>10. CASE IsLine(m)
  <2>1. pc'[t] = "scan"
    BY <1>2, <1>5, <1>10 DEF IsLine
  <2>2. OneInHand(t)' /\ SaidInv(t)'
    BY <1>2, <1>4, <1>8, <1>10, <2>1 DEF OneInHand, SaidInv, IsLine
  <2>3. WellFormed(t)'
    <3>1. CASE sent'[t] = sent[t]
      BY <1>2, <1>4, <3>1 DEF WellFormed
    <3>2. CASE sent'[t] = Append(sent[t], m) /\ conn = "up"
      <4>1. ASSUME t \notin hurt PROVE sent'[t][1].what # "line"
        <5>1. sent[t] # <<>> /\ sent[t][1].what # "line"
          BY <1>4, <1>10, <3>2, <4>1 DEF SaidInv, WellFormed
        <5>2. 1 \in DOMAIN sent[t]
          BY <1>6, <5>1, LenProperties, EmptySeq
        <5> QED
          BY <1>2, <1>6, <3>2, <5>1, <5>2, AppendOf
      <4>2. ASSUME NEW i \in DOMAIN sent'[t], NEW j \in DOMAIN sent'[t], i < j
            PROVE  /\ sent'[t][i].what \in {"lookup", "line"}
                   /\ sent'[t][j].what = "line"
                   /\ sent'[t][i].n < sent'[t][j].n
        <5>1. i \in DOMAIN sent[t] /\ sent'[t][i] = sent[t][i]
          BY <1>2, <1>6, <3>2, <4>2, AppendOf
        <5>2. \/ j \in DOMAIN sent[t] /\ sent'[t][j] = sent[t][j]
              \/ sent'[t][j] = m
          BY <1>8
        <5>3. sent[t][i].n < m.n /\ sent[t][i].what \in {"lookup", "line"}
          BY <1>4, <1>10, <5>1 DEF NumberInv, AboveSent, SaidInv
        <5> QED
          BY <1>4, <1>10, <4>2, <5>1, <5>2, <5>3 DEF WellFormed, IsLine
      <4> QED
        BY <1>2, <4>1, <4>2 DEF WellFormed
    <3> QED
      BY <1>7, <3>1, <3>2
  <2> QED
    BY <1>2, <1>3, <1>9, <2>2, <2>3, ApartSuffices DEF TaskConv
<1>11. CASE ~ IsLine(m)
  <2>1. sent[t] = <<>> /\ pc'[t] \in {"start", "returned"} /\ (pc'[t] = "start" => m.what = "lookup")
    BY <1>2, <1>4, <1>5, <1>11 DEF SaidInv, IsLine
  <2>2. OneInHand(t)' /\ SaidInv(t)'
    BY <1>2, <1>8, <2>1 DEF OneInHand, SaidInv
  <2>3. sent'[t] = <<m>> \/ sent'[t] = <<>>
    BY <1>7, <2>1
  <2>4. WellFormed(t)'
    BY <1>11, <2>3 DEF WellFormed, IsLine
  <2> QED
    BY <1>2, <1>3, <1>9, <2>2, <2>4, ApartSuffices DEF TaskConv
<1> QED
  BY <1>10, <1>11

\* The subprocess writes a line.
LEMMA WriteKeeps ==
  ASSUME TypeOK, ConvInv, NEW t \in Tasks, ChildWrite(t)
  PROVE  ConvInv'
<1>1. Apart(t)
  BY DEF Apart, ChildWrite, taskVars, wireVars, TypeOK
<1>2. /\ pc' = pc /\ hand' = hand /\ sent' = sent /\ hurt' = hurt /\ conn' = conn
      /\ pipe[t] \in Seq(Int) /\ answers[t] \in Nat
  BY BoundAssumption DEF ChildWrite, taskVars, wireVars, TypeOK
<1>3. OneInHand(t) /\ SaidInv(t) /\ NumberInv(t) /\ WellFormed(t)
  BY DEF ConvInv
<1>4. OneInHand(t)' /\ SaidInv(t)' /\ WellFormed(t)'
  BY <1>2, <1>3 DEF OneInHand, SaidInv, WellFormed
<1>5. CASE answers'[t] = answers[t] + 1 /\ pipe'[t] = Append(pipe[t], answers[t] + 1)
  <2>1. PICK n : n = answers[t] + 1
    OBVIOUS
  <2>2. /\ AboveSent(t, n) /\ AboveHand(t, n) /\ AboveSent(t, n + 1) /\ AboveHand(t, n + 1)
    <3>1. sent[t] \in Seq(Message) /\ hand[t] \subseteq Message
      BY DEF TypeOK
    <3>2. ASSUME NEW i \in DOMAIN sent[t] PROVE sent[t][i].n \in Nat
      <4>1. sent[t][i] \in Message
        BY <3>1, LenProperties, ElementOfSeq
      <4> QED
        BY <4>1 DEF Message
    <3>3. \A m \in hand[t] : m.n \in Nat
      BY <3>1 DEF Message
    <3> QED
      BY <1>2, <1>3, <2>1, <3>2, <3>3 DEF NumberInv, AboveSent, AboveHand
  <2>3. /\ AboveSent(t, n)' /\ AboveHand(t, n)'
        /\ AboveSent(t, n + 1)' /\ AboveHand(t, n + 1)'
    BY <1>2, <2>2 DEF AboveSent, AboveHand
  <2>4. /\ \A i \in DOMAIN pipe[t] : i \in DOMAIN pipe'[t] /\ pipe'[t][i] = pipe[t][i]
        /\ \A i \in DOMAIN pipe'[t] :
             \/ i \in DOMAIN pipe[t] /\ pipe'[t][i] = pipe[t][i]
             \/ /\ pipe'[t][i] = n /\ i = Len(pipe[t]) + 1 /\ Len(pipe[t]) \in Nat
                /\ \A j \in DOMAIN pipe[t] : j < i
        /\ DOMAIN pipe[t] \subseteq Nat
    <3>1. n \in Int /\ pipe'[t] = Append(pipe[t], n)
      BY <1>2, <1>5, <2>1
    <3>2. PICK s \in Seq(Int) : s = pipe[t] /\ pipe'[t] = Append(s, n)
      BY <1>2, <3>1
    <3>3. /\ \A i \in DOMAIN s : i \in DOMAIN Append(s, n) /\ Append(s, n)[i] = s[i]
          /\ \A i \in DOMAIN Append(s, n) :
               \/ i \in DOMAIN s /\ Append(s, n)[i] = s[i]
               \/ /\ Append(s, n)[i] = n /\ i = Len(s) + 1 /\ Len(s) \in Nat
                  /\ \A j \in DOMAIN s : j < i
          /\ DOMAIN s \subseteq Nat
      BY <3>1, AppendProperties, LenProperties
    <3> QED
      BY <3>2, <3>3
  <2>5. \A m \in hand'[t] : IsLine(m) => AboveSent(t, m.n)'
    BY <1>2, <1>3 DEF NumberInv, AboveSent
  <2>6. \A j \in DOMAIN pipe'[t] :
          pipe'[t][j] > 0 => AboveSent(t, pipe[t][j])' /\ AboveHand(t, pipe[t][j])'
    BY <1>2, <1>3, <2>3, <2>4 DEF NumberInv, AboveSent, AboveHand
  <2>7. /\ \A j \in DOMAIN pipe[t] : pipe[t][j] < n
        /\ \A j \in DOMAIN pipe'[t] : pipe'[t][j] <= n
    BY <1>2, <1>3, <2>1, <2>4 DEF NumberInv
  <2>8. \A i, j \in DOMAIN pipe'[t] :
          i < j /\ pipe'[t][i] > 0 /\ pipe'[t][j] > 0 => pipe'[t][i] < pipe'[t][j]
    <3> SUFFICES ASSUME NEW i \in DOMAIN pipe'[t], NEW j \in DOMAIN pipe'[t], i < j,
                        pipe'[t][i] > 0, pipe'[t][j] > 0
                 PROVE  pipe'[t][i] < pipe'[t][j]
      OBVIOUS
    <3>1. i \in DOMAIN pipe[t] /\ pipe'[t][i] = pipe[t][i]
      BY <2>4
    <3>2. CASE j \in DOMAIN pipe[t] /\ pipe'[t][j] = pipe[t][j]
      BY <1>3, <3>1, <3>2 DEF NumberInv
    <3>3. CASE pipe'[t][j] = n
      BY <2>7, <3>1, <3>3
    <3> QED
      BY <2>4, <3>2, <3>3
  <2>9. NumberInv(t)'
    BY <1>5, <2>1, <2>3, <2>5, <2>6, <2>7, <2>8 DEF NumberInv
  <2> QED
    BY <1>1, <1>2, <1>4, <2>9, ApartSuffices DEF TaskConv
<1>6. ASSUME NEW line \in {Skip, Cut, Odd}, answers' = answers, pipe'[t] = <<line>>
      PROVE  ConvInv'
  <2>1. NumberInv(t)'
    BY <1>2, <1>3, <1>6 DEF NumberInv, AboveSent, AboveHand, Skip, Cut, Odd
  <2> QED
    BY <1>1, <1>2, <1>4, <2>1, ApartSuffices DEF TaskConv
<1> QED
  BY <1>5, <1>6 DEF ChildWrite, TypeOK

\* The end of the process takes what was in hand or in a pipe.
LEMMA DeathKeeps ==
  ASSUME TypeOK, ConvInv, NEW how, Dies(how)
  PROVE  ConvInv'
<1> SUFFICES ASSUME NEW t \in Tasks PROVE TaskConv(t)'
  BY DEF ConvInv, TaskConv
<1>1. /\ pc'[t] = "gone" /\ hand'[t] = {} /\ pipe'[t] = <<>>
      /\ sent' = sent /\ answers' = answers /\ hurt' = hurt
  BY DEF Dies, wireVars
<1>2. OneInHand(t)' /\ SaidInv(t)'
  BY <1>1 DEF OneInHand, SaidInv
<1>3. NumberInv(t)'
  BY <1>1 DEF ConvInv, NumberInv, AboveSent, AboveHand
<1>4. WellFormed(t)'
  BY <1>1 DEF ConvInv, WellFormed
<1> QED
  BY <1>2, <1>3, <1>4 DEF TaskConv

LEMMA ConvInvStep == TypeOK /\ ConvInv /\ [Next]_vars => ConvInv'
<1> SUFFICES ASSUME TypeOK, ConvInv, [Next]_vars PROVE ConvInv'
  OBVIOUS
<1>1. ASSUME NEW t \in Tasks, Arrive(t) \/ Start(t) \/ SendBegin(t) \/ ScanEnd(t) \/ Wait(t)
      PROVE  ConvInv'
  <2>1. UNCHANGED <<hand, sent, answers, pipe, conn>> /\ hurt \subseteq hurt'
    BY <1>1 DEF Arrive, Start, SendBegin, ScanEnd, Wait, childVars, wireVars
  <2>2. \A u \in Tasks : \/ pc'[u] = pc[u]
                         \/ pc[u] = "idle" /\ pc'[u] = "resolve"
                         \/ pc[u] = "start" /\ pc'[u] = "scan"
                         \/ pc'[u] \in {"writing", "wait", "returned"}
    BY <1>1 DEF Arrive, Start, SendBegin, ScanEnd, Wait, Goto, TypeOK
  <2> QED
    BY <2>1, <2>2, QuietKeeps
<1>2. ASSUME NEW t \in Tasks, SendVersion(t) \/ Resolve(t)
      PROVE  ConvInv'
  <2>1. PICK what \in {"version", "noTarget", "badTarget", "lookup"} :
          Say(t, "resolve", Msg(what, 0))
    BY <1>2 DEF SendVersion, Resolve
  <2>2. UNCHANGED <<sent, answers, pipe, conn, hurt>>
    BY <1>2 DEF SendVersion, Resolve, childVars, wireVars
  <2>3. Msg(what, 0).n = 0 /\ ~ IsLine(Msg(what, 0))
    BY DEF Msg, IsLine
  <2> QED
    BY <2>1, <2>2, <2>3, FirstSayKeeps
<1>3. ASSUME NEW t \in Tasks, ScanAnswer(t)
      PROVE  ConvInv'
  BY <1>3, TakeKeeps DEF ScanAnswer, Say, Goto, wireVars
<1>4. ASSUME NEW t \in Tasks, ScanSkip(t) \/ ScanOdd(t)
      PROVE  ConvInv'
  <2>1. /\ Read(t) /\ pc[t] = "scan" /\ hand' = hand /\ pc' = pc
        /\ UNCHANGED <<sent, answers, conn>> /\ hurt \subseteq hurt'
    BY <1>4 DEF ScanSkip, ScanOdd, Goto, taskVars, wireVars, TypeOK
  <2> QED
    BY <2>1, TakeKeeps
<1>5. ASSUME NEW t \in Tasks, Hangup(t) \/ ChildExit(t) \/ Timeout(t) \/ Kill(t)
      PROVE  ConvInv'
  BY <1>5, QuietKeeps DEF Hangup, ChildExit, Timeout, Kill, taskVars, childVars, wireVars
<1>6. CASE Break \/ Interrupt \/ Quiescent \/ UNCHANGED vars
  BY <1>6, QuietKeeps DEF Break, Interrupt, Quiescent, vars, taskVars, childVars, wireVars
<1>7. CASE AgentExit \/ \E t \in Tasks : WriterPanics(t) \/ ScanPanics(t)
  BY <1>7, DeathKeeps DEF AgentExit, WriterPanics, ScanPanics
<1> QED
  BY <1>1, <1>2, <1>3, <1>4, <1>5, <1>6, <1>7, SaidKeeps, WriteKeeps DEF Next, Goroutine

\* A conversation starts with what is probed or why nothing is, a refusal stands
\* alone, and answers come in the order of the lines, for any number of tasks,
\* answers and overlapping or cancelled sends.
THEOREM ConversationsWellFormed == Spec => []WellFormedConversation
<1>1. ConvInv => WellFormedConversation
  BY DEF ConvInv, WellFormed, WellFormedConversation
<1> QED
  BY <1>1, ProbesWellTyped, ConvInvInit, ConvInvStep, PTL DEF Spec

-----------------------------------------------------------------------------
(* Where an answer is: sent, in hand or in the pipe. A step moves it forward   *)
(* along these places or leaves it, unless the connection is not up: then what *)
(* is in hand is lost, and nothing is sent any more that could come behind it. *)

Somewhere(t, k) ==
  \/ \E i \in DOMAIN sent[t] : sent[t][i] = Msg("line", k)
  \/ Msg("line", k) \in hand[t]
  \/ \E i \in DOMAIN pipe[t] : pipe[t][i] = k

Lost(t, k) == conn # "up" /\ AboveSent(t, k)

Accounted(t) == \A k \in 1 .. answers[t] : Somewhere(t, k) \/ Lost(t, k)

LEMMA AccountedMeans ==
  AnswersAccountedFor <=>
    \A t \in Tasks : t \notin hurt /\ process = "running" => Accounted(t)
  BY DEF AnswersAccountedFor, Accounted, Somewhere, Lost, AboveSent

\* A step of task t that loses none of its answers, and touches no other task.
LEMMA AccountedSuffices ==
  ASSUME AnswersAccountedFor, process = "running", hurt \subseteq hurt', conn' = conn,
         NEW t \in Tasks, Apart(t),
         process' = "running" /\ t \notin hurt' => Accounted(t)'
  PROVE  AnswersAccountedFor'
<1> SUFFICES ASSUME NEW u \in Tasks, u \notin hurt', process' = "running"
             PROVE  Accounted(u)'
  BY DEF AnswersAccountedFor, Accounted, Somewhere, Lost, AboveSent
<1>1. Accounted(u)
  BY AccountedMeans
<1>2. CASE u # t
  BY <1>1, <1>2 DEF Apart, Accounted, Somewhere, Lost, AboveSent
<1> QED
  BY <1>2

LEMMA AccountedStep ==
  TypeOK /\ ConvInv /\ AnswersAccountedFor /\ [Next]_vars => AnswersAccountedFor'
<1> SUFFICES ASSUME TypeOK, ConvInv, AnswersAccountedFor, [Next]_vars
             PROVE  AnswersAccountedFor'
  OBVIOUS
<1>0. ASSUME NEW t \in Tasks, t \notin hurt, process = "running" PROVE Accounted(t)
  BY <1>0, AccountedMeans
<1>1. ASSUME UNCHANGED <<hand, sent, answers, pipe>>, hurt \subseteq hurt',
             conn' = conn \/ conn' # "up",
             process' = "running" => process = "running"
      PROVE  AnswersAccountedFor'
  BY <1>1 DEF AnswersAccountedFor
<1>2. ASSUME NEW t \in Tasks, Arrive(t) \/ Start(t) \/ SendBegin(t) \/ ScanEnd(t) \/ Wait(t)
      PROVE  AnswersAccountedFor'
  BY <1>1, <1>2 DEF Arrive, Start, SendBegin, ScanEnd, Wait, Goto, childVars, wireVars
<1>3. ASSUME NEW t \in Tasks, SendVersion(t) \/ Resolve(t)
      PROVE  AnswersAccountedFor'
  <2>1. PICK what \in {"version", "noTarget", "badTarget", "lookup"} :
          Say(t, "resolve", Msg(what, 0))
    BY <1>3 DEF SendVersion, Resolve
  <2>2. UNCHANGED <<sent, answers, pipe, conn, hurt, process>>
    BY <1>3 DEF SendVersion, Resolve, childVars, wireVars
  <2>3. Apart(t) /\ hand[t] = {} /\ process = "running"
    BY <2>1, <2>2 DEF Apart, Say, Goto, TypeOK
  <2>4. t \notin hurt' => Accounted(t)'
    BY <1>0, <2>2, <2>3 DEF Accounted, Somewhere, Lost, AboveSent
  <2> QED
    BY <2>2, <2>3, <2>4, AccountedSuffices
<1>4. ASSUME NEW t \in Tasks, SendEnd(t)
      PROVE  AnswersAccountedFor'
  <2>1. PICK m \in hand[t] : /\ Goto(t, "writing", After(m))
                             /\ \/ conn = "up" /\ sent' = [sent EXCEPT ![t] = Append(@, m)]
                                \/ conn # "up" /\ sent' = sent
                                \/ t \in hurt /\ sent' = sent
    BY <1>4 DEF SendEnd
  <2>2. Apart(t) /\ process = "running"
    BY <1>4, <2>1 DEF Apart, SendEnd, Goto, childVars, TypeOK
  <2>3. UNCHANGED <<answers, pipe, conn, hurt, process>> /\ hand[t] = {m}
    BY <1>4 DEF SendEnd, childVars, ConvInv, OneInHand
  <2>4. ASSUME t \notin hurt PROVE Accounted(t)'
    <3>1. Accounted(t)
      BY <1>0, <2>2, <2>4
    <3>2. CASE conn = "up" /\ sent' = [sent EXCEPT ![t] = Append(@, m)]
      <4>1. sent[t] \in Seq(Message) /\ m \in Message /\ sent'[t] = Append(sent[t], m)
        BY <3>2 DEF TypeOK
      <4>2. /\ \A i \in DOMAIN sent[t] : i \in DOMAIN sent'[t] /\ sent'[t][i] = sent[t][i]
            /\ \E i \in DOMAIN sent'[t] : sent'[t][i] = m
        BY <4>1, AppendOf
      <4>3. \A k \in 1 .. answers[t] : Somewhere(t, k)
        BY <3>1, <3>2 DEF Accounted, Lost
      <4> QED
        BY <2>3, <4>2, <4>3 DEF Accounted, Somewhere
    <3>3. CASE conn # "up" /\ sent' = sent
      <4>1. ASSUME NEW k \in 1 .. answers[t], m = Msg("line", k) PROVE AboveSent(t, k)
        <5>1. IsLine(m) /\ m.n = k
          BY <4>1 DEF IsLine, Msg
        <5> QED
          BY <5>1 DEF ConvInv, NumberInv
      <4> QED
        BY <2>3, <3>1, <3>3, <4>1 DEF Accounted, Somewhere, Lost, AboveSent
    <3> QED
      BY <2>1, <2>4, <3>2, <3>3
  <2> QED
    BY <2>2, <2>3, <2>4, AccountedSuffices
<1>5. ASSUME NEW t \in Tasks, ChildWrite(t)
      PROVE  AnswersAccountedFor'
  <2>1. Apart(t) /\ process = "running" /\ UNCHANGED <<hand, sent, conn, hurt, process>>
    BY <1>5 DEF Apart, ChildWrite, taskVars, wireVars, TypeOK
  <2>2. pipe[t] \in Seq(Int) /\ answers[t] \in Nat
    BY BoundAssumption DEF TypeOK
  <2>3. ASSUME t \notin hurt PROVE Accounted(t)'
    <3>1. Accounted(t)
      BY <1>0, <2>1, <2>3
    <3>2. CASE answers'[t] = answers[t] + 1 /\ pipe'[t] = Append(pipe[t], answers[t] + 1)
      <4>1. /\ \A i \in DOMAIN pipe[t] : i \in DOMAIN pipe'[t] /\ pipe'[t][i] = pipe[t][i]
            /\ \E i \in DOMAIN pipe'[t] : pipe'[t][i] = answers[t] + 1
        BY <2>2, <3>2, AppendProperties, LenProperties
      <4>2. \A k \in 1 .. answers'[t] : k \in 1 .. answers[t] \/ k = answers[t] + 1
        BY <2>2, <3>2
      <4> QED
        BY <2>1, <3>1, <4>1, <4>2 DEF Accounted, Somewhere, Lost, AboveSent
    <3>3. CASE answers'[t] = answers[t] /\ pipe[t] = <<>>
      BY <2>1, <3>1, <3>3 DEF Accounted, Somewhere, Lost, AboveSent
    <3> QED
      BY <1>5, <3>2, <3>3 DEF ChildWrite, TypeOK
  <2> QED
    BY <2>1, <2>3, AccountedSuffices
<1>6. ASSUME NEW t \in Tasks, ScanAnswer(t) \/ ScanSkip(t) \/ ScanOdd(t)
      PROVE  AnswersAccountedFor'
  <2>1. /\ Apart(t) /\ process = "running" /\ UNCHANGED <<sent, answers, conn, process>>
        /\ hurt \subseteq hurt' /\ hand[t] = {}
    BY <1>6 DEF Apart, ScanAnswer, ScanSkip, ScanOdd, Say, Goto, Read, wireVars, TypeOK
  <2>2. pipe[t] \in Seq(Int) /\ pipe[t] # <<>> /\ pipe'[t] = Tail(pipe[t])
    BY <1>6 DEF ScanAnswer, ScanSkip, ScanOdd, Read, TypeOK
  <2>3. /\ \A i \in DOMAIN pipe[t] \ {1} :
             i - 1 \in DOMAIN pipe'[t] /\ pipe'[t][i - 1] = pipe[t][i]
        /\ Line(t) = pipe[t][1]
    BY <2>2, TailOf DEF Line
  <2>4. \/ hand'[t] = {Msg("line", pipe[t][1])}
        \/ pipe[t][1] <= 0
    BY <1>6, <2>3 DEF ScanAnswer, ScanSkip, ScanOdd, Say, Skip, Cut, Odd, TypeOK
  <2>5. ASSUME t \notin hurt, NEW k \in 1 .. answers[t] PROVE Somewhere(t, k)' \/ Lost(t, k)'
    <3>1. CASE \E i \in DOMAIN sent[t] : sent[t][i] = Msg("line", k)
      BY <2>1, <3>1 DEF Somewhere, Msg
    <3>2. ASSUME NEW i \in DOMAIN pipe[t], pipe[t][i] = k PROVE Somewhere(t, k)'
      <4>1. CASE i = 1
        BY <2>4, <3>2, <4>1 DEF Somewhere, Msg
      <4>2. CASE i # 1
        BY <2>3, <3>2, <4>2 DEF Somewhere
      <4> QED
        BY <4>1, <4>2
    <3>3. CASE Lost(t, k)
      BY <2>1, <3>3 DEF Lost, AboveSent
    <3> QED
      BY <1>0, <2>1, <2>5, <3>1, <3>2, <3>3 DEF Accounted, Somewhere
  <2>6. t \notin hurt' => Accounted(t)'
    BY <2>1, <2>5 DEF Accounted
  <2> QED
    BY <2>1, <2>6, AccountedSuffices
<1>7. CASE AgentExit \/ \E t \in Tasks : WriterPanics(t) \/ ScanPanics(t)
  BY <1>7 DEF AgentExit, WriterPanics, ScanPanics, Dies, AnswersAccountedFor
<1>8. ASSUME NEW t \in Tasks, Hangup(t) \/ ChildExit(t) \/ Timeout(t) \/ Kill(t)
      PROVE  AnswersAccountedFor'
  BY <1>1, <1>8 DEF Hangup, ChildExit, Timeout, Kill, taskVars, childVars, wireVars
<1>9. CASE Break \/ Interrupt \/ Quiescent \/ UNCHANGED vars
  BY <1>1, <1>9 DEF Break, Interrupt, Quiescent, vars, taskVars, childVars, wireVars
<1> QED
  BY <1>2, <1>3, <1>4, <1>5, <1>6, <1>7, <1>8, <1>9 DEF Next, Goroutine

\* No answer of a subprocess is lost on its way to the server, as long as nothing
\* disturbs the writes of its task and the process runs, but by a connection that no
\* longer takes writes; and then no later answer is sent, so that the lost ones are
\* the last ones.
THEOREM NoAnswerLost == Spec => []AnswersAccountedFor
<1>1. Init => AnswersAccountedFor
  BY DEF Init, AnswersAccountedFor
<1> QED
  BY <1>1, ProbesWellTyped, ConvInvInit, ConvInvStep, AccountedStep, PTL DEF Spec
=============================================================================
