------------------------- MODULE AgentRegistryProofs -------------------------
(***************************************************************************)
(* Proofs about AgentRegistry: the server list never keeps a dead agent,   *)
(* keeps the nodes of the configuration, and is exact while names are      *)
(* distinct, for any number of sessions, names and reloads.                *)
(***************************************************************************)
EXTENDS AgentRegistry, TLAPS

LEMMA InitTypes == ASSUME Init PROVE TypeOK
  BY NamesAssumption, ReloadsAssumption DEF Init, TypeOK

\* Every step of a handler, of a connection and of the loading loop keeps the
\* types; Reload keeps its loop within the new configuration.
LEMMA TypesStep == ASSUME TypeOK, [Next]_vars PROVE TypeOK'
<1> USE EntryAssumption, NamesAssumption, ReloadsAssumption DEF TypeOK
<1>1. ASSUME NEW s \in Sessions, Connect(s) PROVE TypeOK'
  BY <1>1 DEF Connect, Goto, configVars
<1>2. ASSUME NEW s \in Sessions, HandshakeFail(s) PROVE TypeOK'
  BY <1>2 DEF HandshakeFail, Goto, configVars
<1>3. ASSUME NEW s \in Sessions, Register(s) PROVE TypeOK'
  BY <1>3 DEF Register, Goto, configVars
<1>4. ASSUME NEW s \in Sessions, LinkDown(s) PROVE TypeOK'
  BY <1>4 DEF LinkDown, configVars
<1>5. ASSUME NEW s \in Sessions, PingFails(s) PROVE TypeOK'
  BY <1>5 DEF PingFails, Goto, configVars
<1>6. ASSUME NEW s \in Sessions, Cleanup(s) PROVE TypeOK'
  BY <1>6 DEF Cleanup, Goto, configVars
<1>7. CASE Reload
  BY <1>7 DEF Reload, sessionVars
<1>8. ASSUME NEW n \in Names, LoadNode(n) PROVE TypeOK'
  BY <1>8 DEF LoadNode, sessionVars
<1>9. CASE UNCHANGED vars
  BY <1>9 DEF vars, sessionVars, configVars
<1> QED
  BY <1>1, <1>2, <1>3, <1>4, <1>5, <1>6, <1>7, <1>8, <1>9 DEF Next, Quiescent

-----------------------------------------------------------------------------
\* Each of the three list properties is inductive relative to the types; that
\* nothing is being loaded before the first reload is what ListIsExact needs.
QuietBeforeReload == reloads = 0 => loading = {}

ListInv == ListedHandlerAlive /\ ConfiguredNodesListed /\ ListIsExact /\ QuietBeforeReload

LEMMA InitList == ASSUME Init PROVE ListInv
<1> USE EntryAssumption, NamesAssumption DEF Init
<1>1. ListedHandlerAlive
  BY DEF ListedHandlerAlive
<1>2. ConfiguredNodesListed
  BY DEF ConfiguredNodesListed
<1>3. ListIsExact
  <2> SUFFICES ASSUME NEW s \in Sessions
               PROVE serverList[name[s]] # s /\ session[s] = "new"
    BY DEF ListIsExact
  <2> QED
    OBVIOUS
<1> QED
  BY <1>1, <1>2, <1>3 DEF ListInv, QuietBeforeReload

\* A registration and a cleanup change one entry, that of the session's name; a
\* handler never goes back to the handshake.
LEMMA ListStep ==
  ASSUME TypeOK, ListInv, [Next]_vars
  PROVE  ListInv'
<1> USE EntryAssumption, NamesAssumption
<1>u. CASE UNCHANGED vars
  BY <1>u DEF vars, sessionVars, configVars, ListInv, ListedHandlerAlive, ConfiguredNodesListed,
              ListIsExact, NameIsOwn, QuietBeforeReload
<1>q. ASSUME Next, ~ UNCHANGED vars PROVE QuietBeforeReload'
  BY <1>q DEF Next, Connect, HandshakeFail, Register, LinkDown, PingFails, Cleanup, Reload,
              LoadNode, Quiescent, Goto, vars, sessionVars, configVars, ListInv,
              QuietBeforeReload, TypeOK
<1>1. ASSUME NEW s \in Sessions, Connect(s) \/ HandshakeFail(s) \/ PingFails(s) \/ LinkDown(s)
      PROVE ListedHandlerAlive' /\ ConfiguredNodesListed' /\ ListIsExact'
  <2>1. ListedHandlerAlive'
    BY <1>1 DEF Connect, HandshakeFail, PingFails, LinkDown, Goto, configVars, TypeOK, ListInv,
                ListedHandlerAlive
  <2>2. ConfiguredNodesListed'
    BY <1>1 DEF Connect, HandshakeFail, PingFails, LinkDown, Goto, configVars, TypeOK, ListInv,
                ConfiguredNodesListed
  <2>3. ListIsExact'
    BY <1>1 DEF Connect, HandshakeFail, PingFails, LinkDown, Goto, configVars, TypeOK, ListInv,
                ListIsExact, NameIsOwn
  <2> QED
    BY <2>1, <2>2, <2>3
<1>2. ASSUME NEW s \in Sessions, Register(s)
      PROVE ListedHandlerAlive' /\ ConfiguredNodesListed' /\ ListIsExact'
  <2>1. ListedHandlerAlive'
    BY <1>2 DEF Register, Goto, configVars, TypeOK, ListInv, ListedHandlerAlive
  <2>2. ConfiguredNodesListed'
    BY <1>2 DEF Register, Goto, configVars, TypeOK, ListInv, ConfiguredNodesListed
  <2>3. ListIsExact'
    BY <1>2 DEF Register, Goto, configVars, TypeOK, ListInv, ListIsExact, NameIsOwn
  <2> QED
    BY <2>1, <2>2, <2>3
<1>3. ASSUME NEW s \in Sessions, Cleanup(s)
      PROVE ListedHandlerAlive' /\ ConfiguredNodesListed' /\ ListIsExact'
  <2>1. ListedHandlerAlive'
    BY <1>3 DEF Cleanup, Goto, configVars, TypeOK, ListInv, ListedHandlerAlive
  <2>2. ConfiguredNodesListed'
    BY <1>3 DEF Cleanup, Goto, configVars, TypeOK, ListInv, ConfiguredNodesListed
  <2>3. ListIsExact'
    BY <1>3 DEF Cleanup, Goto, configVars, TypeOK, ListInv, ListIsExact, NameIsOwn
  <2> QED
    BY <2>1, <2>2, <2>3
<1>4. ASSUME Reload PROVE ListedHandlerAlive' /\ ConfiguredNodesListed' /\ ListIsExact'
  <2>1. ListedHandlerAlive'
    BY <1>4 DEF Reload, sessionVars, ListedHandlerAlive
  <2>2. ConfiguredNodesListed'
    BY <1>4 DEF Reload, ConfiguredNodesListed
  <2>3. ListIsExact'
    BY <1>4, ReloadsAssumption DEF Reload, TypeOK, ListIsExact
  <2> QED
    BY <2>1, <2>2, <2>3
<1>5. ASSUME NEW n \in Names, LoadNode(n)
      PROVE ListedHandlerAlive' /\ ConfiguredNodesListed' /\ ListIsExact'
  <2>1. ListedHandlerAlive'
    BY <1>5 DEF LoadNode, sessionVars, TypeOK, ListInv, ListedHandlerAlive
  <2>2. ConfiguredNodesListed'
    BY <1>5 DEF LoadNode, sessionVars, TypeOK, ListInv, ConfiguredNodesListed
  <2>3. ListIsExact'
    BY <1>5 DEF LoadNode, ListInv, QuietBeforeReload, ListIsExact
  <2> QED
    BY <2>1, <2>2, <2>3
<1> QED
  BY <1>u, <1>q, <1>1, <1>2, <1>3, <1>4, <1>5 DEF Next, Quiescent, ListInv

-----------------------------------------------------------------------------
\* The types and the list invariant hold in every state of the server list.
THEOREM RegistryCorrect == Spec => [](TypeOK /\ ListInv)
<1>1. Init => TypeOK /\ ListInv
  BY InitTypes, InitList
<1>2. TypeOK /\ ListInv /\ [Next]_vars => (TypeOK /\ ListInv)'
  BY TypesStep, ListStep
<1> QED
  BY <1>1, <1>2, PTL DEF Spec

\* No entry of serverList outlives the handler that will delete it, whoever
\* shares the name and whenever the configuration is reloaded.
THEOREM NoDeadEntry == Spec => []ListedHandlerAlive
<1>1. TypeOK /\ ListInv => ListedHandlerAlive
  BY DEF ListInv
<1> QED
  BY <1>1, RegistryCorrect, PTL

\* A node of the configuration is only ever displaced by an agent of its name.
THEOREM NodesKept == Spec => []ConfiguredNodesListed
<1>1. TypeOK /\ ListInv => ConfiguredNodesListed
  BY DEF ListInv
<1> QED
  BY <1>1, RegistryCorrect, PTL

\* Until the first reload an agent with a name of its own is listed exactly while
\* its ping loop runs.
THEOREM ExactList == Spec => []ListIsExact
<1>1. TypeOK /\ ListInv => ListIsExact
  BY DEF ListInv
<1> QED
  BY <1>1, RegistryCorrect, PTL
=============================================================================
