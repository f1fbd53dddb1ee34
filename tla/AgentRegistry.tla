---------------------------- MODULE AgentRegistry ----------------------------
(***************************************************************************)
(* serverList, the map from node names to nodes: agents enter it when they *)
(* register and are deleted from it, by name, when their ping loop ends;   *)
(* the configuration fills it at the start and replaces it whenever the    *)
(* file changes, without taking serverListMux.                             *)
(***************************************************************************)
EXTENDS Integers, FiniteSets

CONSTANTS
  Sessions,    \* connections to /api/agent/register, one handler each
  Names,       \* node names
  Grpc,        \* an entry that stands for a gRPC node of the configuration
  None,        \* no entry
  NamesTaken,  \* node names that agents use
  MaxReloads   \* bound: changes of the configuration file

ASSUME EntryAssumption == /\ Grpc \notin Sessions /\ None \notin Sessions
                          /\ Grpc # None
ASSUME NamesAssumption == NamesTaken \subseteq Names
ASSUME ReloadsAssumption == MaxReloads \in Nat

VARIABLES
  name,        \* name an agent registers with
  session,     \* handler: new, handshake, loop, cleanup, gone
  link,        \* connection of a session: up, down
  serverList,
  nodes,       \* names of the gRPC nodes in the configuration
  loading,     \* names the loop of initServerList has still to enter
  reloads      \* changes of the configuration so far

sessionVars == <<name, session, link>>
configVars  == <<nodes, loading, reloads>>
vars == <<sessionVars, serverList, configVars>>

Init ==
  /\ name \in [Sessions -> NamesTaken]
  /\ session = [s \in Sessions |-> "new"]
  /\ link = [s \in Sessions |-> "up"]
  /\ nodes \in SUBSET Names
  /\ serverList = [n \in Names |-> IF n \in nodes THEN Grpc ELSE None]
  /\ loading = {}
  /\ reloads = 0

Goto(s, from, to) == session[s] = from /\ session' = [session EXCEPT ![s] = to]

\* The upgrade; from here on the handler waits for the registration.
Connect(s) ==
  /\ Goto(s, "new", "handshake")
  /\ UNCHANGED <<name, link, serverList, configVars>>

\* Reading or decoding the registration fails, or writing the response does.
HandshakeFail(s) ==
  /\ Goto(s, "handshake", "gone")
  /\ UNCHANGED <<name, link, serverList, configVars>>

\* The response is written and the entry made, over whatever has the name.
Register(s) ==
  /\ Goto(s, "handshake", "loop")
  /\ serverList' = [serverList EXCEPT ![name[s]] = s]
  /\ UNCHANGED <<name, link, configVars>>

LinkDown(s) ==
  /\ session[s] \in {"handshake", "loop"}
  /\ link[s] = "up"
  /\ link' = [link EXCEPT ![s] = "down"]
  /\ UNCHANGED <<name, session, serverList, configVars>>

PingFails(s) ==
  /\ Goto(s, "loop", "cleanup")
  /\ link[s] = "down"
  /\ UNCHANGED <<name, link, serverList, configVars>>

\* Variation: the handler returns without deleting.
CleanupForgotten(s) ==
  /\ Goto(s, "cleanup", "gone")
  /\ UNCHANGED <<name, link, serverList, configVars>>

\* Variation: a cleanup that leaves the entry to its present owner but deletes
\* the name of a node of the configuration.
CleanupForeign(s) ==
  /\ Goto(s, "cleanup", "gone")
  /\ serverList' = [n \in Names |-> IF serverList[n] \in {s, Grpc} THEN None ELSE serverList[n]]
  /\ UNCHANGED <<name, link, configVars>>

\* delete(serverList, agentName), whoever the entry belongs to by now.
Cleanup(s) ==
  /\ Goto(s, "cleanup", "gone")
  /\ serverList' = [serverList EXCEPT ![name[s]] = None]
  /\ UNCHANGED <<name, link, configVars>>

-----------------------------------------------------------------------------
\* Variation: the loop runs over the nodes of the configuration before the change.
ReloadStale ==
  /\ loading = {} /\ reloads < MaxReloads
  /\ reloads' = reloads + 1
  /\ nodes' \in SUBSET Names
  /\ loading' = nodes
  /\ serverList' = [n \in Names |-> None]
  /\ UNCHANGED sessionVars

\* OnConfigChange: initServerList starts with an empty map ...
Reload ==
  /\ loading = {} /\ reloads < MaxReloads
  /\ reloads' = reloads + 1
  /\ nodes' \in SUBSET Names
  /\ loading' = nodes'
  /\ serverList' = [n \in Names |-> None]
  /\ UNCHANGED sessionVars

\* ... and enters the nodes one by one, while the handlers go on.
LoadNode(n) ==
  /\ n \in loading
  /\ loading' = loading \ {n}
  /\ serverList' = [serverList EXCEPT ![n] = Grpc]
  /\ UNCHANGED <<sessionVars, nodes, reloads>>

\* Every agent that comes has come and gone or stays for good.
Quiescent ==
  /\ loading = {}
  /\ \A s \in Sessions : session[s] = "gone" \/ (session[s] = "loop" /\ link[s] = "up")
  /\ UNCHANGED vars

Next ==
  \/ \E s \in Sessions : \/ Connect(s) \/ HandshakeFail(s) \/ Register(s) \/ LinkDown(s)
                         \/ PingFails(s) \/ Cleanup(s)
  \/ Reload \/ \E n \in Names : LoadNode(n)
  \/ Quiescent

Spec == Init /\ [][Next]_vars

-----------------------------------------------------------------------------
TypeOK ==
  /\ name \in [Sessions -> NamesTaken]
  /\ session \in [Sessions -> {"new", "handshake", "loop", "cleanup", "gone"}]
  /\ link \in [Sessions -> {"up", "down"}]
  /\ serverList \in [Names -> Sessions \cup {Grpc, None}]
  /\ nodes \subseteq Names /\ loading \subseteq nodes
  /\ reloads \in 0 .. MaxReloads

\* An entry that stands for an agent has a handler that will still run its
\* cleanup: a dead agent never stays on the list for good, though names are
\* shared, entries overwritten and the map replaced.
ListedHandlerAlive ==
  \A n \in Names : serverList[n] \in Sessions =>
    LET s == serverList[n] IN name[s] = n /\ session[s] \in {"loop", "cleanup"}

\* While an agent has a name of its own and the configuration is left alone, the
\* list is exact: the agent is on it just as long as its ping loop runs.
NameIsOwn(s) == \A t \in Sessions : name[t] = name[s] => t = s
ListIsExact ==
  \A s \in Sessions : NameIsOwn(s) /\ reloads = 0 =>
    (serverList[name[s]] = s <=> session[s] \in {"loop", "cleanup"})

\* A node of the configuration is served, once it is loaded, unless an agent has
\* used its name.
ConfiguredNodesListed ==
  \A n \in nodes \ loading :
    serverList[n] = Grpc \/ \E s \in Sessions : name[s] = n /\ session[s] \notin {"new", "handshake"}

-----------------------------------------------------------------------------
\* A ping on a broken connection fails within two periods of the ticker.
FairSpec ==
  /\ Spec
  /\ \A s \in Sessions : WF_vars(PingFails(s)) /\ WF_vars(Cleanup(s))
  /\ \A n \in Names : WF_vars(LoadNode(n))

\* An agent whose connection has broken leaves the list.
DeadAgentDelisted ==
  \A s \in Sessions :
    link[s] = "down" /\ serverList[name[s]] = s ~> serverList[name[s]] # s

\* A hot reload of the configuration keeps the agents that are connected: one
\* with a name of its own is on the list as long as its connection is up.
ReloadKeepsAgents ==
  loading = {} =>
    \A s \in Sessions :
      NameIsOwn(s) /\ name[s] \notin nodes /\ session[s] = "loop" /\ link[s] = "up" =>
        serverList[name[s]] = s
=============================================================================
