----------------------------- MODULE ProbeStream -----------------------------
(***************************************************************************)
(* What a probe request promises its browser, with no goroutine, channel   *)
(* or lock in sight: the stream opens for some of the nodes, shows only    *)
(* lines of nodes that were asked, those of one node in the order the node *)
(* produced them and none twice, is complete only when every node owes     *)
(* nothing, and does end. TaskRelay implements it.                         *)
(***************************************************************************)
EXTENDS Integers, Sequences

CONSTANTS
  Requests,  \* probe requests
  Nodes,     \* nodes that may be asked
  Self,      \* label of the lines the web server writes about itself
  Numbers    \* numbers of the lines of a node, increasing in time

VARIABLES
  oneLine,  \* requests every asked node owes exactly one line
  phase,    \* of a stream: idle, refused, open, complete, left
  asked,    \* nodes a stream was opened for
  lines     \* what the browser has been sent

vars == <<oneLine, phase, asked, lines>>

Lines == [node : Nodes \cup {Self}, n : Numbers]

Init ==
  /\ oneLine \in SUBSET Requests
  /\ phase = [r \in Requests |-> "idle"]
  /\ asked = [r \in Requests |-> {}]
  /\ lines = [r \in Requests |-> <<>>]

Refuse(r) ==
  /\ phase[r] = "idle"
  /\ phase' = [phase EXCEPT ![r] = "refused"]
  /\ UNCHANGED <<oneLine, asked, lines>>

Open(r) ==
  /\ phase[r] = "idle"
  /\ phase' = [phase EXCEPT ![r] = "open"]
  /\ \E nodes \in SUBSET Nodes : asked' = [asked EXCEPT ![r] = nodes]
  /\ UNCHANGED <<oneLine, lines>>

\* Only a node that was asked speaks, and never back in time; where it owes one
\* line it does not speak twice.
Emit(r) ==
  /\ phase[r] = "open"
  /\ \E l \in Lines :
       /\ l.node \in asked[r] \cup {Self}
       /\ \A i \in DOMAIN lines[r] :
            lines[r][i].node = l.node => lines[r][i].n < l.n /\ r \notin oneLine
       /\ lines' = [lines EXCEPT ![r] = Append(@, l)]
  /\ UNCHANGED <<oneLine, phase, asked>>

Complete(r) ==
  /\ phase[r] = "open"
  /\ r \in oneLine =>
       \A n \in asked[r] : \E i \in DOMAIN lines[r] : lines[r][i].node = n
  /\ phase' = [phase EXCEPT ![r] = "complete"]
  /\ UNCHANGED <<oneLine, asked, lines>>

Leave(r) ==
  /\ phase[r] = "open"
  /\ phase' = [phase EXCEPT ![r] = "left"]
  /\ UNCHANGED <<oneLine, asked, lines>>

Next == \E r \in Requests : Refuse(r) \/ Open(r) \/ Emit(r) \/ Complete(r) \/ Leave(r)

Ends == \A r \in Requests : phase[r] = "open" ~> phase[r] \in {"complete", "left"}

Spec == Init /\ [][Next]_vars /\ Ends
=============================================================================
