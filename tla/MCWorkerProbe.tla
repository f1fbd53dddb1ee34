---------------------------- MODULE MCWorkerProbe ----------------------------
(* WorkerProbe with inputs that reach every outcome of the address choice: a   *)
(* private address before and behind a public one, a family that is missing, a *)
(* protocol that is no protocol.                                               *)
EXTENDS WorkerProbe

CONSTANTS t1, t2, pub4, pub6, priv4

MCAddresses == {pub4, pub6, priv4}

Ask(kind, protocol, ips) == [kind |-> kind, protocol |-> protocol, ips |-> ips]
InputList == << Ask("mtr", "IPV4", <<pub6, priv4, pub4>>),
                Ask("ping", "IPV6", <<priv4, pub6>>),
                Ask("traceroute", "other", <<pub4>>),
                Ask("traceroute", "ANY", <<pub4, priv4>>),
                Ask("version", "ANY", <<>>) >>
MCInputs == {InputList[i] : i \in DOMAIN InputList}

\* The two tasks are interchangeable: every pair of different inputs, in one order.
\* The calls of a worker share nothing but the process, so one of them is a version.
MCInit ==
  /\ Init
  /\ \E i, j \in DOMAIN InputList :
       /\ i < j /\ input[t1] = InputList[i] /\ input[t2] = InputList[j]
       /\ program = "worker" => j = Len(InputList)

MCSpec == MCInit /\ [][Next]_vars /\ Fairness
=============================================================================
