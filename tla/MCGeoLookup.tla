----------------------------- MODULE MCGeoLookup -----------------------------
(* Tables of up to MaxLength of the networks of a space of four addresses,  *)
(* in order, a network that several ASes originate included.                *)
EXTENDS GeoLookup, FiniteSets

CONSTANT MaxLength

Networks == { [addr |-> a, size |-> s] : a \in 0 .. 3, s \in {1, 2, 4} }
Before(x, y) == x.addr < y.addr \/ (x.addr = y.addr /\ x.size >= y.size)
MCTables ==
  UNION { { [n \in 1 .. k |-> [addr |-> t[n].addr, size |-> t[n].size, asn |-> n]] :
              t \in { u \in [1 .. k -> { x \in Networks : x.addr % x.size = 0 }] :
                        \A n \in 1 .. k - 1 : Before(u[n], u[n + 1]) } } :
          k \in 0 .. MaxLength }
=============================================================================
