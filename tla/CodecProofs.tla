----------------------------- MODULE CodecProofs -----------------------------
(***************************************************************************)
(* Theorems about Codec, for every partial object a program builds a       *)
(* message from, every addition of a later schema and every number of      *)
(* responses.                                                              *)
(*                                                                         *)
(* The encoder is a fold, and the decoder a loop with a stack of calls. In *)
(* between is a layout: the offsets between which the bytes hold each      *)
(* field of a message (Layout). The fold writes one (OutLaid, Encoded3);   *)
(* every call of decode is at a place between two fields of one and has    *)
(* taken what is before that place (Read); DecodeInv says so of the whole  *)
(* stack. Types nest three deep, so that a statement about a message and   *)
(* those nested in it is made for one level, for two and for three.        *)
(*                                                                         *)
(* Terms: a is the message encoded, b the one decoded, B the bytes, from   *)
(* and to the positions a message lies between, off its offsets.           *)
(***************************************************************************)
EXTENDS Codec, SequenceTheorems, TLAPS

Types == DOMAIN Schema

-----------------------------------------------------------------------------
\* The tables of the types: the numbers count the fields, the names are distinct,
\* and what is nested in a type is less deep.
Scalars == {"string", "float", "int32", "uint32", "bool", "Protocol", "TaskType"}
LeafTypes == {
  "PingRequest", "PingReply", "PingTimeout", "PingSummary", "HostLookupResult", "Error",
  "VersionRequest", "VersionResponse", "TracerouteRequest", "TracerouteReply",
  "MtrRequest", "MtrHostLine", "MtrTransmitLine", "MtrPingLine", "MtrDnsLine",
  "AgentRegisterRequest", "AgentRegisterResponse", "Empty"}
InnerTypes == {"PingResponse", "TracerouteResponse", "MtrResponse"}
OuterTypes == {"TaskRequest", "TaskResponse"}
\* A type that decode may be in, i calls deep.
AtLevel(i, t) ==
  /\ i \in 1 .. 3 /\ t \in Types
  /\ i = 2 => t \in LeafTypes \cup InnerTypes
  /\ i = 3 => t \in LeafTypes

Count(t) == Len(Schema[t])
Table(t) ==
  /\ Count(t) \in Nat /\ DOMAIN Schema[t] = 1 .. Count(t)
  /\ \A i \in DOMAIN Schema[t] :
       /\ Schema[t][i] = F(i, Schema[t][i].name, Schema[t][i].kind)
       /\ Schema[t][i].kind \in Scalars \cup
            IF t \in OuterTypes THEN LeafTypes \cup InnerTypes
            ELSE IF t \in InnerTypes THEN LeafTypes ELSE {}
  /\ \A i, j \in DOMAIN Schema[t] : Schema[t][i].name = Schema[t][j].name => i = j

\* Every type is of one of the three depths, and no type is called like a scalar.
LEMMA TypesOfSchema ==
  /\ Types = LeafTypes \cup InnerTypes \cup OuterTypes
  /\ Scalars \cap Types = {}
BY DEF Types, Schema, LeafTypes, InnerTypes, OuterTypes, Scalars

\* The schema is as Table says, type by type.
LEMMA Tables == ASSUME NEW t \in Types PROVE Table(t)
<1>1. CASE t = "PingRequest"
  <2>1. Schema[t] = PingRequest
    BY <1>1 DEF Schema
  <2> QED
    BY <1>1, <2>1 DEF Table, Count, PingRequest, F, Scalars, LeafTypes, InnerTypes, OuterTypes
<1>2. CASE t = "PingResponse"
  <2>1. Schema[t] = PingResponse
    BY <1>2 DEF Schema
  <2> QED
    BY <1>2, <2>1 DEF Table, Count, PingResponse, F, Scalars, LeafTypes, InnerTypes, OuterTypes
<1>3. CASE t = "PingReply"
  <2>1. Schema[t] = PingReply
    BY <1>3 DEF Schema
  <2> QED
    BY <1>3, <2>1 DEF Table, Count, PingReply, F, Scalars, LeafTypes, InnerTypes, OuterTypes
<1>4. CASE t = "PingTimeout"
  <2>1. Schema[t] = PingTimeout
    BY <1>4 DEF Schema
  <2> QED
    BY <1>4, <2>1 DEF Table, Count, PingTimeout, F, Scalars, LeafTypes, InnerTypes, OuterTypes
<1>5. CASE t = "PingSummary"
  <2>1. Schema[t] = PingSummary
    BY <1>5 DEF Schema
  <2> QED
    BY <1>5, <2>1 DEF Table, Count, PingSummary, F, Scalars, LeafTypes, InnerTypes, OuterTypes
<1>6. CASE t = "HostLookupResult"
  <2>1. Schema[t] = HostLookupResult
    BY <1>6 DEF Schema
  <2> QED
    BY <1>6, <2>1 DEF Table, Count, HostLookupResult, F, Scalars, LeafTypes, InnerTypes, OuterTypes
<1>7. CASE t = "Error"
  <2>1. Schema[t] = Error
    BY <1>7 DEF Schema
  <2> QED
    BY <1>7, <2>1 DEF Table, Count, Error, F, Scalars, LeafTypes, InnerTypes, OuterTypes
<1>8. CASE t = "VersionRequest"
  <2>1. Schema[t] = VersionRequest
    BY <1>8 DEF Schema
  <2> QED
    BY <1>8, <2>1 DEF Table, Count, VersionRequest, F, Scalars, LeafTypes, InnerTypes, OuterTypes
<1>9. CASE t = "VersionResponse"
  <2>1. Schema[t] = VersionResponse
    BY <1>9 DEF Schema
  <2> QED
    BY <1>9, <2>1 DEF Table, Count, VersionResponse, F, Scalars, LeafTypes, InnerTypes, OuterTypes
<1>10. CASE t = "TracerouteRequest"
  <2>1. Schema[t] = TracerouteRequest
    BY <1>10 DEF Schema
  <2> QED
    BY <1>10, <2>1 DEF Table, Count, TracerouteRequest, F, Scalars, LeafTypes, InnerTypes, OuterTypes
<1>11. CASE t = "TracerouteResponse"
  <2>1. Schema[t] = TracerouteResponse
    BY <1>11 DEF Schema
  <2> QED
    BY <1>11, <2>1 DEF Table, Count, TracerouteResponse, F, Scalars, LeafTypes, InnerTypes, OuterTypes
<1>12. CASE t = "TracerouteReply"
  <2>1. Schema[t] = TracerouteReply
    BY <1>12 DEF Schema
  <2> QED
    BY <1>12, <2>1 DEF Table, Count, TracerouteReply, F, Scalars, LeafTypes, InnerTypes, OuterTypes
<1>13. CASE t = "MtrRequest"
  <2>1. Schema[t] = MtrRequest
    BY <1>13 DEF Schema
  <2> QED
    BY <1>13, <2>1 DEF Table, Count, MtrRequest, F, Scalars, LeafTypes, InnerTypes, OuterTypes
<1>14. CASE t = "MtrResponse"
  <2>1. Schema[t] = MtrResponse
    BY <1>14 DEF Schema
  <2> QED
    BY <1>14, <2>1 DEF Table, Count, MtrResponse, F, Scalars, LeafTypes, InnerTypes, OuterTypes
<1>15. CASE t = "MtrHostLine"
  <2>1. Schema[t] = MtrHostLine
    BY <1>15 DEF Schema
  <2> QED
    BY <1>15, <2>1 DEF Table, Count, MtrHostLine, F, Scalars, LeafTypes, InnerTypes, OuterTypes
<1>16. CASE t = "MtrTransmitLine"
  <2>1. Schema[t] = MtrTransmitLine
    BY <1>16 DEF Schema
  <2> QED
    BY <1>16, <2>1 DEF Table, Count, MtrTransmitLine, F, Scalars, LeafTypes, InnerTypes, OuterTypes
<1>17. CASE t = "MtrPingLine"
  <2>1. Schema[t] = MtrPingLine
    BY <1>17 DEF Schema
  <2> QED
    BY <1>17, <2>1 DEF Table, Count, MtrPingLine, F, Scalars, LeafTypes, InnerTypes, OuterTypes
<1>18. CASE t = "MtrDnsLine"
  <2>1. Schema[t] = MtrDnsLine
    BY <1>18 DEF Schema
  <2> QED
    BY <1>18, <2>1 DEF Table, Count, MtrDnsLine, F, Scalars, LeafTypes, InnerTypes, OuterTypes
<1>19. CASE t = "AgentRegisterRequest"
  <2>1. Schema[t] = AgentRegisterRequest
    BY <1>19 DEF Schema
  <2> QED
    BY <1>19, <2>1 DEF Table, Count, AgentRegisterRequest, F, Scalars, LeafTypes, InnerTypes, OuterTypes
<1>20. CASE t = "AgentRegisterResponse"
  <2>1. Schema[t] = AgentRegisterResponse
    BY <1>20 DEF Schema
  <2> QED
    BY <1>20, <2>1 DEF Table, Count, AgentRegisterResponse, F, Scalars, LeafTypes, InnerTypes, OuterTypes
<1>21. CASE t = "TaskRequest"
  <2>1. Schema[t] = TaskRequest
    BY <1>21 DEF Schema
  <2> QED
    BY <1>21, <2>1 DEF Table, Count, TaskRequest, F, Scalars, LeafTypes, InnerTypes, OuterTypes
<1>22. CASE t = "TaskResponse"
  <2>1. Schema[t] = TaskResponse
    BY <1>22 DEF Schema
  <2> QED
    BY <1>22, <2>1 DEF Table, Count, TaskResponse, F, Scalars, LeafTypes, InnerTypes, OuterTypes
<1>23. CASE t = "Empty"
  <2>1. Schema[t] = Empty
    BY <1>23 DEF Schema
  <2> QED
    BY <1>23, <2>1 DEF Table, Count, Empty, F, Scalars, LeafTypes, InnerTypes, OuterTypes
<1> QED
  BY <1>1, <1>2, <1>3, <1>4, <1>5, <1>6, <1>7, <1>8, <1>9, <1>10, <1>11, <1>12, <1>13, <1>14,
     <1>15, <1>16, <1>17, <1>18, <1>19, <1>20, <1>21, <1>22, <1>23, TypesOfSchema
  DEF LeafTypes, InnerTypes, OuterTypes

-----------------------------------------------------------------------------
\* Sequences of anything.
IsSeq(s) == s \in Seq(ToSet(s))

\* A sequence over some set is one over its own elements.
LEMMA SeqTyped ==
  ASSUME NEW S, NEW s \in Seq(S)
  PROVE  IsSeq(s) /\ Len(s) \in Nat /\ DOMAIN s = 1 .. Len(s)
<1>1. Len(s) \in Nat /\ DOMAIN s = 1 .. Len(s) /\ s = [i \in 1 .. Len(s) |-> s[i]]
  BY LenProperties
<1>2. \A i \in 1 .. Len(s) : s[i] \in ToSet(s)
  BY <1>1 DEF ToSet
<1>3. s \in [1 .. Len(s) -> ToSet(s)]
  BY <1>1, <1>2
<1>4. Seq(ToSet(s)) = UNION {[1 .. n -> ToSet(s)] : n \in Nat}
  BY SeqDef, Zenon
<1>5. s \in UNION {[1 .. n -> ToSet(s)] : n \in Nat}
  BY <1>1, <1>3, Zenon
<1>6. IsSeq(s)
  BY <1>4, <1>5, Zenon DEF IsSeq
<1> QED
  BY <1>1, <1>6

LEMMA SeqLen ==
  ASSUME NEW s, IsSeq(s)
  PROVE  Len(s) \in Nat /\ DOMAIN s = 1 .. Len(s)
BY LenProperties DEF IsSeq

LEMMA SeqEmpty == IsSeq(<<>>) /\ Len(<<>>) = 0
BY EmptySeq DEF IsSeq

LEMMA SeqOne == ASSUME NEW e PROVE IsSeq(<<e>>) /\ Len(<<e>>) = 1 /\ <<e>>[1] = e
<1>1. <<e>> \in Seq({e})
  OBVIOUS
<1> QED
  BY <1>1, SeqTyped

LEMMA SeqConcat ==
  ASSUME NEW s, NEW t, IsSeq(s), IsSeq(t)
  PROVE  /\ IsSeq(s \o t) /\ Len(s \o t) = Len(s) + Len(t)
         /\ \A i \in 1 .. Len(s) : (s \o t)[i] = s[i]
         /\ \A i \in 1 .. Len(t) : (s \o t)[Len(s) + i] = t[i]
<1> DEFINE S == ToSet(s) \cup ToSet(t)
<1>1. s \in Seq(S) /\ t \in Seq(S)
  BY SeqMonotonic DEF IsSeq
<1> HIDE DEF S
<1>2. s \o t \in Seq(S) /\ Len(s \o t) = Len(s) + Len(t)
      /\ \A i \in 1 .. Len(s) + Len(t) : (s \o t)[i] = IF i <= Len(s) THEN s[i] ELSE t[i - Len(s)]
  BY <1>1, ConcatProperties
<1>3. IsSeq(s \o t) /\ Len(s) \in Nat /\ Len(t) \in Nat
  BY <1>2, SeqTyped, SeqLen
<1> QED
  BY <1>2, <1>3

LEMMA SeqAppend ==
  ASSUME NEW s, NEW e, IsSeq(s)
  PROVE  /\ IsSeq(Append(s, e)) /\ Len(Append(s, e)) = Len(s) + 1
         /\ \A i \in 1 .. Len(s) : Append(s, e)[i] = s[i]
         /\ Append(s, e)[Len(s) + 1] = e
<1> DEFINE S == ToSet(s) \cup {e}
<1>1. s \in Seq(S) /\ e \in S
  BY SeqMonotonic DEF IsSeq
<1> HIDE DEF S
<1>2. Append(s, e) \in Seq(S)
  BY <1>1, AppendProperties
<1>3. IsSeq(Append(s, e))
  BY <1>2, SeqTyped
<1> QED
  BY <1>1, <1>3, AppendProperties

LEMMA SeqFront ==
  ASSUME NEW s, IsSeq(s), s # <<>>
  PROVE  /\ Len(s) >= 1 /\ IsSeq(Front(s)) /\ Len(Front(s)) = Len(s) - 1
         /\ \A i \in 1 .. Len(s) - 1 : Front(s)[i] = s[i]
<1>1. s \in Seq(ToSet(s)) /\ Len(s) \in Nat /\ Len(s) # 0
  BY SeqLen, EmptySeq DEF IsSeq
<1>2. \A i \in 1 .. Len(s) - 1 : s[i] \in ToSet(s)
  BY <1>1, ElementOfSeq
<1>3. /\ Front(s) \in Seq(ToSet(s))
      /\ Len(Front(s)) = IF 1 <= Len(s) - 1 THEN Len(s) - 1 - 1 + 1 ELSE 0
      /\ \A i \in 1 .. Len(s) - 1 - 1 + 1 : Front(s)[i] = s[1 + i - 1]
  <2> DEFINE n == Len(s) - 1
  <2>1. n \in Int
    BY <1>1
  <2>2. \A i \in 1 .. n : s[i] \in ToSet(s)
    BY <1>2
  <2> HIDE DEF n
  <2>3. /\ SubSeq(s, 1, n) \in Seq(ToSet(s))
        /\ Len(SubSeq(s, 1, n)) = IF 1 <= n THEN n - 1 + 1 ELSE 0
        /\ \A i \in 1 .. n - 1 + 1 : SubSeq(s, 1, n)[i] = s[1 + i - 1]
    BY <2>1, <2>2, SubSeqProperties
  <2> QED
    BY <2>3 DEF Front, n
<1>4. IsSeq(Front(s))
  BY <1>3, SeqTyped
<1>5. ASSUME NEW i \in 1 .. Len(s) - 1 PROVE Front(s)[i] = s[i]
  <2>1. i \in 1 .. Len(s) - 1 - 1 + 1 /\ 1 + i - 1 = i
    BY <1>1
  <2>2. Front(s)[i] = s[1 + i - 1]
    BY <1>3, <2>1
  <2> QED
    BY <2>1, <2>2
<1>6. Len(s) >= 1 /\ Len(Front(s)) = Len(s) - 1
  <2>1. Len(s) \in Nat /\ Len(s) # 0
    BY <1>1
  <2>2. Len(Front(s)) = IF 1 <= Len(s) - 1 THEN Len(s) - 1 - 1 + 1 ELSE 0
    BY <1>3
  <2> HIDE <1>3
  <2> QED
    BY <2>1, <2>2
<1> QED
  BY <1>4, <1>5, <1>6

LEMMA SeqReplace ==
  ASSUME NEW s, NEW k \in DOMAIN s, NEW x, IsSeq(s)
  PROVE  /\ IsSeq([s EXCEPT ![k] = x]) /\ Len([s EXCEPT ![k] = x]) = Len(s)
         /\ \A i \in 1 .. Len(s) : [s EXCEPT ![k] = x][i] = IF i = k THEN x ELSE s[i]
<1> DEFINE S == ToSet(s) \cup {x}
<1>1. s \in Seq(S) /\ x \in S
  BY SeqMonotonic DEF IsSeq
<1> HIDE DEF S
<1>2. [s EXCEPT ![k] = x] \in Seq(S) /\ Len([s EXCEPT ![k] = x]) = Len(s)
  BY <1>1, ExceptSeq
<1> QED
  BY <1>1, <1>2, SeqTyped

-----------------------------------------------------------------------------
\* The theorems about folds, for what the writer appends.
Writing == INSTANCE LeftFold WITH Op <- Write

\* The cells of s are in B behind position p.
At(B, p, s) == \A i \in 1 .. Len(s) : B[p + i] = s[i]
Prefix(s, u) == Len(s) <= Len(u) /\ \A i \in 1 .. Len(s) : u[i] = s[i]

\* The results of a writer that appends the parts us to base.
Stages(g, base, us, n) ==
  /\ g[0] = base
  /\ \A k \in 1 .. n : g[k] = g[k - 1] \o us[k]

\* Every stage of the writer is a sequence: the first that is not would be an
\* append to one that is.
LEMMA StagesAreSeqs ==
  ASSUME NEW n \in Nat, NEW base, NEW us, NEW g, Stages(g, base, us, n),
         IsSeq(base), \A k \in 1 .. n : IsSeq(us[k])
  PROVE  \A k \in 0 .. n : IsSeq(g[k])
<1> DEFINE Bad == {k \in 0 .. n : ~IsSeq(g[k])}
<1> SUFFICES ASSUME Bad # {} PROVE FALSE
  OBVIOUS
<1>1. Bad \in SUBSET Nat
  OBVIOUS
<1>2. PICK k \in Bad : \A j \in Bad : k <= j
  BY <1>1, Writing!LeastNumber
<1>3. k # 0
  BY <1>2 DEF Stages
<1>4. k \in 1 .. n /\ k - 1 \in 0 .. n /\ ~ (k <= k - 1)
  BY <1>2, <1>3
<1>5. IsSeq(g[k - 1]) /\ IsSeq(us[k])
  BY <1>2, <1>4
<1>6. g[k] = g[k - 1] \o us[k]
  BY <1>4 DEF Stages
<1>7. IsSeq(g[k - 1] \o us[k])
  BY <1>5, SeqConcat
<1> QED
  BY <1>2, <1>6, <1>7

LEMMA PrefixOfPrefix ==
  ASSUME NEW s, NEW t, NEW u, Len(s) \in Nat, Len(t) \in Nat, Len(u) \in Nat,
         Prefix(s, t), Prefix(t, u)
  PROVE  Prefix(s, u)
<1>1. Len(s) <= Len(t) /\ Len(t) <= Len(u)
  BY DEF Prefix
<1>2. ASSUME NEW i \in 1 .. Len(s) PROVE u[i] = s[i]
  <2>1. i \in 1 .. Len(t)
    BY <1>1
  <2> QED
    BY <2>1 DEF Prefix
<1> QED
  BY <1>1, <1>2 DEF Prefix

LEMMA PrefixOfConcat ==
  ASSUME NEW s, NEW t, IsSeq(s), IsSeq(t)
  PROVE  Prefix(s, s \o t)
<1>1. Len(s) \in Nat /\ Len(t) \in Nat
  BY SeqLen
<1> QED
  BY <1>1, SeqConcat DEF Prefix

\* A stage of the writer is a prefix of every later one.
LEMMA StagesArePrefixes ==
  ASSUME NEW n \in Nat, NEW base, NEW us, NEW g, Stages(g, base, us, n),
         IsSeq(base), \A k \in 1 .. n : IsSeq(us[k]), NEW j \in 0 .. n
  PROVE  \A k \in j .. n : Prefix(g[j], g[k])
<1> DEFINE Bad == {k \in j .. n : ~Prefix(g[j], g[k])}
<1> SUFFICES ASSUME Bad # {} PROVE FALSE
  OBVIOUS
<1>1. Bad \in SUBSET Nat
  OBVIOUS
<1>2. PICK k \in Bad : \A i \in Bad : k <= i
  BY <1>1, Writing!LeastNumber
<1>3. IsSeq(g[j]) /\ Len(g[j]) \in Nat
  BY StagesAreSeqs, SeqLen
<1>4. k # j
  BY <1>2, <1>3 DEF Prefix
<1>5. k \in 1 .. n /\ k - 1 \in j .. n /\ k - 1 \in 0 .. n /\ ~ (k <= k - 1)
  BY <1>2, <1>4
<1>6. Prefix(g[j], g[k - 1])
  BY <1>2, <1>5
<1>7. g[k] = g[k - 1] \o us[k] /\ IsSeq(g[k - 1]) /\ IsSeq(us[k])
  BY <1>5, StagesAreSeqs DEF Stages
<1>8. Prefix(g[k - 1], g[k]) /\ IsSeq(g[k])
  <2>1. Prefix(g[k - 1], g[k - 1] \o us[k]) /\ IsSeq(g[k - 1] \o us[k])
    BY <1>7, PrefixOfConcat, SeqConcat
  <2> QED
    BY <1>7, <2>1
<1>9. Prefix(g[j], g[k])
  BY <1>3, <1>6, <1>7, <1>8, SeqLen, PrefixOfPrefix
<1> QED
  BY <1>2, <1>9

\* Where the writer's output is, its parts follow each other.
LEMMA PartsFollow ==
  ASSUME NEW n \in Nat, NEW base, NEW us, NEW g, Stages(g, base, us, n),
         IsSeq(base), \A k \in 1 .. n : IsSeq(us[k]),
         NEW B, NEW p \in Nat, At(B, p, g[n])
  PROVE  /\ At(B, p, base)
         /\ \A k \in 1 .. n : /\ Len(g[k - 1]) \in Nat /\ Len(us[k]) \in Nat
                              /\ Len(g[k]) = Len(g[k - 1]) + Len(us[k])
                              /\ At(B, p + Len(g[k - 1]), us[k])
<1>1. ASSUME NEW k \in 0 .. n PROVE At(B, p, g[k]) /\ IsSeq(g[k])
  <2>1. Prefix(g[k], g[n]) /\ IsSeq(g[k]) /\ IsSeq(g[n])
    BY StagesArePrefixes, StagesAreSeqs
  <2>2. Len(g[k]) \in Nat /\ Len(g[n]) \in Nat
    BY <2>1, SeqLen
  <2>3. At(B, p, g[k])
    BY <2>1, <2>2 DEF At, Prefix
  <2> QED
    BY <2>1, <2>3
<1>2. At(B, p, base)
  BY <1>1 DEF Stages
<1>3. ASSUME NEW k \in 1 .. n
      PROVE  /\ Len(g[k - 1]) \in Nat /\ Len(us[k]) \in Nat
             /\ Len(g[k]) = Len(g[k - 1]) + Len(us[k])
             /\ At(B, p + Len(g[k - 1]), us[k])
  <2>1. k \in 0 .. n /\ k - 1 \in 0 .. n
    OBVIOUS
  <2>2. PICK s : s = g[k - 1]
    OBVIOUS
  <2>3. PICK u : u = us[k]
    OBVIOUS
  <2>4. IsSeq(s) /\ IsSeq(u) /\ g[k] = s \o u /\ At(B, p, s \o u)
    BY <1>1, <2>1, <2>2, <2>3 DEF Stages
  <2>5. /\ Len(s) \in Nat /\ Len(u) \in Nat /\ Len(s \o u) = Len(s) + Len(u)
        /\ \A i \in 1 .. Len(u) : (s \o u)[Len(s) + i] = u[i]
    BY <2>4, SeqLen, SeqConcat
  <2>6. ASSUME NEW i \in 1 .. Len(u) PROVE B[(p + Len(s)) + i] = u[i]
    <3>1. Len(s) + i \in 1 .. Len(s \o u) /\ p + (Len(s) + i) = (p + Len(s)) + i
      BY <2>5
    <3>2. B[p + (Len(s) + i)] = (s \o u)[Len(s) + i]
      BY <2>4, <3>1 DEF At
    <3> QED
      BY <2>5, <3>1, <3>2
  <2>7. At(B, p + Len(s), u)
    BY <2>6 DEF At
  <2> QED
    BY <2>2, <2>3, <2>4, <2>5, <2>7
<1> QED
  BY <1>2, <1>3

-----------------------------------------------------------------------------
\* The cells behind p up to q are field f with value v; what a nested message
\* holds is said below.
Laid(B, f, v, p, q) ==
  IF v = Default(f) THEN q = p
  ELSE /\ p < q
       /\ B[p + 1] = Cell(Tag(f), IF Nested(f) THEN 0 ELSE Single(f, v), q - p - 1)
       /\ ~Nested(f) => q = p + 1

\* Wherever s is, it is field f with value v, and has c as its content.
FieldCells(s, f, v, c) ==
  /\ IsSeq(s)
  /\ \A B : \A p \in Nat : At(B, p, s) =>
       /\ Laid(B, f, v, p, p + Len(s))
       /\ Nested(f) /\ v # Default(f) => At(B, p + 1, c) /\ p + Len(s) = p + 1 + Len(c)

\* encodeField writes the cells of the field.
LEMMA FieldLaid ==
  ASSUME NEW f, NEW v, NEW c, IsSeq(c), NEW s, s = encodeField(f, v, c)
  PROVE  FieldCells(s, f, v, c)
<1> USE DEF FieldCells
<1>1. Len(c) \in Nat
  BY SeqLen
<1>2. CASE v = Default(f)
  BY <1>2, SeqEmpty DEF encodeField, Laid
<1>3. CASE v # Default(f) /\ ~Nested(f)
  <2> DEFINE e == Cell(Tag(f), Single(f, v), 0)
  <2>1. s = <<e>>
    BY <1>3 DEF encodeField
  <2>2. e = Cell(Tag(f), IF Nested(f) THEN 0 ELSE Single(f, v), 0)
    BY <1>3
  <2> HIDE DEF e
  <2>3. IsSeq(<<e>>) /\ Len(<<e>>) = 1 /\ <<e>>[1] = e
    BY SeqOne
  <2>4. ASSUME NEW B, NEW p \in Nat, At(B, p, <<e>>) PROVE Laid(B, f, v, p, p + 1)
    <3>1. B[p + 1] = e /\ (p + 1) - p - 1 = 0 /\ p < p + 1
      BY <2>3, <2>4 DEF At
    <3> QED
      BY <1>3, <2>2, <3>1 DEF Laid
  <2> QED
    BY <1>3, <2>1, <2>3, <2>4
<1>4. CASE v # Default(f) /\ Nested(f)
  <2> DEFINE e == Cell(Tag(f), 0, Len(c))
  <2>1. s = <<e>> \o c
    BY <1>4 DEF encodeField
  <2>2. e = Cell(Tag(f), IF Nested(f) THEN 0 ELSE Single(f, v), Len(c))
    BY <1>4
  <2> HIDE DEF e
  <2>3. IsSeq(<<e>>) /\ Len(<<e>>) = 1 /\ <<e>>[1] = e
    BY SeqOne
  <2>4. /\ IsSeq(<<e>> \o c) /\ Len(<<e>> \o c) = 1 + Len(c)
        /\ (<<e>> \o c)[1] = e /\ \A i \in 1 .. Len(c) : (<<e>> \o c)[1 + i] = c[i]
    BY <2>3, SeqConcat
  <2>5. ASSUME NEW B, NEW p \in Nat, At(B, p, <<e>> \o c)
        PROVE  /\ Laid(B, f, v, p, p + (1 + Len(c))) /\ At(B, p + 1, c)
               /\ p + (1 + Len(c)) = p + 1 + Len(c)
    <3>1. \A i \in 1 .. 1 + Len(c) : B[p + i] = (<<e>> \o c)[i]
      BY <2>4, <2>5 DEF At
    <3>2. B[p + 1] = e /\ (p + (1 + Len(c))) - p - 1 = Len(c) /\ p < p + (1 + Len(c))
      BY <1>1, <2>4, <3>1
    <3>3. ASSUME NEW i \in 1 .. Len(c) PROVE B[(p + 1) + i] = c[i]
      <4>1. 1 + i \in 1 .. 1 + Len(c) /\ p + (1 + i) = (p + 1) + i
        BY <1>1
      <4> QED
        BY <2>4, <3>1, <4>1
    <3> QED
      BY <1>1, <1>4, <2>2, <3>2, <3>3 DEF Laid, At
  <2> QED
    BY <1>4, <2>1, <2>4, <2>5
<1> QED
  BY <1>2, <1>3, <1>4

\* The cells of B behind from up to to are an addition to type t.
Ignored(t, B, from, to) ==
  \A p \in from + 1 .. to :
    /\ B[p].len \in Nat /\ p + B[p].len <= to
    /\ \A q \in p + 1 .. p + B[p].len : q + B[q].len <= p + B[p].len
    /\ (\A q \in from + 1 .. p - 1 : q + B[q].len < p) =>
         \A f \in Fields(t) : B[p].tag # Tag(f)

\* The cells of B behind from up to to encode a, of type t: additions, and field k
\* between off[k - 1] and off[k].
Layout(t, a, B, from, to, off) ==
  /\ from \in Nat /\ \A k \in 0 .. Count(t) : off[k] \in Nat
  /\ from <= off[0] /\ off[Count(t)] = to
  /\ Ignored(t, B, from, off[0])
  /\ \A k \in 1 .. Count(t) :
       Laid(B, Schema[t][k], a[Schema[t][k].name], off[k - 1], off[k])

\* A field that holds a message.
Holds(t, a, k) == Nested(Schema[t][k]) /\ a[Schema[t][k].name] # Default(Schema[t][k])

Additional(t, cells) == IsSeq(cells) /\ WellNested(cells) /\ Unknown(t, cells)

\* Additions are ignored wherever they are put.
LEMMA IgnoredThere ==
  ASSUME NEW t, NEW cells, Additional(t, cells), NEW B, NEW p \in Nat, At(B, p, cells)
  PROVE  Ignored(t, B, p, p + Len(cells))
<1>1. Len(cells) \in Nat /\ DOMAIN cells = 1 .. Len(cells)
  BY SeqLen DEF Additional
<1>2. \A i \in 1 .. Len(cells) : B[p + i] = cells[i]
  BY DEF At
<1> SUFFICES ASSUME NEW x \in p + 1 .. p + Len(cells)
             PROVE  /\ B[x].len \in Nat /\ x + B[x].len <= p + Len(cells)
                    /\ \A q \in x + 1 .. x + B[x].len : q + B[q].len <= x + B[x].len
                    /\ (\A q \in p + 1 .. x - 1 : q + B[q].len < x) =>
                         \A f \in Fields(t) : B[x].tag # Tag(f)
  BY DEF Ignored
<1>3. PICK i \in 1 .. Len(cells) : x = p + i
  <2>1. x - p \in 1 .. Len(cells) /\ x = p + (x - p)
    BY <1>1
  <2> QED
    BY <2>1
<1>4. B[x] = cells[i] /\ x \in Nat /\ i \in Nat
  BY <1>1, <1>2, <1>3
<1>5. /\ cells[i].len \in Nat /\ i + cells[i].len <= Len(cells)
      /\ \A q \in i + 1 .. i + cells[i].len : q + cells[q].len <= i + cells[i].len
  BY <1>1 DEF Additional, WellNested
<1>6. ASSUME NEW q \in x + 1 .. x + B[x].len PROVE q + B[q].len <= x + B[x].len
  <2>1. q - p \in i + 1 .. i + cells[i].len /\ q - p \in 1 .. Len(cells) /\ q = p + (q - p)
    <3>1. PICK l : l = cells[i].len
      OBVIOUS
    <3>2. q \in x + 1 .. x + l /\ l \in Nat /\ i + l <= Len(cells) /\ x = p + i
      BY <1>3, <1>4, <1>5, <3>1
    <3>3. q - p \in i + 1 .. i + l /\ q - p \in 1 .. Len(cells) /\ q = p + (q - p)
      BY <1>1, <1>4, <3>2
    <3> QED
      BY <3>1, <3>3
  <2>2. B[q] = cells[q - p]
    BY <1>2, <2>1
  <2>3. (q - p) + cells[q - p].len <= i + cells[i].len
    BY <1>5, <2>1
  <2>4. cells[q - p].len \in Nat
    BY <1>1, <2>1 DEF Additional, WellNested
  <2> QED
    BY <1>3, <1>4, <1>5, <2>1, <2>2, <2>3, <2>4
<1>7. ASSUME \A q \in p + 1 .. x - 1 : q + B[q].len < x
      PROVE  \A f \in Fields(t) : B[x].tag # Tag(f)
  <2>1. ASSUME NEW j \in 1 .. i - 1 PROVE j + cells[j].len < i
    <3>1. p + j \in p + 1 .. x - 1 /\ j \in 1 .. Len(cells)
      BY <1>1, <1>3, <1>4
    <3>2. B[p + j] = cells[j] /\ (p + j) + B[p + j].len < x
      BY <1>2, <1>7, <3>1
    <3>3. cells[j].len \in Nat
      BY <1>1, <3>1 DEF Additional, WellNested
    <3> QED
      BY <1>3, <1>4, <3>1, <3>2, <3>3
  <2> QED
    BY <1>1, <1>4, <2>1 DEF Additional, Unknown
<1> QED
  BY <1>3, <1>4, <1>5, <1>6, <1>7

\* What a type's encode writes, c[k] being the content of the message in field k.
Out(t, m, new, c) ==
  FoldLeft(Write, IF new.type = t THEN new.bytes ELSE <<>>,
           [i \in DOMAIN Schema[t] |-> encodeField(Schema[t][i], m[Schema[t][i].name], c[i])])

\* Wherever s is, it is m, and has the contents c.
OutThere(s, t, m, c) ==
  /\ IsSeq(s)
  /\ \A B : \A from \in Nat : At(B, from, s) =>
       \E off : /\ Layout(t, m, B, from, from + Len(s), off)
                /\ \A k \in 1 .. Count(t) : Holds(t, m, k) =>
                     At(B, off[k - 1] + 1, c[k]) /\ off[k] = off[k - 1] + 1 + Len(c[k])

\* What a type's encode writes is laid out field by field, wherever it is put.
LEMMA OutLaid ==
  ASSUME NEW t \in Types, NEW m, NEW new, new.type = t => Additional(t, new.bytes),
         NEW c, \A k \in 1 .. Count(t) : IsSeq(c[k])
  PROVE  OutThere(Out(t, m, new, c), t, m, c)
<1> DEFINE n == Count(t)
           base == IF new.type = t THEN new.bytes ELSE <<>>
           us == [i \in DOMAIN Schema[t] |-> encodeField(Schema[t][i], m[Schema[t][i].name], c[i])]
<1>1. n \in Nat /\ DOMAIN Schema[t] = 1 .. n /\ DOMAIN us = 1 .. n
  BY Tables DEF Table
<1>2. Additional(t, base)
  <2>1. Additional(t, <<>>)
    BY SeqEmpty DEF Additional, WellNested, Unknown
  <2> QED
    BY <2>1
<1>3. ASSUME NEW k \in 1 .. n
      PROVE  FieldCells(us[k], Schema[t][k], m[Schema[t][k].name], c[k])
  <2>1. us[k] = encodeField(Schema[t][k], m[Schema[t][k].name], c[k]) /\ IsSeq(c[k])
    BY <1>1
  <2> HIDE DEF us
  <2> QED
    BY <2>1, FieldLaid
<1>4. Out(t, m, new, c) = Writing!Folded(base, us)
  BY DEF Out, Writing!Folded, Writing!FoldLeft, Writing!MapThenFoldSet, Writing!Max,
         FoldLeft, MapThenFoldSet, Max
<1> HIDE DEF us, base, n
<1>5. PICK g : Writing!Steps(g, base, us, n)
  BY <1>1, Writing!FoldSteps
<1>6. Stages(g, base, us, n) /\ Out(t, m, new, c) = g[n]
  BY <1>4, <1>5 DEF Writing!Steps, Stages, Write
<1>7. IsSeq(base) /\ \A k \in 1 .. n : IsSeq(us[k])
  BY <1>2, <1>3 DEF Additional, FieldCells
<1>8. \A k \in 0 .. n : IsSeq(g[k])
  BY <1>1, <1>6, <1>7, StagesAreSeqs
<1>9. ASSUME NEW B, NEW from \in Nat, At(B, from, g[n])
      PROVE  \E off : /\ Layout(t, m, B, from, from + Len(g[n]), off)
                      /\ \A k \in 1 .. n : Holds(t, m, k) =>
                           /\ At(B, off[k - 1] + 1, c[k])
                           /\ off[k] = off[k - 1] + 1 + Len(c[k])
  <2> DEFINE off == [k \in 0 .. n |-> from + Len(g[k])]
  <2>1. /\ At(B, from, base)
        /\ \A k \in 1 .. n : /\ Len(g[k - 1]) \in Nat /\ Len(us[k]) \in Nat
                             /\ Len(g[k]) = Len(g[k - 1]) + Len(us[k])
                             /\ At(B, from + Len(g[k - 1]), us[k])
    BY <1>1, <1>6, <1>7, <1>9, PartsFollow
  <2>2. ASSUME NEW k \in 1 .. n
        PROVE  /\ Laid(B, Schema[t][k], m[Schema[t][k].name], off[k - 1], off[k])
               /\ Holds(t, m, k) => /\ At(B, off[k - 1] + 1, c[k])
                                    /\ off[k] = off[k - 1] + 1 + Len(c[k])
    <3>1. k \in 0 .. n /\ k - 1 \in 0 .. n
      BY <1>1
    <3>2. off[k - 1] = from + Len(g[k - 1]) /\ off[k] = from + Len(g[k])
      BY <3>1
    <3> HIDE DEF off
    <3>3. off[k] = off[k - 1] + Len(us[k]) /\ off[k - 1] \in Nat /\ At(B, off[k - 1], us[k])
      <4>1. PICK a \in Nat : a = Len(g[k - 1])
        BY <2>1
      <4>2. PICK b \in Nat : b = Len(us[k])
        BY <2>1
      <4>3. Len(g[k]) = a + b /\ At(B, from + a, us[k])
        BY <2>1, <4>1, <4>2
      <4>4. off[k - 1] = from + a /\ off[k] = from + (a + b)
        BY <3>2, <4>1, <4>3
      <4>5. from + (a + b) = (from + a) + b /\ from + a \in Nat
        OBVIOUS
      <4>6. off[k] = off[k - 1] + Len(us[k])
        BY <4>2, <4>4, <4>5
      <4>7. off[k - 1] \in Nat
        BY <4>4, <4>5
      <4>8. At(B, off[k - 1], us[k])
        BY <4>3, <4>4
      <4> QED
        BY <4>6, <4>7, <4>8
    <3> QED
      BY <1>3, <3>3 DEF Holds, FieldCells
  <2>3. \A k \in 0 .. n : Len(g[k]) \in Nat
    BY <1>8, SeqLen
  <2>4. off[0] = from + Len(base) /\ off[n] = from + Len(g[n]) /\ Len(base) \in Nat
    <3>1. 0 \in 0 .. n /\ n \in 0 .. n
      BY <1>1
    <3>2. off[0] = from + Len(g[0]) /\ off[n] = from + Len(g[n])
      BY <3>1
    <3> HIDE DEF off
    <3> QED
      BY <1>6, <1>7, <3>2, SeqLen DEF Stages
  <2>5. Ignored(t, B, from, off[0])
    BY <1>2, <2>1, <2>4, IgnoredThere
  <2>6. \A k \in 0 .. n : off[k] \in Nat
    BY <2>3
  <2> HIDE DEF off
  <2>7. Layout(t, m, B, from, from + Len(g[n]), off)
    BY <2>2, <2>4, <2>5, <2>6 DEF Layout, n
  <2> QED
    BY <2>2, <2>7
<1>10. IsSeq(g[n])
  BY <1>1, <1>8
<1> QED
  BY <1>6, <1>9, <1>10 DEF n, OutThere

-----------------------------------------------------------------------------
\* The cells of B behind from up to to encode a, of type t, down to one level, to
\* two and to three.
Kind(t, k)  == Schema[t][k].kind
Value(t, a, k) == a[Schema[t][k].name]

Written1(t, a, B, from, to) == \E off : Layout(t, a, B, from, to, off)
Written2(t, a, B, from, to) ==
  \E off : /\ Layout(t, a, B, from, to, off)
           /\ \A k \in 1 .. Count(t) : Holds(t, a, k) =>
                Written1(Kind(t, k), Value(t, a, k)[1], B, off[k - 1] + 1, off[k])
Written3(t, a, B, from, to) ==
  \E off : /\ Layout(t, a, B, from, to, off)
           /\ \A k \in 1 .. Count(t) : Holds(t, a, k) =>
                Written2(Kind(t, k), Value(t, a, k)[1], B, off[k - 1] + 1, off[k])

Peer(new) == \A t \in Types : new.type = t => Additional(t, new.bytes)

\* The contents of the messages in the fields of m.
Contents1(t, m, new) == [k \in DOMAIN Schema[t] |-> <<>>]
Contents2(t, m, new) ==
  [k \in DOMAIN Schema[t] |->
     IF Nested(Schema[t][k]) THEN encode1(Kind(t, k), Value(t, m, k)[1], new) ELSE <<>>]
Contents3(t, m, new) ==
  [k \in DOMAIN Schema[t] |->
     IF Nested(Schema[t][k]) THEN encode2(Kind(t, k), Value(t, m, k)[1], new) ELSE <<>>]

\* Each level of encode is Out, with the contents that the level below writes.
LEMMA EncodeIsOut ==
  ASSUME NEW t, NEW m, NEW new
  PROVE  /\ encode1(t, m, new) = Out(t, m, new, Contents1(t, m, new))
         /\ encode2(t, m, new) = Out(t, m, new, Contents2(t, m, new))
         /\ encode(t, m, new) = Out(t, m, new, Contents3(t, m, new))
<1>1. [i \in DOMAIN Schema[t] |-> encodeField(Schema[t][i], m[Schema[t][i].name], <<>>)]
        = [i \in DOMAIN Schema[t] |->
             encodeField(Schema[t][i], m[Schema[t][i].name], Contents1(t, m, new)[i])]
  BY DEF Contents1
<1>2. [i \in DOMAIN Schema[t] |->
         encodeField(Schema[t][i], m[Schema[t][i].name],
                     encode1(Schema[t][i].kind, m[Schema[t][i].name][1], new))]
        = [i \in DOMAIN Schema[t] |->
             encodeField(Schema[t][i], m[Schema[t][i].name], Contents2(t, m, new)[i])]
  BY DEF Contents2, Kind, Value, encodeField
<1>3. [i \in DOMAIN Schema[t] |->
         encodeField(Schema[t][i], m[Schema[t][i].name],
                     encode2(Schema[t][i].kind, m[Schema[t][i].name][1], new))]
        = [i \in DOMAIN Schema[t] |->
             encodeField(Schema[t][i], m[Schema[t][i].name], Contents3(t, m, new)[i])]
  BY DEF Contents3, Kind, Value, encodeField
<1>4. encode1(t, m, new) = Out(t, m, new, Contents1(t, m, new))
  BY <1>1 DEF encode1, encodeOver, NoContent, Out
<1>5. encode2(t, m, new) = Out(t, m, new, Contents2(t, m, new))
  BY <1>2 DEF encode2, encodeOver, Out
<1>6. encode(t, m, new) = Out(t, m, new, Contents3(t, m, new))
  BY <1>3 DEF encode, encodeOver, Out
<1> QED
  BY <1>4, <1>5, <1>6

\* What every level of encode writes can be read as what it encodes.
Readable1(s, t, m) ==
  IsSeq(s) /\ \A B : \A from \in Nat : At(B, from, s) => Written1(t, m, B, from, from + Len(s))
Readable2(s, t, m) ==
  IsSeq(s) /\ \A B : \A from \in Nat : At(B, from, s) => Written2(t, m, B, from, from + Len(s))
Readable3(s, t, m) ==
  IsSeq(s) /\ \A B : \A from \in Nat : At(B, from, s) => Written3(t, m, B, from, from + Len(s))

\* The kind of a nested field is a type.
LEMMA NestedType ==
  ASSUME NEW t \in Types, NEW k \in 1 .. Count(t), Nested(Schema[t][k])
  PROVE  Kind(t, k) \in Types
BY DEF Nested, Kind, Types

\* Each level of encode can be read back, by the level below it.
LEMMA Encoded1 ==
  ASSUME NEW t \in Types, NEW m, NEW new, Peer(new)
  PROVE  Readable1(encode1(t, m, new), t, m)
<1>1. PICK c : c = Contents1(t, m, new)
  OBVIOUS
<1>2. DOMAIN Schema[t] = 1 .. Count(t)
  BY Tables DEF Table
<1>3. \A k \in 1 .. Count(t) : IsSeq(c[k])
  BY <1>1, <1>2, SeqEmpty DEF Contents1
<1>4. new.type = t => Additional(t, new.bytes)
  BY DEF Peer
<1>5. OutThere(encode1(t, m, new), t, m, c)
  BY <1>1, <1>3, <1>4, OutLaid, EncodeIsOut
<1> QED
  BY <1>5 DEF OutThere, Readable1, Written1

LEMMA Encoded2 ==
  ASSUME NEW t \in Types, NEW m, NEW new, Peer(new)
  PROVE  Readable2(encode2(t, m, new), t, m)
<1>1. PICK c : c = Contents2(t, m, new)
  OBVIOUS
<1>2. DOMAIN Schema[t] = 1 .. Count(t)
  BY Tables DEF Table
<1>3. ASSUME NEW k \in 1 .. Count(t)
      PROVE  /\ IsSeq(c[k])
             /\ Nested(Schema[t][k]) => Readable1(c[k], Kind(t, k), Value(t, m, k)[1])
  <2>1. CASE Nested(Schema[t][k])
    <3>1. c[k] = encode1(Kind(t, k), Value(t, m, k)[1], new)
      BY <1>1, <1>2, <2>1 DEF Contents2
    <3>2. Readable1(c[k], Kind(t, k), Value(t, m, k)[1])
      BY <2>1, <3>1, NestedType, Encoded1
    <3> QED
      BY <3>2 DEF Readable1
  <2>2. CASE ~Nested(Schema[t][k])
    BY <1>1, <1>2, <2>2, SeqEmpty DEF Contents2
  <2> QED
    BY <2>1, <2>2
<1>4. new.type = t => Additional(t, new.bytes)
  BY DEF Peer
<1>5. PICK s : s = encode2(t, m, new)
  OBVIOUS
<1>6. OutThere(s, t, m, c)
  BY <1>1, <1>3, <1>4, <1>5, OutLaid, EncodeIsOut
<1>7. ASSUME NEW B, NEW from \in Nat, At(B, from, s) PROVE Written2(t, m, B, from, from + Len(s))
  <2>1. PICK off : /\ Layout(t, m, B, from, from + Len(s), off)
                   /\ \A k \in 1 .. Count(t) : Holds(t, m, k) =>
                        At(B, off[k - 1] + 1, c[k]) /\ off[k] = off[k - 1] + 1 + Len(c[k])
    BY <1>6, <1>7 DEF OutThere
  <2>2. ASSUME NEW k \in 1 .. Count(t), Holds(t, m, k)
        PROVE  Written1(Kind(t, k), Value(t, m, k)[1], B, off[k - 1] + 1, off[k])
    <3>1. off[k - 1] \in Nat
      BY <2>1, Tables DEF Layout, Table
    <3>2. off[k - 1] + 1 \in Nat
      BY <3>1
    <3>3. Readable1(c[k], Kind(t, k), Value(t, m, k)[1])
      BY <1>3, <2>2 DEF Holds
    <3>4. At(B, off[k - 1] + 1, c[k]) /\ off[k] = off[k - 1] + 1 + Len(c[k])
      BY <2>1, <2>2
    <3> QED
      BY <3>2, <3>3, <3>4 DEF Readable1
  <2> QED
    BY <2>1, <2>2 DEF Written2
<1>8. IsSeq(s)
  BY <1>6 DEF OutThere
<1> QED
  BY <1>5, <1>7, <1>8 DEF Readable2

LEMMA Encoded3 ==
  ASSUME NEW t \in Types, NEW m, NEW new, Peer(new)
  PROVE  Readable3(encode(t, m, new), t, m)
<1>1. PICK c : c = Contents3(t, m, new)
  OBVIOUS
<1>2. DOMAIN Schema[t] = 1 .. Count(t)
  BY Tables DEF Table
<1>3. ASSUME NEW k \in 1 .. Count(t)
      PROVE  /\ IsSeq(c[k])
             /\ Nested(Schema[t][k]) => Readable2(c[k], Kind(t, k), Value(t, m, k)[1])
  <2>1. CASE Nested(Schema[t][k])
    <3>1. c[k] = encode2(Kind(t, k), Value(t, m, k)[1], new)
      BY <1>1, <1>2, <2>1 DEF Contents3
    <3>2. Readable2(c[k], Kind(t, k), Value(t, m, k)[1])
      BY <2>1, <3>1, NestedType, Encoded2
    <3> QED
      BY <3>2 DEF Readable2
  <2>2. CASE ~Nested(Schema[t][k])
    BY <1>1, <1>2, <2>2, SeqEmpty DEF Contents3
  <2> QED
    BY <2>1, <2>2
<1>4. new.type = t => Additional(t, new.bytes)
  BY DEF Peer
<1>5. PICK s : s = encode(t, m, new)
  OBVIOUS
<1>6. OutThere(s, t, m, c)
  BY <1>1, <1>3, <1>4, <1>5, OutLaid, EncodeIsOut
<1>7. ASSUME NEW B, NEW from \in Nat, At(B, from, s) PROVE Written3(t, m, B, from, from + Len(s))
  <2>1. PICK off : /\ Layout(t, m, B, from, from + Len(s), off)
                   /\ \A k \in 1 .. Count(t) : Holds(t, m, k) =>
                        At(B, off[k - 1] + 1, c[k]) /\ off[k] = off[k - 1] + 1 + Len(c[k])
    BY <1>6, <1>7 DEF OutThere
  <2>2. ASSUME NEW k \in 1 .. Count(t), Holds(t, m, k)
        PROVE  Written2(Kind(t, k), Value(t, m, k)[1], B, off[k - 1] + 1, off[k])
    <3>1. off[k - 1] \in Nat
      BY <2>1, Tables DEF Layout, Table
    <3>2. off[k - 1] + 1 \in Nat
      BY <3>1
    <3>3. Readable2(c[k], Kind(t, k), Value(t, m, k)[1])
      BY <1>3, <2>2 DEF Holds
    <3>4. At(B, off[k - 1] + 1, c[k]) /\ off[k] = off[k - 1] + 1 + Len(c[k])
      BY <2>1, <2>2
    <3> QED
      BY <3>2, <3>3, <3>4 DEF Readable2
  <2> QED
    BY <2>1, <2>2 DEF Written3
<1>8. IsSeq(s)
  BY <1>6 DEF OutThere
<1> QED
  BY <1>5, <1>7, <1>8 DEF Readable3

-----------------------------------------------------------------------------
\* What the tables of the types imply.

\* What is nested in a type is one level deeper; at the third nothing is.
LEMMA DeeperType ==
  ASSUME NEW i, NEW t, AtLevel(i, t), NEW k \in 1 .. Count(t), Nested(Schema[t][k])
  PROVE  AtLevel(i + 1, Kind(t, k))
<1>1. Table(t) /\ DOMAIN Schema[t] = 1 .. Count(t)
  BY Tables DEF AtLevel, Table
<1>2. /\ Kind(t, k) \in Types
      /\ Kind(t, k) \in Scalars \cup
           IF t \in OuterTypes THEN LeafTypes \cup InnerTypes
           ELSE IF t \in InnerTypes THEN LeafTypes ELSE {}
  BY <1>1 DEF Table, Kind, Nested, Types
<1>3. /\ LeafTypes \cap OuterTypes = {} /\ LeafTypes \cap InnerTypes = {}
      /\ InnerTypes \cap OuterTypes = {}
  BY DEF LeafTypes, InnerTypes, OuterTypes
<1> QED
  BY <1>2, <1>3, TypesOfSchema DEF AtLevel

\* The fields of a type are the rows of its table.
LEMMA FieldOfType ==
  ASSUME NEW t \in Types
  PROVE  \A f : f \in Fields(t) <=> \E k \in 1 .. Count(t) : f = Schema[t][k]
BY Tables DEF Table, Fields, ToSet

\* The tag tells the fields of a type apart: the wire type is below 8, and the
\* numbers differ.
LEMMA TagsDiffer ==
  ASSUME NEW t \in Types, NEW j \in 1 .. Count(t), NEW k \in 1 .. Count(t),
         Tag(Schema[t][j]) = Tag(Schema[t][k])
  PROVE  j = k
<1>1. Schema[t][j].no = j /\ Schema[t][k].no = k /\ j \in Nat /\ k \in Nat
  <2>1. Table(t) /\ Count(t) \in Nat
    BY Tables DEF Table
  <2>2. \A i \in 1 .. Count(t) : Schema[t][i].no = i
    <3> TAKE i \in 1 .. Count(t)
    <3>1. \E x, y : Schema[t][i] = F(i, x, y)
      BY <2>1 DEF Table
    <3>2. \A x, y : F(i, x, y).no = i
      BY DEF F
    <3> QED
      BY <3>1, <3>2
  <2> QED
    BY <2>1, <2>2
<1>2. PICK v \in {0, 2, 5} : v = WireType(Schema[t][j])
  BY DEF WireType
<1>3. PICK w \in {0, 2, 5} : w = WireType(Schema[t][k])
  BY DEF WireType
<1>4. 8 * j + v = 8 * k + w
  BY <1>1, <1>2, <1>3 DEF Tag
<1> QED
  BY <1>1, <1>4

\* A field finds itself by its name.
Named(t, k) == CHOOSE f \in Fields(t) : f.name = Schema[t][k].name
FieldNames(t) == {f.name : f \in Fields(t)}

LEMMA FieldByName ==
  ASSUME NEW t \in Types, NEW k \in 1 .. Count(t)
  PROVE  Named(t, k) = Schema[t][k] /\ Schema[t][k].name \in FieldNames(t)
<1>1. Schema[t][k] \in Fields(t)
  BY FieldOfType
<1>2. ASSUME NEW f \in Fields(t), f.name = Schema[t][k].name PROVE f = Schema[t][k]
  BY <1>2, FieldOfType, Tables DEF Table
<1>3. Named(t, k) = Schema[t][k]
  BY <1>1, <1>2 DEF Named
<1> QED
  BY <1>1, <1>3 DEF FieldNames

\* createBase has every field at its default.
LEMMA BaseValues ==
  ASSUME NEW t \in Types, NEW k \in 1 .. Count(t)
  PROVE  Value(t, createBase(t), k) = Default(Schema[t][k]) /\ DOMAIN createBase(t) = FieldNames(t)
BY FieldByName DEF createBase, Message, Value, FieldNames, Named

-----------------------------------------------------------------------------
\* A message holds at most one message in a field, down to one level, two and three.
AtMostOne(t, a) == \A k \in 1 .. Count(t) : Holds(t, a, k) => Len(Value(t, a, k)) = 1
Built1(t, a) == AtMostOne(t, a)
Built2(t, a) ==
  AtMostOne(t, a) /\ \A k \in 1 .. Count(t) : Holds(t, a, k) => Built1(Kind(t, k), Value(t, a, k)[1])
Built3(t, a) ==
  AtMostOne(t, a) /\ \A k \in 1 .. Count(t) : Holds(t, a, k) => Built2(Kind(t, k), Value(t, a, k)[1])

\* fromPartial puts at most one message in a field.
LEMMA PartialIsBuilt ==
  ASSUME NEW t \in Types, NEW object
  PROVE  Built3(t, fromPartial(t, object))
<1>1. ASSUME NEW u \in Types, NEW o PROVE Built1(u, fromPartial1(u, o))
  <2>1. ASSUME NEW k \in 1 .. Count(u), Holds(u, fromPartial1(u, o), k)
        PROVE  Len(Value(u, fromPartial1(u, o), k)) = 1
    <3>1. Value(u, fromPartial1(u, o), k) = << <<>> >>
      BY <2>1, FieldByName
      DEF fromPartial1, fromPartialOver, None, Message, Value, FieldNames, Named, Holds
    <3> QED
      BY <3>1
  <2> QED
    BY <2>1 DEF Built1, AtMostOne
<1>2. ASSUME NEW u \in Types, NEW o PROVE Built2(u, fromPartial2(u, o))
  <2>1. ASSUME NEW k \in 1 .. Count(u), Holds(u, fromPartial2(u, o), k)
        PROVE  /\ Len(Value(u, fromPartial2(u, o), k)) = 1
               /\ Built1(Kind(u, k), Value(u, fromPartial2(u, o), k)[1])
    <3>1. \E x : Value(u, fromPartial2(u, o), k) = << fromPartial1(Kind(u, k), x) >>
      BY <2>1, FieldByName
      DEF fromPartial2, fromPartialOver, Message, Value, FieldNames, Named, Holds, Kind
    <3>2. Kind(u, k) \in Types
      BY <2>1, NestedType DEF Holds
    <3> QED
      BY <1>1, <3>1, <3>2
  <2> QED
    BY <2>1 DEF Built2, AtMostOne
<1>3. ASSUME NEW k \in 1 .. Count(t), Holds(t, fromPartial(t, object), k)
      PROVE  /\ Len(Value(t, fromPartial(t, object), k)) = 1
             /\ Built2(Kind(t, k), Value(t, fromPartial(t, object), k)[1])
  <2>1. \E x : Value(t, fromPartial(t, object), k) = << fromPartial2(Kind(t, k), x) >>
    BY <1>3, FieldByName
    DEF fromPartial, fromPartialOver, Message, Value, FieldNames, Named, Holds, Kind
  <2>2. Kind(t, k) \in Types
    BY <1>3, NestedType DEF Holds
  <2> QED
    BY <1>2, <2>1, <2>2
<1> QED
  BY <1>3 DEF Built3, AtMostOne

-----------------------------------------------------------------------------
\* The decoder's position in the layout of a message.

\* The offsets of a layout rise.
LEMMA OffsetsRise ==
  ASSUME NEW t \in Types, NEW a, NEW B, NEW from, NEW to, NEW off, Layout(t, a, B, from, to, off),
         NEW j \in 0 .. Count(t)
  PROVE  \A k \in j .. Count(t) : off[j] <= off[k]
<1> DEFINE Bad == {k \in j .. Count(t) : ~ (off[j] <= off[k])}
<1> SUFFICES ASSUME Bad # {} PROVE FALSE
  OBVIOUS
<1>1. Count(t) \in Nat /\ Bad \in SUBSET Nat
  BY Tables DEF Table
<1>2. PICK k \in Bad : \A i \in Bad : k <= i
  BY <1>1, Writing!LeastNumber
<1>3. \A i \in 0 .. Count(t) : off[i] \in Nat
  BY DEF Layout
<1>4. k # j
  BY <1>1, <1>2, <1>3
<1>5. k \in 1 .. Count(t) /\ k - 1 \in j .. Count(t) /\ ~ (k <= k - 1)
  BY <1>1, <1>2, <1>4
<1>6. off[j] <= off[k - 1]
  BY <1>2, <1>5
<1>7. off[k - 1] <= off[k]
  <2>1. Laid(B, Schema[t][k], a[Schema[t][k].name], off[k - 1], off[k])
    BY <1>5 DEF Layout
  <2>2. k - 1 \in 0 .. Count(t) /\ k \in 0 .. Count(t)
    BY <1>1, <1>5
  <2>3. off[k - 1] \in Nat /\ off[k] \in Nat
    BY <1>3, <2>2
  <2> QED
    BY <2>1, <2>3 DEF Laid
<1>8. off[j] \in Nat /\ off[k - 1] \in Nat /\ off[k] \in Nat
  BY <1>1, <1>3, <1>5
<1> QED
  BY <1>2, <1>6, <1>7, <1>8

\* The cells behind from up to p are whole fields.
Passed(B, from, p) == \A q \in from + 1 .. p : q + B[q].len <= p

\* p is between two fields, or two cells of the additions.
Between(t, B, from, off, p) ==
  \/ \E j \in 0 .. Count(t) : p = off[j]
  \/ p \in Nat /\ from <= p /\ p < off[0] /\ Passed(B, from, p)

\* Field k of b is what a has, up to what SameBelow says of a nested message.
SameBelow(i, t, a, b) == (i = 1 => Same2(t, a, b)) /\ (i = 2 => Same1(t, a, b))
Taken(i, t, k, a, b) ==
  IF Nested(Schema[t][k])
  THEN /\ Len(Value(t, a, k)) = Len(Value(t, b, k))
       /\ Value(t, a, k) # <<>> => SameBelow(i, Kind(t, k), Value(t, a, k)[1], Value(t, b, k)[1])
  ELSE Value(t, b, k) = Single(Schema[t][k], Value(t, a, k))

WrittenBelow(i, t, a, B, from, to) ==
  (i = 1 => Written2(t, a, B, from, to)) /\ (i = 2 => Written1(t, a, B, from, to))
BuiltBelow(i, t, a) == (i = 1 => Built2(t, a)) /\ (i = 2 => Built1(t, a))

\* The message a in the cells of B behind from up to to, i calls deep.
Source(i, t, a, B, from, to, off) ==
  /\ AtLevel(i, t) /\ Layout(t, a, B, from, to, off) /\ AtMostOne(t, a)
  /\ \A k \in 1 .. Count(t) : Holds(t, a, k) =>
       /\ WrittenBelow(i, Kind(t, k), Value(t, a, k)[1], B, off[k - 1] + 1, off[k])
       /\ BuiltBelow(i, Kind(t, k), Value(t, a, k)[1])

\* A call of decode that is i deep, has read B up to p, and b from it.
Read(i, t, a, b, B, from, to, off, p) ==
  /\ Source(i, t, a, B, from, to, off)
  /\ Between(t, B, from, off, p)
  /\ DOMAIN b = FieldNames(t)
  /\ \A k \in 1 .. Count(t) :
       IF off[k] <= p THEN Taken(i, t, k, a, b) ELSE Value(t, b, k) = Default(Schema[t][k])

\* decode is inside its message.
LEMMA PositionInside ==
  ASSUME NEW i, NEW t, NEW a, NEW b, NEW B, NEW from, NEW to, NEW off, NEW p,
         Read(i, t, a, b, B, from, to, off, p)
  PROVE  p \in Nat /\ from <= p /\ p <= to /\ from \in Nat /\ to \in Nat
<1>1. t \in Types /\ Layout(t, a, B, from, to, off) /\ Between(t, B, from, off, p)
  BY DEF Read, Source, AtLevel
<1>2. Count(t) \in Nat
  BY <1>1, Tables DEF Table
<1>3. /\ \A k \in 0 .. Count(t) : off[k] \in Nat
      /\ from <= off[0] /\ off[Count(t)] = to /\ from \in Nat
  BY <1>1 DEF Layout
<1>4. ASSUME NEW k \in 0 .. Count(t) PROVE off[0] <= off[k] /\ off[k] <= to
  <2>1. Count(t) \in k .. Count(t) /\ k \in 0 .. Count(t) /\ 0 \in 0 .. Count(t)
    BY <1>2
  <2> QED
    BY <1>1, <1>3, <2>1, OffsetsRise
<1>5. off[0] \in Nat /\ off[0] <= to /\ to \in Nat
  BY <1>2, <1>3, <1>4
<1>6. CASE \E j \in 0 .. Count(t) : p = off[j]
  BY <1>3, <1>4, <1>5, <1>6
<1>7. CASE p \in Nat /\ from <= p /\ p < off[0]
  BY <1>3, <1>5, <1>7
<1> QED
  BY <1>1, <1>6, <1>7 DEF Between

\* A field at its default takes no cell, and what decode starts with is right.
LEMMA DefaultTaken ==
  ASSUME NEW i, NEW t, NEW k, NEW a, NEW b,
         Value(t, a, k) = Default(Schema[t][k]), Value(t, b, k) = Default(Schema[t][k])
  PROVE  Taken(i, t, k, a, b)
<1>1. CASE Nested(Schema[t][k])
  <2>1. Default(Schema[t][k]) = <<>>
    BY <1>1, TypesOfSchema DEF Default, Nested, Types, Scalars
  <2> QED
    BY <1>1, <2>1 DEF Taken
<1>2. CASE ~Nested(Schema[t][k])
  <2>1. Single(Schema[t][k], Default(Schema[t][k])) = Default(Schema[t][k])
    <3>1. ASSUME Schema[t][k].kind = "float" PROVE Default(Schema[t][k]) = 0
      BY <1>2, <3>1 DEF Default
    <3> QED
      BY <3>1 DEF Single
  <2> QED
    BY <1>2, <2>1 DEF Taken
<1> QED
  BY <1>1, <1>2

\* A field without cells is at its default.
LEMMA NoCellNoValue ==
  ASSUME NEW t \in Types, NEW a, NEW B, NEW from, NEW to, NEW off, Layout(t, a, B, from, to, off),
         NEW k \in 1 .. Count(t), off[k] <= off[k - 1]
  PROVE  Value(t, a, k) = Default(Schema[t][k])
<1>1. off[k - 1] \in Nat /\ off[k] \in Nat
  <2>1. k - 1 \in 0 .. Count(t) /\ k \in 0 .. Count(t)
    BY Tables DEF Table
  <2> QED
    BY <2>1 DEF Layout
<1>2. Laid(B, Schema[t][k], Value(t, a, k), off[k - 1], off[k])
  BY DEF Layout, Value
<1> QED
  BY <1>1, <1>2 DEF Laid

\* A call of decode begins with the message at its defaults.
LEMMA ReadNothing ==
  ASSUME NEW i, NEW t, NEW a, NEW B, NEW from, NEW to, NEW off, Source(i, t, a, B, from, to, off)
  PROVE  Read(i, t, a, createBase(t), B, from, to, off, from)
<1>1. t \in Types /\ Layout(t, a, B, from, to, off) /\ Count(t) \in Nat
  BY Tables DEF Source, AtLevel, Table
<1>2. from \in Nat /\ from <= off[0] /\ \A k \in 0 .. Count(t) : off[k] \in Nat
  BY <1>1 DEF Layout
<1>3. Between(t, B, from, off, from)
  <2>1. CASE from = off[0]
    <3>1. 0 \in 0 .. Count(t)
      BY <1>1
    <3> QED
      BY <2>1, <3>1 DEF Between
  <2>2. CASE from < off[0]
    <3>1. Passed(B, from, from)
      BY <1>2 DEF Passed
    <3> QED
      BY <1>2, <2>2, <3>1 DEF Between
  <2>3. off[0] \in Nat
    BY <1>1, <1>2
  <2> QED
    BY <1>2, <2>1, <2>2, <2>3
<1>4. ASSUME NEW k \in 1 .. Count(t)
      PROVE  IF off[k] <= from THEN Taken(i, t, k, a, createBase(t))
             ELSE Value(t, createBase(t), k) = Default(Schema[t][k])
  <2>1. Value(t, createBase(t), k) = Default(Schema[t][k])
    BY <1>1, BaseValues
  <2>2. ASSUME off[k] <= from PROVE Taken(i, t, k, a, createBase(t))
    <3>1. k - 1 \in 0 .. Count(t) /\ 0 \in 0 .. Count(t) /\ k \in 0 .. Count(t)
      BY <1>1
    <3>2. off[0] <= off[k - 1]
      BY <1>1, <3>1, OffsetsRise
    <3>3. off[k] <= off[k - 1]
      BY <1>2, <2>2, <3>1, <3>2
    <3> QED
      BY <1>1, <2>1, <3>3, NoCellNoValue, DefaultTaken
  <2> QED
    BY <2>1, <2>2
<1>5. DOMAIN createBase(t) = FieldNames(t)
  BY DEF createBase, Message, FieldNames
<1> QED
  BY <1>3, <1>4, <1>5 DEF Read

\* Where decode is not at the end of its message there is a cell of the additions,
\* or the cell of a field that is not at its default.
FieldAt(t, a, B, off, p, k) ==
  /\ off[k - 1] = p /\ p < off[k]
  /\ Value(t, a, k) # Default(Schema[t][k])
  /\ B[p + 1] = Cell(Tag(Schema[t][k]),
                     IF Nested(Schema[t][k]) THEN 0 ELSE Single(Schema[t][k], Value(t, a, k)),
                     off[k] - p - 1)
  /\ ~Nested(Schema[t][k]) => off[k] = p + 1

AdditionAt(t, B, from, off, p) == p < off[0] /\ Passed(B, from, p)

\* The next cell is the one of the first field whose offset is ahead.
LEMMA NextCell ==
  ASSUME NEW i, NEW t, NEW a, NEW b, NEW B, NEW from, NEW to, NEW off, NEW p,
         Read(i, t, a, b, B, from, to, off, p), p < to
  PROVE  \/ AdditionAt(t, B, from, off, p)
         \/ \E k \in 1 .. Count(t) : FieldAt(t, a, B, off, p, k)
<1>1. t \in Types /\ Layout(t, a, B, from, to, off) /\ Between(t, B, from, off, p)
  BY DEF Read, Source, AtLevel
<1>2. Count(t) \in Nat
  BY <1>1, Tables DEF Table
<1>3. off[Count(t)] = to /\ \A k \in 0 .. Count(t) : off[k] \in Nat
  BY <1>1 DEF Layout
<1>4. ASSUME NEW j \in 0 .. Count(t), p = off[j]
      PROVE  \E k \in 1 .. Count(t) : FieldAt(t, a, B, off, p, k)
  <2> DEFINE Ahead == {k \in j .. Count(t) : p < off[k]}
  <2>1. Count(t) \in Ahead /\ Ahead \in SUBSET Nat
    BY <1>2, <1>3
  <2>2. PICK k \in Ahead : \A l \in Ahead : k <= l
    BY <2>1, Writing!LeastNumber
  <2>3. k # j
    BY <1>3, <1>4, <2>2
  <2>4. /\ k \in 1 .. Count(t) /\ k - 1 \in j .. Count(t) /\ k - 1 \in 0 .. Count(t)
        /\ k \in 0 .. Count(t) /\ ~ (k <= k - 1)
    BY <1>2, <2>2, <2>3
  <2>5. ~ (p < off[k - 1])
    BY <2>2, <2>4
  <2>6. off[j] <= off[k - 1]
    BY <1>1, <2>4, OffsetsRise
  <2>7. off[k - 1] = p /\ p < off[k]
    BY <1>3, <1>4, <2>2, <2>4, <2>5, <2>6
  <2>8. Laid(B, Schema[t][k], Value(t, a, k), off[k - 1], off[k])
    BY <1>1, <2>4 DEF Layout, Value
  <2>9. p \in Nat /\ off[k] \in Nat
    BY <1>3, <1>4, <2>4
  <2>10. FieldAt(t, a, B, off, p, k)
    BY <2>7, <2>8, <2>9 DEF Laid, FieldAt
  <2> QED
    BY <2>4, <2>10
<1> QED
  BY <1>1, <1>4 DEF Between, AdditionAt

\* The tag of an addition is none that the type expects.
LEMMA AdditionUnknown ==
  ASSUME NEW i, NEW t, NEW a, NEW B, NEW from, NEW to, NEW off, NEW p \in Nat,
         Source(i, t, a, B, from, to, off), from <= p, AdditionAt(t, B, from, off, p)
  PROVE  /\ \A f \in Fields(t) : B[p + 1].tag # Tag(f)
         /\ B[p + 1].len \in Nat /\ p + 1 + B[p + 1].len <= off[0]
         /\ Passed(B, from, p + 1 + B[p + 1].len)
<1>1. Layout(t, a, B, from, to, off) /\ t \in Types /\ Count(t) \in Nat
  BY Tables DEF Source, AtLevel, Table
<1>2. Ignored(t, B, from, off[0]) /\ from \in Nat /\ off[0] \in Nat
  BY <1>1 DEF Layout
<1>3. p < off[0] /\ Passed(B, from, p)
  BY DEF AdditionAt
<1>4. p + 1 \in from + 1 .. off[0]
  BY <1>2, <1>3
<1>5. /\ B[p + 1].len \in Nat /\ p + 1 + B[p + 1].len <= off[0]
      /\ \A q \in p + 1 + 1 .. p + 1 + B[p + 1].len : q + B[q].len <= p + 1 + B[p + 1].len
      /\ (\A q \in from + 1 .. p + 1 - 1 : q + B[q].len < p + 1) =>
           \A f \in Fields(t) : B[p + 1].tag # Tag(f)
  BY <1>2, <1>4 DEF Ignored
<1>6. ASSUME NEW q \in from + 1 .. p PROVE B[q].len \in Nat /\ q + B[q].len <= p
  <2>1. q \in from + 1 .. off[0]
    BY <1>2, <1>3
  <2> QED
    BY <1>2, <1>3, <2>1 DEF Ignored, Passed
<1>7. \A q \in from + 1 .. p + 1 - 1 : q + B[q].len < p + 1
  <2> TAKE q \in from + 1 .. p + 1 - 1
  <2>1. q \in from + 1 .. p /\ q \in Nat
    BY <1>2
  <2> QED
    BY <1>6, <2>1
<1>8. Passed(B, from, p + 1 + B[p + 1].len)
  <2> PICK l \in Nat : l = B[p + 1].len
    BY <1>5
  <2> SUFFICES ASSUME NEW q \in from + 1 .. p + 1 + l PROVE q + B[q].len <= p + 1 + l
    BY DEF Passed
  <2>1. CASE q \in from + 1 .. p
    <3>1. B[q].len \in Nat /\ q + B[q].len <= p /\ q \in Nat
      BY <1>2, <1>6, <2>1
    <3> QED
      BY <3>1
  <2>2. CASE q = p + 1
    BY <2>2
  <2>3. CASE q \in p + 1 + 1 .. p + 1 + l
    BY <1>5, <2>3
  <2> QED
    BY <1>2, <2>1, <2>2, <2>3
<1> QED
  BY <1>5, <1>7, <1>8

\* Skipping an addition takes nothing from the message.
LEMMA AdditionSkipped ==
  ASSUME NEW i, NEW t, NEW a, NEW b, NEW B, NEW from, NEW to, NEW off, NEW p, NEW q,
         Read(i, t, a, b, B, from, to, off, p), AdditionAt(t, B, from, off, p),
         q = p + 1 + B[p + 1].len
  PROVE  Read(i, t, a, b, B, from, to, off, q)
<1>1. /\ t \in Types /\ Layout(t, a, B, from, to, off) /\ Count(t) \in Nat
      /\ Source(i, t, a, B, from, to, off)
  BY Tables DEF Read, Source, AtLevel, Table
<1>2. p \in Nat /\ from <= p /\ from \in Nat
  BY PositionInside
<1>3. B[p + 1].len \in Nat /\ q <= off[0] /\ Passed(B, from, q)
  BY <1>1, <1>2, AdditionUnknown
<1>4. q \in Nat /\ p < q /\ p < off[0] /\ from <= q
  BY <1>2, <1>3 DEF AdditionAt
<1>5. \A k \in 0 .. Count(t) : off[k] \in Nat
  BY <1>1 DEF Layout
<1>6. Between(t, B, from, off, q)
  <2>1. 0 \in 0 .. Count(t) /\ off[0] \in Nat
    BY <1>1, <1>5
  <2>2. CASE q = off[0]
    BY <2>1, <2>2 DEF Between
  <2>3. CASE q < off[0]
    BY <1>3, <1>4, <2>3 DEF Between
  <2> QED
    BY <1>3, <1>4, <2>1, <2>2, <2>3
<1>7. ASSUME NEW k \in 1 .. Count(t)
      PROVE  IF off[k] <= q THEN Taken(i, t, k, a, b) ELSE Value(t, b, k) = Default(Schema[t][k])
  <2>1. /\ k - 1 \in 0 .. Count(t) /\ 0 \in 0 .. Count(t) /\ k \in 0 .. Count(t)
        /\ k \in 0 .. Count(t) /\ k - 1 \in 0 .. Count(t)
    BY <1>1
  <2>2. off[0] <= off[k - 1] /\ off[0] <= off[k]
    BY <1>1, <2>1, OffsetsRise
  <2>3. ~ (off[k] <= p)
    BY <1>2, <1>4, <1>5, <2>1, <2>2
  <2>4. Value(t, b, k) = Default(Schema[t][k])
    BY <2>3 DEF Read
  <2>5. ASSUME off[k] <= q PROVE Taken(i, t, k, a, b)
    <3>1. off[k] <= off[k - 1]
      BY <1>3, <1>4, <1>5, <2>1, <2>2, <2>5
    <3> QED
      BY <1>1, <2>4, <3>1, NoCellNoValue, DefaultTaken
  <2> QED
    BY <2>4, <2>5
<1> QED
  BY <1>1, <1>6, <1>7 DEF Read

\* Reading field k brings decode to the next one.
LEMMA FieldRead ==
  ASSUME NEW i, NEW t, NEW a, NEW b, NEW B, NEW from, NEW to, NEW off, NEW p,
         Read(i, t, a, b, B, from, to, off, p), NEW k \in 1 .. Count(t), FieldAt(t, a, B, off, p, k),
         NEW x, NEW c, c = [b EXCEPT ![Schema[t][k].name] = x], Taken(i, t, k, a, c)
  PROVE  Read(i, t, a, c, B, from, to, off, off[k])
<1>1. /\ t \in Types /\ Layout(t, a, B, from, to, off) /\ Count(t) \in Nat
      /\ Source(i, t, a, B, from, to, off) /\ Table(t)
  BY Tables DEF Read, Source, AtLevel, Table
<1>2. DOMAIN b = FieldNames(t) /\ \A j \in 1 .. Count(t) : Schema[t][j].name \in FieldNames(t)
  BY <1>1, FieldByName DEF Read
<1>3. DOMAIN c = FieldNames(t)
  BY <1>2
<1>4. ASSUME NEW j \in 1 .. Count(t), j # k PROVE Value(t, c, j) = Value(t, b, j)
  <2>1. Schema[t][j].name # Schema[t][k].name
    BY <1>1, <1>4 DEF Table
  <2> QED
    BY <1>2, <2>1 DEF Value
<1>5. \A j \in 0 .. Count(t) : off[j] \in Nat
  BY <1>1 DEF Layout
<1>6. k \in 0 .. Count(t) /\ k - 1 \in 0 .. Count(t)
  BY <1>1
<1>7. off[k - 1] = p /\ p < off[k] /\ p \in Nat /\ off[k] \in Nat
  BY <1>5, <1>6 DEF FieldAt
<1>8. Between(t, B, from, off, off[k])
  BY <1>6 DEF Between
<1>9. ASSUME NEW j \in 1 .. Count(t)
      PROVE  IF off[j] <= off[k] THEN Taken(i, t, j, a, c) ELSE Value(t, c, j) = Default(Schema[t][j])
  <2>1. CASE j = k
    BY <1>7, <2>1
  <2>2. CASE j # k /\ off[j] <= p
    <3>1. Taken(i, t, j, a, b)
      BY <2>2 DEF Read
    <3>2. Taken(i, t, j, a, c)
      BY <1>4, <2>2, <3>1 DEF Taken
    <3>3. j \in 0 .. Count(t)
      BY <1>1
    <3> QED
      BY <1>5, <1>7, <2>2, <3>2, <3>3
  <2>3. CASE j # k /\ ~ (off[j] <= p)
    <3>1. Value(t, b, j) = Default(Schema[t][j]) /\ Value(t, c, j) = Default(Schema[t][j])
      BY <1>4, <2>3 DEF Read
    <3>2. ASSUME off[j] <= off[k] PROVE Taken(i, t, j, a, c)
      <4>1. j \in 0 .. Count(t) /\ j - 1 \in 0 .. Count(t) /\ j \in Nat /\ k \in Nat
        BY <1>1
      <4>2. k < j
        <5>1. ASSUME j <= k - 1 PROVE FALSE
          <6>1. k - 1 \in j .. Count(t)
            BY <1>6, <4>1, <5>1
          <6>2. off[j] <= off[k - 1]
            BY <1>1, <4>1, <6>1, OffsetsRise
          <6> QED
            BY <1>7, <2>3, <6>2
        <5> QED
          BY <2>3, <4>1, <5>1
      <4>3. j - 1 \in k .. Count(t)
        BY <1>6, <4>1, <4>2
      <4>4. off[k] <= off[j - 1]
        BY <1>1, <1>6, <4>3, OffsetsRise
      <4>5. off[j] <= off[j - 1]
        BY <1>5, <1>6, <3>2, <4>1, <4>4
      <4> QED
        BY <1>1, <3>1, <4>5, NoCellNoValue, DefaultTaken
    <3> QED
      BY <3>1, <3>2
  <2> QED
    BY <2>1, <2>2, <2>3
<1> QED
  BY <1>1, <1>3, <1>8, <1>9 DEF Read

\* The message in a field is laid out like any other.
LEMMA NestedSource ==
  ASSUME NEW i, NEW t, NEW a, NEW B, NEW from, NEW to, NEW off, Source(i, t, a, B, from, to, off),
         NEW k \in 1 .. Count(t), Holds(t, a, k)
  PROVE  \E off2 : Source(i + 1, Kind(t, k), Value(t, a, k)[1], B, off[k - 1] + 1, off[k], off2)
<1> DEFINE u == Kind(t, k)
           m == Value(t, a, k)[1]
<1>1. AtLevel(i, t) /\ Nested(Schema[t][k])
  BY DEF Source, Holds
<1>2. AtLevel(i + 1, u)
  BY <1>1, DeeperType
<1>3. /\ WrittenBelow(i, u, m, B, off[k - 1] + 1, off[k])
      /\ BuiltBelow(i, u, m)
  BY DEF Source
<1>4. i = 1 \/ i = 2
  BY <1>1, <1>2 DEF AtLevel
<1> HIDE DEF u, m
<1>5. CASE i = 1
  <2>1. Written2(u, m, B, off[k - 1] + 1, off[k]) /\ Built2(u, m)
    BY <1>3, <1>5 DEF WrittenBelow, BuiltBelow
  <2>2. PICK off2 : /\ Layout(u, m, B, off[k - 1] + 1, off[k], off2)
                    /\ \A j \in 1 .. Count(u) : Holds(u, m, j) =>
                         Written1(Kind(u, j), Value(u, m, j)[1], B, off2[j - 1] + 1, off2[j])
    BY <2>1 DEF Written2
  <2>3. Source(2, u, m, B, off[k - 1] + 1, off[k], off2)
    BY <1>2, <1>5, <2>1, <2>2 DEF Source, Built2, WrittenBelow, BuiltBelow
  <2> QED
    BY <1>5, <2>3 DEF u, m
<1>6. CASE i = 2
  <2>1. Written1(u, m, B, off[k - 1] + 1, off[k]) /\ Built1(u, m)
    BY <1>3, <1>6 DEF WrittenBelow, BuiltBelow
  <2>2. PICK off2 : Layout(u, m, B, off[k - 1] + 1, off[k], off2)
    BY <2>1 DEF Written1
  <2>3. Source(3, u, m, B, off[k - 1] + 1, off[k], off2)
    BY <1>2, <1>6, <2>1, <2>2 DEF Source, Built1, WrittenBelow, BuiltBelow
  <2> QED
    BY <1>6, <2>3 DEF u, m
<1> QED
  BY <1>4, <1>5, <1>6

\* What decode returns at the end of its message.
LEMMA AllRead ==
  ASSUME NEW i, NEW t, NEW a, NEW b, NEW B, NEW from, NEW to, NEW off, NEW p,
         Read(i, t, a, b, B, from, to, off, p), to <= p
  PROVE  /\ p = to
         /\ i = 1 => Same(t, a, b)
         /\ i = 2 => Same2(t, a, b)
         /\ i = 3 => Same1(t, a, b)
<1>1. t \in Types /\ Layout(t, a, B, from, to, off) /\ Count(t) \in Nat
  BY Tables DEF Read, Source, AtLevel, Table
<1>2. p = to
  BY PositionInside
<1>3. ASSUME NEW k \in 1 .. Count(t) PROVE Taken(i, t, k, a, b)
  <2>1. k \in 0 .. Count(t) /\ Count(t) \in k .. Count(t)
    BY <1>1
  <2>2. off[k] <= to
    BY <1>1, <2>1, OffsetsRise DEF Layout
  <2> QED
    BY <1>2, <2>2 DEF Read
<1>4. ASSUME NEW f \in Fields(t)
      PROVE  \E k \in 1 .. Count(t) : f = Schema[t][k] /\ Taken(i, t, k, a, b)
  BY <1>1, <1>3, FieldOfType
<1>5. ASSUME i = 1 PROVE Same(t, a, b)
  BY <1>4, <1>5 DEF Same, SameOver, Taken, SameBelow, Value, Kind
<1>6. ASSUME i = 2 PROVE Same2(t, a, b)
  BY <1>4, <1>6 DEF Same2, SameOver, Taken, SameBelow, Value, Kind
<1>7. ASSUME i = 3 PROVE Same1(t, a, b)
  BY <1>4, <1>7 DEF Same1, SameOver, Taken, Whatever, Value, Kind
<1> QED
  BY <1>2, <1>5, <1>6, <1>7

-----------------------------------------------------------------------------
(* The stack of calls: for every call there are the message it reads, where it *)
(* begins and its layout, and the position it has come to, behind which the    *)
(* next call reads one of its fields. The last one is at the reader's position. *)

CallAt(i, stk, g, B) ==
  /\ DOMAIN stk[i] = {"type", "end", "message", "field"}
  /\ Read(i, stk[i].type, g[i].a, stk[i].message, B, g[i].from, stk[i].end, g[i].off, g[i].at)

CalledBy(i, stk, g, B) ==
  \E k \in 1 .. Count(stk[i].type) :
    /\ FieldAt(stk[i].type, g[i].a, B, g[i].off, g[i].at, k)
    /\ Nested(Schema[stk[i].type][k])
    /\ stk[i + 1].type = Kind(stk[i].type, k)
    /\ stk[i + 1].end = g[i].off[k]
    /\ stk[i + 1].field = Schema[stk[i].type][k].name
    /\ g[i + 1].a = Value(stk[i].type, g[i].a, k)[1]

Calls(stk, g, B, p, last) ==
  /\ g[1].a = last.message /\ stk[1].type = last.type /\ stk[1].end = Len(B)
  /\ g[Len(stk)].at = p
  /\ \A i \in 1 .. Len(stk) : CallAt(i, stk, g, B)
  /\ \A i \in 1 .. Len(stk) - 1 : CalledBy(i, stk, g, B)

Decoding(stk, B, p, last) == Len(stk) >= 1 /\ \E g : Calls(stk, g, B, p, last)

DecodeInv ==
  /\ method \in Methods \cup {"none", "Post"}
  /\ IsSeq(sent) /\ IsSeq(received) /\ IsSeq(bytes) /\ IsSeq(stack)
  /\ stack = <<>> => Len(sent) = Len(received) /\ pos \in 0 .. Len(bytes)
  /\ stack # <<>> => /\ Len(sent) = Len(received) + 1
                     /\ Decoding(stack, bytes, pos, sent[Len(sent)])
  /\ Preserved

NewFrame(t, end, field) == [type |-> t, end |-> end, message |-> createBase(t), field |-> field]

\* decode begins on what encode wrote.
LEMMA MessageStarts ==
  ASSUME NEW t \in Types, NEW object, NEW later \in DOMAIN Additions, NEW added \in Additions[later],
         NEW m, m = fromPartial(t, object),
         NEW data, data = encode(t, m, [type |-> later, bytes |-> added])
  PROVE  /\ IsSeq(data)
         /\ Decoding(<<NewFrame(t, Len(data), "none")>>, data, 0, [type |-> t, message |-> m])
<1> DEFINE new == [type |-> later, bytes |-> added]
           stk == <<NewFrame(t, Len(data), "none")>>
<1>1. Peer(new)
  BY AdditionsAssumption DEF Peer, Additional, IsSeq, Types
<1> HIDE DEF new
<1>2. Readable3(data, t, m) /\ Built3(t, m)
  BY <1>1, Encoded3, PartialIsBuilt DEF new
<1>3. IsSeq(data) /\ Len(data) \in Nat
  BY <1>2, SeqLen DEF Readable3
<1>4. At(data, 0, data)
  BY <1>3 DEF At
<1>5. Written3(t, m, data, 0, Len(data))
  <2>1. Written3(t, m, data, 0, 0 + Len(data))
    BY <1>2, <1>4 DEF Readable3
  <2> QED
    BY <1>3, <2>1
<1>6. PICK off : /\ Layout(t, m, data, 0, Len(data), off)
                 /\ \A k \in 1 .. Count(t) : Holds(t, m, k) =>
                      Written2(Kind(t, k), Value(t, m, k)[1], data, off[k - 1] + 1, off[k])
  BY <1>5 DEF Written3
<1>7. Source(1, t, m, data, 0, Len(data), off)
  BY <1>2, <1>6 DEF Source, AtLevel, Built3, WrittenBelow, BuiltBelow
<1>8. Read(1, t, m, createBase(t), data, 0, Len(data), off, 0)
  BY <1>7, ReadNothing
<1> DEFINE g == <<[a |-> m, from |-> 0, off |-> off, at |-> 0]>>
<1>9. /\ Len(stk) = 1 /\ g[1].a = m /\ g[1].from = 0 /\ g[1].off = off /\ g[1].at = 0
      /\ stk[1].type = t /\ stk[1].end = Len(data) /\ stk[1].message = createBase(t)
      /\ DOMAIN stk[1] = {"type", "end", "message", "field"}
  BY DEF NewFrame
<1> HIDE DEF g, stk
<1>10. Calls(stk, g, data, 0, [type |-> t, message |-> m])
  BY <1>8, <1>9 DEF Calls, CallAt
<1> QED
  BY <1>3, <1>9, <1>10 DEF Decoding, stk

\* A message goes to the other side.
LEMMA TransferStep ==
  ASSUME DecodeInv, Idle, NEW t \in Types, Transfer(t), UNCHANGED received,
         method' \in Methods \cup {"none", "Post"}
  PROVE  DecodeInv'
<1>1. PICK object \in Samples[t], later \in DOMAIN Additions :
        \E added \in Additions[later] :
          LET m == fromPartial(t, object)
              data == encode(t, m, [type |-> later, bytes |-> added])
          IN  /\ sent' = Append(sent, [type |-> t, message |-> m])
              /\ bytes' = data
              /\ pos' = 0
              /\ stack' = << NewFrame(t, Len(data), "none") >>
  BY DEF Transfer, NewFrame
<1>2. PICK added \in Additions[later] :
        LET m == fromPartial(t, object)
            data == encode(t, m, [type |-> later, bytes |-> added])
        IN  /\ sent' = Append(sent, [type |-> t, message |-> m])
            /\ bytes' = data
            /\ pos' = 0
            /\ stack' = << NewFrame(t, Len(data), "none") >>
  BY <1>1
<1>3. PICK m : m = fromPartial(t, object)
  OBVIOUS
<1>4. PICK data : data = encode(t, m, [type |-> later, bytes |-> added])
  OBVIOUS
<1>5. PICK last : last = [type |-> t, message |-> m]
  OBVIOUS
<1>6. /\ sent' = Append(sent, last) /\ bytes' = data /\ pos' = 0
      /\ stack' = << NewFrame(t, Len(data), "none") >>
  BY <1>2, <1>3, <1>4, <1>5
<1>7. IsSeq(data) /\ Decoding(<<NewFrame(t, Len(data), "none")>>, data, 0, last)
  BY <1>3, <1>4, <1>5, MessageStarts
<1>8. /\ IsSeq(sent) /\ IsSeq(received) /\ Len(sent) = Len(received) /\ Preserved
  BY DEF DecodeInv, Idle
<1>9. /\ IsSeq(sent') /\ Len(sent') = Len(sent) + 1 /\ sent'[Len(sent')] = last
      /\ \A j \in 1 .. Len(sent) : sent'[j] = sent[j]
  BY <1>6, <1>8, SeqAppend
<1>10. stack' # <<>> /\ IsSeq(stack')
  <2>1. PICK fr : fr = NewFrame(t, Len(data), "none")
    OBVIOUS
  <2>2. IsSeq(<<fr>>) /\ <<fr>> # <<>>
    BY SeqOne
  <2> QED
    BY <1>6, <2>1, <2>2
<1>11. Preserved'
  <2>1. DOMAIN received = 1 .. Len(sent)
    BY <1>8, SeqLen
  <2> QED
    BY <1>8, <1>9, <2>1 DEF Preserved
<1> QED
  BY <1>6, <1>7, <1>8, <1>9, <1>10, <1>11 DEF DecodeInv

-----------------------------------------------------------------------------
\* The last call reads on, the others wait.
LEMMA LastReadsOn ==
  ASSUME NEW stk, NEW g, NEW B, NEW p, NEW last, Calls(stk, g, B, p, last),
         NEW n \in Nat, n = Len(stk), n >= 1,
         NEW stk2, Len(stk2) = n, \A i \in 1 .. n : i # n => stk2[i] = stk[i],
         DOMAIN stk2[n] = DOMAIN stk[n], stk2[n].type = stk[n].type,
         stk2[n].end = stk[n].end, stk2[n].field = stk[n].field,
         NEW q, Read(n, stk[n].type, g[n].a, stk2[n].message, B, g[n].from, stk[n].end, g[n].off, q)
  PROVE  Decoding(stk2, B, q, last)
<1> DEFINE h == [i \in 1 .. n |-> IF i = n THEN [a |-> g[n].a, from |-> g[n].from, off |-> g[n].off, at |-> q]
                                  ELSE g[i]]
<1>1. /\ h[n].a = g[n].a /\ h[n].from = g[n].from /\ h[n].off = g[n].off /\ h[n].at = q
      /\ \A i \in 1 .. n : i # n => h[i] = g[i]
  OBVIOUS
<1>2. \A i \in 1 .. n : h[i].a = g[i].a
  BY <1>1
<1> HIDE DEF h
<1>3. /\ \A i \in 1 .. n : stk2[i].type = stk[i].type /\ stk2[i].end = stk[i].end
      /\ n \in 1 .. n /\ 1 \in 1 .. n
  OBVIOUS
<1>4. h[1].a = last.message /\ stk2[1].type = last.type /\ stk2[1].end = Len(B) /\ h[Len(stk2)].at = q
  BY <1>1, <1>2, <1>3 DEF Calls
<1>5. ASSUME NEW i \in 1 .. n PROVE CallAt(i, stk2, h, B)
  <2>1. CASE i = n
    BY <1>1, <2>1 DEF Calls, CallAt
  <2>2. CASE i # n
    <3>1. CallAt(i, stk, g, B)
      BY DEF Calls
    <3>2. stk2[i] = stk[i] /\ h[i] = g[i]
      BY <1>1, <2>2
    <3> QED
      BY <3>1, <3>2 DEF CallAt
  <2> QED
    BY <2>1, <2>2
<1>6. ASSUME NEW i \in 1 .. n - 1 PROVE CalledBy(i, stk2, h, B)
  <2>1. CalledBy(i, stk, g, B)
    BY DEF Calls
  <2>2. i \in 1 .. n /\ i # n /\ i + 1 \in 1 .. n
    OBVIOUS
  <2>3. stk2[i] = stk[i] /\ h[i] = g[i] /\ h[i + 1].a = g[i + 1].a
    BY <1>1, <1>2, <2>2
  <2>4. /\ stk2[i + 1].type = stk[i + 1].type /\ stk2[i + 1].end = stk[i + 1].end
        /\ stk2[i + 1].field = stk[i + 1].field
    BY <2>2
  <2> QED
    BY <2>1, <2>3, <2>4 DEF CalledBy
<1> QED
  BY <1>4, <1>5, <1>6 DEF Calls, Decoding

\* What the stack looks like to a step of the last call.
LEMMA LastCall ==
  ASSUME DecodeInv, ~Idle
  PROVE  \E n, g :
           /\ n \in Nat /\ n = Len(stack) /\ n >= 1 /\ DOMAIN stack = 1 .. n /\ Frame = stack[n]
           /\ Calls(stack, g, bytes, pos, sent[Len(sent)])
           /\ DOMAIN stack[n] = {"type", "end", "message", "field"}
           /\ Read(n, stack[n].type, g[n].a, stack[n].message, bytes, g[n].from, stack[n].end,
                   g[n].off, pos)
<1>1. /\ IsSeq(stack) /\ Decoding(stack, bytes, pos, sent[Len(sent)])
  BY DEF DecodeInv, Idle
<1>2. Len(stack) \in Nat /\ DOMAIN stack = 1 .. Len(stack) /\ Len(stack) >= 1
  BY <1>1, SeqLen DEF Decoding
<1>3. PICK g : Calls(stack, g, bytes, pos, sent[Len(sent)])
  BY <1>1 DEF Decoding
<1>4. /\ DOMAIN stack[Len(stack)] = {"type", "end", "message", "field"}
      /\ Read(Len(stack), stack[Len(stack)].type, g[Len(stack)].a, stack[Len(stack)].message, bytes,
              g[Len(stack)].from, stack[Len(stack)].end, g[Len(stack)].off, pos)
  BY <1>2, <1>3 DEF Calls, CallAt
<1> QED
  BY <1>2, <1>3, <1>4 DEF Frame, Last

\* A step inside decode leaves the rest of the state alone.
LEMMA StillDecoding ==
  ASSUME DecodeInv, ~Idle, IsSeq(stack'), Decoding(stack', bytes, pos', sent[Len(sent)]),
         UNCHANGED <<method, sent, received, bytes>>
  PROVE  DecodeInv'
<1>1. stack' # <<>>
  BY SeqEmpty DEF Decoding
<1>2. Preserved'
  BY DEF DecodeInv, Preserved
<1> QED
  BY <1>1, <1>2 DEF DecodeInv, Idle

\* The cell that decode expects is the one of the field.
LEMMA CellOfField ==
  ASSUME NEW t \in Types, NEW a, NEW B, NEW off, NEW p, NEW k \in 1 .. Count(t), FieldAt(t, a, B, off, p, k),
         NEW f \in Fields(t), B[p + 1].tag = Tag(f)
  PROVE  f = Schema[t][k]
<1>1. PICK j \in 1 .. Count(t) : f = Schema[t][j]
  BY FieldOfType
<1>2. B[p + 1].tag = Tag(Schema[t][k])
  BY DEF FieldAt, Cell
<1> QED
  BY <1>1, <1>2, TagsDiffer

\* decode reads a scalar: the cell is of the field whose tag it has.
LEMMA ReadScalarStep == DecodeInv /\ ReadScalar => DecodeInv'
<1> SUFFICES ASSUME DecodeInv, ReadScalar PROVE DecodeInv'
  OBVIOUS
<1>1. ~Idle /\ pos < Frame.end
  BY DEF ReadScalar, More
<1>2. PICK n, g :
        /\ n \in Nat /\ n = Len(stack) /\ n >= 1 /\ DOMAIN stack = 1 .. n /\ Frame = stack[n]
        /\ Calls(stack, g, bytes, pos, sent[Len(sent)])
        /\ DOMAIN stack[n] = {"type", "end", "message", "field"}
        /\ Read(n, stack[n].type, g[n].a, stack[n].message, bytes, g[n].from, stack[n].end,
                g[n].off, pos)
  BY <1>1, LastCall
<1>3. PICK fr : fr = stack[n]
  OBVIOUS
<1>4. PICK f \in Fields(fr.type) :
        /\ Here.tag = Tag(f) /\ ~Nested(f)
        /\ stack' = [stack EXCEPT ![Len(stack)].message[f.name] = Here.value]
  BY <1>2, <1>3 DEF ReadScalar, Expected
<1>5. PICK t, a, b, from, off :
        t = fr.type /\ a = g[n].a /\ b = fr.message /\ from = g[n].from /\ off = g[n].off
  OBVIOUS
<1>6. Read(n, t, a, b, bytes, from, fr.end, off, pos) /\ pos < fr.end
  BY <1>1, <1>2, <1>3, <1>5
<1>7. t \in Types /\ Source(n, t, a, bytes, from, fr.end, off) /\ DOMAIN b = FieldNames(t)
  BY <1>6 DEF Read, Source, AtLevel
<1>8. pos \in Nat /\ from <= pos
  BY <1>6, PositionInside
<1>9. PICK k \in 1 .. Count(t) : FieldAt(t, a, bytes, off, pos, k)
  <2>1. ~ AdditionAt(t, bytes, from, off, pos)
    BY <1>4, <1>5, <1>7, <1>8, AdditionUnknown DEF Here
  <2> QED
    BY <1>6, <2>1, NextCell
<1>10. f = Schema[t][k]
  BY <1>4, <1>5, <1>7, <1>9, CellOfField DEF Here
<1>11. /\ Here.value = Single(f, Value(t, a, k)) /\ off[k] = pos + 1
  BY <1>4, <1>9, <1>10 DEF FieldAt, Here, Cell
<1>12. PICK x, c : x = Here.value /\ c = [b EXCEPT ![Schema[t][k].name] = x]
  OBVIOUS
<1>13. Schema[t][k].name \in DOMAIN b
  BY <1>7, FieldByName
<1>14. Taken(n, t, k, a, c)
  <2>1. Value(t, c, k) = Single(Schema[t][k], Value(t, a, k)) /\ ~Nested(Schema[t][k])
    BY <1>4, <1>10, <1>11, <1>12, <1>13 DEF Value
  <2> QED
    BY <2>1 DEF Taken
<1>15. Read(n, t, a, c, bytes, from, fr.end, off, off[k])
  BY <1>6, <1>9, <1>12, <1>14, FieldRead
<1>16. PICK fr2 : fr2 = [fr EXCEPT !.message = c]
  OBVIOUS
<1>17. /\ DOMAIN fr2 = DOMAIN fr /\ fr2.type = fr.type /\ fr2.end = fr.end /\ fr2.field = fr.field
       /\ fr2.message = c
  BY <1>2, <1>3, <1>16
<1>18. /\ IsSeq(stack') /\ Len(stack') = n
       /\ \A i \in 1 .. n : stack'[i] = IF i = n THEN fr2 ELSE stack[i]
  <2>1. stack' = [stack EXCEPT ![n] = fr2]
    BY <1>2, <1>3, <1>4, <1>5, <1>10, <1>12, <1>16
  <2>2. IsSeq(stack) /\ n \in DOMAIN stack
    BY <1>2 DEF DecodeInv
  <2> QED
    BY <1>2, <2>1, <2>2, SeqReplace
<1>19. PICK stk2 : stk2 = stack'
  OBVIOUS
<1>20. /\ Len(stk2) = n /\ \A i \in 1 .. n : i # n => stk2[i] = stack[i]
       /\ stk2[n] = fr2
  BY <1>2, <1>18, <1>19
<1>21. Decoding(stk2, bytes, off[k], sent[Len(sent)])
  <2>1. Read(n, stack[n].type, g[n].a, stk2[n].message, bytes, g[n].from, stack[n].end, g[n].off, off[k])
    BY <1>3, <1>5, <1>15, <1>17, <1>20
  <2>2. /\ DOMAIN stk2[n] = DOMAIN stack[n] /\ stk2[n].type = stack[n].type
        /\ stk2[n].end = stack[n].end /\ stk2[n].field = stack[n].field
    BY <1>3, <1>17, <1>20
  <2> QED
    BY <1>2, <1>20, <2>1, <2>2, LastReadsOn
<1>22. IsSeq(stack') /\ Decoding(stack', bytes, pos', sent[Len(sent)])
  BY <1>11, <1>18, <1>19, <1>21 DEF ReadScalar
<1> QED
  BY <1>1, <1>22, StillDecoding DEF ReadScalar

\* decode skips: a cell of no expected tag is an addition.
LEMMA SkipStep == DecodeInv /\ Skip => DecodeInv'
<1> SUFFICES ASSUME DecodeInv, Skip PROVE DecodeInv'
  OBVIOUS
<1>1. ~Idle /\ pos < Frame.end
  BY DEF Skip, More
<1>2. PICK n, g :
        /\ n \in Nat /\ n = Len(stack) /\ n >= 1 /\ DOMAIN stack = 1 .. n /\ Frame = stack[n]
        /\ Calls(stack, g, bytes, pos, sent[Len(sent)])
        /\ DOMAIN stack[n] = {"type", "end", "message", "field"}
        /\ Read(n, stack[n].type, g[n].a, stack[n].message, bytes, g[n].from, stack[n].end,
                g[n].off, pos)
  BY <1>1, LastCall
<1>3. PICK fr : fr = stack[n]
  OBVIOUS
<1>4. PICK t, a, b, from, off :
        t = fr.type /\ a = g[n].a /\ b = fr.message /\ from = g[n].from /\ off = g[n].off
  OBVIOUS
<1>5. Read(n, t, a, b, bytes, from, fr.end, off, pos) /\ pos < fr.end
  BY <1>1, <1>2, <1>3, <1>4
<1>6. t \in Types
  BY <1>5 DEF Read, Source, AtLevel
<1>7. \A f \in Fields(t) : Here.tag # Tag(f)
  BY <1>2, <1>3, <1>4 DEF Skip, Expected
<1>8. ~ \E k \in 1 .. Count(t) : FieldAt(t, a, bytes, off, pos, k)
  <2> SUFFICES ASSUME NEW k \in 1 .. Count(t), FieldAt(t, a, bytes, off, pos, k) PROVE FALSE
    OBVIOUS
  <2>1. Here.tag = Tag(Schema[t][k])
    BY DEF FieldAt, Here, Cell
  <2> QED
    BY <1>6, <1>7, <2>1, FieldOfType
<1>9. AdditionAt(t, bytes, from, off, pos)
  BY <1>5, <1>8, NextCell
<1>10. Read(n, t, a, b, bytes, from, fr.end, off, pos + 1 + Here.len)
  BY <1>5, <1>9, AdditionSkipped DEF Here
<1>11. Decoding(stack, bytes, pos + 1 + Here.len, sent[Len(sent)])
  BY <1>2, <1>3, <1>4, <1>10, LastReadsOn
<1>12. IsSeq(stack') /\ Decoding(stack', bytes, pos', sent[Len(sent)])
  BY <1>11 DEF Skip, DecodeInv
<1> QED
  BY <1>1, <1>12, StillDecoding DEF Skip

\* The last call calls the decode of a message in one of its fields.
LEMMA CallBegins ==
  ASSUME NEW stk, IsSeq(stk), NEW g, NEW B, NEW p, NEW last, Calls(stk, g, B, p, last),
         NEW n \in Nat, n = Len(stk), n >= 1,
         NEW t, t = stk[n].type, NEW k \in 1 .. Count(t), FieldAt(t, g[n].a, B, g[n].off, p, k),
         Nested(Schema[t][k]), p \in Nat,
         NEW fr, fr = NewFrame(Kind(t, k), g[n].off[k], Schema[t][k].name)
  PROVE  Decoding(Append(stk, fr), B, p + 1, last)
<1>1. PICK a, off, m, u : a = g[n].a /\ off = g[n].off /\ m = Value(t, a, k)[1] /\ u = Kind(t, k)
  OBVIOUS
<1>2. /\ DOMAIN stk[n] = {"type", "end", "message", "field"} /\ g[n].at = p
      /\ Read(n, t, a, stk[n].message, B, g[n].from, stk[n].end, off, p)
  BY <1>1 DEF Calls, CallAt
<1>3. Source(n, t, a, B, g[n].from, stk[n].end, off)
  BY <1>2 DEF Read
<1>4. Holds(t, a, k) /\ off[k - 1] = p
  BY <1>1 DEF FieldAt, Holds, Value
<1>5. PICK off2 : Source(n + 1, u, m, B, p + 1, off[k], off2)
  BY <1>1, <1>3, <1>4, NestedSource
<1>6. Read(n + 1, u, m, createBase(u), B, p + 1, off[k], off2, p + 1)
  BY <1>5, ReadNothing
<1> DEFINE h == [i \in 1 .. n + 1 |-> IF i <= n THEN g[i]
                                      ELSE [a |-> m, from |-> p + 1, off |-> off2, at |-> p + 1]]
<1>7. /\ \A i \in 1 .. n : h[i] = g[i]
      /\ h[n + 1].a = m /\ h[n + 1].from = p + 1 /\ h[n + 1].off = off2 /\ h[n + 1].at = p + 1
  OBVIOUS
<1> HIDE DEF h
<1>8. PICK stk2 : stk2 = Append(stk, fr)
  OBVIOUS
<1>9. Len(stk2) = n + 1 /\ (\A i \in 1 .. n : stk2[i] = stk[i]) /\ stk2[n + 1] = fr
  BY <1>8, SeqAppend
<1>10. /\ fr.type = u /\ fr.end = off[k] /\ fr.message = createBase(u)
       /\ fr.field = Schema[t][k].name /\ DOMAIN fr = {"type", "end", "message", "field"}
  BY <1>1 DEF NewFrame
<1>11. 1 \in 1 .. n /\ n \in 1 .. n
  OBVIOUS
<1>12. /\ h[1].a = last.message /\ stk2[1].type = last.type /\ stk2[1].end = Len(B)
       /\ h[Len(stk2)].at = p + 1
  BY <1>7, <1>9, <1>11 DEF Calls
<1>13. ASSUME NEW i \in 1 .. n + 1 PROVE CallAt(i, stk2, h, B)
  <2>1. CASE i = n + 1
    BY <1>6, <1>7, <1>9, <1>10, <2>1 DEF CallAt
  <2>2. CASE i \in 1 .. n
    BY <1>7, <1>9, <2>2 DEF Calls, CallAt
  <2> QED
    BY <2>1, <2>2
<1>14. ASSUME NEW i \in 1 .. n PROVE CalledBy(i, stk2, h, B)
  <2>1. stk2[i] = stk[i] /\ h[i] = g[i]
    BY <1>7, <1>9
  <2>2. CASE i = n
    <3>1. FieldAt(stk2[n].type, h[n].a, B, h[n].off, h[n].at, k)
      BY <1>1, <1>2, <2>1, <2>2
    <3>2. /\ stk2[n].type = t /\ stk2[n + 1].type = Kind(t, k) /\ stk2[n + 1].end = h[n].off[k]
          /\ stk2[n + 1].field = Schema[t][k].name /\ h[n + 1].a = Value(t, h[n].a, k)[1]
      BY <1>1, <1>7, <1>9, <1>10, <2>1, <2>2
    <3> QED
      BY <2>2, <3>1, <3>2 DEF CalledBy
  <2>3. CASE i \in 1 .. n - 1
    <3>1. CalledBy(i, stk, g, B)
      BY <2>3 DEF Calls
    <3>2. i + 1 \in 1 .. n
      BY <2>3
    <3>3. stk2[i + 1] = stk[i + 1] /\ h[i + 1] = g[i + 1]
      BY <1>7, <1>9, <3>2
    <3> QED
      BY <2>1, <3>1, <3>3 DEF CalledBy
  <2> QED
    BY <2>2, <2>3
<1>15. Calls(stk2, h, B, p + 1, last)
  <2>1. n + 1 - 1 = n
    OBVIOUS
  <2> QED
    BY <1>9, <1>12, <1>13, <1>14, <2>1 DEF Calls
<1> QED
  BY <1>8, <1>9, <1>15 DEF Decoding

\* decode calls a nested decode, whose end is the offset of the field.
LEMMA ReadNestedStep == DecodeInv /\ ReadNested => DecodeInv'
<1> SUFFICES ASSUME DecodeInv, ReadNested PROVE DecodeInv'
  OBVIOUS
<1>1. ~Idle /\ pos < Frame.end
  BY DEF ReadNested, More
<1>2. PICK n, g :
        /\ n \in Nat /\ n = Len(stack) /\ n >= 1 /\ DOMAIN stack = 1 .. n /\ Frame = stack[n]
        /\ Calls(stack, g, bytes, pos, sent[Len(sent)])
        /\ DOMAIN stack[n] = {"type", "end", "message", "field"}
        /\ Read(n, stack[n].type, g[n].a, stack[n].message, bytes, g[n].from, stack[n].end,
                g[n].off, pos)
  BY <1>1, LastCall
<1>3. PICK fr : fr = stack[n]
  OBVIOUS
<1>4. PICK f \in Fields(fr.type) :
        /\ Here.tag = Tag(f) /\ Nested(f)
        /\ stack' = Append(stack, NewFrame(f.kind, pos + 1 + Here.len, f.name))
  BY <1>2, <1>3 DEF ReadNested, Expected, NewFrame
<1>5. PICK t, a, b, from, off :
        t = fr.type /\ a = g[n].a /\ b = fr.message /\ from = g[n].from /\ off = g[n].off
  OBVIOUS
<1>6. Read(n, t, a, b, bytes, from, fr.end, off, pos) /\ pos < fr.end
  BY <1>1, <1>2, <1>3, <1>5
<1>7. t \in Types /\ Source(n, t, a, bytes, from, fr.end, off)
  BY <1>6 DEF Read, Source, AtLevel
<1>8. pos \in Nat /\ from <= pos
  BY <1>6, PositionInside
<1>9. PICK k \in 1 .. Count(t) : FieldAt(t, a, bytes, off, pos, k)
  <2>1. ~ AdditionAt(t, bytes, from, off, pos)
    BY <1>4, <1>5, <1>7, <1>8, AdditionUnknown DEF Here
  <2> QED
    BY <1>6, <2>1, NextCell
<1>10. f = Schema[t][k]
  BY <1>4, <1>5, <1>7, <1>9, CellOfField DEF Here
<1>11. off[k] \in Nat
  <2>1. Layout(t, a, bytes, from, fr.end, off) /\ k \in 0 .. Count(t)
    BY <1>7, Tables DEF Source, Table
  <2> QED
    BY <2>1 DEF Layout
<1>12. pos + 1 + Here.len = off[k]
  <2>1. Here.len = off[k] - pos - 1
    BY <1>9 DEF FieldAt, Here, Cell
  <2> QED
    BY <1>8, <1>11, <2>1
<1>13. PICK fr2 : fr2 = NewFrame(Kind(t, k), g[n].off[k], Schema[t][k].name)
  OBVIOUS
<1>14. stack' = Append(stack, fr2)
  BY <1>4, <1>5, <1>10, <1>12, <1>13 DEF Kind
<1>15. IsSeq(stack)
  BY DEF DecodeInv
<1>16. Decoding(Append(stack, fr2), bytes, pos + 1, sent[Len(sent)])
  BY <1>2, <1>3, <1>4, <1>5, <1>8, <1>9, <1>10, <1>13, <1>15, CallBegins
<1>17. IsSeq(stack') /\ Decoding(stack', bytes, pos', sent[Len(sent)])
  BY <1>14, <1>15, <1>16, SeqAppend DEF ReadNested
<1> QED
  BY <1>1, <1>17, StillDecoding DEF ReadNested

\* A nested call returns: the call before it has read the field.
LEMMA CallEnds ==
  ASSUME NEW stk, IsSeq(stk), NEW g, NEW B, NEW p, NEW last, Calls(stk, g, B, p, last),
         NEW m \in Nat, m >= 1, Len(stk) = m + 1, stk[m + 1].end <= p,
         NEW x, x = << stk[m + 1].message >>,
         NEW fr, fr = [stk[m] EXCEPT !.message = [stk[m].message EXCEPT ![stk[m + 1].field] = x]]
  PROVE  Decoding([Front(stk) EXCEPT ![m] = fr], B, p, last)
<1>1. m \in 1 .. Len(stk) /\ m + 1 \in 1 .. Len(stk) /\ m \in 1 .. Len(stk) - 1 /\ m = Len(stk) - 1
  OBVIOUS
<1>2. CallAt(m, stk, g, B) /\ CallAt(m + 1, stk, g, B) /\ CalledBy(m, stk, g, B) /\ g[m + 1].at = p
  BY <1>1 DEF Calls
<1>3. PICK t, a, b, off : t = stk[m].type /\ a = g[m].a /\ b = stk[m].message /\ off = g[m].off
  OBVIOUS
<1>4. PICK k \in 1 .. Count(t) :
        /\ FieldAt(t, a, B, off, g[m].at, k) /\ Nested(Schema[t][k])
        /\ stk[m + 1].type = Kind(t, k) /\ stk[m + 1].end = off[k]
        /\ stk[m + 1].field = Schema[t][k].name
        /\ g[m + 1].a = Value(t, a, k)[1]
  BY <1>2, <1>3 DEF CalledBy
<1>5. PICK b2 : b2 = stk[m + 1].message
  OBVIOUS
<1>6. /\ Read(m, t, a, b, B, g[m].from, stk[m].end, off, g[m].at)
      /\ DOMAIN stk[m] = {"type", "end", "message", "field"}
  BY <1>2, <1>3 DEF CallAt
<1>7. Read(m + 1, Kind(t, k), Value(t, a, k)[1], b2, B, g[m + 1].from, off[k], g[m + 1].off, p)
  BY <1>2, <1>4, <1>5 DEF CallAt
<1>8. /\ p = off[k]
      /\ m + 1 = 2 => Same2(Kind(t, k), Value(t, a, k)[1], b2)
      /\ m + 1 = 3 => Same1(Kind(t, k), Value(t, a, k)[1], b2)
  BY <1>4, <1>7, AllRead
<1>9. SameBelow(m, Kind(t, k), Value(t, a, k)[1], b2)
  <2>1. m = 1 => m + 1 = 2
    OBVIOUS
  <2>2. m = 2 => m + 1 = 3
    OBVIOUS
  <2> QED
    BY <1>8, <2>1, <2>2 DEF SameBelow
<1>10. PICK c : c = [b EXCEPT ![Schema[t][k].name] = x]
  OBVIOUS
<1>11. t \in Types /\ AtMostOne(t, a) /\ DOMAIN b = FieldNames(t)
  BY <1>6 DEF Read, Source, AtLevel
<1>12. Value(t, c, k) = x
  BY <1>10, <1>11, FieldByName DEF Value
<1>13. Len(Value(t, a, k)) = 1
  <2>1. Holds(t, a, k)
    BY <1>4 DEF FieldAt, Holds, Value
  <2> QED
    BY <1>11, <2>1 DEF AtMostOne
<1>14. Taken(m, t, k, a, c)
  <2>1. Len(x) = 1 /\ x[1] = b2
    BY <1>5
  <2> HIDE <1>10
  <2> QED
    BY <1>4, <1>9, <1>12, <1>13, <2>1 DEF Taken
<1>15. Read(m, t, a, c, B, g[m].from, stk[m].end, off, p)
  BY <1>4, <1>6, <1>8, <1>10, <1>14, FieldRead
<1>16. PICK s : s = Front(stk)
  OBVIOUS
<1>17. IsSeq(s) /\ Len(s) = m /\ \A i \in 1 .. m : s[i] = stk[i]
  <2>1. stk # <<>>
    BY SeqEmpty
  <2> QED
    BY <1>1, <1>16, <2>1, SeqFront
<1>18. Calls(s, g, B, g[m].at, last)
  <2>1. g[1].a = last.message /\ s[1].type = last.type /\ s[1].end = Len(B) /\ g[Len(s)].at = g[m].at
    <3>1. 1 \in 1 .. m
      OBVIOUS
    <3> QED
      BY <1>17, <3>1 DEF Calls
  <2>2. ASSUME NEW i \in 1 .. m PROVE CallAt(i, s, g, B)
    <3>1. i \in 1 .. Len(stk)
      OBVIOUS
    <3> QED
      BY <1>17, <3>1 DEF Calls, CallAt
  <2>3. ASSUME NEW i \in 1 .. m - 1 PROVE CalledBy(i, s, g, B)
    <3>1. i \in 1 .. m /\ i + 1 \in 1 .. m /\ i \in 1 .. Len(stk) - 1
      OBVIOUS
    <3>2. s[i] = stk[i] /\ s[i + 1] = stk[i + 1] /\ CalledBy(i, stk, g, B)
      BY <1>17, <3>1 DEF Calls
    <3> QED
      BY <3>2 DEF CalledBy
  <2> QED
    BY <1>17, <2>1, <2>2, <2>3 DEF Calls
<1>19. PICK s2 : s2 = [s EXCEPT ![m] = fr]
  OBVIOUS
<1>20. Len(s2) = m /\ s2[m] = fr /\ \A i \in 1 .. m : i # m => s2[i] = s[i]
  <2>1. m \in DOMAIN s
    BY <1>17, SeqLen
  <2> QED
    BY <1>17, <1>19, <2>1, SeqReplace
<1>21. /\ DOMAIN fr = DOMAIN stk[m] /\ fr.type = stk[m].type /\ fr.end = stk[m].end
       /\ fr.field = stk[m].field /\ fr.message = c
  BY <1>3, <1>4, <1>6, <1>10
<1>22. Decoding(s2, B, p, last)
  <2>1. s[m] = stk[m]
    BY <1>17
  <2>2. Read(m, s[m].type, g[m].a, s2[m].message, B, g[m].from, s[m].end, g[m].off, p)
    BY <1>3, <1>15, <1>20, <1>21, <2>1
  <2>3. /\ DOMAIN s2[m] = DOMAIN s[m] /\ s2[m].type = s[m].type /\ s2[m].end = s[m].end
        /\ s2[m].field = s[m].field
    BY <1>20, <1>21, <2>1
  <2> QED
    BY <1>17, <1>18, <1>20, <2>2, <2>3, LastReadsOn
<1> QED
  BY <1>16, <1>19, <1>22

\* decode returns, to its caller or with the whole message.
LEMMA ReturnStep == DecodeInv /\ Return => DecodeInv'
<1> SUFFICES ASSUME DecodeInv, Return PROVE DecodeInv'
  OBVIOUS
<1>1. ~Idle /\ pos >= Frame.end
  BY DEF Return
<1>2. PICK n, g :
        /\ n \in Nat /\ n = Len(stack) /\ n >= 1 /\ DOMAIN stack = 1 .. n /\ Frame = stack[n]
        /\ Calls(stack, g, bytes, pos, sent[Len(sent)])
        /\ DOMAIN stack[n] = {"type", "end", "message", "field"}
        /\ Read(n, stack[n].type, g[n].a, stack[n].message, bytes, g[n].from, stack[n].end,
                g[n].off, pos)
  BY <1>1, LastCall
<1>3. pos \in Nat /\ stack[n].end \in Nat /\ stack[n].end <= pos
  <2>1. pos \in Nat /\ stack[n].end \in Nat
    BY <1>2, PositionInside
  <2> QED
    BY <1>1, <1>2, <2>1
<1>4. IsSeq(stack) /\ IsSeq(sent) /\ IsSeq(received) /\ Len(sent) = Len(received) + 1 /\ Preserved
  BY <1>1 DEF DecodeInv, Idle
<1>5. CASE n = 1
  <2>1. PICK last, got : last = sent[Len(sent)] /\ got = [type |-> Frame.type, message |-> Frame.message]
    OBVIOUS
  <2>2. stack' = <<>> /\ received' = Append(received, got)
    BY <1>2, <1>5, <2>1 DEF Return
  <2>3. /\ IsSeq(received') /\ Len(received') = Len(received) + 1
        /\ received'[Len(received) + 1] = got
        /\ \A i \in 1 .. Len(received) : received'[i] = received[i]
    BY <1>4, <2>2, SeqAppend
  <2>4. /\ g[1].a = last.message /\ stack[1].type = last.type /\ stack[1].end = Len(bytes)
    BY <1>2, <2>1 DEF Calls
  <2>5. pos = Len(bytes) /\ Same(last.type, last.message, stack[1].message)
    BY <1>2, <1>3, <1>5, <2>4, AllRead
  <2>6. got.type = last.type /\ Same(got.type, last.message, got.message)
    BY <1>2, <1>5, <2>1, <2>4, <2>5
  <2>7. /\ Len(received) \in Nat /\ DOMAIN received = 1 .. Len(received)
        /\ DOMAIN received' = 1 .. Len(received')
    BY <1>4, <2>3, SeqLen
  <2>8. sent[Len(received) + 1] = last
    BY <1>4, <2>1
  <2>9. ASSUME NEW i \in 1 .. Len(received) + 1
        PROVE  /\ received'[i].type = sent[i].type
               /\ Same(received'[i].type, sent[i].message, received'[i].message)
    <3>1. CASE i = Len(received) + 1
      BY <2>3, <2>6, <2>8, <3>1
    <3>2. CASE i \in 1 .. Len(received)
      BY <1>4, <2>3, <2>7, <3>2 DEF Preserved
    <3> QED
      BY <2>7, <3>1, <3>2
  <2>10. Preserved'
    BY <2>3, <2>7, <2>9 DEF Return, Preserved
  <2>11. IsSeq(<<>>) /\ pos \in 0 .. Len(bytes)
    BY <1>3, <2>5, SeqEmpty
  <2> QED
    BY <1>4, <2>2, <2>3, <2>10, <2>11 DEF Return, DecodeInv
<1>6. CASE n # 1
  <2>1. PICK m \in Nat : m >= 1 /\ n = m + 1
    <3>1. n - 1 \in Nat /\ n - 1 >= 1 /\ n = (n - 1) + 1
      BY <1>2, <1>6
    <3> QED
      BY <3>1
  <2>2. PICK fr :
          fr = [stack[m] EXCEPT !.message =
                 [stack[m].message EXCEPT ![stack[m + 1].field] = << stack[m + 1].message >>]]
    OBVIOUS
  <2>3. PICK s : s = Front(stack)
    OBVIOUS
  <2>4. IsSeq(s) /\ Len(s) = m /\ m \in DOMAIN s /\ s[m] = stack[m]
    <3>1. IsSeq(s) /\ Len(s) = m /\ \A i \in 1 .. m : s[i] = stack[i]
      <4>1. Len(stack) - 1 = m
        BY <1>2, <2>1
      <4>2. IsSeq(stack) /\ stack # <<>>
        BY <1>1, <1>4 DEF Idle
      <4> QED
        BY <2>3, <4>1, <4>2, SeqFront
    <3> QED
      BY <2>1, <3>1, SeqLen
  <2>5. stack' = [s EXCEPT ![m] = fr]
    <3>1. stack' = [s EXCEPT ![m].message[stack[m + 1].field] = << stack[m + 1].message >>]
      <4>1. Len(stack) - 1 = m /\ Len(stack) # 1
        BY <1>2, <1>6, <2>1
      <4> QED
        BY <1>2, <2>1, <2>3, <4>1 DEF Return
    <3> QED
      BY <2>2, <2>4, <3>1
  <2>6. Decoding([s EXCEPT ![m] = fr], bytes, pos, sent[Len(sent)])
    BY <1>2, <1>3, <1>4, <2>1, <2>2, <2>3, CallEnds
  <2>7. IsSeq(stack')
    BY <2>4, <2>5, SeqReplace
  <2>8. UNCHANGED <<method, sent, received, bytes, pos>>
    BY <1>2, <1>6 DEF Return
  <2> QED
    BY <1>1, <2>5, <2>6, <2>7, <2>8, StillDecoding
<1> QED
  BY <1>5, <1>6

-----------------------------------------------------------------------------
\* The other steps, and the theorems.

\* The types that the stub and the WebSocket carry.
LEMMA MethodTypes ==
  /\ \A m \in Methods : Request[m] \in Types /\ Response[m] \in Types
  /\ Posted \subseteq Types
<1>1. ASSUME NEW m \in Methods PROVE Request[m] \in Types /\ Response[m] \in Types
  BY TypesOfSchema DEF Methods, Request, Response, LeafTypes, InnerTypes
<1>2. Posted \subseteq Types
  BY TypesOfSchema DEF Posted, LeafTypes, OuterTypes
<1> QED
  BY <1>1, <1>2

LEMMA DecodeInit == Init => DecodeInv
<1> SUFFICES ASSUME Init PROVE DecodeInv
  OBVIOUS
<1>1. IsSeq(<<>>) /\ Len(<<>>) = 0 /\ DOMAIN <<>> = {}
  BY SeqEmpty
<1> QED
  BY <1>1 DEF Init, DecodeInv, Preserved

LEMMA CompleteStep == DecodeInv /\ Complete => DecodeInv'
<1> SUFFICES ASSUME DecodeInv, Complete PROVE DecodeInv'
  OBVIOUS
<1>1. IsSeq(<<>>) /\ Len(<<>>) = 0 /\ DOMAIN <<>> = {}
  BY SeqEmpty
<1>2. /\ method' = "none" /\ sent' = <<>> /\ received' = <<>> /\ stack' = <<>> /\ stack = <<>>
      /\ UNCHANGED <<bytes, pos, stack>>
  BY DEF Complete, Idle
<1>3. Preserved'
  BY <1>1, <1>2 DEF Preserved
<1> QED
  BY <1>1, <1>2, <1>3 DEF DecodeInv

\* Every step keeps DecodeInv.
LEMMA DecodeNext == DecodeInv /\ [Next]_vars => DecodeInv'
<1> SUFFICES ASSUME DecodeInv, [Next]_vars PROVE DecodeInv'
  OBVIOUS
<1>1. CASE UNCHANGED vars
  BY <1>1 DEF vars, DecodeInv, Preserved
<1>2. ASSUME NEW m \in Methods, Call(m) PROVE DecodeInv'
  <2>1. PICK t \in Types : t = Request[m]
    BY MethodTypes
  <2> QED
    BY <1>2, <2>1, TransferStep DEF Call
<1>3. CASE Respond
  <2>1. PICK t \in Types : t = Response[method]
    BY <1>3, MethodTypes DEF Respond
  <2>2. Idle /\ Transfer(t) /\ UNCHANGED received /\ method' \in Methods
    BY <1>3, <2>1 DEF Respond
  <2> QED
    BY <2>2, TransferStep
<1>4. CASE Post
  <2>1. PICK t \in Posted : Transfer(t)
    BY <1>4 DEF Post
  <2>2. t \in Types /\ Idle /\ UNCHANGED received /\ method' = "Post"
    BY <1>4, MethodTypes DEF Post
  <2> QED
    BY <2>1, <2>2, TransferStep
<1>5. CASE Complete
  BY <1>5, CompleteStep
<1>6. CASE ReadScalar
  BY <1>6, ReadScalarStep
<1>7. CASE ReadNested
  BY <1>7, ReadNestedStep
<1>8. CASE Skip
  BY <1>8, SkipStep
<1>9. CASE Return
  BY <1>9, ReturnStep
<1> QED
  BY <1>1, <1>2, <1>3, <1>4, <1>5, <1>6, <1>7, <1>8, <1>9 DEF Next

LEMMA DecodeInvAlways == Spec => []DecodeInv
<1>1. Init => DecodeInv
  BY DecodeInit
<1>2. DecodeInv /\ [Next]_vars => DecodeInv'
  BY DecodeNext
<1> QED
  BY <1>1, <1>2, PTL DEF Spec

\* The messages of the calls lie in each other, and the reader in all of them.
LEMMA EndsNest ==
  ASSUME NEW stk, NEW g, NEW B, NEW p, NEW last, Calls(stk, g, B, p, last),
         NEW n \in Nat, n = Len(stk), n >= 1
  PROVE  /\ p \in Nat
         /\ \A i \in 1 .. n : /\ stk[i].type \in Types /\ DOMAIN stk[i].message = FieldNames(stk[i].type)
                              /\ stk[i].end \in Nat /\ p <= stk[i].end /\ stk[i].end <= Len(B)
                              /\ i > 1 => stk[i].end <= stk[i - 1].end
<1>1. ASSUME NEW i \in 1 .. n
      PROVE  /\ Read(i, stk[i].type, g[i].a, stk[i].message, B, g[i].from, stk[i].end, g[i].off, g[i].at)
             /\ i \in 1 .. 3 /\ stk[i].type \in Types /\ DOMAIN stk[i].message = FieldNames(stk[i].type)
             /\ g[i].at \in Nat /\ stk[i].end \in Nat /\ g[i].at <= stk[i].end
  <2>1. Read(i, stk[i].type, g[i].a, stk[i].message, B, g[i].from, stk[i].end, g[i].off, g[i].at)
    BY DEF Calls, CallAt
  <2>2. g[i].at \in Nat /\ stk[i].end \in Nat /\ g[i].at <= stk[i].end
    BY <2>1, PositionInside
  <2>3. i \in 1 .. 3 /\ stk[i].type \in Types /\ DOMAIN stk[i].message = FieldNames(stk[i].type)
    BY <2>1 DEF Read, Source, AtLevel
  <2> QED
    BY <2>1, <2>2, <2>3
<1>2. ASSUME NEW i \in 1 .. n - 1 PROVE stk[i + 1].end <= stk[i].end
  <2>1. i \in 1 .. n
    OBVIOUS
  <2>2. PICK k \in 1 .. Count(stk[i].type) : stk[i + 1].end = g[i].off[k]
    BY DEF Calls, CalledBy
  <2>3. PICK t, off : t = stk[i].type /\ off = g[i].off
    OBVIOUS
  <2>4. t \in Types /\ Layout(t, g[i].a, B, g[i].from, stk[i].end, off)
    BY <1>1, <2>1, <2>3 DEF Read, Source
  <2>5. k \in 0 .. Count(t) /\ Count(t) \in k .. Count(t)
    BY <2>2, <2>3, <2>4, Tables DEF Table
  <2>6. off[k] <= off[Count(t)] /\ off[Count(t)] = stk[i].end
    BY <2>4, <2>5, OffsetsRise DEF Layout
  <2> QED
    BY <2>2, <2>3, <2>6
<1>3. p \in Nat /\ p <= stk[n].end /\ stk[1].end = Len(B)
  <2>1. n \in 1 .. n /\ g[n].at = p /\ stk[1].end = Len(B)
    BY DEF Calls
  <2> QED
    BY <1>1, <2>1
<1>4. n = 1 \/ n = 2 \/ n = 3
  <2>1. n \in 1 .. n
    OBVIOUS
  <2> QED
    BY <1>1, <2>1
<1>5. ASSUME NEW i \in 1 .. n, i > 1 PROVE stk[i].end <= stk[i - 1].end
  <2>1. i - 1 \in 1 .. n - 1 /\ (i - 1) + 1 = i
    BY <1>5
  <2> QED
    BY <1>2, <2>1
<1>6. ASSUME NEW i \in 1 .. n PROVE p <= stk[i].end /\ stk[i].end <= stk[1].end
  <2>1. \A j \in 1 .. n : stk[j].end \in Nat
    BY <1>1
  <2>2. CASE n = 1
    BY <1>3, <2>1, <2>2
  <2>3. CASE n = 2
    <3>1. stk[2].end <= stk[1].end /\ stk[1].end \in Nat /\ stk[2].end \in Nat
      BY <1>2, <2>1, <2>3
    <3> QED
      BY <1>3, <2>3, <3>1
  <2>4. CASE n = 3
    <3>1. /\ stk[2].end <= stk[1].end /\ stk[3].end <= stk[2].end
          /\ stk[1].end \in Nat /\ stk[2].end \in Nat /\ stk[3].end \in Nat
      BY <1>2, <2>1, <2>4
    <3> QED
      BY <1>3, <2>4, <3>1
  <2> QED
    BY <1>4, <2>2, <2>3, <2>4
<1> QED
  BY <1>1, <1>3, <1>5, <1>6

\* DecodeInv implies the types and the reader in step.
LEMMA DecodeInvReader == DecodeInv => TypeOK /\ ReaderInStep
<1> SUFFICES ASSUME DecodeInv PROVE TypeOK /\ ReaderInStep
  OBVIOUS
<1>1. /\ Len(sent) \in Nat /\ Len(received) \in Nat /\ Len(bytes) \in Nat /\ Len(stack) \in Nat
      /\ DOMAIN stack = 1 .. Len(stack)
  BY SeqLen DEF DecodeInv
<1>2. Len(received) <= Len(sent) /\ method \in Methods \cup {"none", "Post"}
  BY <1>1 DEF DecodeInv
<1>3. CASE stack = <<>>
  <2>1. DOMAIN stack = {}
    BY <1>1, <1>3, SeqEmpty
  <2> QED
    BY <1>2, <1>3, <2>1 DEF TypeOK, ReaderInStep, DecodeInv
<1>4. CASE stack # <<>>
  <2>1. PICK g : Calls(stack, g, bytes, pos, sent[Len(sent)])
    BY <1>4 DEF DecodeInv, Decoding
  <2>2. Len(stack) >= 1
    BY <1>4 DEF DecodeInv, Decoding
  <2>3. /\ pos \in Nat
        /\ \A i \in 1 .. Len(stack) :
             /\ stack[i].type \in Types /\ DOMAIN stack[i].message = FieldNames(stack[i].type)
             /\ stack[i].end \in Nat /\ pos <= stack[i].end /\ stack[i].end <= Len(bytes)
             /\ i > 1 => stack[i].end <= stack[i - 1].end
    BY <1>1, <2>1, <2>2, EndsNest
  <2>4. pos \in 0 .. Len(bytes)
    <3>1. 1 \in 1 .. Len(stack)
      BY <1>1, <2>2
    <3>2. stack[1].end \in Nat /\ pos <= stack[1].end /\ stack[1].end <= Len(bytes)
      BY <2>3, <3>1
    <3> QED
      BY <1>1, <2>3, <3>2
  <2>5. ASSUME NEW i \in DOMAIN stack
        PROVE  /\ stack[i].type \in DOMAIN Schema /\ stack[i].end \in 0 .. Len(bytes)
               /\ DOMAIN stack[i].message = {f.name : f \in Fields(stack[i].type)}
    BY <1>1, <2>3 DEF FieldNames, Types
  <2>6. ReaderInStep
    BY <1>1, <2>3 DEF ReaderInStep
  <2> QED
    BY <1>2, <2>4, <2>5, <2>6 DEF TypeOK
<1> QED
  BY <1>3, <1>4

\* The frames of decode and its position are in the buffer, and the messages in
\* them have the fields of their types, whatever was encoded.
THEOREM CodecWellTyped == Spec => []TypeOK
<1>1. DecodeInv => TypeOK
  BY DecodeInvReader
<1> QED
  BY <1>1, DecodeInvAlways, PTL

\* No decode reads past its message, and the end of a nested one is in its
\* caller's, whatever a later schema adds (reader.pos + reader.uint32()).
THEOREM ReaderInStepAlways == Spec => []ReaderInStep
<1>1. DecodeInv => ReaderInStep
  BY DecodeInvReader
<1> QED
  BY <1>1, DecodeInvAlways, PTL

\* decode returns what encode was given, for every message and every addition of a
\* later schema: the tags it does not expect are skipped with their content.
THEOREM PreservedAlways == Spec => []Preserved
<1>1. DecodeInv => Preserved
  BY DEF DecodeInv
<1> QED
  BY <1>1, DecodeInvAlways, PTL

-----------------------------------------------------------------------------
\* A message through JSON.

\* A name is that of one field.
LEMMA NameField ==
  ASSUME NEW t \in Types, NEW f \in Fields(t), NEW h \in Fields(t), f.name = h.name
  PROVE  f = h
BY FieldOfType, Tables DEF Table

\* A number of an enumeration other than 0 has a name other than that of 0.
EnumTrip(f, n) ==
  /\ enumFromJSON(f, enumToJSON(f, n)) # 0
  /\ enumToJSON(f, enumFromJSON(f, enumToJSON(f, n))) = enumToJSON(f, n)
  /\ n + 1 \in DOMAIN Names(f) => enumFromJSON(f, enumToJSON(f, n)) = n

\* The names of an enumeration are distinct, and UNRECOGNIZED is none of them.
LEMMA NamesOfEnums ==
  ASSUME NEW f
  PROVE  /\ \E l \in Nat : DOMAIN Names(f) = 1 .. l /\ l >= 1
         /\ \A i, j \in DOMAIN Names(f) : Names(f)[i] = Names(f)[j] => i = j
         /\ "UNRECOGNIZED" \notin ToSet(Names(f))
<1>1. CASE f.kind = "Protocol"
  <2>1. Names(f) = <<"ANY", "IPV4", "IPV6">>
    BY <1>1 DEF Names
  <2> QED
    BY <2>1 DEF ToSet
<1>2. CASE f.kind # "Protocol"
  <2>1. Names(f) = <<"TASK_VERSION", "TASK_PING", "TASK_MTR", "TASK_TRACEROUTE">>
    BY <1>2 DEF Names
  <2> QED
    BY <2>1 DEF ToSet
<1> QED
  BY <1>1, <1>2

\* A number of an enumeration survives JSON by its name, or becomes UNRECOGNIZED
\* for good.
LEMMA EnumThere == ASSUME NEW f, NEW n \in Int, n # 0 PROVE EnumTrip(f, n)
<1>1. PICK l \in Nat : DOMAIN Names(f) = 1 .. l /\ l >= 1
  BY NamesOfEnums
<1>2. CASE n + 1 \in DOMAIN Names(f)
  <2>1. PICK s : s = enumToJSON(f, n)
    OBVIOUS
  <2>2. s = Names(f)[n + 1] /\ s \in ToSet(Names(f))
    BY <1>2, <2>1 DEF enumToJSON, ToSet
  <2>3. (CHOOSE i \in DOMAIN Names(f) : Names(f)[i] = s) = n + 1
    BY <1>2, <2>2, NamesOfEnums
  <2>4. enumFromJSON(f, s) = (n + 1) - 1
    BY <2>2, <2>3 DEF enumFromJSON
  <2>5. enumFromJSON(f, s) = n
    BY <2>4
  <2> QED
    BY <2>1, <2>5 DEF EnumTrip
<1>3. CASE n + 1 \notin DOMAIN Names(f)
  <2>1. enumToJSON(f, n) = "UNRECOGNIZED"
    BY <1>3 DEF enumToJSON
  <2>2. enumFromJSON(f, "UNRECOGNIZED") = -1
    BY NamesOfEnums DEF enumFromJSON
  <2>3. enumToJSON(f, -1) = "UNRECOGNIZED"
    <3>1. -1 + 1 \notin DOMAIN Names(f)
      BY <1>1
    <3> QED
      BY <3>1 DEF enumToJSON
  <2> QED
    BY <1>3, <2>1, <2>2, <2>3 DEF EnumTrip
<1> QED
  BY <1>2, <1>3

\* The fields of m that are not at their default.
Held(t, m) == {f \in Fields(t) : m[f.name] # Default(f)}
HeldNames(t, m) == {f.name : f \in Held(t, m)}

\* j is m as JSON, and b is j as a message, with c and d for the nested messages.
IsJson(t, m, j, c) ==
  /\ j = [x \in HeldNames(t, m) |-> j[x]]
  /\ \A f \in Held(t, m) :
       j[f.name] = IF Nested(f) THEN c[f.name]
                   ELSE IF IsEnum(f) THEN enumToJSON(f, m[f.name]) ELSE m[f.name]
IsFromJson(t, j, b, d) ==
  /\ b = [x \in FieldNames(t) |-> b[x]]
  /\ \A f \in Fields(t) :
       b[f.name] = IF f.name \notin DOMAIN j THEN Default(f)
                   ELSE IF Nested(f) THEN << d[f.name] >>
                   ELSE IF IsEnum(f) THEN enumFromJSON(f, j[f.name]) ELSE j[f.name]

EnumsAre(t, m) == \A f \in Fields(t) : IsEnum(f) => m[f.name] \in Int

LEMMA EnumIsScalar ==
  ASSUME NEW f, IsEnum(f)
  PROVE  ~Nested(f) /\ Default(f) = 0
<1>1. f.kind \in Scalars /\ f.kind # "string" /\ f.kind # "bool"
  BY DEF IsEnum, Scalars
<1>2. ~Nested(f)
  BY <1>1, TypesOfSchema DEF Nested, Types
<1> QED
  BY <1>1, <1>2 DEF Default

LEMMA NestedDefault == ASSUME NEW f, Nested(f) PROVE Default(f) = <<>>
BY TypesOfSchema DEF Default, Nested, Types, Scalars

\* The fields of a message that came back from JSON.
LEMMA JsonFields ==
  ASSUME NEW t \in Types, NEW m, NEW j, NEW b, NEW c, NEW d,
         IsJson(t, m, j, c), IsFromJson(t, j, b, d), EnumsAre(t, m)
  PROVE  /\ Held(t, b) = Held(t, m)
         /\ \A f \in Fields(t) : f \notin Held(t, m) => b[f.name] = Default(f)
         /\ \A f \in Held(t, m) :
              b[f.name] = IF Nested(f) THEN << d[f.name] >>
                          ELSE IF IsEnum(f) THEN enumFromJSON(f, enumToJSON(f, m[f.name]))
                          ELSE m[f.name]
<1>1. ASSUME NEW f \in Fields(t) PROVE f.name \in DOMAIN j <=> f \in Held(t, m)
  <2>1. DOMAIN j = HeldNames(t, m)
    BY DEF IsJson
  <2>2. ASSUME f.name \in HeldNames(t, m) PROVE f \in Held(t, m)
    <3>1. PICK h \in Held(t, m) : h.name = f.name
      BY <2>2 DEF HeldNames
    <3> QED
      BY <3>1, NameField DEF Held
  <2> QED
    BY <2>1, <2>2 DEF HeldNames
<1>2. ASSUME NEW f \in Fields(t), f \notin Held(t, m) PROVE b[f.name] = Default(f)
  BY <1>1, <1>2 DEF IsFromJson
<1>3. ASSUME NEW f \in Held(t, m)
      PROVE  b[f.name] = IF Nested(f) THEN << d[f.name] >>
                         ELSE IF IsEnum(f) THEN enumFromJSON(f, enumToJSON(f, m[f.name]))
                         ELSE m[f.name]
  <2>1. f \in Fields(t) /\ f.name \in DOMAIN j
    BY <1>1 DEF Held
  <2>2. j[f.name] = IF Nested(f) THEN c[f.name]
                    ELSE IF IsEnum(f) THEN enumToJSON(f, m[f.name]) ELSE m[f.name]
    BY DEF IsJson
  <2>3. b[f.name] = IF Nested(f) THEN << d[f.name] >>
                    ELSE IF IsEnum(f) THEN enumFromJSON(f, j[f.name]) ELSE j[f.name]
    BY <2>1 DEF IsFromJson
  <2> QED
    BY <2>2, <2>3
<1>4. ASSUME NEW f \in Held(t, m) PROVE b[f.name] # Default(f)
  <2>1. f \in Fields(t) /\ m[f.name] # Default(f)
    BY DEF Held
  <2>2. CASE Nested(f)
    <3>1. b[f.name] = << d[f.name] >> /\ Default(f) = <<>>
      BY <1>3, <2>2, NestedDefault
    <3> QED
      BY <3>1
  <2>3. CASE IsEnum(f)
    <3>1. ~Nested(f) /\ Default(f) = 0 /\ m[f.name] \in Int
      BY <2>1, <2>3, EnumIsScalar DEF EnumsAre
    <3>2. b[f.name] = enumFromJSON(f, enumToJSON(f, m[f.name])) /\ m[f.name] # 0
      BY <1>3, <2>1, <2>3, <3>1
    <3> QED
      BY <3>1, <3>2, EnumThere DEF EnumTrip
  <2>4. CASE ~Nested(f) /\ ~IsEnum(f)
    BY <1>3, <2>1, <2>4
  <2> QED
    BY <2>2, <2>3, <2>4
<1>5. Held(t, b) = Held(t, m)
  BY <1>2, <1>4 DEF Held
<1> QED
  BY <1>2, <1>3, <1>5

\* The JSON of what came back is the same.
LEMMA JsonStable ==
  ASSUME NEW t \in Types, NEW m, NEW j, NEW b, NEW j2, NEW c, NEW d, NEW c2,
         IsJson(t, m, j, c), IsFromJson(t, j, b, d), IsJson(t, b, j2, c2), EnumsAre(t, m),
         \A f \in Held(t, m) : Nested(f) => c2[f.name] = c[f.name]
  PROVE  j2 = j
<1>1. Held(t, b) = Held(t, m)
  BY JsonFields
<1>2. ASSUME NEW f \in Held(t, m) PROVE j2[f.name] = j[f.name]
  <2>1. f \in Fields(t) /\ m[f.name] # Default(f)
    BY DEF Held
  <2>2. /\ j[f.name] = IF Nested(f) THEN c[f.name]
                       ELSE IF IsEnum(f) THEN enumToJSON(f, m[f.name]) ELSE m[f.name]
        /\ j2[f.name] = IF Nested(f) THEN c2[f.name]
                        ELSE IF IsEnum(f) THEN enumToJSON(f, b[f.name]) ELSE b[f.name]
    BY <1>1 DEF IsJson
  <2>3. b[f.name] = IF Nested(f) THEN << d[f.name] >>
                    ELSE IF IsEnum(f) THEN enumFromJSON(f, enumToJSON(f, m[f.name]))
                    ELSE m[f.name]
    BY JsonFields
  <2>4. CASE Nested(f)
    BY <2>2, <2>4
  <2>5. CASE IsEnum(f)
    <3>1. ~Nested(f) /\ Default(f) = 0 /\ m[f.name] \in Int
      BY <2>1, <2>5, EnumIsScalar DEF EnumsAre
    <3>2. EnumTrip(f, m[f.name])
      BY <2>1, <3>1, EnumThere
    <3> QED
      BY <2>2, <2>3, <2>5, <3>1, <3>2 DEF EnumTrip
  <2>6. CASE ~Nested(f) /\ ~IsEnum(f)
    BY <2>2, <2>3, <2>6
  <2> QED
    BY <2>4, <2>5, <2>6
<1>3. /\ j = [x \in HeldNames(t, m) |-> j[x]] /\ j2 = [x \in HeldNames(t, m) |-> j2[x]]
      /\ \A x \in HeldNames(t, m) : j2[x] = j[x]
  BY <1>1, <1>2 DEF IsJson, HeldNames
<1> QED
  BY <1>3, Zenon

\* What comes back is the message, when its enumerations have names.
LEMMA JsonBack ==
  ASSUME NEW t \in Types, NEW m, NEW j, NEW b, NEW c, NEW d,
         IsJson(t, m, j, c), IsFromJson(t, j, b, d), EnumsAre(t, m),
         m = [x \in FieldNames(t) |-> m[x]],
         \A f \in Held(t, m) : Nested(f) => m[f.name] = << d[f.name] >>,
         \A f \in Fields(t) : IsEnum(f) => m[f.name] + 1 \in DOMAIN Names(f)
  PROVE  b = m
<1>1. ASSUME NEW f \in Fields(t) PROVE b[f.name] = m[f.name]
  <2>1. CASE f \notin Held(t, m)
    BY <2>1, JsonFields DEF Held
  <2>2. CASE f \in Held(t, m)
    <3>1. b[f.name] = IF Nested(f) THEN << d[f.name] >>
                      ELSE IF IsEnum(f) THEN enumFromJSON(f, enumToJSON(f, m[f.name]))
                      ELSE m[f.name]
      BY <2>2, JsonFields
    <3>2. CASE IsEnum(f)
      <4>1. ~Nested(f) /\ m[f.name] \in Int /\ m[f.name] # 0
        BY <2>2, <3>2, EnumIsScalar DEF EnumsAre, Held
      <4>2. EnumTrip(f, m[f.name])
        BY <4>1, EnumThere
      <4> QED
        BY <3>1, <3>2, <4>1, <4>2 DEF EnumTrip
    <3>3. CASE ~IsEnum(f)
      BY <2>2, <3>1, <3>3
    <3> QED
      BY <3>2, <3>3
  <2> QED
    BY <2>1, <2>2
<1>2. /\ b = [x \in FieldNames(t) |-> b[x]]
      /\ \A x \in FieldNames(t) : b[x] = m[x]
  BY <1>1 DEF IsFromJson, FieldNames
<1> QED
  BY <1>2, Zenon

\* The field of a name.
NamedField(t, x) == CHOOSE f \in Fields(t) : f.name = x

LEMMA FieldNamed ==
  ASSUME NEW t \in Types, NEW f \in Fields(t)
  PROVE  NamedField(t, f.name) = f /\ f.name \in FieldNames(t)
<1>1. \A h \in Fields(t) : h.name = f.name => h = f
  BY NameField
<1> QED
  BY <1>1 DEF NamedField, FieldNames

LEMMA DeeperField ==
  ASSUME NEW i, NEW t, AtLevel(i, t), NEW f \in Fields(t), Nested(f)
  PROVE  AtLevel(i + 1, f.kind)
<1>1. PICK k \in 1 .. Count(t) : f = Schema[t][k]
  BY FieldOfType DEF AtLevel
<1> QED
  BY <1>1, DeeperType DEF Kind

JsonWith(t, m, c) ==
  [x \in HeldNames(t, m) |->
     IF Nested(NamedField(t, x)) THEN c[x]
     ELSE IF IsEnum(NamedField(t, x)) THEN enumToJSON(NamedField(t, x), m[x]) ELSE m[x]]
MessageWith(t, j, d) ==
  [x \in FieldNames(t) |->
     IF NamedField(t, x).name \notin DOMAIN j THEN Default(NamedField(t, x))
     ELSE IF Nested(NamedField(t, x)) THEN << d[x] >>
     ELSE IF IsEnum(NamedField(t, x)) THEN enumFromJSON(NamedField(t, x), j[NamedField(t, x).name])
     ELSE j[NamedField(t, x).name]]

\* toJSON and fromJSON, one level of them, do what IsJson and IsFromJson say.
LEMMA JsonWithIs ==
  ASSUME NEW t \in Types, NEW m, NEW c, NEW j, j = JsonWith(t, m, c)
  PROVE  IsJson(t, m, j, c)
<1>1. j = [x \in HeldNames(t, m) |-> j[x]]
  BY DEF JsonWith
<1>2. ASSUME NEW f \in Held(t, m)
      PROVE  j[f.name] = IF Nested(f) THEN c[f.name]
                         ELSE IF IsEnum(f) THEN enumToJSON(f, m[f.name]) ELSE m[f.name]
  <2>1. NamedField(t, f.name) = f /\ f.name \in HeldNames(t, m)
    BY FieldNamed DEF Held, HeldNames
  <2> QED
    BY <2>1 DEF JsonWith
<1> QED
  BY <1>1, <1>2 DEF IsJson

LEMMA MessageWithIs ==
  ASSUME NEW t \in Types, NEW j, NEW d, NEW b, b = MessageWith(t, j, d)
  PROVE  IsFromJson(t, j, b, d)
<1>1. b = [x \in FieldNames(t) |-> b[x]]
  BY DEF MessageWith
<1>2. ASSUME NEW f \in Fields(t)
      PROVE  b[f.name] = IF f.name \notin DOMAIN j THEN Default(f)
                         ELSE IF Nested(f) THEN << d[f.name] >>
                         ELSE IF IsEnum(f) THEN enumFromJSON(f, j[f.name]) ELSE j[f.name]
  <2>1. NamedField(t, f.name) = f /\ f.name \in FieldNames(t)
    BY FieldNamed
  <2> QED
    BY <2>1 DEF MessageWith
<1> QED
  BY <1>1, <1>2 DEF IsFromJson

\* A message is a function on the names of its fields, with at most one message in
\* a nested one and a number in an enumeration, down to one level, two and three.
ReadyOver(t, m, nested(_, _)) ==
  /\ m = [x \in FieldNames(t) |-> m[x]]
  /\ EnumsAre(t, m)
  /\ \A f \in Held(t, m) : Nested(f) => m[f.name] = << m[f.name][1] >> /\ nested(f.kind, m[f.name][1])
Ready1(t, m) == ReadyOver(t, m, Anything)
Ready2(t, m) == ReadyOver(t, m, Ready1)
Ready3(t, m) == ReadyOver(t, m, Ready2)

JsonKeeps1(t, m) ==
  /\ toJSON1(t, fromJSON1(t, toJSON1(t, m))) = toJSON1(t, m)
  /\ Recognised1(t, m) => fromJSON1(t, toJSON1(t, m)) = m
JsonKeeps2(t, m) ==
  /\ toJSON2(t, fromJSON2(t, toJSON2(t, m))) = toJSON2(t, m)
  /\ Recognised2(t, m) => fromJSON2(t, toJSON2(t, m)) = m
JsonKeeps3(t, m) ==
  /\ toJSON(t, fromJSON(t, toJSON(t, m))) = toJSON(t, m)
  /\ Recognised(t, m) => fromJSON(t, toJSON(t, m)) = m

\* A message of the innermost types survives JSON, then one that nests those, then
\* every message.
LEMMA JsonOfLeaf ==
  ASSUME NEW t, AtLevel(3, t), NEW m, Ready1(t, m)
  PROVE  JsonKeeps1(t, m)
<1>1. PICK j : j = toJSON1(t, m)
  OBVIOUS
<1>2. PICK b : b = fromJSON1(t, j)
  OBVIOUS
<1>3. PICK j2 : j2 = toJSON1(t, b)
  OBVIOUS
<1>4. PICK c : c = [x \in FieldNames(t) |-> <<>>]
  OBVIOUS
<1>5. t \in Types /\ EnumsAre(t, m)
  BY DEF AtLevel, Ready1, ReadyOver
<1>6. \A f \in Fields(t) : ~Nested(f)
  <2> SUFFICES ASSUME NEW f \in Fields(t), Nested(f) PROVE FALSE
    OBVIOUS
  <2>1. AtLevel(3 + 1, f.kind)
    BY DeeperField
  <2> QED
    BY <2>1 DEF AtLevel
<1>7. \A f \in Fields(t) : NamedField(t, f.name) = f
  BY <1>5, FieldNamed
<1>8. IsJson(t, m, j, c)
  <2>1. j = JsonWith(t, m, c)
    BY <1>1, <1>6, <1>7 DEF toJSON1, toJSONOver, JsonWith, HeldNames, Held, NamedField
  <2> QED
    BY <1>5, <2>1, JsonWithIs
<1>9. IsFromJson(t, j, b, c)
  <2>1. b = MessageWith(t, j, c)
    BY <1>2, <1>6, <1>7 DEF fromJSON1, fromJSONOver, Message, MessageWith, FieldNames, NamedField
  <2> QED
    BY <1>5, <2>1, MessageWithIs
<1>10. IsJson(t, b, j2, c)
  <2>1. j2 = JsonWith(t, b, c)
    BY <1>3, <1>6, <1>7 DEF toJSON1, toJSONOver, JsonWith, HeldNames, Held, NamedField
  <2> QED
    BY <1>5, <2>1, JsonWithIs
<1>11. j2 = j
  BY <1>5, <1>8, <1>9, <1>10, JsonStable
<1>12. ASSUME Recognised1(t, m) PROVE b = m
  <2>1. m = [x \in FieldNames(t) |-> m[x]]
    BY DEF Ready1, ReadyOver
  <2>2. \A f \in Held(t, m) : ~Nested(f)
    BY <1>6 DEF Held
  <2>3. \A f \in Fields(t) : IsEnum(f) => m[f.name] + 1 \in DOMAIN Names(f)
    BY <1>12 DEF Recognised1, RecognisedOver
  <2> QED
    BY <1>5, <1>8, <1>9, <2>1, <2>2, <2>3, JsonBack
<1> QED
  BY <1>1, <1>2, <1>3, <1>11, <1>12 DEF JsonKeeps1

LEMMA JsonOfInner ==
  ASSUME NEW t, AtLevel(2, t), NEW m, Ready2(t, m)
  PROVE  JsonKeeps2(t, m)
<1>1. PICK j : j = toJSON2(t, m)
  OBVIOUS
<1>2. PICK b : b = fromJSON2(t, j)
  OBVIOUS
<1>3. PICK j2 : j2 = toJSON2(t, b)
  OBVIOUS
<1>4. PICK c : c = [x \in FieldNames(t) |-> toJSON1(NamedField(t, x).kind, m[x][1])]
  OBVIOUS
<1>5. PICK d : d = [x \in FieldNames(t) |-> fromJSON1(NamedField(t, x).kind, j[x])]
  OBVIOUS
<1>6. PICK c2 : c2 = [x \in FieldNames(t) |-> toJSON1(NamedField(t, x).kind, b[x][1])]
  OBVIOUS
<1>7. t \in Types /\ EnumsAre(t, m)
  BY DEF AtLevel, Ready2, ReadyOver
<1>8. \A f \in Fields(t) : NamedField(t, f.name) = f /\ f.name \in FieldNames(t)
  BY <1>7, FieldNamed
<1>9. IsJson(t, m, j, c)
  <2>1. j = JsonWith(t, m, c)
    BY <1>1, <1>4, <1>8 DEF toJSON2, toJSONOver, JsonWith, HeldNames, Held, NamedField
  <2> QED
    BY <1>7, <2>1, JsonWithIs
<1>10. IsFromJson(t, j, b, d)
  <2>1. b = MessageWith(t, j, d)
    BY <1>2, <1>5, <1>8 DEF fromJSON2, fromJSONOver, Message, MessageWith, FieldNames, NamedField
  <2> QED
    BY <1>7, <2>1, MessageWithIs
<1>11. IsJson(t, b, j2, c2)
  <2>1. j2 = JsonWith(t, b, c2)
    BY <1>3, <1>6, <1>8 DEF toJSON2, toJSONOver, JsonWith, HeldNames, Held, NamedField
  <2> QED
    BY <1>7, <2>1, JsonWithIs
<1>12. ASSUME NEW f \in Held(t, m), Nested(f)
       PROVE  /\ c2[f.name] = c[f.name]
              /\ Recognised2(t, m) => m[f.name] = << d[f.name] >>
  <2>1. f \in Fields(t) /\ f.name \in FieldNames(t) /\ NamedField(t, f.name) = f
    BY <1>8 DEF Held
  <2>2. PICK x : x = m[f.name][1]
    OBVIOUS
  <2>3. AtLevel(3, f.kind)
    BY <1>12, <2>1, DeeperField
  <2>4. m[f.name] = << x >> /\ Ready1(f.kind, x)
    BY <1>12, <2>2 DEF Ready2, ReadyOver
  <2>5. /\ c[f.name] = toJSON1(f.kind, x) /\ d[f.name] = fromJSON1(f.kind, j[f.name])
        /\ c2[f.name] = toJSON1(f.kind, b[f.name][1])
    BY <1>4, <1>5, <1>6, <2>1, <2>2
  <2>6. j[f.name] = c[f.name]
    BY <1>9, <1>12 DEF IsJson
  <2>7. b[f.name] = << d[f.name] >>
    <3>1. b[f.name] = IF Nested(f) THEN << d[f.name] >>
                      ELSE IF IsEnum(f) THEN enumFromJSON(f, enumToJSON(f, m[f.name]))
                      ELSE m[f.name]
      BY <1>7, <1>9, <1>10, JsonFields
    <3> QED
      BY <1>12, <3>1
  <2>8. b[f.name][1] = d[f.name]
    BY <2>7
  <2>9. JsonKeeps1(f.kind, x)
    BY <2>3, <2>4, JsonOfLeaf
  <2>10. c2[f.name] = c[f.name]
    BY <2>5, <2>6, <2>8, <2>9 DEF JsonKeeps1
  <2>11. ASSUME Recognised2(t, m) PROVE m[f.name] = << d[f.name] >>
    <3>1. m[f.name] # <<>>
      BY <2>4
    <3>2. Recognised1(f.kind, x)
      BY <1>12, <2>1, <2>2, <2>11, <3>1 DEF Recognised2, RecognisedOver
    <3>3. d[f.name] = x
      BY <2>5, <2>6, <2>9, <3>2 DEF JsonKeeps1
    <3> QED
      BY <2>4, <3>3
  <2> QED
    BY <2>10, <2>11
<1>13. j2 = j
  BY <1>7, <1>9, <1>10, <1>11, <1>12, JsonStable
<1>14. ASSUME Recognised2(t, m) PROVE b = m
  <2>1. m = [x \in FieldNames(t) |-> m[x]]
    BY DEF Ready2, ReadyOver
  <2>2. \A f \in Fields(t) : IsEnum(f) => m[f.name] + 1 \in DOMAIN Names(f)
    BY <1>14 DEF Recognised2, RecognisedOver
  <2> QED
    BY <1>7, <1>9, <1>10, <1>12, <1>14, <2>1, <2>2, JsonBack
<1> QED
  BY <1>1, <1>2, <1>3, <1>13, <1>14 DEF JsonKeeps2

LEMMA JsonOfMessage ==
  ASSUME NEW t, AtLevel(1, t), NEW m, Ready3(t, m)
  PROVE  JsonKeeps3(t, m)
<1>1. PICK j : j = toJSON(t, m)
  OBVIOUS
<1>2. PICK b : b = fromJSON(t, j)
  OBVIOUS
<1>3. PICK j2 : j2 = toJSON(t, b)
  OBVIOUS
<1>4. PICK c : c = [x \in FieldNames(t) |-> toJSON2(NamedField(t, x).kind, m[x][1])]
  OBVIOUS
<1>5. PICK d : d = [x \in FieldNames(t) |-> fromJSON2(NamedField(t, x).kind, j[x])]
  OBVIOUS
<1>6. PICK c2 : c2 = [x \in FieldNames(t) |-> toJSON2(NamedField(t, x).kind, b[x][1])]
  OBVIOUS
<1>7. t \in Types /\ EnumsAre(t, m)
  BY DEF AtLevel, Ready3, ReadyOver
<1>8. \A f \in Fields(t) : NamedField(t, f.name) = f /\ f.name \in FieldNames(t)
  BY <1>7, FieldNamed
<1>9. IsJson(t, m, j, c)
  <2>1. j = JsonWith(t, m, c)
    BY <1>1, <1>4, <1>8 DEF toJSON, toJSONOver, JsonWith, HeldNames, Held, NamedField
  <2> QED
    BY <1>7, <2>1, JsonWithIs
<1>10. IsFromJson(t, j, b, d)
  <2>1. b = MessageWith(t, j, d)
    BY <1>2, <1>5, <1>8 DEF fromJSON, fromJSONOver, Message, MessageWith, FieldNames, NamedField
  <2> QED
    BY <1>7, <2>1, MessageWithIs
<1>11. IsJson(t, b, j2, c2)
  <2>1. j2 = JsonWith(t, b, c2)
    BY <1>3, <1>6, <1>8 DEF toJSON, toJSONOver, JsonWith, HeldNames, Held, NamedField
  <2> QED
    BY <1>7, <2>1, JsonWithIs
<1>12. ASSUME NEW f \in Held(t, m), Nested(f)
       PROVE  /\ c2[f.name] = c[f.name]
              /\ Recognised(t, m) => m[f.name] = << d[f.name] >>
  <2>1. f \in Fields(t) /\ f.name \in FieldNames(t) /\ NamedField(t, f.name) = f
    BY <1>8 DEF Held
  <2>2. PICK x : x = m[f.name][1]
    OBVIOUS
  <2>3. AtLevel(2, f.kind)
    BY <1>12, <2>1, DeeperField
  <2>4. m[f.name] = << x >> /\ Ready2(f.kind, x)
    BY <1>12, <2>2 DEF Ready3, ReadyOver
  <2>5. /\ c[f.name] = toJSON2(f.kind, x) /\ d[f.name] = fromJSON2(f.kind, j[f.name])
        /\ c2[f.name] = toJSON2(f.kind, b[f.name][1])
    BY <1>4, <1>5, <1>6, <2>1, <2>2
  <2>6. j[f.name] = c[f.name]
    BY <1>9, <1>12 DEF IsJson
  <2>7. b[f.name] = << d[f.name] >>
    <3>1. b[f.name] = IF Nested(f) THEN << d[f.name] >>
                      ELSE IF IsEnum(f) THEN enumFromJSON(f, enumToJSON(f, m[f.name]))
                      ELSE m[f.name]
      BY <1>7, <1>9, <1>10, JsonFields
    <3> QED
      BY <1>12, <3>1
  <2>8. b[f.name][1] = d[f.name]
    BY <2>7
  <2>9. JsonKeeps2(f.kind, x)
    BY <2>3, <2>4, JsonOfInner
  <2>10. c2[f.name] = c[f.name]
    BY <2>5, <2>6, <2>8, <2>9 DEF JsonKeeps2
  <2>11. ASSUME Recognised(t, m) PROVE m[f.name] = << d[f.name] >>
    <3>1. m[f.name] # <<>>
      BY <2>4
    <3>2. Recognised2(f.kind, x)
      BY <1>12, <2>1, <2>2, <2>11, <3>1 DEF Recognised, RecognisedOver
    <3>3. d[f.name] = x
      BY <2>5, <2>6, <2>9, <3>2 DEF JsonKeeps2
    <3> QED
      BY <2>4, <3>3
  <2> QED
    BY <2>10, <2>11
<1>13. j2 = j
  BY <1>7, <1>9, <1>10, <1>11, <1>12, JsonStable
<1>14. ASSUME Recognised(t, m) PROVE b = m
  <2>1. m = [x \in FieldNames(t) |-> m[x]]
    BY DEF Ready3, ReadyOver
  <2>2. \A f \in Fields(t) : IsEnum(f) => m[f.name] + 1 \in DOMAIN Names(f)
    BY <1>14 DEF Recognised, RecognisedOver
  <2> QED
    BY <1>7, <1>9, <1>10, <1>12, <1>14, <2>1, <2>2, JsonBack
<1> QED
  BY <1>1, <1>2, <1>3, <1>13, <1>14 DEF JsonKeeps3

\* A message whose enumerations are numbers, and one that is a function on the
\* names of its fields with at most one message in a nested one, down to one
\* level, two and three.
TypedOver(t, a, nested(_, _)) ==
  EnumsAre(t, a) /\ \A f \in Held(t, a) : Nested(f) => nested(f.kind, a[f.name][1])
Typed1(t, a) == TypedOver(t, a, Anything)
Typed2(t, a) == TypedOver(t, a, Typed1)
Typed3(t, a) == TypedOver(t, a, Typed2)

FormedOver(t, b, nested(_, _)) ==
  /\ b = [x \in FieldNames(t) |-> b[x]]
  /\ \A f \in Held(t, b) : Nested(f) => b[f.name] = << b[f.name][1] >> /\ nested(f.kind, b[f.name][1])
Formed1(t, b) == FormedOver(t, b, Anything)
Formed2(t, b) == FormedOver(t, b, Formed1)
Formed3(t, b) == FormedOver(t, b, Formed2)

PartialIs(t, object, a, d) ==
  \A f \in Fields(t) :
    a[f.name] = IF f.name \notin DOMAIN object THEN Default(f)
                ELSE IF Nested(f) THEN << d[f.name] >> ELSE object[f.name]
PartialWith(t, object, d) ==
  [x \in FieldNames(t) |->
     IF NamedField(t, x).name \notin DOMAIN object THEN Default(NamedField(t, x))
     ELSE IF Nested(NamedField(t, x)) THEN << d[x] >>
     ELSE object[NamedField(t, x).name]]

LEMMA PartialWithIs ==
  ASSUME NEW t \in Types, NEW object, NEW d, NEW a, a = PartialWith(t, object, d)
  PROVE  PartialIs(t, object, a, d)
<1>1. ASSUME NEW f \in Fields(t)
      PROVE  a[f.name] = IF f.name \notin DOMAIN object THEN Default(f)
                         ELSE IF Nested(f) THEN << d[f.name] >> ELSE object[f.name]
  <2>1. NamedField(t, f.name) = f /\ f.name \in FieldNames(t)
    BY FieldNamed
  <2> QED
    BY <2>1 DEF PartialWith
<1> QED
  BY <1>1 DEF PartialIs

\* The enumerations of a message built from an object that fits are numbers.
LEMMA PartialEnums ==
  ASSUME NEW t \in Types, NEW object, NEW a, NEW d, PartialIs(t, object, a, d),
         \A f \in Fields(t) : f.name \in DOMAIN object /\ IsEnum(f) => object[f.name] \in Int
  PROVE  EnumsAre(t, a)
<1> SUFFICES ASSUME NEW f \in Fields(t), IsEnum(f) PROVE a[f.name] \in Int
  BY DEF EnumsAre
<1>1. ~Nested(f) /\ Default(f) = 0
  BY EnumIsScalar
<1>2. a[f.name] = IF f.name \notin DOMAIN object THEN Default(f)
                  ELSE IF Nested(f) THEN << d[f.name] >> ELSE object[f.name]
  BY DEF PartialIs
<1> QED
  BY <1>1, <1>2

\* A nested message in it is built from what the object has there.
LEMMA PartialNested ==
  ASSUME NEW t \in Types, NEW object, NEW a, NEW d, PartialIs(t, object, a, d),
         NEW f \in Held(t, a), Nested(f)
  PROVE  f.name \in DOMAIN object /\ a[f.name][1] = d[f.name]
<1>1. a[f.name] = IF f.name \notin DOMAIN object THEN Default(f)
                  ELSE IF Nested(f) THEN << d[f.name] >> ELSE object[f.name]
  BY DEF PartialIs, Held
<1>2. f.name \in DOMAIN object
  BY <1>1 DEF Held
<1>3. a[f.name] = << d[f.name] >>
  BY <1>1, <1>2
<1> QED
  BY <1>2, <1>3

\* What fromPartial builds from objects that fit is typed, level by level.
LEMMA PartialTyped1 ==
  ASSUME NEW t \in Types, NEW object, Fits1(t, object)
  PROVE  Typed1(t, fromPartial1(t, object))
<1>1. PICK a, d : a = fromPartial1(t, object) /\ d = [x \in FieldNames(t) |-> <<>>]
  OBVIOUS
<1>2. \A f \in Fields(t) : NamedField(t, f.name) = f /\ f.name \in FieldNames(t)
  BY FieldNamed
<1>3. a = PartialWith(t, object, d)
  BY <1>1, <1>2 DEF fromPartial1, fromPartialOver, Message, None, PartialWith, FieldNames, NamedField
<1>4. PartialIs(t, object, a, d)
  BY <1>3, PartialWithIs
<1>5. EnumsAre(t, a)
  BY <1>4, PartialEnums DEF Fits1, FitsOver
<1> QED
  BY <1>1, <1>5 DEF Typed1, TypedOver, Anything

LEMMA PartialTyped2 ==
  ASSUME NEW t \in Types, NEW object, Fits2(t, object)
  PROVE  Typed2(t, fromPartial2(t, object))
<1>1. PICK a : a = fromPartial2(t, object)
  OBVIOUS
<1>2. PICK d : d = [x \in FieldNames(t) |-> fromPartial1(NamedField(t, x).kind, object[x])]
  OBVIOUS
<1>3. \A f \in Fields(t) : NamedField(t, f.name) = f /\ f.name \in FieldNames(t)
  BY FieldNamed
<1>4. a = PartialWith(t, object, d)
  BY <1>1, <1>2, <1>3 DEF fromPartial2, fromPartialOver, Message, PartialWith, FieldNames, NamedField
<1>5. PartialIs(t, object, a, d)
  BY <1>4, PartialWithIs
<1>6. EnumsAre(t, a)
  BY <1>5, PartialEnums DEF Fits2, FitsOver
<1>7. ASSUME NEW f \in Held(t, a), Nested(f) PROVE Typed1(f.kind, a[f.name][1])
  <2>1. f \in Fields(t) /\ f.kind \in Types
    BY <1>7 DEF Held, Nested, Types
  <2>2. f.name \in DOMAIN object /\ a[f.name][1] = d[f.name]
    BY <1>5, <1>7, PartialNested
  <2>3. a[f.name][1] = fromPartial1(f.kind, object[f.name])
    BY <1>2, <1>3, <2>1, <2>2
  <2>4. Fits1(f.kind, object[f.name])
    BY <1>7, <2>1, <2>2 DEF Fits2, FitsOver
  <2> QED
    BY <2>1, <2>3, <2>4, PartialTyped1
<1> QED
  BY <1>1, <1>6, <1>7 DEF Typed2, TypedOver

LEMMA PartialTyped3 ==
  ASSUME NEW t \in Types, NEW object, Fits(t, object)
  PROVE  Typed3(t, fromPartial(t, object))
<1>1. PICK a : a = fromPartial(t, object)
  OBVIOUS
<1>2. PICK d : d = [x \in FieldNames(t) |-> fromPartial2(NamedField(t, x).kind, object[x])]
  OBVIOUS
<1>3. \A f \in Fields(t) : NamedField(t, f.name) = f /\ f.name \in FieldNames(t)
  BY FieldNamed
<1>4. a = PartialWith(t, object, d)
  BY <1>1, <1>2, <1>3 DEF fromPartial, fromPartialOver, Message, PartialWith, FieldNames, NamedField
<1>5. PartialIs(t, object, a, d)
  BY <1>4, PartialWithIs
<1>6. EnumsAre(t, a)
  BY <1>5, PartialEnums DEF Fits, FitsOver
<1>7. ASSUME NEW f \in Held(t, a), Nested(f) PROVE Typed2(f.kind, a[f.name][1])
  <2>1. f \in Fields(t) /\ f.kind \in Types
    BY <1>7 DEF Held, Nested, Types
  <2>2. f.name \in DOMAIN object /\ a[f.name][1] = d[f.name]
    BY <1>5, <1>7, PartialNested
  <2>3. a[f.name][1] = fromPartial2(f.kind, object[f.name])
    BY <1>2, <1>3, <2>1, <2>2
  <2>4. Fits2(f.kind, object[f.name])
    BY <1>7, <2>1, <2>2 DEF Fits, FitsOver
  <2> QED
    BY <2>1, <2>3, <2>4, PartialTyped2
<1> QED
  BY <1>1, <1>6, <1>7 DEF Typed3, TypedOver

\* What has the fields of a typed message is typed.
LEMMA EnumsKept ==
  ASSUME NEW t, NEW a, NEW b, EnumsAre(t, a),
         \A f \in Fields(t) : ~Nested(f) => b[f.name] = Single(f, a[f.name])
  PROVE  EnumsAre(t, b)
<1> SUFFICES ASSUME NEW f \in Fields(t), IsEnum(f) PROVE b[f.name] \in Int
  BY DEF EnumsAre
<1>1. ~Nested(f)
  BY EnumIsScalar
<1>2. Single(f, a[f.name]) = a[f.name]
  BY DEF IsEnum, Single
<1> QED
  BY <1>1, <1>2 DEF EnumsAre

\* A nested message that was decoded was encoded.
LEMMA HeldInBoth ==
  ASSUME NEW t, NEW a, NEW b, NEW f \in Held(t, b), Nested(f), NEW x, b[f.name] = <<x>>,
         Len(a[f.name]) = Len(b[f.name])
  PROVE  f \in Held(t, a) /\ a[f.name] # <<>>
<1>1. Len(a[f.name]) = 1
  <2>1. Len(<<x>>) = 1
    OBVIOUS
  <2> QED
    BY <2>1, Zenon
<1>2. a[f.name] # <<>>
  <2>1. Len(<<>>) = 0 /\ 1 # 0
    BY SeqEmpty
  <2> QED
    BY <1>1, <2>1, Zenon
<1> QED
  BY <1>2, NestedDefault DEF Held

\* What was decoded from a typed message is ready for JSON, level by level.
LEMMA SameReady1 ==
  ASSUME NEW t, NEW a, NEW b, Same1(t, a, b), Typed1(t, a), Formed1(t, b)
  PROVE  Ready1(t, b)
<1>1. EnumsAre(t, b)
  BY EnumsKept DEF Same1, SameOver, Typed1, TypedOver
<1> QED
  BY <1>1 DEF Formed1, FormedOver, Ready1, ReadyOver

LEMMA SameReady2 ==
  ASSUME NEW t, NEW a, NEW b, Same2(t, a, b), Typed2(t, a), Formed2(t, b)
  PROVE  Ready2(t, b)
<1>1. EnumsAre(t, b)
  BY EnumsKept DEF Same2, SameOver, Typed2, TypedOver
<1>2. ASSUME NEW f \in Held(t, b), Nested(f)
      PROVE  b[f.name] = << b[f.name][1] >> /\ Ready1(f.kind, b[f.name][1])
  <2>1. b[f.name] = << b[f.name][1] >> /\ Formed1(f.kind, b[f.name][1])
    BY <1>2 DEF Formed2, FormedOver
  <2>2. /\ Len(a[f.name]) = Len(b[f.name])
        /\ a[f.name] # <<>> => Same1(f.kind, a[f.name][1], b[f.name][1])
    BY <1>2 DEF Same2, SameOver, Held
  <2>3. f \in Held(t, a) /\ a[f.name] # <<>>
    BY <1>2, <2>1, <2>2, HeldInBoth
  <2>4. Typed1(f.kind, a[f.name][1])
    BY <1>2, <2>3 DEF Typed2, TypedOver
  <2> QED
    BY <2>1, <2>2, <2>3, <2>4, SameReady1
<1> QED
  BY <1>1, <1>2 DEF Formed2, FormedOver, Ready2, ReadyOver

LEMMA SameReady3 ==
  ASSUME NEW t, NEW a, NEW b, Same(t, a, b), Typed3(t, a), Formed3(t, b)
  PROVE  Ready3(t, b)
<1>1. EnumsAre(t, b)
  BY EnumsKept DEF Same, SameOver, Typed3, TypedOver
<1>2. ASSUME NEW f \in Held(t, b), Nested(f)
      PROVE  b[f.name] = << b[f.name][1] >> /\ Ready2(f.kind, b[f.name][1])
  <2>1. b[f.name] = << b[f.name][1] >> /\ Formed2(f.kind, b[f.name][1])
    BY <1>2 DEF Formed3, FormedOver
  <2>2. /\ Len(a[f.name]) = Len(b[f.name])
        /\ a[f.name] # <<>> => Same2(f.kind, a[f.name][1], b[f.name][1])
    BY <1>2 DEF Same, SameOver, Held
  <2>3. f \in Held(t, a) /\ a[f.name] # <<>>
    BY <1>2, <2>1, <2>2, HeldInBoth
  <2>4. Typed2(f.kind, a[f.name][1])
    BY <1>2, <2>3 DEF Typed3, TypedOver
  <2> QED
    BY <2>1, <2>2, <2>3, <2>4, SameReady2
<1> QED
  BY <1>1, <1>2 DEF Formed3, FormedOver, Ready3, ReadyOver

-----------------------------------------------------------------------------
\* What a call of decode that is i deep has built.
FormedAt(i, t, b) == (i = 1 => Formed3(t, b)) /\ (i = 2 => Formed2(t, b)) /\ (i = 3 => Formed1(t, b))
FormedBelow(i, t, b) == (i = 1 => Formed2(t, b)) /\ (i = 2 => Formed1(t, b))

\* createBase is a message of its type.
LEMMA FormedBase == ASSUME NEW i, NEW t \in Types PROVE FormedAt(i, t, createBase(t))
<1>1. PICK b : b = createBase(t)
  OBVIOUS
<1>2. b = [x \in FieldNames(t) |-> b[x]]
  BY <1>1 DEF createBase, Message, FieldNames
<1>3. \A f \in Fields(t) : b[f.name] = Default(f)
  <2> TAKE f \in Fields(t)
  <2>1. PICK k \in 1 .. Count(t) : f = Schema[t][k]
    BY FieldOfType
  <2>2. Value(t, b, k) = Default(Schema[t][k])
    BY <1>1, BaseValues
  <2> QED
    BY <2>1, <2>2 DEF Value
<1>4. \A f : f \notin Held(t, b)
  BY <1>3 DEF Held
<1> QED
  BY <1>1, <1>2, <1>4 DEF FormedAt, Formed1, Formed2, Formed3, FormedOver

\* A message stays one of its type when decode sets a field of it.
LEMMA FormedSet ==
  ASSUME NEW i, NEW t \in Types, NEW f \in Fields(t), NEW b, FormedAt(i, t, b), NEW x,
         Nested(f) => x = << x[1] >> /\ FormedBelow(i, f.kind, x[1]),
         NEW c, c = [b EXCEPT ![f.name] = x]
  PROVE  FormedAt(i, t, c)
<1>1. ASSUME b = [y \in FieldNames(t) |-> b[y]]
      PROVE  /\ c = [y \in FieldNames(t) |-> c[y]]
             /\ c[f.name] = x
             /\ \A h \in Fields(t) : h # f => c[h.name] = b[h.name]
  <2>1. DOMAIN b = FieldNames(t) /\ f.name \in FieldNames(t)
    BY <1>1 DEF FieldNames
  <2>2. c = [y \in FieldNames(t) |-> c[y]] /\ c[f.name] = x
    BY <2>1
  <2>3. ASSUME NEW h \in Fields(t), h # f PROVE c[h.name] = b[h.name]
    <3>1. h.name # f.name /\ h.name \in FieldNames(t)
      BY <2>3, NameField DEF FieldNames
    <3> QED
      BY <2>1, <3>1
  <2> QED
    BY <2>2, <2>3
<1>2. ASSUME i = 1 PROVE Formed3(t, c)
  <2>1. Formed3(t, b)
    BY <1>2 DEF FormedAt
  <2>2. ASSUME NEW h \in Held(t, c), Nested(h)
        PROVE  c[h.name] = << c[h.name][1] >> /\ Formed2(h.kind, c[h.name][1])
    <3>1. CASE h = f
      BY <1>1, <1>2, <2>1, <2>2, <3>1 DEF Formed3, FormedOver, FormedBelow
    <3>2. CASE h # f
      BY <1>1, <2>1, <2>2, <3>2 DEF Formed3, FormedOver, Held
    <3> QED
      BY <3>1, <3>2
  <2> QED
    BY <1>1, <2>1, <2>2 DEF Formed3, FormedOver
<1>3. ASSUME i = 2 PROVE Formed2(t, c)
  <2>1. Formed2(t, b)
    BY <1>3 DEF FormedAt
  <2>2. ASSUME NEW h \in Held(t, c), Nested(h)
        PROVE  c[h.name] = << c[h.name][1] >> /\ Formed1(h.kind, c[h.name][1])
    <3>1. CASE h = f
      BY <1>1, <1>3, <2>1, <2>2, <3>1 DEF Formed2, FormedOver, FormedBelow
    <3>2. CASE h # f
      BY <1>1, <2>1, <2>2, <3>2 DEF Formed2, FormedOver, Held
    <3> QED
      BY <3>1, <3>2
  <2> QED
    BY <1>1, <2>1, <2>2 DEF Formed2, FormedOver
<1>4. ASSUME i = 3 PROVE Formed1(t, c)
  <2>1. Formed1(t, b)
    BY <1>4 DEF FormedAt
  <2>2. ASSUME NEW h \in Held(t, c), Nested(h) PROVE c[h.name] = << c[h.name][1] >>
    <3>1. CASE h = f
      BY <1>1, <2>1, <2>2, <3>1 DEF Formed1, FormedOver
    <3>2. CASE h # f
      BY <1>1, <2>1, <2>2, <3>2 DEF Formed1, FormedOver, Held
    <3> QED
      BY <3>1, <3>2
  <2> QED
    BY <1>1, <2>1, <2>2 DEF Formed1, FormedOver, Anything
<1> QED
  BY <1>2, <1>3, <1>4 DEF FormedAt

\* Every message sent has numbers in its enumerations, and decode builds and returns
\* messages as the generated interfaces declare them.
JsonInv ==
  /\ \A i \in 1 .. Len(sent) : sent[i].type \in Types /\ Typed3(sent[i].type, sent[i].message)
  /\ \A i \in 1 .. Len(received) : Formed3(received[i].type, received[i].message)
  /\ \A i \in 1 .. Len(stack) : FormedAt(i, stack[i].type, stack[i].message)

LEMMA JsonInit == Init => JsonInv
<1> SUFFICES ASSUME Init PROVE JsonInv
  OBVIOUS
<1>1. Len(<<>>) = 0
  BY SeqEmpty
<1> QED
  BY <1>1 DEF Init, JsonInv

\* A message that is sent is typed.
LEMMA TransferTyped ==
  ASSUME DecodeInv, JsonInv, NEW t \in Types,
         \A object \in Samples[t] : Fits(t, object), Transfer(t), UNCHANGED received
  PROVE  JsonInv'
<1>1. PICK object, data :
        /\ object \in Samples[t]
        /\ sent' = Append(sent, [type |-> t, message |-> fromPartial(t, object)])
        /\ stack' = << NewFrame(t, Len(data), "none") >>
  BY DEF Transfer, NewFrame
<1>2. PICK last : last = [type |-> t, message |-> fromPartial(t, object)]
  OBVIOUS
<1>3. last.type = t /\ Typed3(t, last.message)
  <2>1. Fits(t, object)
    BY <1>1
  <2> QED
    BY <1>2, <2>1, PartialTyped3
<1>4. IsSeq(sent) /\ Len(sent) \in Nat
  BY SeqLen DEF DecodeInv
<1>5. /\ Len(sent') = Len(sent) + 1 /\ sent'[Len(sent) + 1] = last
      /\ \A i \in 1 .. Len(sent) : sent'[i] = sent[i]
  BY <1>1, <1>2, <1>4, SeqAppend
<1>6. ASSUME NEW i \in 1 .. Len(sent) + 1
      PROVE  sent'[i].type \in Types /\ Typed3(sent'[i].type, sent'[i].message)
  <2>1. CASE i = Len(sent) + 1
    BY <1>3, <1>5, <2>1
  <2>2. CASE i \in 1 .. Len(sent)
    BY <1>5, <2>2 DEF JsonInv
  <2> QED
    BY <1>4, <2>1, <2>2
<1>7. PICK fr : fr = NewFrame(t, Len(data), "none")
  OBVIOUS
<1>8. fr.type = t /\ FormedAt(1, t, fr.message)
  BY <1>7, FormedBase DEF NewFrame
<1>9. Len(stack') = 1 /\ stack'[1] = fr
  BY <1>1, <1>7, SeqOne
<1>10. \A i \in 1 .. Len(stack') : FormedAt(i, stack'[i].type, stack'[i].message)
  BY <1>8, <1>9
<1> QED
  BY <1>5, <1>6, <1>10 DEF JsonInv

\* decode builds messages of their types, action by action.
LEMMA ReadScalarFormed ==
  ASSUME DecodeInv, JsonInv, ReadScalar
  PROVE  JsonInv'
<1>1. ~Idle
  BY DEF ReadScalar, More
<1>2. PICK n, g :
        /\ n \in Nat /\ n = Len(stack) /\ n >= 1 /\ DOMAIN stack = 1 .. n /\ Frame = stack[n]
        /\ Calls(stack, g, bytes, pos, sent[Len(sent)])
        /\ DOMAIN stack[n] = {"type", "end", "message", "field"}
        /\ Read(n, stack[n].type, g[n].a, stack[n].message, bytes, g[n].from, stack[n].end,
                g[n].off, pos)
  BY <1>1, LastCall
<1>3. PICK fr : fr = stack[n]
  OBVIOUS
<1>4. PICK f \in Fields(fr.type) :
        ~Nested(f) /\ stack' = [stack EXCEPT ![Len(stack)].message[f.name] = Here.value]
  BY <1>2, <1>3 DEF ReadScalar
<1>5. fr.type \in Types /\ IsSeq(stack)
  BY <1>2, <1>3 DEF Read, Source, AtLevel, DecodeInv
<1>6. PICK x, c : x = Here.value /\ c = [fr.message EXCEPT ![f.name] = x]
  OBVIOUS
<1>7. FormedAt(n, fr.type, c)
  <2>1. FormedAt(n, fr.type, fr.message)
    BY <1>2, <1>3 DEF JsonInv
  <2> QED
    BY <1>4, <1>5, <1>6, <2>1, FormedSet
<1>8. PICK fr2 : fr2 = [fr EXCEPT !.message = c]
  OBVIOUS
<1>9. fr2.type = fr.type /\ fr2.message = c
  BY <1>2, <1>3, <1>8
<1>10. Len(stack') = n /\ \A i \in 1 .. n : stack'[i] = IF i = n THEN fr2 ELSE stack[i]
  <2>1. stack' = [stack EXCEPT ![n] = fr2]
    BY <1>2, <1>3, <1>4, <1>6, <1>8
  <2>2. n \in DOMAIN stack
    BY <1>2
  <2> QED
    BY <1>2, <1>5, <2>1, <2>2, SeqReplace
<1>11. ASSUME NEW i \in 1 .. n PROVE FormedAt(i, stack'[i].type, stack'[i].message)
  BY <1>2, <1>7, <1>9, <1>10 DEF JsonInv
<1> QED
  BY <1>10, <1>11 DEF JsonInv, ReadScalar

LEMMA ReadNestedFormed ==
  ASSUME DecodeInv, JsonInv, ReadNested
  PROVE  JsonInv'
<1>1. PICK f : Nested(f) /\ stack' = Append(stack, NewFrame(f.kind, pos + 1 + Here.len, f.name))
  BY DEF ReadNested, NewFrame
<1>2. PICK fr : fr = NewFrame(f.kind, pos + 1 + Here.len, f.name)
  OBVIOUS
<1>3. IsSeq(stack) /\ Len(stack) \in Nat /\ f.kind \in Types
  BY <1>1, SeqLen DEF DecodeInv, Nested, Types
<1>4. fr.type = f.kind /\ fr.message = createBase(f.kind)
  BY <1>2 DEF NewFrame
<1>5. /\ Len(stack') = Len(stack) + 1 /\ stack'[Len(stack) + 1] = fr
      /\ \A i \in 1 .. Len(stack) : stack'[i] = stack[i]
  BY <1>1, <1>2, <1>3, SeqAppend
<1>6. ASSUME NEW i \in 1 .. Len(stack) + 1 PROVE FormedAt(i, stack'[i].type, stack'[i].message)
  <2>1. CASE i = Len(stack) + 1
    BY <1>3, <1>4, <1>5, <2>1, FormedBase
  <2>2. CASE i \in 1 .. Len(stack)
    BY <1>5, <2>2 DEF JsonInv
  <2> QED
    BY <1>3, <2>1, <2>2
<1> QED
  BY <1>5, <1>6 DEF JsonInv, ReadNested

LEMMA ReturnFormed ==
  ASSUME DecodeInv, JsonInv, Return
  PROVE  JsonInv'
<1>1. ~Idle
  BY DEF Return
<1>2. PICK n, g :
        /\ n \in Nat /\ n = Len(stack) /\ n >= 1 /\ DOMAIN stack = 1 .. n /\ Frame = stack[n]
        /\ Calls(stack, g, bytes, pos, sent[Len(sent)])
        /\ DOMAIN stack[n] = {"type", "end", "message", "field"}
        /\ Read(n, stack[n].type, g[n].a, stack[n].message, bytes, g[n].from, stack[n].end,
                g[n].off, pos)
  BY <1>1, LastCall
<1>3. IsSeq(stack) /\ IsSeq(received)
  BY DEF DecodeInv
<1>4. CASE n = 1
  <2>1. PICK got : got = [type |-> Frame.type, message |-> Frame.message]
    OBVIOUS
  <2>2. stack' = <<>> /\ received' = Append(received, got) /\ sent' = sent
    BY <1>2, <1>4, <2>1 DEF Return
  <2>3. /\ Len(received') = Len(received) + 1 /\ received'[Len(received) + 1] = got
        /\ Len(received) \in Nat /\ \A i \in 1 .. Len(received) : received'[i] = received[i]
    BY <1>3, <2>2, SeqAppend, SeqLen
  <2>4. Formed3(got.type, got.message)
    <3>1. FormedAt(1, stack[1].type, stack[1].message)
      BY <1>2, <1>4 DEF JsonInv
    <3> QED
      BY <1>2, <1>4, <2>1, <3>1 DEF FormedAt
  <2>5. ASSUME NEW i \in 1 .. Len(received) + 1 PROVE Formed3(received'[i].type, received'[i].message)
    <3>1. CASE i = Len(received) + 1
      BY <2>3, <2>4, <3>1
    <3>2. CASE i \in 1 .. Len(received)
      BY <2>3, <3>2 DEF JsonInv
    <3> QED
      BY <2>3, <3>1, <3>2
  <2>6. Len(stack') = 0
    BY <2>2, SeqEmpty
  <2> QED
    BY <2>2, <2>3, <2>5, <2>6 DEF JsonInv
<1>5. CASE n # 1
  <2>1. PICK m \in Nat : m >= 1 /\ n = m + 1
    <3>1. n - 1 \in Nat /\ n - 1 >= 1 /\ n = (n - 1) + 1
      BY <1>2, <1>5
    <3> QED
      BY <3>1
  <2>2. m \in 1 .. n /\ m + 1 \in 1 .. n /\ m \in 1 .. n - 1 /\ Len(stack) - 1 = m /\ Len(stack) # 1
    BY <1>2, <2>1
  <2>3. PICK up, fr : up = stack[m] /\ fr = stack[m + 1]
    OBVIOUS
  <2>4. CallAt(m, stack, g, bytes) /\ CalledBy(m, stack, g, bytes)
    BY <1>2, <2>2 DEF Calls
  <2>5. up.type \in Types /\ DOMAIN up = {"type", "end", "message", "field"}
    BY <2>3, <2>4 DEF CallAt, Read, Source, AtLevel
  <2>6. PICK k \in 1 .. Count(up.type) :
          fr.type = Kind(up.type, k) /\ fr.field = Schema[up.type][k].name
    BY <2>3, <2>4 DEF CalledBy
  <2>7. PICK f : f = Schema[up.type][k]
    OBVIOUS
  <2>8. f \in Fields(up.type) /\ fr.type = f.kind /\ fr.field = f.name
    BY <2>5, <2>6, <2>7, FieldOfType DEF Kind
  <2>9. PICK x, c : x = << fr.message >> /\ c = [up.message EXCEPT ![f.name] = x]
    OBVIOUS
  <2>10. FormedBelow(m, f.kind, fr.message)
    <3>1. FormedAt(m + 1, f.kind, fr.message)
      BY <1>2, <2>2, <2>3, <2>8 DEF JsonInv
    <3>2. m = 1 => m + 1 = 2
      OBVIOUS
    <3>3. m = 2 => m + 1 = 3
      OBVIOUS
    <3> QED
      BY <3>1, <3>2, <3>3 DEF FormedAt, FormedBelow
  <2>11. x[1] = fr.message /\ x = << x[1] >>
    BY <2>9
  <2>12. FormedAt(m, up.type, c)
    <3>1. FormedAt(m, up.type, up.message)
      BY <1>2, <2>2, <2>3 DEF JsonInv
    <3>2. c = [up.message EXCEPT ![f.name] = x]
      BY <2>9
    <3> HIDE <2>9
    <3> QED
      BY <2>5, <2>8, <2>10, <2>11, <3>1, <3>2, FormedSet
  <2>13. PICK up2 : up2 = [up EXCEPT !.message = c]
    OBVIOUS
  <2>14. up2.type = up.type /\ up2.message = c
    BY <2>5, <2>13
  <2>15. PICK s : s = Front(stack)
    OBVIOUS
  <2>16. IsSeq(s) /\ Len(s) = m /\ \A i \in 1 .. m : s[i] = stack[i]
    <3>1. stack # <<>>
      BY <1>1 DEF Idle
    <3> QED
      BY <1>3, <2>2, <2>15, <3>1, SeqFront
  <2>17. m \in DOMAIN s /\ s[m] = up
    BY <2>1, <2>3, <2>16, SeqLen
  <2>18. stack' = [s EXCEPT ![m] = up2]
    <3>1. stack' = [s EXCEPT ![m].message[fr.field] = << fr.message >>]
      BY <1>2, <2>1, <2>2, <2>3, <2>15 DEF Return
    <3> QED
      BY <2>8, <2>9, <2>13, <2>17, <3>1
  <2>19. Len(stack') = m /\ \A i \in 1 .. m : stack'[i] = IF i = m THEN up2 ELSE s[i]
    BY <2>16, <2>17, <2>18, SeqReplace
  <2>20. ASSUME NEW i \in 1 .. m PROVE FormedAt(i, stack'[i].type, stack'[i].message)
    <3>1. CASE i = m
      BY <2>12, <2>14, <2>19, <3>1
    <3>2. CASE i # m
      <4>1. stack'[i] = stack[i] /\ i \in 1 .. Len(stack)
        BY <1>2, <2>1, <2>16, <2>19, <3>2
      <4> QED
        BY <4>1 DEF JsonInv
    <3> QED
      BY <3>1, <3>2
  <2>21. UNCHANGED <<sent, received>>
    BY <1>2, <1>5 DEF Return
  <2> QED
    BY <2>19, <2>20, <2>21 DEF JsonInv
<1> QED
  BY <1>4, <1>5

\* Every step keeps JsonInv.
LEMMA JsonNext == DecodeInv /\ JsonInv /\ [Next]_vars => JsonInv'
<1> SUFFICES ASSUME DecodeInv, JsonInv, [Next]_vars PROVE JsonInv'
  OBVIOUS
<1>1. CASE UNCHANGED vars
  BY <1>1 DEF vars, JsonInv
<1>2. ASSUME NEW m \in Methods, Call(m) PROVE JsonInv'
  <2>1. PICK t \in Types : t = Request[m]
    BY MethodTypes
  <2>2. \A object \in Samples[t] : Fits(t, object)
    BY <2>1, SamplesAssumption
  <2> QED
    BY <1>2, <2>1, <2>2, TransferTyped DEF Call
<1>3. CASE Respond
  <2>1. PICK m \in Methods : m = method
    BY <1>3 DEF Respond
  <2>2. PICK t \in Types : t = Response[m]
    BY MethodTypes
  <2>3. \A object \in Samples[t] : Fits(t, object)
    BY <2>2, SamplesAssumption
  <2>4. Transfer(t) /\ UNCHANGED received
    BY <1>3, <2>1, <2>2 DEF Respond
  <2> QED
    BY <2>3, <2>4, TransferTyped
<1>4. CASE Post
  <2>1. PICK t \in Posted : Transfer(t)
    BY <1>4 DEF Post
  <2>2. t \in Types /\ UNCHANGED received /\ \A object \in Samples[t] : Fits(t, object)
    BY <1>4, MethodTypes, SamplesAssumption DEF Post
  <2> QED
    BY <2>1, <2>2, TransferTyped
<1>5. CASE Complete
  <2>1. sent' = <<>> /\ received' = <<>> /\ stack' = stack /\ Len(<<>>) = 0
    BY <1>5, SeqEmpty DEF Complete
  <2> QED
    BY <2>1 DEF JsonInv
<1>6. CASE ReadScalar
  BY <1>6, ReadScalarFormed
<1>7. CASE ReadNested
  BY <1>7, ReadNestedFormed
<1>8. CASE Skip
  BY <1>8 DEF Skip, JsonInv
<1>9. CASE Return
  BY <1>9, ReturnFormed
<1> QED
  BY <1>1, <1>2, <1>3, <1>4, <1>5, <1>6, <1>7, <1>8, <1>9 DEF Next

\* The two invariants imply that received messages survive JSON.
LEMMA JsonInvKeeps == DecodeInv /\ JsonInv => JsonKeeps
<1> SUFFICES ASSUME DecodeInv, JsonInv, NEW i \in DOMAIN received
             PROVE  JsonKeeps3(received[i].type, received[i].message)
  BY DEF JsonKeeps, JsonKeeps3
<1>1. PICK t, a, b : t = received[i].type /\ a = sent[i].message /\ b = received[i].message
  OBVIOUS
<1>2. /\ Len(received) \in Nat /\ Len(sent) \in Nat /\ DOMAIN received = 1 .. Len(received)
      /\ Len(received) <= Len(sent)
  <2>1. /\ Len(received) \in Nat /\ Len(sent) \in Nat /\ DOMAIN received = 1 .. Len(received)
    BY SeqLen DEF DecodeInv
  <2> QED
    BY <2>1 DEF DecodeInv
<1>3. i \in 1 .. Len(sent) /\ i \in 1 .. Len(received)
  BY <1>2
<1>4. sent[i].type = t /\ Same(t, a, b)
  BY <1>1 DEF DecodeInv, Preserved
<1>5. Typed3(t, a) /\ Formed3(t, b)
  BY <1>1, <1>3, <1>4 DEF JsonInv
<1>6. Ready3(t, b)
  BY <1>4, <1>5, SameReady3
<1>7. t \in Types
  BY <1>3, <1>4 DEF JsonInv
<1>8. AtLevel(1, t)
  BY <1>7 DEF AtLevel
<1> QED
  BY <1>1, <1>6, <1>8, JsonOfMessage

\* A message that decode returned survives toJSON and fromJSON, but for the numbers
\* of a later enumeration, which become UNRECOGNIZED for good.
THEOREM JsonKeepsAlways == Spec => []JsonKeeps
<1>1. Init => DecodeInv /\ JsonInv
  BY DecodeInit, JsonInit
<1>2. DecodeInv /\ JsonInv /\ [Next]_vars => (DecodeInv /\ JsonInv)'
  BY DecodeNext, JsonNext
<1>3. DecodeInv /\ JsonInv => JsonKeeps
  BY JsonInvKeeps
<1> QED
  BY <1>1, <1>2, <1>3, PTL DEF Spec
==============================================================================
