--------------------------- MODULE GeoLookupProofs ---------------------------
(***************************************************************************)
(* The scan of Ip2Asn finds the most specific network, for every table in  *)
(* order and every set of addresses. A scan that has read m entries holds  *)
(* the AS of the last of them that covers its address; in a table in order *)
(* the last one is a most specific one, and an entry that starts after the *)
(* address is followed by none that covers it.                             *)
(* Then the requests of getIP: an address is asked for once, and its       *)
(* location, once answered, is rendered or queued and never lost.          *)
(***************************************************************************)
EXTENDS GeoLookup, SequenceTheorems, TLAPS

\* The theorems about folds, for the fold of the queued updates.
Located == INSTANCE LeftFold WITH Op <- SetIpLocation

CacheOK ==
  /\ cache \in Seq([Start : Int, End : Int, Asn : Int])
  /\ Nested(cache)

LookupOK ==
  lookup \in [Ips -> [stage : {"none", "scan", "done", "answered", "failed"},
                      n : 1 .. Len(cache) + 1, asn : Int]]

\* What a scan for ip may hold that has read the first m entries.
LastCovering(ip, m, asn) ==
  \/ asn = 0 /\ \A k \in 1 .. m : ~Covers(cache[k], ip)
  \/ \E k \in 1 .. m :
       /\ Covers(cache[k], ip) /\ asn = cache[k].Asn
       /\ \A j \in k + 1 .. m : ~Covers(cache[j], ip)

ScanOK ==
  \A ip \in Addresses :
    /\ lookup[ip].stage = "scan" => LastCovering(ip, lookup[ip].n - 1, lookup[ip].asn)
    /\ lookup[ip].stage \notin {"none", "scan"} => LastCovering(ip, Len(cache), lookup[ip].asn)

IInv == CacheOK /\ LookupOK /\ ScanOK

-----------------------------------------------------------------------------
\* What the entries of the table are made of.
LEMMA EntryTypes ==
  ASSUME CacheOK
  PROVE  /\ Len(cache) \in Nat /\ DOMAIN cache = 1 .. Len(cache)
         /\ \A n \in DOMAIN cache :
              cache[n].Start \in Int /\ cache[n].End \in Int /\ cache[n].Asn \in Int
<1>1. Len(cache) \in Nat /\ DOMAIN cache = 1 .. Len(cache)
  BY DEF CacheOK
<1>2. ASSUME NEW n \in DOMAIN cache PROVE cache[n] \in [Start : Int, End : Int, Asn : Int]
  BY <1>1, <1>2, ElementOfSeq DEF CacheOK
<1> QED
  BY <1>1, <1>2

\* In a table in order the last network that covers an address is a most specific one.
LEMMA LastIsMostSpecific ==
  ASSUME CacheOK, NEW ip \in Addresses, NEW asn, LastCovering(ip, Len(cache), asn)
  PROVE  asn \in MostSpecificAsn(ip)
<1> DEFINE covering == {n \in DOMAIN cache : Covers(cache[n], ip)}
           Size(n) == cache[n].End - cache[n].Start
<1>1. DOMAIN cache = 1 .. Len(cache) /\ Len(cache) \in Nat
  BY DEF CacheOK
<1>2. ip \in Int
  BY AddressAssumption
<1>3. \A n \in DOMAIN cache : cache[n].Start \in Int /\ cache[n].End \in Int
  BY EntryTypes
<1>4. CASE asn = 0 /\ \A k \in 1 .. Len(cache) : ~Covers(cache[k], ip)
  <2>1. covering = {}
    BY <1>1, <1>4
  <2> QED
    BY <2>1, <1>4 DEF MostSpecificAsn
<1>5. CASE \E k \in 1 .. Len(cache) :
             /\ Covers(cache[k], ip) /\ asn = cache[k].Asn
             /\ \A j \in k + 1 .. Len(cache) : ~Covers(cache[j], ip)
  <2>1. PICK k \in 1 .. Len(cache) :
          /\ Covers(cache[k], ip) /\ asn = cache[k].Asn
          /\ \A j \in k + 1 .. Len(cache) : ~Covers(cache[j], ip)
    BY <1>5
  <2>2. k \in covering
    BY <1>1, <2>1
  <2>3. ASSUME NEW n \in covering
        PROVE  Size(k) <= Size(n)
    <3>1. n \in 1 .. Len(cache) /\ Covers(cache[n], ip) /\ n <= k
      BY <1>1, <2>1
    <3>2. CASE n = k
      BY <3>2, <1>1, <1>3
    <3>3. CASE n < k
      <4>1. /\ cache[n].Start <= cache[k].Start
            /\ cache[k].Start <= cache[n].End => cache[k].End <= cache[n].End
        BY <3>1, <3>3, <1>1 DEF CacheOK, Nested
      <4>2. cache[k].Start <= ip /\ ip <= cache[n].End
        BY <2>1, <3>1 DEF Covers
      <4> QED
        BY <4>1, <4>2, <1>1, <1>2, <1>3, <3>1
    <3> QED
      BY <3>1, <3>2, <3>3
  <2> QED
    BY <2>1, <2>2, <2>3 DEF MostSpecificAsn
<1> QED
  BY <1>4, <1>5 DEF LastCovering

\* The tables the server may load are in order, and nothing is asked for yet.
LEMMA InitIInv == Init => IInv
<1> SUFFICES ASSUME Init PROVE IInv
  OBVIOUS
<1>1. CacheOK
  BY TableAssumption DEF Init, CacheOK
<1>2. Len(cache) \in Nat
  BY <1>1 DEF CacheOK
<1>3. LookupOK /\ ScanOK
  BY <1>2, AddressAssumption DEF Init, Idle, LookupOK, ScanOK, Ips
<1> QED
  BY <1>1, <1>3 DEF IInv

\* One entry of the table further, a scan still holds the last that covers ip.
LEMMA EntryKeeps ==
  ASSUME IInv, NEW ip \in Addresses, lookup[ip].stage = "scan", lookup[ip].n <= Len(cache),
         Entry(ip, cache[lookup[ip].n])
  PROVE  \/ \E a \in Int :
              /\ lookup' = [lookup EXCEPT ![ip].n = @ + 1, ![ip].asn = a]
              /\ LastCovering(ip, lookup[ip].n, a)
         \/ /\ lookup' = [lookup EXCEPT ![ip].stage = "done"]
            /\ LastCovering(ip, Len(cache), lookup[ip].asn)
<1> DEFINE n == lookup[ip].n
           asn == lookup[ip].asn
<1>1. /\ n \in 1 .. Len(cache) /\ Len(cache) \in Nat /\ asn \in Int /\ ip \in Int
      /\ ip \in Ips
  BY AddressAssumption DEF IInv, LookupOK, CacheOK, Ips
<1>2. \A k \in 1 .. Len(cache) : cache[k].Start \in Int /\ cache[k].Asn \in Int
  BY <1>1, EntryTypes DEF IInv
<1>3. LastCovering(ip, n - 1, asn)
  BY DEF IInv, ScanOK
<1>4. CASE Covers(cache[n], ip) /\ Advance(ip, cache[n].Asn)
  <2>1. LastCovering(ip, n, cache[n].Asn)
    BY <1>1, <1>4 DEF LastCovering
  <2>2. cache[n].Asn \in Int /\ lookup' = [lookup EXCEPT ![ip].n = @ + 1, ![ip].asn = cache[n].Asn]
    BY <1>1, <1>2, <1>4 DEF Advance
  <2> QED
    BY <1>1, <1>2, <2>1, <2>2
<1>5. CASE ~Covers(cache[n], ip) /\ Advance(ip, asn)
  <2>1. LastCovering(ip, n, asn)
    BY <1>1, <1>3, <1>5 DEF LastCovering
  <2>2. asn \in Int /\ lookup' = [lookup EXCEPT ![ip].n = @ + 1, ![ip].asn = asn]
    BY <1>1, <1>5 DEF Advance
  <2> QED
    BY <1>1, <2>1, <2>2
<1>6. CASE cache[n].Start > ip /\ asn # 0 /\ Found(ip, asn)
  <2>1. \A k \in n .. Len(cache) : ~Covers(cache[k], ip)
    <3> TAKE k \in n .. Len(cache)
    <3>1. cache[n].Start <= cache[k].Start
      <4>1. DOMAIN cache = 1 .. Len(cache) /\ Nested(cache)
        BY EntryTypes DEF IInv, CacheOK
      <4> QED
        BY <1>1, <1>2, <4>1 DEF Nested
    <3> QED
      BY <1>1, <1>2, <1>6, <3>1 DEF Covers
  <2>2. LastCovering(ip, Len(cache), asn)
    BY <1>1, <1>3, <1>6, <2>1 DEF LastCovering
  <2>3. lookup' = [lookup EXCEPT ![ip].stage = "done"]
    BY <1>1, <1>6 DEF Found, IInv, LookupOK
  <2> QED
    BY <2>2, <2>3
<1> QED
  BY <1>4, <1>5, <1>6 DEF Entry

\* No step changes the table, and a scan moves on only as EntryKeeps says.
LEMMA ScanKeeps ==
  ASSUME IInv, NEW ip \in Ips, Scan(ip)
  PROVE  LookupOK' /\ ScanOK'
<1> DEFINE n == lookup[ip].n
           asn == lookup[ip].asn
<1>1. /\ cache' = cache /\ Len(cache) \in Nat
      /\ n \in 1 .. Len(cache) + 1 /\ asn \in Int /\ lookup[ip].stage = "scan"
  BY EntryTypes DEF IInv, LookupOK, Scan
<1>2. Addresses \subseteq Ips /\ (ip # Undefined => ip \in Addresses)
  BY DEF Ips
<1>0. \A i, m, a : LastCovering(i, m, a) => LastCovering(i, m, a)'
  BY <1>1 DEF LastCovering, Covers
<1>3. CASE Unparsable(ip)
  <2>1. ip \notin Addresses /\ lookup' = [lookup EXCEPT ![ip].stage = "done", ![ip].asn = -1]
    BY <1>3, AddressAssumption DEF Unparsable, Found
  <2>2. -1 \in Int
    OBVIOUS
  <2>3. LookupOK'
    BY <1>1, <2>1, <2>2 DEF IInv, LookupOK
  <2>4. \A a \in Addresses : lookup'[a] = lookup[a]
    BY <1>2, <2>1 DEF IInv, LookupOK
  <2> QED
    BY <1>1, <1>0, <2>3, <2>4 DEF IInv, ScanOK
<1>4. CASE Exhausted(ip)
  <2>1. /\ ip \in Addresses /\ n - 1 = Len(cache)
        /\ lookup' = [lookup EXCEPT ![ip].stage = "done", ![ip].asn = asn]
    BY <1>1, <1>2, <1>4 DEF Exhausted, Found
  <2>2. LookupOK'
    BY <1>1, <2>1 DEF IInv, LookupOK
  <2>3. LastCovering(ip, Len(cache), asn)
    BY <1>1, <2>1 DEF IInv, ScanOK
  <2>4. /\ lookup'[ip].stage = "done" /\ lookup'[ip].asn = asn
        /\ \A a \in Addresses \ {ip} : lookup'[a] = lookup[a]
    BY <1>2, <2>1 DEF IInv, LookupOK
  <2> QED
    <3>1. LastCovering(ip, Len(cache), lookup'[ip].asn)
      BY <2>3, <2>4
    <3>2. ScanOK'
      BY <1>1, <1>0, <2>4, <3>1 DEF IInv, ScanOK
    <3> QED
      BY <2>2, <3>2
<1>5. CASE ip # Undefined /\ n <= Len(cache) /\ Entry(ip, cache[n])
  <2>1. ip \in Addresses
    BY <1>2, <1>5
  <2>2. ASSUME NEW asn2 \in Int,
               lookup' = [lookup EXCEPT ![ip].n = @ + 1, ![ip].asn = asn2],
               LastCovering(ip, n, asn2)
        PROVE  LookupOK' /\ ScanOK'
    <3> DEFINE r == [stage |-> "scan", n |-> n + 1, asn |-> asn2]
    <3>1. lookup[ip] = [stage |-> "scan", n |-> n, asn |-> asn]
      BY <1>1 DEF IInv, LookupOK
    <3>2. lookup' = [lookup EXCEPT ![ip] = r]
      <4>1. [lookup[ip] EXCEPT !.n = @ + 1] = [stage |-> "scan", n |-> n + 1, asn |-> asn]
        BY <3>1
      <4>2. [[lookup[ip] EXCEPT !.n = @ + 1] EXCEPT !.asn = asn2] = r
        <5>1. [[stage |-> "scan", n |-> n + 1, asn |-> asn] EXCEPT !.asn = asn2] = r
          OBVIOUS
        <5> QED
          BY <4>1, <5>1, Zenon
      <4>3. lookup' = [lookup EXCEPT ![ip] = [[lookup[ip] EXCEPT !.n = @ + 1] EXCEPT !.asn = asn2]]
        BY <2>2 DEF IInv, LookupOK
      <4> QED
        BY <4>2, <4>3
    <3>3. LookupOK'
      <4>1. r \in [stage : {"none", "scan", "done", "answered", "failed"},
                   n : 1 .. Len(cache) + 1, asn : Int]
        BY <1>1, <1>5
      <4> QED
        BY <1>1, <3>2, <4>1 DEF IInv, LookupOK
    <3>4. /\ lookup'[ip].stage = "scan" /\ lookup'[ip].n - 1 = n /\ lookup'[ip].asn = asn2
          /\ \A a \in Addresses \ {ip} : lookup'[a] = lookup[a]
      BY <1>1, <1>2, <3>2 DEF IInv, LookupOK
    <3> QED
      <4>1. LastCovering(ip, lookup'[ip].n - 1, lookup'[ip].asn)
        BY <2>2, <3>4
      <4>2. ScanOK'
        BY <1>1, <1>0, <3>4, <4>1 DEF IInv, ScanOK
      <4> QED
        BY <3>3, <4>2
  <2>3. CASE /\ lookup' = [lookup EXCEPT ![ip].stage = "done"]
             /\ LastCovering(ip, Len(cache), asn)
    <3>1. LookupOK'
      BY <1>1, <2>3 DEF IInv, LookupOK
    <3>2. /\ lookup'[ip].stage = "done" /\ lookup'[ip].asn = asn
          /\ \A a \in Addresses \ {ip} : lookup'[a] = lookup[a]
      BY <1>1, <1>2, <2>3 DEF IInv, LookupOK
    <3> QED
      <4>1. LastCovering(ip, Len(cache), lookup'[ip].asn)
        BY <2>3, <3>2
      <4>2. ScanOK'
        BY <1>1, <1>0, <3>2, <4>1 DEF IInv, ScanOK
      <4> QED
        BY <3>1, <4>2
  <2> QED
    BY <1>1, <1>5, <2>1, <2>2, <2>3, EntryKeeps
<1> QED
  BY <1>3, <1>4, <1>5 DEF Scan

\* A step that leaves the scans alone, or moves one between the stages after it.
LEMMA StageKeeps ==
  ASSUME IInv, cache' = cache, NEW ip \in Ips, NEW s \in {"answered", "failed"},
         lookup[ip].stage = "done", lookup' = [lookup EXCEPT ![ip].stage = s]
  PROVE  IInv'
<1>1. LookupOK'
  BY DEF IInv, LookupOK
<1>2. /\ Addresses \subseteq Ips
      /\ \A a \in Ips : lookup'[a].asn = lookup[a].asn /\ lookup'[a].n = lookup[a].n
      /\ \A a \in Ips \ {ip} : lookup'[a].stage = lookup[a].stage
      /\ lookup'[ip].stage = s
  BY DEF IInv, LookupOK, Ips
<1>3. \A i, m, a : LastCovering(i, m, a) => LastCovering(i, m, a)'
  BY DEF LastCovering, Covers
<1>4. ScanOK'
  BY <1>2, <1>3 DEF IInv, ScanOK
<1> QED
  BY <1>1, <1>4 DEF IInv, CacheOK

\* A render starts scans at the first entry of the table.
LEMMA CommitKeeps ==
  ASSUME IInv, NEW shown, Commit(shown)
  PROVE  IInv'
<1>1. PICK new : lookup' = [ip \in Ips |-> IF ip \in new THEN [Idle EXCEPT !.stage = "scan"] ELSE lookup[ip]]
  BY DEF Commit
<1>2. cache' = cache /\ Len(cache) \in Nat
  BY EntryTypes DEF Commit, IInv
<1>3. LookupOK'
  <2>1. [Idle EXCEPT !.stage = "scan"] \in [stage : {"none", "scan", "done", "answered", "failed"},
                                            n : 1 .. Len(cache) + 1, asn : Int]
    BY <1>2 DEF Idle
  <2> QED
    BY <1>1, <1>2, <2>1 DEF IInv, LookupOK
<1>4. \A ip \in Addresses : LastCovering(ip, 0, 0)
  BY DEF LastCovering
<1>5. \A ip \in Addresses :
        \/ lookup'[ip].stage = "scan" /\ lookup'[ip].n - 1 = 0 /\ lookup'[ip].asn = 0
        \/ lookup'[ip] = lookup[ip]
  BY <1>1 DEF Idle, Ips
<1>6. \A i, m, a : LastCovering(i, m, a) => LastCovering(i, m, a)'
  BY <1>2 DEF LastCovering, Covers
<1>7. \A ip \in Addresses :
        /\ lookup'[ip].stage = "scan" => LastCovering(ip, lookup'[ip].n - 1, lookup'[ip].asn)
        /\ lookup'[ip].stage \notin {"none", "scan"} => LastCovering(ip, Len(cache), lookup'[ip].asn)
  <2> SUFFICES ASSUME NEW ip \in Addresses
               PROVE  /\ lookup'[ip].stage = "scan" =>
                           LastCovering(ip, lookup'[ip].n - 1, lookup'[ip].asn)
                      /\ lookup'[ip].stage \notin {"none", "scan"} =>
                           LastCovering(ip, Len(cache), lookup'[ip].asn)
    OBVIOUS
  <2>1. CASE lookup'[ip].stage = "scan" /\ lookup'[ip].n - 1 = 0 /\ lookup'[ip].asn = 0
    BY <1>4, <2>1
  <2>2. CASE lookup'[ip] = lookup[ip]
    BY <2>2 DEF IInv, ScanOK
  <2> QED
    BY <1>5, <2>1, <2>2
<1>8. ScanOK'
  BY <1>2, <1>6, <1>7 DEF ScanOK
<1> QED
  BY <1>2, <1>3, <1>8 DEF IInv, CacheOK

LEMMA NextIInv == IInv /\ [Next]_vars => IInv'
<1> SUFFICES ASSUME IInv, [Next]_vars PROVE IInv'
  OBVIOUS
<1>1. CASE \E ip \in Ips \cup {Star} : Line(ip)
  BY <1>1, CommitKeeps DEF Line
<1>2. CASE Leave \/ Render
  BY <1>2, CommitKeeps DEF Leave, Render
<1>3. ASSUME NEW ip \in Ips, Scan(ip) PROVE IInv'
  <2>1. LookupOK' /\ ScanOK'
    BY <1>3, ScanKeeps
  <2> QED
    BY <1>3, <2>1 DEF IInv, CacheOK, Scan
<1>4. ASSUME NEW ip \in Ips, Answer(ip) PROVE IInv'
  BY <1>4, StageKeeps DEF Answer
<1>5. ASSUME NEW ip \in Ips, Fail(ip) PROVE IInv'
  BY <1>5, StageKeeps DEF Fail
<1>6. CASE UNCHANGED vars
  BY <1>6 DEF vars, IInv, CacheOK, LookupOK, ScanOK, LastCovering, Covers
<1> QED
  BY <1>1, <1>2, <1>3, <1>4, <1>5, <1>6 DEF Next

\* Whatever the table, in order, and however the scans are interleaved, an address
\* gets the AS of a most specific network that covers it.
THEOREM MostSpecificAlways == Spec => []MostSpecific
<1>1. IInv => MostSpecific
  BY LastIsMostSpecific DEF IInv, ScanOK, MostSpecific
<1> QED
  BY <1>1, InitIInv, NextIInv, PTL DEF Spec

-----------------------------------------------------------------------------
\* getIP and its answers. An address is marked before it is asked for and stays
\* marked; what is located, or waits to be rendered, was asked for.
KeptInv ==
  /\ rows \subseteq Ips \cup {Star}
  /\ inProgress \subseteq Ips /\ DOMAIN ipLocation \subseteq inProgress
  /\ asked = [ip \in Ips |-> IF ip \in inProgress THEN 1 ELSE 0]
  /\ updates \in Seq([ip : inProgress, geo : Seq(Int)])
  /\ \A ip \in Ips : lookup[ip].stage # "none" => ip \in inProgress
  /\ \A ip \in Ips : lookup[ip].stage = "answered" =>
       ip \in DOMAIN ipLocation \/ \E n \in DOMAIN updates : updates[n].ip = ip

\* Rendering the queued updates locates exactly the addresses they are for.
LEMMA RenderedAddresses ==
  ASSUME NEW base, NEW us, NEW n \in Nat, DOMAIN us = 1 .. n
  PROVE  DOMAIN FoldLeft(SetIpLocation, base, us) = DOMAIN base \cup {us[i].ip : i \in 1 .. n}
<1>1. FoldLeft(SetIpLocation, base, us) = Located!Folded(base, us)
  BY DEF Located!Folded, Located!FoldLeft, Located!MapThenFoldSet, Located!Max,
         FoldLeft, MapThenFoldSet, Max
<1>2. PICK g : Located!Steps(g, base, us, n)
  BY Located!FoldSteps
<1> DEFINE Missing == {k \in 0 .. n : DOMAIN g[k] # DOMAIN base \cup {us[i].ip : i \in 1 .. k}}
<1>3. ASSUME Missing # {} PROVE FALSE
  <2>1. Missing \in SUBSET Nat
    OBVIOUS
  <2>2. PICK k \in Missing : \A j \in Missing : k <= j
    BY <1>3, <2>1, Located!LeastNumber
  <2>3. k # 0
    <3>1. g[0] = base
      BY <1>2 DEF Located!Steps
    <3>2. {us[i].ip : i \in 1 .. 0} = {}
      OBVIOUS
    <3> QED
      BY <2>2, <3>1, <3>2
  <2>4. k - 1 \in 0 .. n /\ k \in 1 .. n /\ k - 1 \notin Missing
    BY <2>2, <2>3
  <2>5. g[k] = SetIpLocation(g[k - 1], us[k])
    BY <1>2, <2>4 DEF Located!Steps
  <2>6. DOMAIN g[k] = DOMAIN g[k - 1] \cup {us[k].ip}
    BY <2>5 DEF SetIpLocation
  <2>7. {us[i].ip : i \in 1 .. k} = {us[i].ip : i \in 1 .. k - 1} \cup {us[k].ip}
    <3>1. 1 .. k = 1 .. (k - 1) \cup {k}
      BY <2>4
    <3> QED
      BY <3>1
  <2> QED
    BY <2>2, <2>4, <2>6, <2>7
<1>4. DOMAIN g[n] = DOMAIN base \cup {us[i].ip : i \in 1 .. n}
  BY <1>3
<1> QED
  BY <1>1, <1>2, <1>4 DEF Located!Steps

LEMMA InitKept == Init => KeptInv
  BY EmptySeq DEF Init, KeptInv, Idle

\* What a queue of updates is for.
LEMMA QueuedUpdates ==
  ASSUME KeptInv
  PROVE  /\ Len(updates) \in Nat /\ DOMAIN updates = 1 .. Len(updates)
         /\ \A n \in DOMAIN updates : updates[n].ip \in inProgress
<1>1. Len(updates) \in Nat /\ DOMAIN updates = 1 .. Len(updates)
  BY DEF KeptInv
<1>2. \A n \in DOMAIN updates : updates[n] \in [ip : inProgress, geo : Seq(Int)]
  BY <1>1, ElementOfSeq DEF KeptInv
<1> QED
  BY <1>1, <1>2

\* A render marks what it asks for, and what it takes from the queue is located.
LEMMA CommitKept ==
  ASSUME KeptInv, NEW shown \in SUBSET (Ips \cup {Star}), Commit(shown)
  PROVE  KeptInv'
<1> DEFINE located == FoldLeft(SetIpLocation, ipLocation, updates)
           new == (shown \ {Star}) \ (DOMAIN located \cup inProgress)
<1>1. DOMAIN located = DOMAIN ipLocation \cup {updates[i].ip : i \in DOMAIN updates}
  BY QueuedUpdates, RenderedAddresses
<1>2. DOMAIN located \subseteq inProgress
  BY <1>1, QueuedUpdates DEF KeptInv
<1>3. /\ rows' = shown /\ ipLocation' = located /\ updates' = <<>>
      /\ inProgress' = inProgress \cup new
      /\ asked' = [ip \in Ips |-> asked[ip] + IF ip \in new THEN 1 ELSE 0]
      /\ \A ip \in Ips : \/ ip \in new /\ lookup'[ip].stage = "scan"
                         \/ ip \notin new /\ lookup'[ip] = lookup[ip]
  BY DEF Commit, Idle
<1>4. new \subseteq Ips /\ \A ip \in new : ip \notin inProgress
  OBVIOUS
<1>5. asked' = [ip \in Ips |-> IF ip \in inProgress' THEN 1 ELSE 0]
  <2>1. \A ip \in Ips : asked[ip] = IF ip \in inProgress THEN 1 ELSE 0
    BY DEF KeptInv
  <2>2. \A ip \in Ips : (asked[ip] + IF ip \in new THEN 1 ELSE 0) = IF ip \in inProgress' THEN 1 ELSE 0
    BY <1>3, <1>4, <2>1
  <2> QED
    BY <1>3, <2>2
<1>6. updates' \in Seq([ip : inProgress', geo : Seq(Int)])
  BY <1>3, EmptySeq
<1>7. \A ip \in Ips : lookup'[ip].stage # "none" => ip \in inProgress'
  BY <1>3 DEF KeptInv
<1>8. \A ip \in Ips : lookup'[ip].stage = "answered" => ip \in DOMAIN ipLocation'
  <2> SUFFICES ASSUME NEW ip \in Ips, lookup'[ip].stage = "answered"
               PROVE  ip \in DOMAIN located
    BY <1>3
  <2>1. lookup[ip].stage = "answered"
    BY <1>3
  <2> QED
    BY <1>1, <2>1 DEF KeptInv
<1>9. /\ rows' \subseteq Ips \cup {Star}
      /\ inProgress' \subseteq Ips /\ DOMAIN ipLocation' \subseteq inProgress'
  BY <1>2, <1>3, <1>4 DEF KeptInv
<1> QED
  BY <1>5, <1>6, <1>7, <1>8, <1>9 DEF KeptInv

\* An answer waits in the queue of updates.
LEMMA AnswerKept ==
  ASSUME IInv, KeptInv, NEW ip \in Ips, Answer(ip)
  PROVE  KeptInv'
<1>1. PICK geo \in {<<>>, <<lookup[ip].asn>>} : updates' = Append(updates, [ip |-> ip, geo |-> geo])
  BY DEF Answer
<1> DEFINE u == [ip |-> ip, geo |-> geo]
<1>2. ip \in inProgress
  BY DEF Answer, KeptInv
<1>3. u \in [ip : inProgress, geo : Seq(Int)]
  <2>1. lookup[ip].asn \in Int
    BY DEF IInv, LookupOK
  <2>2. <<>> \in Seq(Int) /\ <<lookup[ip].asn>> \in Seq(Int)
    BY <2>1, EmptySeq
  <2>3. geo \in Seq(Int)
    BY <1>1, <2>2
  <2> QED
    BY <1>2, <2>3
<1>4. /\ rows' = rows /\ ipLocation' = ipLocation /\ inProgress' = inProgress /\ asked' = asked
      /\ lookup[ip].stage = "done" /\ lookup' = [lookup EXCEPT ![ip].stage = "answered"]
  BY DEF Answer
<1>5. updates' \in Seq([ip : inProgress', geo : Seq(Int)])
  BY <1>1, <1>3, <1>4, AppendProperties DEF KeptInv
<1>6. /\ DOMAIN updates \subseteq DOMAIN updates'
      /\ \A n \in DOMAIN updates : updates'[n] = updates[n]
      /\ \E n \in DOMAIN updates' : updates'[n].ip = ip
  <2>1. /\ Len(updates) \in Nat /\ Len(updates') = Len(updates) + 1
        /\ \A n \in 1 .. Len(updates) : updates'[n] = updates[n]
        /\ updates'[Len(updates) + 1] = u
    BY <1>1, <1>3, AppendProperties DEF KeptInv
  <2>2. DOMAIN updates = 1 .. Len(updates) /\ DOMAIN updates' = 1 .. Len(updates) + 1
    BY <1>5, <2>1 DEF KeptInv
  <2>3. Len(updates) + 1 \in DOMAIN updates' /\ updates'[Len(updates) + 1].ip = ip
    BY <2>1, <2>2
  <2> QED
    BY <2>1, <2>2, <2>3
<1>7. \A a \in Ips : \/ a = ip
                     \/ lookup'[a] = lookup[a]
  BY <1>4 DEF IInv, LookupOK
<1>8. \A a \in Ips : lookup'[a].stage # "none" => a \in inProgress'
  BY <1>2, <1>4, <1>7 DEF KeptInv
<1>9. \A a \in Ips : lookup'[a].stage = "answered" =>
        a \in DOMAIN ipLocation' \/ \E n \in DOMAIN updates' : updates'[n].ip = a
  <2> SUFFICES ASSUME NEW a \in Ips, lookup'[a].stage = "answered"
               PROVE  a \in DOMAIN ipLocation' \/ \E n \in DOMAIN updates' : updates'[n].ip = a
    OBVIOUS
  <2>1. CASE a = ip
    BY <1>6, <2>1
  <2>2. CASE lookup'[a] = lookup[a]
    <3>1. a \in DOMAIN ipLocation \/ \E n \in DOMAIN updates : updates[n].ip = a
      BY <2>2 DEF KeptInv
    <3> QED
      BY <1>4, <1>6, <3>1
  <2> QED
    BY <1>7, <2>1, <2>2
<1> QED
  BY <1>4, <1>5, <1>8, <1>9 DEF KeptInv

\* A scan and a failure leave the page alone and answer nothing.
LEMMA LookupKept ==
  ASSUME IInv, KeptInv, NEW ip \in Ips, lookup[ip].stage # "none",
         UNCHANGED <<rows, ipLocation, inProgress, updates, asked>>,
         \A a \in Ips \ {ip} : lookup'[a] = lookup[a],
         lookup'[ip].stage # "answered"
  PROVE  KeptInv'
<1>1. \A a \in Ips : a = ip \/ lookup'[a] = lookup[a]
  OBVIOUS
<1>2. ip \in inProgress
  BY DEF KeptInv
<1>3. \A a \in Ips : lookup'[a].stage # "none" => a \in inProgress
  BY <1>1, <1>2 DEF KeptInv
<1>4. \A a \in Ips : lookup'[a].stage = "answered" => lookup[a].stage = "answered"
  BY <1>1
<1> QED
  BY <1>3, <1>4 DEF KeptInv

LEMMA ScanStages ==
  ASSUME IInv, NEW ip \in Ips, Scan(ip)
  PROVE  /\ \A a \in Ips \ {ip} : lookup'[a] = lookup[a]
         /\ lookup'[ip].stage # "answered"
<1>1. \/ \E asn : lookup' = [lookup EXCEPT ![ip].stage = "done", ![ip].asn = asn]
      \/ \E asn : lookup' = [lookup EXCEPT ![ip].n = @ + 1, ![ip].asn = asn]
  BY DEF Scan, Unparsable, Exhausted, Entry, Found, Advance
<1>2. ASSUME NEW asn, lookup' = [lookup EXCEPT ![ip].stage = "done", ![ip].asn = asn]
      PROVE  /\ \A a \in Ips \ {ip} : lookup'[a] = lookup[a]
             /\ lookup'[ip].stage # "answered"
  BY <1>2 DEF IInv, LookupOK
<1>3. ASSUME NEW asn, lookup' = [lookup EXCEPT ![ip].n = @ + 1, ![ip].asn = asn]
      PROVE  /\ \A a \in Ips \ {ip} : lookup'[a] = lookup[a]
             /\ lookup'[ip].stage # "answered"
  BY <1>3 DEF IInv, LookupOK, Scan
<1> QED
  BY <1>1, <1>2, <1>3

LEMMA NextKept == IInv /\ KeptInv /\ [Next]_vars => KeptInv'
<1> SUFFICES ASSUME IInv, KeptInv, [Next]_vars PROVE KeptInv'
  OBVIOUS
<1>1. ASSUME NEW ip \in Ips \cup {Star}, Line(ip) PROVE KeptInv'
  <2>1. rows \cup {ip} \in SUBSET (Ips \cup {Star})
    BY DEF KeptInv
  <2> QED
    BY <1>1, <2>1, CommitKept DEF Line
<1>2. CASE Leave
  BY <1>2, CommitKept DEF Leave
<1>3. CASE Render
  <2>1. rows \in SUBSET (Ips \cup {Star})
    BY DEF KeptInv
  <2> QED
    BY <1>3, <2>1, CommitKept DEF Render
<1>4. ASSUME NEW ip \in Ips, Scan(ip) PROVE KeptInv'
  BY <1>4, ScanStages, LookupKept DEF Scan
<1>5. ASSUME NEW ip \in Ips, Answer(ip) PROVE KeptInv'
  BY <1>5, AnswerKept
<1>6. ASSUME NEW ip \in Ips, Fail(ip) PROVE KeptInv'
  <2>1. /\ \A a \in Ips \ {ip} : lookup'[a] = lookup[a]
        /\ lookup'[ip].stage # "answered"
    BY <1>6 DEF Fail, IInv, LookupOK
  <2> QED
    BY <1>6, <2>1, LookupKept DEF Fail
<1>7. CASE UNCHANGED vars
  BY <1>7 DEF vars, KeptInv
<1> QED
  BY <1>1, <1>2, <1>3, <1>4, <1>5, <1>6, <1>7 DEF Next

\* What follows of the two invariants together.
LEMMA GeoCorrect == Spec => [](IInv /\ KeptInv)
  BY InitIInv, NextIInv, InitKept, NextKept, PTL DEF Spec

\* Every state of the lookups and of the page is well typed, whatever the addresses
\* and the tables.
THEOREM GeoWellTyped == Spec => []TypeOK
<1>1. IInv /\ KeptInv => TypeOK
  BY DEF IInv, LookupOK, KeptInv, TypeOK
<1> QED
  BY <1>1, GeoCorrect, PTL

\* However many addresses a page shows and however its answers are queued together,
\* getIP asks for an address once, and an answer is shown or waits to be.
THEOREM AskedOnceAlways == Spec => []AskedOnceKeptForever
<1>1. KeptInv => AskedOnceKeptForever
  BY DEF KeptInv, AskedOnceKeptForever
<1> QED
  BY <1>1, GeoCorrect, PTL
=============================================================================
