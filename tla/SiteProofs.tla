------------------------------ MODULE SiteProofs ------------------------------
(***************************************************************************)
(* Proofs about the frontend, for any nodes, queries and bounds. The pages *)
(* of probes are proved from what they will show once everything that is   *)
(* queued is rendered, Pending: a message only adds to it, and a render    *)
(* makes it what is shown.                                                 *)
(***************************************************************************)
EXTENDS Site, SequenceTheorems, TLAPS

\* The theorems about folds, for the updates of a page.
Rendering == INSTANCE LeftFold WITH Op <- Apply

\* What the page shows, and will show once everything that is queued is rendered.
Now == [start |-> start, query |-> query, data |-> data, resolved |-> resolved]
IsPage(s) ==
  s = [start |-> s.start, query |-> s.query, data |-> s.data, resolved |-> s.resolved]
Shown(base, us) == FoldLeft(Apply, base, us)
Pending == Shown(Now, updates)

Keys == Nodes \cup Hops \cup {"hops"}
Types == {"row", "last", "transmit", "host", "ping"}
Updates ==
  {Stop, Clear}
    \cup [what : {"submit"}, query : Queries \cup {NoQuery}]
    \cup [what : {"resolved"}, source : Nat]
    \cup [what : {"line"}, key : Keys, type : Types, row : Nat \X Nat]
StopQueued == Contains(updates, Stop)

\* The event sources: the effect's is the last, and the only one open.
SourceInv ==
  /\ opened \in Nat /\ effect \in {0, opened}
  /\ open \subseteq {effect} \ {0} /\ retrying \subseteq open

\* The effect has a source while there is something to ask for, and its source is
\* closed only if the page is told to stop, or was told so with a submission.
PageInv ==
  /\ page \in StreamPages \cup {"none", "error"}
  /\ start \in BOOLEAN /\ revived \in BOOLEAN
  /\ query \in Queries \cup {NoQuery} /\ asked \in Queries \cup {NoQuery}
  /\ (effect # 0) <=> (start /\ (query # NoQuery \/ page = "version"))
  /\ effect # 0 => asked = query
  /\ effect # 0 /\ open = {} => revived \/ StopQueued

\* No submission waits in the queue, and a stop is not undone in it.
QueueInv ==
  /\ updates \in Seq(Updates)
  /\ IsPage(Pending)
  /\ Pending.query = query
  /\ Pending.start = (start /\ ~StopQueued)

\* A source that will reconnect is closed by a stop that is queued before it does,
\* unless a submission undid the stop, and this one has made no request.
RequestInv ==
  /\ requests \in Nat /\ submits \in Nat
  /\ requests + (IF retrying # {} /\ ~StopQueued THEN 1 ELSE 0) <= submits

\* d holds the rows of the messages g of source o, as page p shows them.
Complete(d, g, o, p) ==
  /\ DOMAIN d = ToSet(g)
  /\ p \in {"ping", "traceroute"} => \A k \in DOMAIN d :
       /\ d[k] \in Seq(Nat \X Nat)
       /\ ToSet(d[k]) = {<<o, n>> : n \in {m \in DOMAIN g : g[m] = k}}
       /\ \A i, j \in DOMAIN d[k] : i < j => d[k][i][2] < d[k][j][2]
  /\ p = "version" => \A k \in DOMAIN d : \E n \in DOMAIN g :
       /\ g[n] = k /\ d[k] = << <<o, n>> >>
       /\ \A m \in DOMAIN g : g[m] = k => m <= n

\* What is queued completes the rows of the messages delivered so far.
RowsInv ==
  /\ got \in Seq(Keys) /\ Len(got) <= MaxLines
  /\ DOMAIN data \subseteq Keys /\ resolved \in 0 .. opened
  /\ Pending.resolved \in {0, opened}
  /\ Complete(Pending.data, got, opened, page)

\* The row of hop h counts the lines delivered of the lines of c, and one more if
\* the line that made it was the answer to a probe whose line was lost.
Counts(d, h, c) ==
  /\ c.noTx <= c.tx /\ c.noRx <= c.rx /\ c.rx <= c.tx
  /\ h \notin DOMAIN d => c.tx = c.noTx /\ c.rx = c.noRx
  /\ h \in DOMAIN d =>
       /\ d[h] = Hop(d[h].host, d[h].counter, d[h].rtt)
       /\ d[h].rtt = c.rx - c.noRx
       /\ \/ d[h].counter = c.tx - c.noTx
          \/ d[h].counter = c.tx - c.noTx + 1 /\ c.noTx > 0

Lines == [tx : Nat, rx : Nat, noTx : Nat, noRx : Nat]
LossInv ==
  /\ probes \in [Hops -> Lines]
  /\ page = "mtr" => DOMAIN Pending.data \subseteq Hops
                     /\ \A h \in Hops : Counts(Pending.data, h, probes[h])

PageIInv == SourceInv /\ PageInv /\ QueueInv /\ RequestInv /\ RowsInv /\ LossInv

-----------------------------------------------------------------------------
\* Updates that are queued.

LEMMA ShownFold ==
  ASSUME NEW base, NEW us
  PROVE  Shown(base, us) = Rendering!Folded(base, us)
BY DEF Shown, Rendering!Folded, Rendering!FoldLeft, Rendering!MapThenFoldSet, Rendering!Max,
       FoldLeft, MapThenFoldSet, Max

LEMMA NothingQueued ==
  /\ \A base : Shown(base, <<>>) = base
  /\ <<>> \in Seq(Updates) /\ ~Contains(<<>>, Stop)
<1>1. \A base : Shown(base, <<>>) = base
  BY ShownFold, Rendering!FoldNothing
<1>2. <<>> \in Seq(Updates) /\ Len(<<>>) = 0
  BY EmptySeq
<1>3. ~Contains(<<>>, Stop)
  BY <1>2 DEF Contains
<1> QED
  BY <1>1, <1>2, <1>3

LEMMA OneMoreQueued ==
  ASSUME NEW base, NEW us \in Seq(Updates), NEW u \in Updates
  PROVE  /\ Shown(base, Append(us, u)) = Apply(Shown(base, us), u)
         /\ Append(us, u) \in Seq(Updates)
         /\ Contains(Append(us, u), Stop) <=> (Contains(us, Stop) \/ u = Stop)
<1> DEFINE n == Len(us)
           vs == Append(us, u)
<1>1. /\ n \in Nat /\ DOMAIN us = 1 .. n
      /\ vs \in Seq(Updates) /\ Len(vs) = n + 1 /\ DOMAIN vs = 1 .. n + 1
      /\ vs[n + 1] = u
      /\ \A k \in 1 .. n : vs[k] = us[k]
  BY AppendProperties, LenProperties
<1>2. Shown(base, vs) = Apply(Shown(base, us), u)
  <2> HIDE DEF n, vs
  <2>1. Rendering!Folded(base, vs) = Apply(Rendering!Folded(base, us), vs[n + 1])
    BY <1>1, Rendering!FoldOneMore
  <2> QED
    BY <1>1, <2>1, ShownFold
<1>3. Contains(vs, Stop) <=> (Contains(us, Stop) \/ u = Stop)
  <2>1. 1 .. n + 1 = (1 .. n) \cup {n + 1}
    BY <1>1
  <2> QED
    BY <1>1, <2>1 DEF Contains
<1> QED
  BY <1>1, <1>2, <1>3

LEMMA FirstQueued ==
  ASSUME NEW base, NEW u \in Updates
  PROVE  /\ Shown(base, <<u>>) = Apply(base, u)
         /\ <<u>> \in Seq(Updates)
         /\ Contains(<<u>>, Stop) <=> u = Stop
<1>1. <<>> \in Seq(Updates) /\ ~Contains(<<>>, Stop) /\ Shown(base, <<>>) = base
  BY NothingQueued
<1>2. PICK us \in Seq(Updates) : us = <<>>
  BY <1>1
<1>3. /\ Shown(base, Append(us, u)) = Apply(Shown(base, us), u)
      /\ Append(us, u) \in Seq(Updates)
      /\ Contains(Append(us, u), Stop) <=> (Contains(us, Stop) \/ u = Stop)
  BY OneMoreQueued
<1>4. Append(us, u) = <<u>>
  BY <1>2
<1> QED
  BY <1>1, <1>2, <1>3, <1>4, Zenon

\* What one update does to what is shown.
LEMMA StopApplied ==
  ASSUME NEW s, IsPage(s)
  PROVE  LET t == Apply(s, Stop) IN
         /\ IsPage(t) /\ t.start = FALSE
         /\ t.query = s.query /\ t.data = s.data /\ t.resolved = s.resolved
  BY DEF Apply, Stop, IsPage

LEMMA ClearApplied ==
  ASSUME NEW s, IsPage(s)
  PROVE  LET t == Apply(s, Clear) IN
         /\ IsPage(t) /\ t.data = NoRows
         /\ t.query = s.query /\ t.start = s.start /\ t.resolved = s.resolved
  BY DEF Apply, Clear, IsPage

LEMMA SubmitApplied ==
  ASSUME NEW s, IsPage(s), NEW q
  PROVE  LET t == Apply(s, [what |-> "submit", query |-> q]) IN
         /\ IsPage(t) /\ t.start = TRUE /\ t.query = q
         /\ t.data = s.data /\ t.resolved = 0
  BY DEF Apply, IsPage

LEMMA ResolvedApplied ==
  ASSUME NEW s, IsPage(s), NEW e
  PROVE  LET t == Apply(s, [what |-> "resolved", source |-> e]) IN
         /\ IsPage(t) /\ t.resolved = e
         /\ t.query = s.query /\ t.start = s.start /\ t.data = s.data
  BY DEF Apply, IsPage

LEMMA LineApplied ==
  ASSUME NEW s, IsPage(s), NEW u, u.what = "line"
  PROVE  LET t == Apply(s, u) IN
         /\ IsPage(t) /\ t.data = LineUpdate(s.data, u)
         /\ t.query = s.query /\ t.start = s.start /\ t.resolved = s.resolved
  BY DEF Apply, IsPage

\* The updates that a page queues.
LEMMA UpdatesQueued ==
  /\ Stop \in Updates /\ Clear \in Updates /\ Clear # Stop
  /\ \A q \in Queries \cup {NoQuery} :
       [what |-> "submit", query |-> q] \in Updates /\ [what |-> "submit", query |-> q] # Stop
  /\ \A e \in Nat : [what |-> "resolved", source |-> e] \in Updates
                    /\ [what |-> "resolved", source |-> e] # Stop
<1>1. Clear.what = "clear" /\ Stop.what = "stop"
  BY DEF Clear, Stop
<1> QED
  BY <1>1 DEF Updates, Stop

LEMMA LineQueued ==
  ASSUME NEW k \in Keys, NEW type \in Types, NEW row \in Nat \X Nat
  PROVE  LET u == [what |-> "line", key |-> k, type |-> type, row |-> row] IN
         u \in Updates /\ u # Stop
  BY DEF Updates, Stop


\* What the effect queues when its dependencies change.
LEMMA EffectQueues ==
  ASSUME NEW s, IsPage(s), s.start \in BOOLEAN, NEW runs \in BOOLEAN
  PROVE  LET us == EffectUpdates(runs)
             t == Shown(s, us)
             stops == page # "version" /\ effect # 0
         IN  /\ us \in Seq(Updates) /\ (Contains(us, Stop) <=> stops)
             /\ IsPage(t) /\ t.query = s.query /\ t.resolved = s.resolved
             /\ t.start = (s.start /\ ~stops)
             /\ t.data = IF runs /\ page # "version" THEN NoRows ELSE s.data
<1> DEFINE us == EffectUpdates(runs)
           t == Shown(s, us)
           stops == page # "version" /\ effect # 0
<1>1. CASE page = "version" \/ (effect = 0 /\ ~runs)
  <2>1. us = <<>>
    BY <1>1 DEF EffectUpdates
  <2>2. t = s /\ us \in Seq(Updates) /\ ~Contains(us, Stop)
    BY <2>1, NothingQueued
  <2> QED
    BY <1>1, <2>2
<1> DEFINE one == Shown(s, <<Stop>>)
<1>2. one = Apply(s, Stop) /\ <<Stop>> \in Seq(Updates) /\ Contains(<<Stop>>, Stop)
  BY UpdatesQueued, FirstQueued
<1>3. IsPage(one) /\ one.start = FALSE /\ one.query = s.query /\ one.data = s.data /\ one.resolved = s.resolved
  BY <1>2, StopApplied
<1>4. CASE page # "version" /\ effect # 0 /\ ~runs
  <2>1. us = <<Stop>>
    BY <1>4 DEF EffectUpdates
  <2> QED
    BY <1>2, <1>3, <1>4, <2>1
<1>5. CASE page # "version" /\ effect # 0 /\ runs
  <2>1. us = Append(<<Stop>>, Clear)
    BY <1>5 DEF EffectUpdates
  <2>2. t = Apply(one, Clear) /\ us \in Seq(Updates) /\ Contains(us, Stop)
    BY <1>2, <2>1, UpdatesQueued, OneMoreQueued
  <2>3. IsPage(t) /\ t.data = NoRows /\ t.query = one.query /\ t.start = one.start /\ t.resolved = one.resolved
    BY <1>3, <2>2, ClearApplied
  <2> QED
    BY <1>3, <1>5, <2>2, <2>3
<1>6. CASE page # "version" /\ effect = 0 /\ runs
  <2>1. us = <<Clear>>
    BY <1>6 DEF EffectUpdates
  <2>2. t = Apply(s, Clear) /\ us \in Seq(Updates) /\ ~Contains(us, Stop)
    BY <2>1, UpdatesQueued, FirstQueued
  <2>3. IsPage(t) /\ t.data = NoRows /\ t.query = s.query /\ t.start = s.start /\ t.resolved = s.resolved
    BY <2>2, ClearApplied
  <2> QED
    BY <1>6, <2>2, <2>3
<1> QED
  BY <1>1, <1>4, <1>5, <1>6

-----------------------------------------------------------------------------
\* The commit of a render, in the three ways it may go.

\* s is what the page shows after the updates us, n submissions among them.
Renders(s, us, n) ==
  /\ IsPage(s) /\ s.start \in BOOLEAN /\ s.data = Pending.data
  /\ \/ /\ n = 0
        /\ s.query = query /\ s.resolved = Pending.resolved
        /\ s.start = (start /\ ~Contains(us, Stop))
        /\ StopQueued => Contains(us, Stop)
     \/ /\ n = 1 /\ page \in ProbePages
        /\ s.query \in Queries \cup {NoQuery} /\ s.resolved = 0 /\ s.start = TRUE
        /\ Contains(us, Stop) <=> StopQueued

Takes(s, n) ==
  /\ page' = page /\ submits' = submits + n
  /\ Now' = s

Runs(s) == s.start /\ (s.query # NoQuery \/ page = "version")

Restarts(s) ==
  /\ s.start # start \/ s.query # query
  /\ updates' = EffectUpdates(Runs(s))
  /\ EffectSources(Runs(s))
  /\ asked' = IF Runs(s) THEN s.query ELSE asked
  /\ got' = IF Runs(s) THEN <<>> ELSE got
  /\ probes' = IF Runs(s) THEN NoProbes ELSE probes
  /\ revived' = FALSE

Stays(s, us) ==
  /\ s.start = start /\ s.query = query
  /\ updates' = <<>>
  /\ revived' = (s.start /\ (revived \/ Contains(us, Stop)))
  /\ UNCHANGED <<sourceVars, requests>>

LEMMA CommitCases ==
  ASSUME NEW us, NEW n, NEW list, NEW s, s = Shown(Now, us), IsPage(s), Commit(us, n, list)
  PROVE  GoTo("error") \/ (Takes(s, n) /\ (Restarts(s) \/ Stays(s, us)))
<1>1. s = FoldLeft(Apply, [start |-> start, query |-> query, data |-> data, resolved |-> resolved], us)
  BY DEF Shown, Now
<1>2. CASE TableThrows(s.data, list)
  BY <1>1, <1>2 DEF Commit
<1>3. CASE ~TableThrows(s.data, list)
  <2>1. Takes(s, n)
    BY <1>1, <1>3 DEF Commit, Takes, Now, IsPage
  <2>2. Restarts(s) \/ Stays(s, us)
    BY <1>1, <1>3 DEF Commit, Restarts, Stays, Runs
  <2> QED
    BY <2>1, <2>2
<1> QED
  BY <1>2, <1>3

LEMMA RenderRenders ==
  ASSUME PageIInv
  PROVE  Renders(Pending, updates, 0)
BY DEF PageIInv, QueueInv, PageInv, Renders, StopQueued

LEMMA StopRenders ==
  ASSUME PageIInv
  PROVE  Renders(Shown(Now, Append(updates, Stop)), Append(updates, Stop), 0)
<1> DEFINE us == Append(updates, Stop)
<1>1. Shown(Now, us) = Apply(Pending, Stop) /\ Contains(us, Stop)
  BY UpdatesQueued, OneMoreQueued DEF PageIInv, QueueInv, Pending
<1>2. IsPage(Pending) /\ Pending.query = query
  BY DEF PageIInv, QueueInv
<1> QED
  BY <1>1, <1>2, StopApplied DEF Renders

LEMMA SubmitRenders ==
  ASSUME PageIInv, page \in ProbePages, NEW q \in Queries \cup {NoQuery}
  PROVE  LET us == Append(updates, [what |-> "submit", query |-> q]) IN Renders(Shown(Now, us), us, 1)
<1> DEFINE us == Append(updates, [what |-> "submit", query |-> q])
<1>1. Shown(Now, us) = Apply(Pending, [what |-> "submit", query |-> q]) /\ (Contains(us, Stop) <=> StopQueued)
  BY UpdatesQueued, OneMoreQueued DEF PageIInv, QueueInv, Pending, StopQueued
<1>2. IsPage(Pending)
  BY DEF PageIInv, QueueInv
<1> DEFINE t == Shown(Now, us)
<1>3. IsPage(t) /\ t.start = TRUE /\ t.query = q /\ t.data = Pending.data /\ t.resolved = 0
  <2> DEFINE a == Apply(Pending, [what |-> "submit", query |-> q])
  <2>1. IsPage(a) /\ a.start = TRUE /\ a.query = q /\ a.data = Pending.data /\ a.resolved = 0
    BY <1>2, SubmitApplied
  <2>2. t = a
    BY <1>1
  <2> HIDE DEF a, t
  <2> QED
    BY <2>1, <2>2
<1> HIDE DEF t, us
<1>4. Renders(t, us, 1)
  BY <1>1, <1>3 DEF Renders
<1> QED
  BY <1>4 DEF t, us

-----------------------------------------------------------------------------
\* Every step keeps the invariant. First those that commit.

LEMMA PendingNext ==
  ASSUME NEW s, NEW us, Now' = s, updates' = us
  PROVE  Pending' = Shown(s, us)
BY DEF Pending

LEMMA NowIs ==
  ASSUME NEW s, IsPage(s), Now' = s
  PROVE  start' = s.start /\ query' = s.query /\ data' = s.data /\ resolved' = s.resolved
<1>1. /\ Now'.start = start' /\ Now'.query = query'
      /\ Now'.data = data' /\ Now'.resolved = resolved'
  BY DEF Now
<1> QED
  BY <1>1

\* Nothing is shown of a source that has delivered nothing.
LEMMA NothingShown ==
  /\ <<>> \in Seq(Keys) /\ Len(<<>>) = 0
  /\ \A o, p : Complete(NoRows, <<>>, o, p)
  /\ NoProbes \in [Hops -> Lines]
  /\ DOMAIN NoRows = {}
  /\ \A h \in Hops : Counts(NoRows, h, NoProbes[h])
<1>1. <<>> \in Seq(Keys) /\ Len(<<>>) = 0 /\ DOMAIN <<>> = {}
  BY EmptySeq
<1>2. DOMAIN NoRows = {}
  BY DEF NoRows
<1>3. ToSet(<<>>) = {}
  BY <1>1 DEF ToSet
<1>4. \A o, p : Complete(NoRows, <<>>, o, p)
  BY <1>2, <1>3 DEF Complete
<1>5. NoProbes \in [Hops -> Lines]
  BY DEF NoProbes, Lines
<1>6. \A h \in Hops : Counts(NoRows, h, NoProbes[h])
  BY <1>2 DEF Counts, NoProbes
<1> QED
  BY <1>1, <1>2, <1>4, <1>5, <1>6

LEMMA GoToKeeps ==
  ASSUME PageIInv, NEW to \in StreamPages \cup {"none", "error"}, GoTo(to)
  PROVE  PageIInv'
<1> DEFINE n == IF to = "version" THEN 1 ELSE 0
<1>1. /\ page' = to /\ start' = (to = "version")
      /\ query' = NoQuery /\ data' = NoRows /\ resolved' = 0 /\ updates' = <<>>
      /\ asked' = NoQuery /\ got' = <<>> /\ probes' = NoProbes /\ revived' = FALSE
      /\ open' = (open \ {effect}) \cup 1 .. n /\ retrying' = retrying \ {effect}
      /\ effect' = n /\ opened' = n /\ submits' = n /\ requests' = n
  BY DEF GoTo
<1>2. open' = 1 .. n /\ retrying' = {}
  BY <1>1 DEF PageIInv, SourceInv
<1>3. Pending' = Now'
  BY <1>1, PendingNext, NothingQueued
<1>4. ~StopQueued'
  BY <1>1, NothingQueued DEF StopQueued
<1>5. SourceInv'
  BY <1>1, <1>2 DEF SourceInv
<1>6. PageInv'
  <2>1. CASE to = "version"
    <3>1. start' = TRUE /\ effect' = 1 /\ page' = "version"
      BY <1>1, <2>1
    <3>2. 1 \in open'
      BY <1>2, <2>1
    <3>3. page' \in StreamPages \cup {"none", "error"}
      BY <1>1
    <3>4. query' = NoQuery /\ asked' = NoQuery /\ revived' = FALSE
      BY <1>1
    <3>5. (effect' # 0) <=> (start' /\ (query' # NoQuery \/ page' = "version"))
      BY <3>1
    <3>6. effect' # 0 /\ open' = {} => revived' \/ StopQueued'
      BY <3>2
    <3> QED
      BY <3>1, <3>3, <3>4, <3>5, <3>6 DEF PageInv
  <2>2. CASE to # "version"
    <3>1. start' = FALSE /\ effect' = 0
      BY <1>1, <2>2
    <3> QED
      BY <1>1, <3>1 DEF PageInv
  <2> QED
    BY <2>1, <2>2
<1>7. QueueInv'
  <2>1. IsPage(Now') /\ Now'.query = query' /\ Now'.start = start'
    BY DEF Now, IsPage
  <2> QED
    BY <1>1, <1>3, <1>4, <2>1, NothingQueued DEF QueueInv
<1>8. RequestInv'
  BY <1>1, <1>2 DEF RequestInv
<1>9. Pending'.data = NoRows /\ Pending'.resolved = 0
  BY <1>1, <1>3 DEF Now
<1>10. RowsInv'
  BY <1>1, <1>9, NothingShown, BoundAssumption DEF RowsInv
<1>11. LossInv'
  BY <1>1, <1>9, NothingShown DEF LossInv
<1> QED
  BY <1>5, <1>6, <1>7, <1>8, <1>10, <1>11 DEF PageIInv


\* A commit that runs the effect again.
LEMMA RestartKeeps ==
  ASSUME PageIInv, NEW s, NEW us, NEW n, Renders(s, us, n), Takes(s, n), Restarts(s)
  PROVE  PageIInv'
<1> DEFINE t == Shown(s, updates')
           stops == page # "version" /\ effect # 0
<1>1. IsPage(s) /\ s.start \in BOOLEAN /\ s.query \in Queries \cup {NoQuery} /\ Runs(s) \in BOOLEAN
  BY DEF Renders, Runs, PageIInv, PageInv
<1>2. /\ page' = page /\ submits' = submits + n /\ start' = s.start /\ query' = s.query
      /\ data' = s.data /\ resolved' = s.resolved
  BY <1>1, NowIs DEF Takes
<1>3. Pending' = t
  BY PendingNext DEF Takes
<1>4. /\ updates' \in Seq(Updates) /\ (StopQueued' <=> stops)
      /\ IsPage(t) /\ t.query = s.query /\ t.resolved = s.resolved
      /\ t.start = (s.start /\ ~stops)
      /\ t.data = IF Runs(s) /\ page # "version" THEN NoRows ELSE s.data
  <2>1. updates' = EffectUpdates(Runs(s))
    BY DEF Restarts
  <2>2. StopQueued' <=> Contains(updates', Stop)
    BY DEF StopQueued
  <2> QED
    BY <1>1, <2>1, <2>2, EffectQueues
<1> HIDE DEF t
<1>5. Runs(s) => n = 1 /\ page \in ProbePages /\ s.resolved = 0 /\ s.query # NoQuery
  BY <1>1 DEF Renders, Restarts, Runs, PageIInv, PageInv, ProbePages
<1>6. /\ opened' = opened + (IF Runs(s) THEN 1 ELSE 0)
      /\ open' = (open \ {effect}) \cup (IF Runs(s) THEN {opened + 1} ELSE {})
      /\ retrying' = retrying \ {effect}
      /\ effect' = IF Runs(s) THEN opened + 1 ELSE 0
      /\ requests' = requests + (IF Runs(s) THEN 1 ELSE 0)
      /\ asked' = IF Runs(s) THEN s.query ELSE asked
      /\ got' = IF Runs(s) THEN <<>> ELSE got
      /\ probes' = IF Runs(s) THEN NoProbes ELSE probes
      /\ revived' = FALSE
  BY DEF Restarts, EffectSources
<1>7. opened \in Nat /\ open \ {effect} = {} /\ retrying' = {}
  BY <1>6 DEF PageIInv, SourceInv
<1>8. SourceInv'
  BY <1>6, <1>7 DEF SourceInv
<1>9. PageInv'
  <2>1. effect' # 0 <=> Runs(s)
    BY <1>6, <1>7
  <2>2. Runs(s) <=> start' /\ (query' # NoQuery \/ page' = "version")
    BY <1>2 DEF Runs
  <2>3. Runs(s) => open' # {} /\ asked' = query'
    BY <1>2, <1>6
  <2>4. start' \in BOOLEAN /\ query' \in Queries \cup {NoQuery}
    BY <1>1, <1>2
  <2>5. asked' \in Queries \cup {NoQuery}
    BY <1>1, <1>6 DEF PageIInv, PageInv
  <2> QED
    BY <1>2, <1>6, <2>1, <2>2, <2>3, <2>4, <2>5 DEF PageIInv, PageInv
<1>10. QueueInv'
  BY <1>1, <1>2, <1>3, <1>4 DEF QueueInv
<1>11. RequestInv'
  <2>1. requests \in Nat /\ submits \in Nat /\ requests <= submits
    BY DEF PageIInv, RequestInv
  <2>2. n \in {0, 1}
    BY DEF Renders
  <2> QED
    BY <1>2, <1>5, <1>6, <1>7, <2>1, <2>2 DEF RequestInv
<1>12. Pending'.resolved = s.resolved /\ Pending'.data = IF Runs(s) THEN NoRows ELSE Pending.data
  <2>1. s.data = Pending.data
    BY DEF Renders
  <2>2. Runs(s) => page # "version"
    BY <1>5 DEF ProbePages
  <2> QED
    BY <1>3, <1>4, <2>1, <2>2
<1>13. RowsInv'
  <2>1. DOMAIN data' \subseteq Keys
    <3>1. DOMAIN Pending.data = ToSet(got) /\ got \in Seq(Keys)
      BY DEF PageIInv, RowsInv, Complete
    <3>2. ToSet(got) \subseteq Keys
      BY <3>1, ElementOfSeq DEF ToSet
    <3> QED
      BY <1>2, <3>1, <3>2 DEF Renders
  <2>2. s.resolved \in {0, opened'}
    BY <1>5, <1>6, <1>7 DEF Renders, PageIInv, RowsInv
  <2>3. opened' \in Nat
    BY <1>8 DEF SourceInv
  <2>4. CASE Runs(s)
    BY <1>2, <1>6, <1>12, <2>1, <2>2, <2>3, <2>4, NothingShown, BoundAssumption DEF RowsInv
  <2>5. CASE ~Runs(s)
    <3>1. got' = got /\ opened' = opened /\ Pending'.data = Pending.data
      BY <1>6, <1>7, <1>12, <2>5
    <3> QED
      BY <1>2, <1>12, <2>1, <2>2, <2>3, <3>1 DEF PageIInv, RowsInv
  <2> QED
    BY <1>1, <2>4, <2>5
<1>14. LossInv'
  <2>1. CASE Runs(s)
    BY <1>6, <1>12, <2>1, NothingShown DEF LossInv
  <2>2. CASE ~Runs(s)
    <3>1. probes' = probes /\ Pending'.data = Pending.data
      BY <1>6, <1>12, <2>2
    <3> QED
      BY <1>2, <3>1 DEF PageIInv, LossInv
  <2> QED
    BY <1>1, <2>1, <2>2
<1> QED
  BY <1>8, <1>9, <1>10, <1>11, <1>13, <1>14 DEF PageIInv

\* A commit that leaves the effect alone.
LEMMA StayKeeps ==
  ASSUME PageIInv, NEW s, NEW us, NEW n, Renders(s, us, n), Takes(s, n), Stays(s, us)
  PROVE  PageIInv'
<1>1. IsPage(s) /\ s.start = start /\ s.query = query /\ s.data = Pending.data
  BY DEF Renders, Stays
<1>2. /\ page' = page /\ submits' = submits + n /\ start' = start /\ query' = query
      /\ data' = s.data /\ resolved' = s.resolved
  BY <1>1, NowIs DEF Takes
<1>3. Pending' = s /\ updates' = <<>>
  BY PendingNext, NothingQueued DEF Takes, Stays
<1>4. ~StopQueued'
  BY <1>3, NothingQueued DEF StopQueued
<1>5. /\ effect' = effect /\ opened' = opened /\ open' = open /\ retrying' = retrying
      /\ asked' = asked /\ got' = got /\ probes' = probes /\ requests' = requests
      /\ revived' = (start /\ (revived \/ Contains(us, Stop)))
  BY <1>1 DEF Stays, sourceVars
<1>6. SourceInv'
  BY <1>5 DEF PageIInv, SourceInv
<1>7. PageInv'
  <2>1. StopQueued => Contains(us, Stop)
    BY DEF Renders
  <2>2. revived' \in BOOLEAN
    BY <1>5
  <2>3. effect' # 0 /\ open' = {} => revived'
    BY <1>5, <2>1 DEF PageIInv, PageInv
  <2> QED
    BY <1>2, <1>5, <2>2, <2>3 DEF PageIInv, PageInv
<1>8. QueueInv'
  <2>1. start \in BOOLEAN
    BY DEF PageIInv, PageInv
  <2> QED
    BY <1>1, <1>2, <1>3, <1>4, <2>1, NothingQueued DEF QueueInv
<1>9. RequestInv'
  <2>1. /\ requests \in Nat /\ submits \in Nat
        /\ requests + (IF retrying # {} /\ ~StopQueued THEN 1 ELSE 0) <= submits
    BY DEF PageIInv, RequestInv
  <2>2. n = 1 \/ (n = 0 /\ (retrying # {} => ~StopQueued))
    <3>1. retrying # {} => start
      BY DEF PageIInv, SourceInv, PageInv
    <3> QED
      BY <1>1, <3>1 DEF Renders
  <2> QED
    BY <1>2, <1>4, <1>5, <2>1, <2>2 DEF RequestInv
<1>10. RowsInv'
  <2>1. DOMAIN data' \subseteq Keys
    <3>1. DOMAIN Pending.data = ToSet(got) /\ got \in Seq(Keys)
      BY DEF PageIInv, RowsInv, Complete
    <3>2. ToSet(got) \subseteq Keys
      BY <3>1, ElementOfSeq DEF ToSet
    <3> QED
      BY <1>1, <1>2, <3>1, <3>2
  <2>2. s.resolved \in {0, opened}
    BY DEF Renders, PageIInv, RowsInv
  <2>3. opened \in Nat
    BY DEF PageIInv, SourceInv
  <2> QED
    BY <1>1, <1>2, <1>3, <1>5, <2>1, <2>2, <2>3 DEF PageIInv, RowsInv
<1>11. LossInv'
  BY <1>1, <1>2, <1>3, <1>5 DEF PageIInv, LossInv
<1> QED
  BY <1>6, <1>7, <1>8, <1>9, <1>10, <1>11 DEF PageIInv

LEMMA CommitKeeps ==
  ASSUME PageIInv, NEW us, NEW n, NEW list, Renders(Shown(Now, us), us, n), Commit(us, n, list)
  PROVE  PageIInv'
<1> DEFINE s == Shown(Now, us)
<1>1. GoTo("error") \/ (Takes(s, n) /\ (Restarts(s) \/ Stays(s, us)))
  BY CommitCases DEF Renders
<1> QED
  BY <1>1, GoToKeeps, RestartKeeps, StayKeeps


-----------------------------------------------------------------------------
\* Then those that queue an update or none.

\* The row of a message completes the rows, of Version and of the other tables.
LEMMA MessagesOfKey ==
  ASSUME NEW g \in Seq(Keys), NEW k \in Keys, NEW gk, gk = Append(g, k), NEW j
  PROVE  /\ gk \in Seq(Keys) /\ Len(gk) = Len(g) + 1 /\ ToSet(gk) = ToSet(g) \cup {k}
         /\ {m \in DOMAIN gk : gk[m] = j}
              = {m \in DOMAIN g : g[m] = j} \cup IF j = k THEN {Len(g) + 1} ELSE {}
         /\ \A m \in DOMAIN g : m \in Nat /\ m < Len(g) + 1 /\ gk[m] = g[m]
         /\ gk[Len(g) + 1] = k /\ Len(g) + 1 \in DOMAIN gk /\ Len(g) + 1 \in Nat
<1> DEFINE n == Len(g)
<1>1. /\ n \in Nat /\ DOMAIN g = 1 .. n /\ gk \in Seq(Keys) /\ Len(gk) = n + 1
      /\ DOMAIN gk = 1 .. n + 1 /\ gk[n + 1] = k /\ \A m \in 1 .. n : gk[m] = g[m]
  BY AppendProperties, LenProperties
<1>2. 1 .. n + 1 = (1 .. n) \cup {n + 1}
  BY <1>1
<1>3. ToSet(gk) = ToSet(g) \cup {k}
  BY <1>1, <1>2 DEF ToSet
<1>4. \A m \in DOMAIN g : m \in Nat /\ m < n + 1 /\ gk[m] = g[m]
  BY <1>1
<1>5. n + 1 \in DOMAIN gk /\ n + 1 \notin DOMAIN g
  BY <1>1
<1>6. {m \in DOMAIN gk : gk[m] = j} = {m \in DOMAIN g : g[m] = j} \cup IF j = k THEN {n + 1} ELSE {}
  <2>1. DOMAIN gk = DOMAIN g \cup {n + 1} /\ gk[n + 1] = k
    BY <1>1, <1>2
  <2> QED
    BY <1>4, <1>5, <2>1
<1> QED
  BY <1>1, <1>3, <1>4, <1>5, <1>6

LEMMA LastCompletes ==
  ASSUME NEW d, NEW g \in Seq(Keys), NEW o \in Nat, NEW k \in Keys, NEW gk, gk = Append(g, k),
         Complete(d, g, o, "version")
  PROVE  Complete(Put(d, k, << <<o, Len(g) + 1>> >>), gk, o, "version")
<1> DEFINE e == Put(d, k, << <<o, Len(g) + 1>> >>)
<1>1. DOMAIN e = DOMAIN d \cup {k} /\ e[k] = << <<o, Len(g) + 1>> >>
      /\ \A j \in DOMAIN d \ {k} : e[j] = d[j]
  BY DEF Put
<1> HIDE DEF e
<1>2. DOMAIN e = ToSet(gk)
  <2>1. ToSet(gk) = ToSet(g) \cup {k}
    BY MessagesOfKey
  <2> QED
    BY <1>1, <2>1 DEF Complete
<1>3. ASSUME NEW j \in DOMAIN e
      PROVE  \E n \in DOMAIN gk : /\ gk[n] = j /\ e[j] = << <<o, n>> >>
                                  /\ \A m \in DOMAIN gk : gk[m] = j => m <= n
  <2>1. \A m \in DOMAIN gk : gk[m] = j =>
          (m \in DOMAIN g /\ g[m] = j) \/ (j = k /\ m = Len(g) + 1)
    BY MessagesOfKey
  <2>2. CASE j = k
    <3>1. \A m \in DOMAIN gk : gk[m] = j => m <= Len(g) + 1
      BY <2>1, MessagesOfKey
    <3> QED
      BY <1>1, <2>2, <3>1, MessagesOfKey
  <2>3. CASE j # k
    <3>1. PICK n \in DOMAIN g : /\ g[n] = j /\ d[j] = << <<o, n>> >>
                                /\ \A m \in DOMAIN g : g[m] = j => m <= n
      BY <1>1, <2>3 DEF Complete
    <3>2. n \in DOMAIN gk /\ gk[n] = j
      BY <3>1, MessagesOfKey, AppendProperties, LenProperties
    <3> QED
      BY <1>1, <2>1, <2>3, <3>1, <3>2
  <2> QED
    BY <2>2, <2>3
<1> QED
  BY <1>2, <1>3 DEF Complete, e

LEMMA RowCompletes ==
  ASSUME NEW d, NEW g \in Seq(Keys), NEW o \in Nat, NEW k \in Keys, NEW gk, gk = Append(g, k),
         NEW p, p # "version", Complete(d, g, o, p)
  PROVE  Complete(AddRow(d, k, <<o, Len(g) + 1>>), gk, o, p)
<1> DEFINE r == <<o, Len(g) + 1>>
           old == IF k \in DOMAIN d THEN d[k] ELSE <<>>
           e == AddRow(d, k, r)
<1>1. DOMAIN e = DOMAIN d \cup {k} /\ e[k] = Append(old, r) /\ \A j \in DOMAIN d \ {k} : e[j] = d[j]
  BY DEF AddRow, Put
<1> HIDE DEF e
<1>2. DOMAIN e = ToSet(gk)
  <2>1. ToSet(gk) = ToSet(g) \cup {k}
    BY MessagesOfKey
  <2> QED
    BY <1>1, <2>1 DEF Complete
<1>3. ASSUME p \in {"ping", "traceroute"}, NEW j \in DOMAIN e
      PROVE  /\ e[j] \in Seq(Nat \X Nat)
             /\ ToSet(e[j]) = {<<o, n>> : n \in {m \in DOMAIN gk : gk[m] = j}}
             /\ \A x, y \in DOMAIN e[j] : x < y => e[j][x][2] < e[j][y][2]
  <2>1. CASE j # k
    <3>1. e[j] = d[j] /\ j \in DOMAIN d
      BY <1>1, <2>1
    <3>2. {m \in DOMAIN gk : gk[m] = j} = {m \in DOMAIN g : g[m] = j}
      BY <2>1, MessagesOfKey
    <3> QED
      BY <1>3, <3>1, <3>2 DEF Complete
  <2>2. CASE j = k
    <3>1. /\ old \in Seq(Nat \X Nat)
          /\ ToSet(old) = {<<o, n>> : n \in {m \in DOMAIN g : g[m] = k}}
          /\ \A x, y \in DOMAIN old : x < y => old[x][2] < old[y][2]
      <4>1. CASE k \in DOMAIN d
        BY <1>3, <4>1 DEF Complete
      <4>2. CASE k \notin DOMAIN d
        <5>1. {m \in DOMAIN g : g[m] = k} = {}
          BY <4>2 DEF Complete, ToSet
        <5>2. old \in Seq(Nat \X Nat) /\ DOMAIN old = {}
          BY <4>2, EmptySeq
        <5> QED
          BY <5>1, <5>2 DEF ToSet
      <4> QED
        BY <4>1, <4>2
    <3>2. r \in Nat \X Nat /\ r[2] = Len(g) + 1
      BY LenProperties
    <3> DEFINE n == Len(old)
               new == Append(old, r)
    <3> HIDE DEF old, r
    <3>3. /\ n \in Nat /\ DOMAIN old = 1 .. n /\ new \in Seq(Nat \X Nat) /\ Len(new) = n + 1
          /\ DOMAIN new = 1 .. n + 1 /\ new[n + 1] = r /\ \A x \in 1 .. n : new[x] = old[x]
      BY <3>1, <3>2, AppendProperties, LenProperties
    <3>4. 1 .. n + 1 = (1 .. n) \cup {n + 1}
      BY <3>3
    <3>5. ToSet(new) = ToSet(old) \cup {r}
      BY <3>3, <3>4 DEF ToSet
    <3>6. ToSet(new) = {<<o, i>> : i \in {m \in DOMAIN gk : gk[m] = k}}
      <4>1. {m \in DOMAIN gk : gk[m] = k} = {m \in DOMAIN g : g[m] = k} \cup {Len(g) + 1}
        BY MessagesOfKey
      <4> QED
        BY <3>1, <3>5, <4>1 DEF r
    <3>7. \A x \in 1 .. n : old[x][2] < r[2]
      <4> TAKE x \in 1 .. n
      <4>1. old[x] \in ToSet(old)
        BY <3>3 DEF ToSet
      <4>2. PICK i \in {m \in DOMAIN g : g[m] = k} : old[x] = <<o, i>>
        BY <3>1, <4>1
      <4>3. i < Len(g) + 1
        BY MessagesOfKey
      <4> QED
        BY <3>2, <4>2, <4>3
    <3>8. \A x, y \in 1 .. n + 1 : x < y => new[x][2] < new[y][2]
      <4> TAKE x, y \in 1 .. n + 1
      <4> HAVE x < y
      <4>0. n \in Nat
        BY <3>3
      <4>1. x \in 1 .. n /\ (y \in 1 .. n \/ y = n + 1)
        BY <4>0
      <4>2. CASE y \in 1 .. n
        BY <3>1, <3>3, <4>1, <4>2
      <4>3. CASE y = n + 1
        BY <3>3, <3>7, <4>1, <4>3
      <4> QED
        BY <4>1, <4>2, <4>3
    <3> QED
      BY <1>1, <2>2, <3>3, <3>6, <3>8
  <2> QED
    BY <2>1, <2>2
<1> QED
  BY <1>2, <1>3 DEF Complete, e


\* What a line of mtr does: it makes its row or counts in it.
LEMMA LineOfHop ==
  ASSUME NEW d, NEW k, NEW type \in {"transmit", "host", "ping"}
  PROVE  /\ DOMAIN MtrUpdate(d, k, type) = DOMAIN d \cup {k}
         /\ \A h \in DOMAIN d \ {k} : MtrUpdate(d, k, type)[h] = d[h]
<1>1. CASE type = "transmit"
  BY <1>1 DEF MtrUpdate, Put
<1>2. CASE type = "host"
  BY <1>2 DEF MtrUpdate, Put
<1>3. CASE type = "ping"
  BY <1>3 DEF MtrUpdate, Put
<1> QED
  BY <1>1, <1>2, <1>3

LEMMA HopMade ==
  ASSUME NEW d, NEW k, k \notin DOMAIN d
  PROVE  /\ MtrUpdate(d, k, "transmit")[k] = Hop("*", 1, 0)
         /\ MtrUpdate(d, k, "host")[k] = Hop("ip", 0, 0)
         /\ MtrUpdate(d, k, "ping")[k] = Hop("*", 1, 1)
BY DEF MtrUpdate, Put

LEMMA HopCounted ==
  ASSUME NEW d, NEW k \in DOMAIN d, NEW host, NEW counter, NEW rtt, d[k] = Hop(host, counter, rtt)
  PROVE  /\ MtrUpdate(d, k, "transmit")[k] = Hop(host, counter + 1, rtt)
         /\ MtrUpdate(d, k, "host")[k] = Hop("ip", counter, rtt)
         /\ MtrUpdate(d, k, "ping")[k] = Hop(host, counter, rtt + 1)
BY DEF MtrUpdate, Hop

LEMMA HopFields ==
  ASSUME NEW host, NEW counter, NEW rtt
  PROVE  LET r == Hop(host, counter, rtt) IN
         r = Hop(r.host, r.counter, r.rtt) /\ r.counter = counter /\ r.rtt = rtt
BY DEF Hop

LEMMA HopCompletes ==
  ASSUME NEW d, NEW g \in Seq(Keys), NEW o, NEW k \in Keys, NEW gk, gk = Append(g, k),
         NEW type \in {"transmit", "host", "ping"}, Complete(d, g, o, "mtr")
  PROVE  Complete(MtrUpdate(d, k, type), gk, o, "mtr")
<1>1. DOMAIN MtrUpdate(d, k, type) = DOMAIN d \cup {k}
  BY LineOfHop
<1>2. ToSet(gk) = ToSet(g) \cup {k}
  BY MessagesOfKey
<1> QED
  BY <1>1, <1>2 DEF Complete

\* The counts of a row stay true to the lines of its hop, delivered or lost.
LineTold(c, type, lost) ==
  [tx   |-> c.tx + IF type = "transmit" THEN 1 ELSE 0,
   rx   |-> c.rx + IF type = "ping" THEN 1 ELSE 0,
   noTx |-> c.noTx + IF lost /\ type = "transmit" THEN 1 ELSE 0,
   noRx |-> c.noRx + IF lost /\ type = "ping" THEN 1 ELSE 0]

LEMMA LineLost ==
  ASSUME NEW d, NEW k, NEW c \in Lines, NEW type \in {"transmit", "ping"}, Counts(d, k, c),
         type = "ping" => c.rx < c.tx
  PROVE  LineTold(c, type, TRUE) \in Lines /\ Counts(d, k, LineTold(c, type, TRUE))
<1> DEFINE c2 == LineTold(c, type, TRUE)
<1>1. c.tx \in Nat /\ c.rx \in Nat /\ c.noTx \in Nat /\ c.noRx \in Nat
  BY DEF Lines
<1>2. CASE type = "transmit"
  <2>1. c2.tx = c.tx + 1 /\ c2.rx = c.rx /\ c2.noTx = c.noTx + 1 /\ c2.noRx = c.noRx
    BY <1>1, <1>2 DEF LineTold
  <2>2. c2 \in Lines
    BY <1>1, <1>2 DEF LineTold, Lines
  <2> HIDE DEF c2
  <2> QED
    <3>1. Counts(d, k, c2)
      BY <1>1, <2>1 DEF Counts
    <3> QED
      BY <2>2, <3>1 DEF c2
<1>3. CASE type = "ping"
  <2>1. c2.tx = c.tx /\ c2.rx = c.rx + 1 /\ c2.noTx = c.noTx /\ c2.noRx = c.noRx + 1
    BY <1>1, <1>3 DEF LineTold
  <2>2. c2 \in Lines
    BY <1>1, <1>3 DEF LineTold, Lines
  <2> HIDE DEF c2
  <2> QED
    <3>1. Counts(d, k, c2)
      BY <1>1, <1>3, <2>1 DEF Counts
    <3> QED
      BY <2>2, <3>1 DEF c2
<1> QED
  BY <1>2, <1>3

LEMMA LineCounted ==
  ASSUME NEW d, NEW k, NEW c \in Lines, NEW type \in {"transmit", "host", "ping"}, Counts(d, k, c),
         type = "host" => c.tx > 0,
         type = "ping" => c.rx < c.tx
  PROVE  LineTold(c, type, FALSE) \in Lines
         /\ Counts(MtrUpdate(d, k, type), k, LineTold(c, type, FALSE))
<1> DEFINE c2 == LineTold(c, type, FALSE)
           e == MtrUpdate(d, k, type)
<1>1. c.tx \in Nat /\ c.rx \in Nat /\ c.noTx \in Nat /\ c.noRx \in Nat
  BY DEF Lines
<1>2. /\ c2 \in Lines /\ c2.noTx = c.noTx /\ c2.noRx = c.noRx
      /\ c2.tx = c.tx + (IF type = "transmit" THEN 1 ELSE 0)
      /\ c2.rx = c.rx + (IF type = "ping" THEN 1 ELSE 0)
  BY <1>1 DEF LineTold, Lines
<1>3. DOMAIN e = DOMAIN d \cup {k}
  BY LineOfHop
<1>4. ASSUME k \notin DOMAIN d
      PROVE  /\ e[k] = Hop(e[k].host, e[k].counter, e[k].rtt)
             /\ e[k].counter = IF type = "host" THEN 0 ELSE 1
             /\ e[k].rtt = IF type = "ping" THEN 1 ELSE 0
  <2>1. /\ type = "transmit" => e[k] = Hop("*", 1, 0)
        /\ type = "host"     => e[k] = Hop("ip", 0, 0)
        /\ type = "ping"     => e[k] = Hop("*", 1, 1)
    BY <1>4, HopMade
  <2> HIDE DEF e
  <2> QED
    BY <2>1, HopFields
<1>5. ASSUME k \in DOMAIN d
      PROVE  /\ e[k] = Hop(e[k].host, e[k].counter, e[k].rtt)
             /\ e[k].counter = d[k].counter + IF type = "transmit" THEN 1 ELSE 0
             /\ e[k].rtt = d[k].rtt + IF type = "ping" THEN 1 ELSE 0
  <2>0. d[k] = Hop(d[k].host, d[k].counter, d[k].rtt) /\ d[k].counter \in Int /\ d[k].rtt \in Int
    BY <1>1, <1>5 DEF Counts
  <2>1. PICK host, counter, rtt : /\ d[k] = Hop(host, counter, rtt)
                                  /\ counter = d[k].counter /\ rtt = d[k].rtt
    BY <2>0, Zenon
  <2>2. /\ MtrUpdate(d, k, "transmit")[k] = Hop(host, counter + 1, rtt)
        /\ MtrUpdate(d, k, "host")[k] = Hop("ip", counter, rtt)
        /\ MtrUpdate(d, k, "ping")[k] = Hop(host, counter, rtt + 1)
    BY <1>5, <2>1, HopCounted
  <2>3. /\ type = "transmit" => e[k] = Hop(host, counter + 1, rtt)
        /\ type = "host"     => e[k] = Hop("ip", counter, rtt)
        /\ type = "ping"     => e[k] = Hop(host, counter, rtt + 1)
    BY <2>2
  <2> HIDE DEF e
  <2> QED
    BY <2>0, <2>1, <2>3, HopFields
<1> HIDE DEF e, c2
<1>6. Counts(e, k, c2)
  <2>1. CASE k \in DOMAIN d
    BY <1>1, <1>2, <1>3, <1>5, <2>1 DEF Counts
  <2>2. CASE k \notin DOMAIN d
    BY <1>1, <1>2, <1>3, <1>4, <2>2 DEF Counts
  <2> QED
    BY <2>1, <2>2
<1> QED
  BY <1>2, <1>6 DEF e, c2


\* An update that is queued and is no stop leaves the sources and the query alone.
LEMMA QueueKeeps ==
  ASSUME PageIInv, NEW u \in Updates, u # Stop, updates' = Append(updates, u),
         LET t == Apply(Pending, u) IN
           IsPage(t) /\ t.query = Pending.query /\ t.start = Pending.start,
         UNCHANGED <<page, start, query, data, resolved, effect, opened, open, retrying, asked,
                     countVars>>
  PROVE  /\ SourceInv' /\ PageInv' /\ QueueInv' /\ RequestInv'
         /\ Pending' = Apply(Pending, u)
<1>1. updates' \in Seq(Updates) /\ Pending' = Apply(Pending, u) /\ (StopQueued' <=> StopQueued)
  <2>1. Now' = Now
    BY DEF Now
  <2>2. Pending' = Shown(Now, Append(updates, u))
    BY <2>1, PendingNext
  <2>3. updates \in Seq(Updates)
    BY DEF PageIInv, QueueInv
  <2>4. StopQueued' <=> Contains(Append(updates, u), Stop)
    BY DEF StopQueued
  <2> QED
    BY <2>2, <2>3, <2>4, OneMoreQueued DEF Pending, StopQueued
<1>2. SourceInv' /\ PageInv'
  BY <1>1 DEF PageIInv, SourceInv, PageInv, countVars
<1>3. QueueInv'
  <2> DEFINE t == Apply(Pending, u)
  <2>1. IsPage(t) /\ t.query = query /\ t.start = (start /\ ~StopQueued)
    BY DEF PageIInv, QueueInv
  <2> HIDE DEF t
  <2>2. Pending' = t
    BY <1>1 DEF t
  <2> QED
    BY <1>1, <2>1, <2>2 DEF QueueInv
<1>4. RequestInv'
  BY <1>1 DEF PageIInv, RequestInv, countVars
<1> QED
  BY <1>1, <1>2, <1>3, <1>4

\* The source that delivers is the last.
LEMMA OpenIsLast ==
  ASSUME PageIInv, NEW e \in open
  PROVE  e = opened /\ e \in Nat /\ Len(got) + 1 \in Nat
BY LenProperties DEF PageIInv, SourceInv, RowsInv

LEMMA MessageKeeps ==
  ASSUME PageIInv, NEW e \in open, Message(e)
  PROVE  PageIInv'
<1>1. PICK k \in Keys :
        /\ page # "mtr" /\ got' = Append(got, k)
        /\ Deliver(e, [what |-> "line", key |-> k, type |-> IF page = "version" THEN "last" ELSE "row",
                       row |-> <<e, Len(got) + 1>>])
  <2>1. PICK k \in (IF page = "traceroute" THEN {"hops"} ELSE Nodes) :
          /\ page # "mtr" /\ got' = IF e = opened THEN Append(got, k) ELSE got
          /\ Deliver(e, [what |-> "line", key |-> k, type |-> IF page = "version" THEN "last" ELSE "row",
                         row |-> <<e, IF e = opened THEN Len(got) + 1 ELSE 0>>])
    BY DEF Message
  <2>2. k \in Keys
    BY <2>1 DEF Keys
  <2>3. (IF e = opened THEN Append(got, k) ELSE got) = Append(got, k)
        /\ (IF e = opened THEN Len(got) + 1 ELSE 0) = Len(got) + 1
    BY OpenIsLast
  <2> QED
    BY <2>1, <2>2, <2>3
<1> DEFINE type == IF page = "version" THEN "last" ELSE "row"
           row == <<e, Len(got) + 1>>
           u == [what |-> "line", key |-> k, type |-> type, row |-> row]
           t == Apply(Pending, u)
<1>2. u \in Updates /\ u # Stop /\ u.what = "line"
  <2>1. type \in Types /\ row \in Nat \X Nat
    BY OpenIsLast DEF Types
  <2> QED
    BY <2>1, LineQueued
<1>3. IsPage(t) /\ t.data = LineUpdate(Pending.data, u) /\ t.query = Pending.query
      /\ t.start = Pending.start /\ t.resolved = Pending.resolved
  <2>1. IsPage(Pending)
    BY DEF PageIInv, QueueInv
  <2> HIDE DEF u
  <2> QED
    BY <1>2, <2>1, LineApplied
<1>4. /\ updates' = Append(updates, u)
      /\ UNCHANGED <<page, start, query, data, resolved, effect, opened, open, retrying, asked,
                     countVars>>
  BY <1>1 DEF Deliver
<1>5. probes' = probes /\ got' = Append(got, k) /\ Len(got) < MaxLines
  BY <1>1 DEF Message
<1>6. SourceInv' /\ PageInv' /\ QueueInv' /\ RequestInv' /\ Pending' = t
  <2> HIDE DEF u
  <2> QED
    BY <1>2, <1>3, <1>4, QueueKeeps
<1>7. got \in Seq(Keys) /\ opened \in Nat /\ e = opened /\ Complete(Pending.data, got, opened, page)
  BY OpenIsLast DEF PageIInv, SourceInv, RowsInv
<1>8. Complete(Pending'.data, got', opened', page')
  <2>1. CASE page = "version"
    <3>1. LineUpdate(Pending.data, u) = Put(Pending.data, k, << <<opened, Len(got) + 1>> >>)
      BY <1>7, <2>1 DEF LineUpdate
    <3>2. Complete(Put(Pending.data, k, << <<opened, Len(got) + 1>> >>), got', opened, "version")
      BY <1>5, <1>7, <2>1, LastCompletes
    <3> QED
      BY <1>3, <1>4, <1>6, <2>1, <3>1, <3>2
  <2>2. CASE page # "version"
    <3>1. LineUpdate(Pending.data, u) = AddRow(Pending.data, k, <<opened, Len(got) + 1>>)
      BY <1>7, <2>2 DEF LineUpdate
    <3>2. Complete(AddRow(Pending.data, k, <<opened, Len(got) + 1>>), got', opened, page)
      BY <1>5, <1>7, <2>2, RowCompletes
    <3> QED
      BY <1>3, <1>4, <1>6, <3>1, <3>2
  <2> QED
    BY <2>1, <2>2
<1>9. RowsInv'
  <2>1. got' \in Seq(Keys) /\ Len(got') <= MaxLines
    BY <1>5, <1>7, AppendProperties, LenProperties, BoundAssumption
  <2>2. Pending'.resolved = Pending.resolved
    BY <1>3, <1>6
  <2> HIDE DEF t
  <2> QED
    BY <1>4, <1>8, <2>1, <2>2 DEF PageIInv, RowsInv
<1>10. LossInv'
  BY <1>1, <1>4, <1>5 DEF PageIInv, LossInv
<1> QED
  BY <1>6, <1>9, <1>10 DEF PageIInv

LEMMA LookupKeeps ==
  ASSUME PageIInv, NEW e \in open, Lookup(e)
  PROVE  PageIInv'
<1> DEFINE u == [what |-> "resolved", source |-> e]
           t == Apply(Pending, u)
<1>1. u \in Updates /\ u # Stop /\ e = opened
  BY OpenIsLast, UpdatesQueued
<1>2. IsPage(t) /\ t.resolved = e /\ t.query = Pending.query
      /\ t.start = Pending.start /\ t.data = Pending.data
  <2>1. IsPage(Pending)
    BY DEF PageIInv, QueueInv
  <2> QED
    BY <2>1, ResolvedApplied
<1>3. /\ updates' = Append(updates, u)
      /\ UNCHANGED <<page, start, query, data, resolved, effect, opened, open, retrying, asked,
                     countVars>>
      /\ got' = got /\ probes' = probes
  BY DEF Lookup, Deliver
<1>4. SourceInv' /\ PageInv' /\ QueueInv' /\ RequestInv' /\ Pending' = t
  <2> HIDE DEF u
  <2> QED
    BY <1>1, <1>2, <1>3, QueueKeeps
<1>5. Pending'.resolved = opened /\ Pending'.data = Pending.data
  BY <1>1, <1>2, <1>4
<1>6. RowsInv' /\ LossInv'
  BY <1>3, <1>5 DEF PageIInv, RowsInv, LossInv
<1> QED
  BY <1>4, <1>6 DEF PageIInv


LEMMA MtrLineKeeps ==
  ASSUME PageIInv, NEW e \in open, MtrLine(e)
  PROVE  PageIInv'
<1>1. PICK k \in Hops, type \in {"transmit", "host", "ping"}, lost \in BOOLEAN :
        /\ type = "transmit" => probes[k].tx < MaxLines
        /\ type = "host" => probes[k].tx > 0 /\ ~lost
        /\ type = "ping" => probes[k].rx < probes[k].tx
        /\ lost \/ Len(got) < MaxLines
        /\ probes' = [probes EXCEPT ![k] = LineTold(probes[k], type, lost)]
        /\ IF lost THEN UNCHANGED <<page, stateVars, effect, opened, open, retrying, asked, got,
                                    listVars, countVars>>
           ELSE /\ got' = Append(got, k)
                /\ Deliver(e, [what |-> "line", key |-> k, type |-> type, row |-> <<e, 0>>])
  BY DEF MtrLine, LineTold
<1> DEFINE d == Pending.data
           c == LineTold(probes[k], type, lost)
<1>2. /\ page = "mtr" /\ k \in Keys /\ probes \in [Hops -> Lines] /\ probes[k] \in Lines
      /\ DOMAIN d \subseteq Hops /\ \A h \in Hops : Counts(d, h, probes[h])
  BY DEF MtrLine, PageIInv, LossInv, Keys
<1>3. probes'[k] = c /\ \A h \in Hops \ {k} : probes'[h] = probes[h]
  BY <1>1, <1>2
<1>4. CASE lost
  <2>1. UNCHANGED <<page, start, query, data, resolved, updates, effect, opened, open, retrying,
                    asked, got, submits, requests, revived>>
    BY <1>1, <1>4 DEF stateVars, countVars
  <2>2. Pending' = Pending /\ (StopQueued' <=> StopQueued)
    BY <2>1 DEF Pending, Now, StopQueued
  <2>3. SourceInv' /\ PageInv' /\ QueueInv' /\ RequestInv' /\ RowsInv'
    BY <2>1, <2>2 DEF PageIInv, SourceInv, PageInv, QueueInv, RequestInv, RowsInv
  <2>4. lost = TRUE /\ type \in {"transmit", "ping"}
    BY <1>1, <1>4
  <2>5. c \in Lines /\ Counts(d, k, c)
    BY <1>1, <1>2, <2>4, LineLost
  <2>6. probes' \in [Hops -> Lines]
    BY <1>1, <1>2, <2>5
  <2>7. \A h \in Hops : Counts(d, h, probes'[h])
    BY <1>2, <1>3, <2>5
  <2>8. LossInv'
    BY <1>2, <2>2, <2>6, <2>7 DEF LossInv
  <2> QED
    BY <2>3, <2>8 DEF PageIInv
<1>5. CASE ~lost
  <2> DEFINE u == [what |-> "line", key |-> k, type |-> type, row |-> <<e, 0>>]
             t == Apply(Pending, u)
             d2 == MtrUpdate(d, k, type)
  <2>1. u \in Updates /\ u # Stop /\ u.what = "line"
    <3>1. type \in Types /\ <<e, 0>> \in Nat \X Nat
      BY OpenIsLast DEF Types
    <3> QED
      BY <1>2, <3>1, LineQueued
  <2>2. LineUpdate(d, u) = d2
    BY DEF LineUpdate
  <2>3. IsPage(t) /\ t.data = d2 /\ t.query = Pending.query
        /\ t.start = Pending.start /\ t.resolved = Pending.resolved
    <3>1. IsPage(Pending)
      BY DEF PageIInv, QueueInv
    <3> HIDE DEF u, d2
    <3> QED
      BY <2>1, <2>2, <3>1, LineApplied
  <2>4. /\ updates' = Append(updates, u) /\ got' = Append(got, k) /\ Len(got) < MaxLines
        /\ UNCHANGED <<page, start, query, data, resolved, effect, opened, open, retrying, asked,
                       countVars>>
    BY <1>1, <1>5 DEF Deliver
  <2>5. SourceInv' /\ PageInv' /\ QueueInv' /\ RequestInv' /\ Pending' = t
    <3> HIDE DEF u
    <3> QED
      BY <2>1, <2>3, <2>4, QueueKeeps
  <2>6. Pending'.data = d2 /\ Pending'.resolved = Pending.resolved
    BY <2>3, <2>5
  <2>7. RowsInv'
    <3>1. got \in Seq(Keys) /\ Complete(d, got, opened, "mtr")
      BY <1>2 DEF PageIInv, RowsInv
    <3>2. Complete(d2, got', opened, "mtr")
      BY <1>2, <2>4, <3>1, HopCompletes
    <3>3. got' \in Seq(Keys) /\ Len(got') <= MaxLines
      BY <1>2, <2>4, <3>1, AppendProperties, LenProperties, BoundAssumption
    <3> HIDE DEF d2, u, d
    <3> QED
      BY <1>2, <2>4, <2>6, <3>2, <3>3 DEF PageIInv, RowsInv
  <2>8. c \in Lines /\ Counts(d2, k, c)
    <3>1. lost = FALSE
      BY <1>5
    <3> QED
      BY <1>1, <1>2, <3>1, LineCounted
  <2>9. probes' \in [Hops -> Lines]
    BY <1>1, <1>2, <2>8
  <2>10. DOMAIN d2 = DOMAIN d \cup {k} /\ \A h \in DOMAIN d \ {k} : d2[h] = d[h]
    BY LineOfHop
  <2> HIDE DEF d2, d, c
  <2>11. \A h \in Hops \ {k} : Counts(d2, h, probes'[h])
    BY <1>2, <1>3, <2>10 DEF Counts
  <2>12. \A h \in Hops : Counts(d2, h, probes'[h])
    BY <1>3, <2>8, <2>11
  <2>13. LossInv'
    BY <1>2, <2>4, <2>6, <2>9, <2>10, <2>12 DEF LossInv
  <2> QED
    BY <2>5, <2>7, <2>13 DEF PageIInv
<1> QED
  BY <1>4, <1>5

LEMMA StreamEndKeeps ==
  ASSUME PageIInv, NEW e \in open, StreamEnd(e)
  PROVE  PageIInv'
<1> DEFINE t == Apply(Pending, Stop)
<1>1. /\ updates' = Append(updates, Stop)
      /\ UNCHANGED <<page, start, query, data, resolved, effect, opened, asked, got, probes,
                     submits, requests, revived>>
      /\ \/ open' = open /\ retrying' = retrying \cup {e}
         \/ open' = open \ {e} /\ retrying' = retrying
      /\ e \notin retrying
  BY DEF StreamEnd, countVars
<1>2. IsPage(t) /\ t.start = FALSE /\ t.query = query /\ t.data = Pending.data
      /\ t.resolved = Pending.resolved
  BY StopApplied DEF PageIInv, QueueInv
<1>3. updates' \in Seq(Updates) /\ Pending' = t /\ StopQueued'
  <2>1. Now' = Now
    BY <1>1 DEF Now
  <2>2. Pending' = Shown(Now, Append(updates, Stop))
    BY <1>1, <2>1, PendingNext
  <2>3. StopQueued' <=> Contains(Append(updates, Stop), Stop)
    BY <1>1 DEF StopQueued
  <2> QED
    BY <1>1, <2>2, <2>3, UpdatesQueued, OneMoreQueued DEF PageIInv, QueueInv, Pending
<1> HIDE DEF t
<1>4. SourceInv'
  BY <1>1 DEF PageIInv, SourceInv
<1>5. PageInv'
  BY <1>1, <1>3 DEF PageIInv, PageInv
<1>6. QueueInv'
  BY <1>1, <1>2, <1>3 DEF QueueInv
<1>7. RequestInv'
  BY <1>1, <1>3 DEF PageIInv, RequestInv
<1>8. RowsInv' /\ LossInv'
  BY <1>1, <1>2, <1>3 DEF PageIInv, RowsInv, LossInv
<1> QED
  BY <1>4, <1>5, <1>6, <1>7, <1>8 DEF PageIInv

\* No stop is queued when a source reconnects: its request was not made yet.
LEMMA ReconnectKeeps ==
  ASSUME PageIInv, NEW e \in open, Reconnect(e)
  PROVE  PageIInv'
<1>1. /\ e \in retrying /\ updates = <<>> /\ retrying' = retrying \ {e} /\ requests' = requests + 1
      /\ UNCHANGED <<page, start, query, data, resolved, updates, effect, opened, open, asked, got,
                     probes, submits, revived>>
  BY DEF Reconnect, stateVars
<1>2. Pending' = Pending /\ (StopQueued' <=> StopQueued)
  BY <1>1 DEF Pending, Now, StopQueued
<1>3. ~StopQueued
  BY <1>1, NothingQueued DEF StopQueued
<1>4. retrying' = {}
  BY <1>1, OpenIsLast DEF PageIInv, SourceInv
<1>5. RequestInv'
  BY <1>1, <1>3, <1>4 DEF PageIInv, RequestInv
<1>6. SourceInv' /\ PageInv' /\ QueueInv' /\ RowsInv' /\ LossInv'
  BY <1>1, <1>2, <1>4 DEF PageIInv, SourceInv, PageInv, QueueInv, RowsInv, LossInv
<1> QED
  BY <1>5, <1>6 DEF PageIInv

\* A step that changes none of these variables.
LEMMA OthersKeep ==
  ASSUME PageIInv, UNCHANGED <<page, stateVars, sourceVars, countVars>>
  PROVE  PageIInv'
<1>1. Pending' = Pending /\ (StopQueued' <=> StopQueued)
  BY DEF Pending, Now, StopQueued, stateVars
<1> QED
  BY <1>1 DEF PageIInv, SourceInv, PageInv, QueueInv, RequestInv, RowsInv, LossInv,
              stateVars, sourceVars, countVars

LEMMA ProbeNextKeeps ==
  ASSUME PageIInv, ProbeNext
  PROVE  PageIInv'
<1>1. ASSUME NEW q \in Queries \cup {NoQuery}, Submit(q) PROVE PageIInv'
  BY <1>1, SubmitRenders, CommitKeeps DEF Submit
<1>2. CASE StopClick
  BY <1>2, StopRenders, CommitKeeps DEF StopClick
<1>3. CASE Render
  BY <1>3, RenderRenders, CommitKeeps DEF Render, Pending
<1>4. ASSUME NEW e \in open, Message(e) \/ MtrLine(e) \/ Lookup(e) \/ StreamEnd(e) \/ Reconnect(e)
      PROVE  PageIInv'
  BY <1>4, MessageKeeps, MtrLineKeeps, LookupKeeps, StreamEndKeeps, ReconnectKeeps
<1>5. CASE ServerList
  <2>1. ASSUME NEW list, Commit(updates, 0, list) PROVE PageIInv'
    BY <2>1, RenderRenders, CommitKeeps DEF Pending
  <2>2. CASE UNCHANGED <<page, stateVars, sourceVars, countVars>>
    BY <2>2, OthersKeep
  <2> QED
    BY <1>5, <2>1, <2>2 DEF ServerList
<1> QED
  BY <1>1, <1>2, <1>3, <1>4, <1>5 DEF ProbeNext, Event

LEMMA PageInvariant == Spec => []PageIInv
<1>1. SiteInit => PageIInv
  <2> SUFFICES ASSUME SiteInit PROVE PageIInv
    OBVIOUS
  <2>1. /\ page = "none" /\ start = FALSE /\ query = NoQuery /\ data = NoRows /\ resolved = 0
        /\ updates = <<>> /\ effect = 0 /\ opened = 0 /\ open = {} /\ retrying = {}
        /\ asked = NoQuery /\ got = <<>> /\ probes = NoProbes
        /\ submits = 0 /\ requests = 0 /\ revived = FALSE
    BY DEF SiteInit, Init
  <2>2. Pending = Now /\ ~StopQueued
    BY <2>1, NothingQueued DEF Pending, StopQueued
  <2>3. IsPage(Now) /\ Now.query = query /\ Now.start = start /\ Now.data = NoRows /\ Now.resolved = 0
    BY <2>1 DEF Now, IsPage
  <2>4. SourceInv /\ RequestInv
    BY <2>1 DEF SourceInv, RequestInv
  <2>5. PageInv
    <3>1. ~(effect # 0) /\ ~start
      BY <2>1
    <3> QED
      BY <2>1, <3>1 DEF PageInv
  <2>6. QueueInv
    BY <2>1, <2>2, <2>3, NothingQueued DEF QueueInv
  <2>7. RowsInv /\ LossInv
    BY <2>1, <2>2, <2>3, NothingShown, BoundAssumption DEF RowsInv, LossInv
  <2> QED
    BY <2>4, <2>6, <2>7, <2>5 DEF PageIInv
<1>2. PageIInv /\ [SiteNext]_vars => PageIInv'
  <2> SUFFICES ASSUME PageIInv, [SiteNext]_vars PROVE PageIInv'
    OBVIOUS
  <2>1. CASE ProbeNext
    BY <2>1, ProbeNextKeeps
  <2>2. CASE UNCHANGED probeVars
    BY <2>2, OthersKeep DEF probeVars
  <2>3. ASSUME NEW to, Navigate(to) PROVE PageIInv'
    <3>1. (IF to \in StreamPages THEN to ELSE "none") \in StreamPages \cup {"none", "error"}
      OBVIOUS
    <3> QED
      BY <2>3, <3>1, GoToKeeps DEF Navigate
  <2>4. CASE Reload
    BY <2>4, GoToKeeps DEF Reload
  <2> QED
    BY <2>1, <2>2, <2>3, <2>4 DEF SiteNext, vars
<1> QED
  BY <1>1, <1>2, PTL DEF Spec


\* Once everything is rendered, what the page will show is what it shows.
LEMMA RenderedIsShown ==
  ASSUME updates = <<>>
  PROVE  Pending.data = data /\ Pending.resolved = resolved /\ ~StopQueued
<1>1. Pending = Now
  BY NothingQueued DEF Pending
<1>2. ~StopQueued
  BY NothingQueued DEF StopQueued
<1> QED
  BY <1>1, <1>2 DEF Now

\* However submissions, stops, errors, crashes and navigation follow each other, the
\* only event source open is the one the current effect closes in its cleanup.
THEOREM OneOpenSourceAlways == Spec => []OneOpenSource
<1>1. PageIInv => OneOpenSource
  BY DEF PageIInv, SourceInv, OneOpenSource
<1> QED
  BY <1>1, PageInvariant, PTL

\* Once everything is rendered, a source is open only while Start is disabled and for
\* the query shown, and Start is disabled only while one is open, save for an empty
\* target and for a submission applied together with the end of its own stream.
THEOREM ButtonTruthAlways == Spec => []ButtonTruth
<1>1. PageIInv => ButtonTruth
  <2> SUFFICES ASSUME PageIInv, Rendered
               PROVE  /\ open # {} => start /\ (page \in ProbePages => query = asked /\ asked # NoQuery)
                      /\ start /\ query # NoQuery /\ ~revived => open # {}
    BY DEF ButtonTruth
  <2>1. ~StopQueued
    BY RenderedIsShown DEF Rendered
  <2>2. /\ (effect # 0) <=> (start /\ (query # NoQuery \/ page = "version"))
        /\ effect # 0 => asked = query
        /\ effect # 0 /\ open = {} => revived \/ StopQueued
        /\ open # {} => effect # 0
    BY DEF PageIInv, PageInv, SourceInv
  <2>3. page \in ProbePages => page # "version"
    BY DEF ProbePages
  <2> QED
    BY <2>1, <2>2, <2>3
<1> QED
  BY <1>1, PageInvariant, PTL

\* Once everything is rendered, the rows shown are those of the messages of the last
\* event source, in order and once each, and the resolved address is of no earlier one.
THEOREM ShowsOneSessionAlways == Spec => []ShowsOneSession
<1>1. PageIInv => ShowsOneSession
  <2> SUFFICES ASSUME PageIInv, Rendered
               PROVE  /\ DOMAIN data = ToSet(got)
                      /\ page \in {"ping", "traceroute"} => \A k \in DOMAIN data : RowsInOrder(data[k], k)
                      /\ page = "version" => \A k \in DOMAIN data :
                           \E n \in Delivered(k) : data[k] = << <<opened, n>> >>
                                                   /\ \A m \in Delivered(k) : m <= n
                      /\ resolved \in {0, opened}
    BY DEF ShowsOneSession
  <2>1. Complete(data, got, opened, page) /\ resolved \in {0, opened}
    BY RenderedIsShown DEF PageIInv, RowsInv, Rendered
  <2>2. page \in {"ping", "traceroute"} => \A k \in DOMAIN data : RowsInOrder(data[k], k)
    BY <2>1 DEF Complete, RowsInOrder, Delivered
  <2>3. page = "version" => \A k \in DOMAIN data :
          \E n \in Delivered(k) : data[k] = << <<opened, n>> >> /\ \A m \in Delivered(k) : m <= n
    BY <2>1 DEF Complete, Delivered
  <2> QED
    BY <2>1, <2>2, <2>3 DEF Complete
<1> QED
  BY <1>1, PageInvariant, PTL

\* No event source makes a request of its own: at most one reaches the server for a
\* submission, whatever connections break meanwhile.
THEOREM OneRequestAlways == Spec => []OneRequestPerSubmit
<1>1. PageIInv => OneRequestPerSubmit
  BY DEF PageIInv, RequestInv, OneRequestPerSubmit
<1> QED
  BY <1>1, PageInvariant, PTL

\* The loss of an Mtr row differs from the probes without an answer by no more than
\* the lines that were lost, for any hops and however the lines are interleaved.
THEOREM LossBoundsAlways == Spec => []LossBounds
<1>1. PageIInv => LossBounds
  <2> SUFFICES ASSUME PageIInv, Rendered, page = "mtr", NEW h \in DOMAIN data
               PROVE  LET loss == data[h].counter - data[h].rtt
                          p == probes[h]
                      IN  loss >= p.tx - p.rx - p.noTx /\ loss <= p.tx - p.rx + p.noRx
    BY DEF LossBounds
  <2>1. Pending.data = data
    BY RenderedIsShown DEF Rendered
  <2>2. h \in Hops /\ Counts(data, h, probes[h])
    BY <2>1 DEF PageIInv, LossInv
  <2>3. /\ probes[h].tx \in Nat /\ probes[h].rx \in Nat
        /\ probes[h].noTx \in Nat /\ probes[h].noRx \in Nat
    BY <2>2 DEF PageIInv, LossInv, Lines
  <2> QED
    BY <2>2, <2>3 DEF Counts
<1> QED
  BY <1>1, PageInvariant, PTL

-----------------------------------------------------------------------------
\* While isProcessing is set after a request, a timer that was started with it or
\* after it cannot have run for longer than the time since; once it is not set any
\* more the timer has fired, and what the next request may rely on holds.
WhoisIInv ==
  /\ fetched \in Nat /\ unlocks \in Nat /\ sentAt \in Nat
  /\ ran \in 0 .. LockTime /\ since \in 0 .. LockTime
  /\ processing \in BOOLEAN /\ timer \in BOOLEAN /\ borrowed \in BOOLEAN
  /\ sentAt <= unlocks
  /\ processing => wStart /\ fetched > 0
  /\ timer => wStart
  /\ fetched > 0 /\ ~processing => unlocks > sentAt /\ (since = LockTime \/ borrowed)
  /\ timer /\ processing /\ ~borrowed => since >= ran

\* The effect leaves isProcessing as it is, or sends a request while it is not set.
LEMMA EffectCases ==
  ASSUME NEW submitted, NEW q, NEW tok, NEW busy, NEW done,
         Effect(submitted, q, tok, busy, done)
  PROVE  \/ /\ submitted /\ ~busy /\ processing' = TRUE /\ fetched' = fetched + 1
            /\ since' = 0 /\ sentAt' = unlocks /\ borrowed' = timer
         \/ processing' = busy /\ UNCHANGED <<fetched, lastVars>>
BY DEF Effect, Fires

LEMMA WhoisNextKeeps ==
  ASSUME WhoisIInv, WhoisNext
  PROVE  WhoisIInv'
<1>0. LockTime \in Nat /\ 0 \in 0 .. LockTime
  BY LockAssumption
<1>1. CASE Solve
  <2>1. /\ Effect(wStart, wQuery, token + 1, processing, TRUE)
        /\ UNCHANGED <<wStart, timer, ran, unlocks>>
    BY <1>1 DEF Solve
  <2>2. CASE /\ wStart /\ ~processing /\ processing' = TRUE /\ fetched' = fetched + 1
             /\ since' = 0 /\ sentAt' = unlocks /\ borrowed' = timer
    BY <1>0, <2>1, <2>2 DEF WhoisIInv
  <2>3. CASE processing' = processing /\ UNCHANGED <<fetched, lastVars>>
    BY <2>1, <2>3 DEF WhoisIInv, lastVars
  <2> QED
    BY <2>1, <2>2, <2>3, EffectCases
<1>2. ASSUME NEW q, Enter(q) PROVE WhoisIInv'
  <2>1. /\ Effect(TRUE, q, token, processing, solved)
        /\ wStart' = TRUE /\ UNCHANGED <<timer, ran, unlocks>>
    BY <1>2 DEF Enter
  <2>2. CASE /\ ~processing /\ processing' = TRUE /\ fetched' = fetched + 1
             /\ since' = 0 /\ sentAt' = unlocks /\ borrowed' = timer
    BY <1>0, <2>1, <2>2 DEF WhoisIInv
  <2>3. CASE processing' = processing /\ UNCHANGED <<fetched, lastVars>>
    BY <2>1, <2>3 DEF WhoisIInv, lastVars
  <2> QED
    BY <2>1, <2>2, <2>3, EffectCases
<1>3. ASSUME NEW q, Click(q) PROVE WhoisIInv'
  <2>1. /\ Effect(TRUE, q, token, processing, solved)
        /\ ~wStart /\ wStart' = TRUE /\ timer' = TRUE /\ ran' = 0 /\ unlocks' = unlocks
    BY <1>3 DEF Click
  <2>2. CASE /\ ~processing /\ processing' = TRUE /\ fetched' = fetched + 1
             /\ since' = 0 /\ sentAt' = unlocks /\ borrowed' = timer
    BY <1>0, <2>1, <2>2 DEF WhoisIInv
  <2>3. CASE processing' = processing /\ UNCHANGED <<fetched, lastVars>>
    BY <1>0, <2>1, <2>3 DEF WhoisIInv, lastVars
  <2> QED
    BY <2>1, <2>2, <2>3, EffectCases
<1>4. CASE Unlock
  <2>1. /\ timer /\ ran = LockTime /\ timer' = FALSE /\ ran' = 0 /\ wStart' = FALSE
        /\ unlocks' = unlocks + 1 /\ Effect(FALSE, wQuery, token, FALSE, solved)
    BY <1>4 DEF Unlock
  <2>2. processing' = FALSE /\ UNCHANGED <<fetched, since, sentAt, borrowed>>
    BY <2>1, EffectCases DEF lastVars
  <2>3. fetched > 0 => since = LockTime \/ borrowed
    BY <1>0, <2>1 DEF WhoisIInv
  <2>4. unlocks' > sentAt' /\ unlocks' \in Nat
    BY <2>1, <2>2 DEF WhoisIInv
  <2>5. ~processing' /\ ~timer' /\ processing' \in BOOLEAN /\ timer' \in BOOLEAN
    BY <2>1, <2>2
  <2>6. since' \in 0 .. LockTime /\ ran' \in 0 .. LockTime
    BY <1>0, <2>1, <2>2 DEF WhoisIInv
  <2>7. fetched' \in Nat /\ sentAt' \in Nat /\ sentAt' <= unlocks' /\ borrowed' \in BOOLEAN
    BY <2>2, <2>4 DEF WhoisIInv
  <2>8. fetched' > 0 => since' = LockTime \/ borrowed'
    BY <2>2, <2>3
  <2> QED
    BY <2>4, <2>5, <2>6, <2>7, <2>8 DEF WhoisIInv
<1>5. CASE Answer
  BY <1>5 DEF Answer, WhoisIInv, lastVars
<1>6. CASE Tick
  <2>1. UNCHANGED <<wStart, processing, timer, fetched, unlocks, sentAt, borrowed>>
    BY <1>6 DEF Tick
  <2>2. /\ ran' = IF timer /\ ran < LockTime THEN ran + 1 ELSE ran
        /\ since' = IF fetched > 0 /\ since < LockTime THEN since + 1 ELSE since
    BY <1>6 DEF Tick
  <2>3. ran' \in 0 .. LockTime /\ since' \in 0 .. LockTime
    BY <1>0, <2>2 DEF WhoisIInv
  <2>4. since = LockTime => since' = LockTime
    BY <1>0, <2>2
  <2>5. timer /\ processing /\ ~borrowed => since' >= ran'
    BY <1>0, <2>2 DEF WhoisIInv
  <2> QED
    BY <2>1, <2>3, <2>4, <2>5 DEF WhoisIInv
<1> QED
  BY <1>1, <1>2, <1>3, <1>4, <1>5, <1>6 DEF WhoisNext

LEMMA BlankKeeps ==
  ASSUME WhoisBlank
  PROVE  WhoisIInv'
<1>1. 0 \in 0 .. LockTime
  BY LockAssumption
<1>2. /\ ~processing' /\ ~timer'
      /\ processing' \in BOOLEAN /\ timer' \in BOOLEAN /\ borrowed' \in BOOLEAN
  BY DEF WhoisBlank
<1>3. fetched' = 0 /\ unlocks' = 0 /\ sentAt' = 0 /\ ran' = 0 /\ since' = 0
  BY DEF WhoisBlank
<1> QED
  BY <1>1, <1>2, <1>3 DEF WhoisIInv

LEMMA WhoisLocks == Spec => []WhoisIInv
<1>1. SiteInit => WhoisIInv
  <2>1. 0 \in 0 .. LockTime
    BY LockAssumption
  <2>2. SiteInit => /\ ~processing /\ ~timer
                    /\ processing \in BOOLEAN /\ timer \in BOOLEAN /\ borrowed \in BOOLEAN
    BY DEF SiteInit, WhoisInit
  <2>3. SiteInit => fetched = 0 /\ unlocks = 0 /\ sentAt = 0 /\ ran = 0 /\ since = 0
    BY DEF SiteInit, WhoisInit
  <2> QED
    BY <2>1, <2>2, <2>3 DEF WhoisIInv
<1>2. WhoisIInv /\ [SiteNext]_vars => WhoisIInv'
  <2> SUFFICES ASSUME WhoisIInv, [SiteNext]_vars PROVE WhoisIInv'
    OBVIOUS
  <2>1. CASE WhoisNext
    BY <2>1, WhoisNextKeeps
  <2>2. CASE UNCHANGED whoisVars
    BY <2>2 DEF whoisVars, lastVars, WhoisIInv
  <2>3. ASSUME NEW to, Navigate(to) PROVE WhoisIInv'
    BY <2>3, BlankKeeps DEF Navigate, WhoisMount, WhoisUnmount
  <2>4. CASE Reload
    BY <2>4, <2>2 DEF Reload
  <2> QED
    BY <2>1, <2>2, <2>3, <2>4 DEF SiteNext, vars
<1> QED
  BY <1>1, <1>2, PTL DEF Spec

\* A whois request is sent only when isProcessing is not set.
LEMMA RequestNeedsUnlock ==
  ASSUME WhoisIInv, [SiteNext]_vars, fetched' > fetched
  PROVE  ~processing
<1>1. CASE WhoisNext
  <2>1. fetched \in Nat
    BY DEF WhoisIInv
  <2>2. ASSUME NEW submitted, NEW q, NEW tok, NEW done, Effect(submitted, q, tok, processing, done)
        PROVE  ~processing
    <3>1. CASE Fires(submitted, q, tok, processing)
      BY <3>1 DEF Fires
    <3>2. CASE ~Fires(submitted, q, tok, processing)
      <4>1. fetched' = fetched
        BY <2>2, <3>2 DEF Effect
      <4> QED
        BY <2>1, <4>1
    <3> QED
      BY <3>1, <3>2
  <2>3. ASSUME Solve \/ \E q : Enter(q) \/ Click(q) PROVE ~processing
    <3>1. CASE Solve
      <4>1. Effect(wStart, wQuery, token + 1, processing, TRUE)
        BY <3>1 DEF Solve
      <4> QED
        BY <2>2, <4>1
    <3>2. ASSUME NEW q, Enter(q) \/ Click(q) PROVE ~processing
      <4>1. Effect(TRUE, q, token, processing, solved)
        BY <3>2 DEF Enter, Click
      <4> QED
        BY <2>2, <4>1
    <3> QED
      BY <2>3, <3>1, <3>2
  <2>4. CASE Unlock
    <3>1. ~Fires(FALSE, wQuery, token, FALSE) /\ Effect(FALSE, wQuery, token, FALSE, solved)
      BY <2>4 DEF Unlock, Fires
    <3>2. fetched' = fetched
      BY <3>1 DEF Effect
    <3> QED
      BY <2>1, <3>2
  <2>5. CASE Answer \/ Tick
    BY <2>1, <2>5 DEF Answer, Tick
  <2> QED
    BY <1>1, <2>2, <2>3, <2>4, <2>5 DEF WhoisNext
<1>2. CASE UNCHANGED whoisVars
  BY <1>2 DEF whoisVars, WhoisIInv
<1>3. ASSUME WhoisBlank PROVE FALSE
  BY <1>3 DEF WhoisBlank, WhoisIInv
<1>4. CASE \E to : Navigate(to)
  BY <1>3, <1>4 DEF Navigate, WhoisMount, WhoisUnmount
<1>5. CASE Reload
  BY <1>2, <1>5 DEF Reload
<1> QED
  BY <1>1, <1>2, <1>4, <1>5 DEF SiteNext, vars

\* Neither Enter, nor another click, nor a token that is renewed meanwhile sends a
\* second whois request before the ten seconds since the first are over; only the
\* request that Enter sent under the timer of an earlier click is protected for no
\* longer than that timer runs.
THEOREM RequestsTenSecondsApartAlways == Spec => RequestsTenSecondsApart
<1>1. WhoisIInv /\ [SiteNext]_vars =>
        [fetched' > fetched /\ fetched > 0 =>
           unlocks > sentAt /\ (since = LockTime \/ borrowed)]_whoisVars
  BY RequestNeedsUnlock DEF WhoisIInv
<1> QED
  BY <1>1, WhoisLocks, PTL DEF Spec, RequestsTenSecondsApart

-----------------------------------------------------------------------------
\* The list of nodes.
ListInv == known \in Lists \cup {{}} /\ asking \in 0 .. MaxAsking

LEMMA AskKeeps ==
  ASSUME NEW list \in Lists \cup {{}}, NEW n \in 0 .. MaxAsking, known' = list, Ask(list, n)
  PROVE  ListInv'
BY BoundAssumption DEF ListInv, Ask

LEMMA ListInvariant == Spec => []ListInv
<1>1. SiteInit => ListInv
  BY BoundAssumption DEF SiteInit, Init, ListInv
<1>2. ListInv /\ [SiteNext]_vars => ListInv'
  <2> SUFFICES ASSUME ListInv, [SiteNext]_vars PROVE ListInv'
    OBVIOUS
  <2>1. CASE ServerList
    <3>1. asking - 1 \in 0 .. MaxAsking
      BY <2>1, BoundAssumption DEF ServerList, ListInv
    <3>2. ASSUME NEW list \in Lists, known' = list, Ask(list, asking - 1) PROVE ListInv'
      BY <3>1, <3>2, AskKeeps
    <3>3. ASSUME known' = known \/ known' \in Lists, asking' = asking - 1 PROVE ListInv'
      BY <3>1, <3>3 DEF ListInv
    <3> QED
      BY <2>1, <3>2, <3>3 DEF ServerList
  <2>2. CASE UNCHANGED listVars
    BY <2>2 DEF listVars, ListInv
  <2>3. CASE ProbeNext
    <3>1. (\E q : Submit(q)) \/ StopClick \/ Render => UNCHANGED listVars
      BY DEF Submit, StopClick, Render
    <3>2. \A e : Message(e) => UNCHANGED listVars
      BY DEF Message, Deliver
    <3>3. \A e : MtrLine(e) => UNCHANGED listVars
      BY DEF MtrLine, Deliver
    <3>4. \A e : Lookup(e) \/ StreamEnd(e) \/ Reconnect(e) => UNCHANGED listVars
      BY DEF Lookup, Deliver, StreamEnd, Reconnect
    <3>5. ServerList \/ UNCHANGED listVars
      BY <2>3, <3>1, <3>2, <3>3, <3>4 DEF ProbeNext, Event
    <3> QED
      BY <2>1, <2>2, <3>5
  <2>4. CASE UNCHANGED probeVars
    BY <2>2, <2>4 DEF probeVars
  <2>5. ASSUME NEW to, Navigate(to) PROVE ListInv'
    BY <2>5, AskKeeps DEF Navigate, ListInv
  <2>6. CASE Reload
    BY <2>6, BoundAssumption DEF Reload, ListInv
  <2> QED
    BY <2>3, <2>4, <2>5, <2>6 DEF SiteNext, vars
<1> QED
  BY <1>1, <1>2, PTL DEF Spec

-----------------------------------------------------------------------------
\* The whois page is well typed: a submission that has not been sent leaves room
\* for its request.
WhoisTypes ==
  /\ whois \in BOOLEAN /\ wStart \in BOOLEAN /\ solved \in BOOLEAN
  /\ processing \in BOOLEAN /\ timer \in BOOLEAN /\ locked \in BOOLEAN
  /\ wQuery \in WhoisQueries \cup {NoWhois}
  /\ token \in 0 .. MaxTokens
  /\ fetched \in 0 .. MaxFetches /\ inFlight \subseteq 1 .. fetched /\ shown \in 0 .. fetched
  /\ wStart /\ ~processing => fetched < MaxFetches

LEMMA EffectTypes ==
  ASSUME WhoisTypes, NEW submitted \in BOOLEAN, NEW q, NEW tok, NEW busy \in BOOLEAN,
         NEW done \in BOOLEAN, submitted /\ ~busy => fetched < MaxFetches,
         Effect(submitted, q, tok, busy, done)
  PROVE  /\ processing' \in BOOLEAN /\ solved' \in BOOLEAN
         /\ fetched' \in 0 .. MaxFetches /\ inFlight' \subseteq 1 .. fetched' /\ shown' \in 0 .. fetched'
         /\ submitted /\ ~processing' => fetched' < MaxFetches
<1>1. CASE Fires(submitted, q, tok, busy)
  <2>1. /\ processing' = TRUE /\ shown' = 0 /\ solved' = FALSE
        /\ fetched' = fetched + 1 /\ inFlight' = inFlight \cup {fetched + 1}
        /\ fetched < MaxFetches
    BY <1>1 DEF Effect, Fires
  <2>2. fetched \in Nat /\ MaxFetches \in Nat /\ inFlight \subseteq 1 .. fetched
    BY WhoisAssumption DEF WhoisTypes
  <2>3. fetched' \in 0 .. MaxFetches /\ shown' \in 0 .. fetched'
    BY <2>1, <2>2
  <2>4. inFlight' \subseteq 1 .. fetched'
    BY <2>1, <2>2
  <2> QED
    BY <2>1, <2>3, <2>4
<1>2. CASE ~Fires(submitted, q, tok, busy)
  <2>1. /\ processing' = busy /\ solved' = done
        /\ shown' = shown /\ fetched' = fetched /\ inFlight' = inFlight
    BY <1>2 DEF Effect
  <2> QED
    BY <2>1 DEF WhoisTypes
<1> QED
  BY <1>1, <1>2

LEMMA WhoisNextTypes ==
  ASSUME WhoisTypes, WhoisNext
  PROVE  WhoisTypes'
<1>1. CASE Solve
  <2>1. /\ token' = token + 1 /\ token < MaxTokens
        /\ Effect(wStart, wQuery, token + 1, processing, TRUE)
        /\ UNCHANGED <<whois, wStart, wQuery, timer, unlocks, locked>>
    BY <1>1 DEF Solve
  <2>2. /\ processing' \in BOOLEAN /\ solved' \in BOOLEAN
        /\ fetched' \in 0 .. MaxFetches /\ inFlight' \subseteq 1 .. fetched' /\ shown' \in 0 .. fetched'
        /\ wStart /\ ~processing' => fetched' < MaxFetches
    BY <2>1, EffectTypes DEF WhoisTypes
  <2> QED
    BY <2>1, <2>2, WhoisAssumption DEF WhoisTypes
<1>2. ASSUME NEW q \in WhoisQueries \cup {NoWhois}, Enter(q) \/ Click(q) PROVE WhoisTypes'
  <2>1. /\ wStart' = TRUE /\ wQuery' = q /\ fetched < MaxFetches
        /\ Effect(TRUE, q, token, processing, solved)
        /\ timer' \in BOOLEAN /\ locked' \in BOOLEAN
        /\ UNCHANGED <<whois, token, unlocks>>
    BY <1>2 DEF Enter, Click, WhoisTypes
  <2>2. /\ processing' \in BOOLEAN /\ solved' \in BOOLEAN
        /\ fetched' \in 0 .. MaxFetches /\ inFlight' \subseteq 1 .. fetched' /\ shown' \in 0 .. fetched'
        /\ ~processing' => fetched' < MaxFetches
    BY <2>1, EffectTypes DEF WhoisTypes
  <2> QED
    BY <2>1, <2>2 DEF WhoisTypes
<1>3. CASE Unlock
  <2>1. /\ wStart' = FALSE /\ timer' = FALSE
        /\ Effect(FALSE, wQuery, token, FALSE, solved)
        /\ UNCHANGED <<whois, wQuery, token, locked>>
    BY <1>3 DEF Unlock
  <2>2. /\ processing' \in BOOLEAN /\ solved' \in BOOLEAN
        /\ fetched' \in 0 .. MaxFetches /\ inFlight' \subseteq 1 .. fetched' /\ shown' \in 0 .. fetched'
    BY <2>1, EffectTypes DEF WhoisTypes
  <2> QED
    BY <2>1, <2>2 DEF WhoisTypes
<1>4. CASE Answer
  BY <1>4 DEF Answer, WhoisTypes
<1>5. CASE Tick
  BY <1>5 DEF Tick, WhoisTypes
<1> QED
  BY <1>1, <1>2, <1>3, <1>4, <1>5 DEF WhoisNext

LEMMA BlankTypes ==
  ASSUME WhoisBlank, whois' \in BOOLEAN
  PROVE  WhoisTypes'
<1>1. 0 \in 0 .. MaxTokens /\ 0 \in 0 .. MaxFetches /\ 0 \in 0 .. 0
  BY WhoisAssumption
<1>2. ~wStart' /\ {} \subseteq 1 .. 0
  BY DEF WhoisBlank
<1> QED
  BY <1>1, <1>2 DEF WhoisBlank, WhoisTypes

LEMMA WhoisInvariant == Spec => []WhoisTypes
<1>1. SiteInit => WhoisTypes
  <2>1. 0 \in 0 .. MaxTokens /\ 0 \in 0 .. MaxFetches /\ 0 \in 0 .. 0
    BY WhoisAssumption
  <2>2. SiteInit => ~wStart /\ {} \subseteq 1 .. 0
    BY DEF SiteInit, WhoisInit
  <2> QED
    BY <2>1, <2>2 DEF SiteInit, WhoisInit, WhoisTypes
<1>2. WhoisTypes /\ [SiteNext]_vars => WhoisTypes'
  <2> SUFFICES ASSUME WhoisTypes, [SiteNext]_vars PROVE WhoisTypes'
    OBVIOUS
  <2>1. CASE WhoisNext
    BY <2>1, WhoisNextTypes
  <2>2. CASE UNCHANGED whoisVars
    BY <2>2 DEF whoisVars, WhoisTypes
  <2>3. ASSUME NEW to, Navigate(to) PROVE WhoisTypes'
    BY <2>3, BlankTypes DEF Navigate, WhoisMount, WhoisUnmount
  <2>4. CASE Reload
    BY <2>2, <2>4 DEF Reload
  <2> QED
    BY <2>1, <2>2, <2>3, <2>4 DEF SiteNext, vars
<1> QED
  BY <1>1, <1>2, PTL DEF Spec

\* Every state of the frontend is well typed, for any nodes, queries, lists and bounds.
THEOREM SiteWellTyped == Spec => []TypeOK
<1>1. PageIInv /\ ListInv /\ WhoisTypes /\ WhoisIInv => TypeOK
  <2> SUFFICES ASSUME PageIInv, ListInv, WhoisTypes, WhoisIInv PROVE ProbeTypeOK /\ WhoisTypeOK
    BY DEF TypeOK
  <2>1. retrying \subseteq open /\ open \subseteq 1 .. opened /\ effect \in {0, opened}
    BY DEF PageIInv, SourceInv
  <2>2. DOMAIN data \subseteq Nodes \cup Hops \cup {"hops"} /\ resolved \in 0 .. opened
        /\ Len(got) <= MaxLines
    BY DEF PageIInv, RowsInv, Keys
  <2>3. ProbeTypeOK
    BY <2>1, <2>2 DEF PageIInv, PageInv, ListInv, ProbeTypeOK
  <2>4. WhoisTypeOK
    BY DEF WhoisTypes, WhoisIInv, WhoisTypeOK
  <2> QED
    BY <2>3, <2>4
<1> QED
  BY <1>1, PageInvariant, ListInvariant, WhoisInvariant, WhoisLocks, PTL

=============================================================================
