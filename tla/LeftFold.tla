------------------------------- MODULE LeftFold -------------------------------
(***************************************************************************)
(* What FoldLeft of SequencesExt computes, for any operator: React applies *)
(* the functional updates of a render by one. The library defines the fold *)
(* by a function that is CHOSEN on the subsets of the sequence's domain.   *)
(* The chosen one exists: it is built one element at a time, and a least   *)
(* number that it could not be built for would have a smaller one.         *)
(***************************************************************************)
EXTENDS Integers, SequencesExt, WellFoundedInduction, TLAPS

CONSTANT Op(_, _)  \* an update, applied to a state: Apply, SetIpLocation

\* Induction over the natural numbers, in the form of a least element: what the
\* updates of a queue do, one after the other, is shown by the first that does not.
THEOREM LeastNumber ==
  ASSUME NEW T \in SUBSET Nat, T # {}
  PROVE  \E x \in T : \A y \in T : x <= y
<1>1. PICK x \in T : \A y \in T : ~ (<<y, x>> \in OpToRel(<, Nat))
  BY WFMin, NatLessThanWellFounded, Zenon
<1>2. \A y \in T : ~ (y < x)
  BY <1>1, Zenon DEF OpToRel
<1> QED
  BY <1>2

\* f follows the recursion of a fold of us, on the sets below k.
Body(f, base, us, s) == IF s = {} THEN base ELSE Op(f[s \ {Max(s)}], us[Max(s)])
Follows(f, base, us, k) ==
  /\ f = [s \in SUBSET DOMAIN us |-> f[s]]
  /\ \A s \in SUBSET DOMAIN us : s \subseteq 1 .. k => f[s] = Body(f, base, us, s)

\* The last of the first k + 1 elements, if it is among them.
LEMMA MaxOfNext ==
  ASSUME NEW k \in Nat, NEW s, s \subseteq 1 .. k + 1, ~ (s \subseteq 1 .. k)
  PROVE  Max(s) = k + 1
<1>1. k + 1 \in s /\ \A y \in s : y \in Int /\ y <= k + 1
  OBVIOUS
<1>2. \A x \in s : (\A y \in s : x >= y) => x = k + 1
  BY <1>1
<1> QED
  BY <1>1, <1>2 DEF Max

\* A function that follows the fold for k elements is extended to the next.
LEMMA FollowsNext ==
  ASSUME NEW base, NEW us, NEW n \in Nat, DOMAIN us = 1 .. n, NEW k \in Nat,
         NEW f, Follows(f, base, us, k)
  PROVE  \E g : Follows(g, base, us, k + 1)
<1> DEFINE g == [s \in SUBSET DOMAIN us |-> IF s \subseteq 1 .. k THEN f[s] ELSE Body(f, base, us, s)]
<1>1. g = [s \in SUBSET DOMAIN us |-> g[s]]
  OBVIOUS
<1>2. ASSUME NEW s \in SUBSET DOMAIN us, s \subseteq 1 .. k + 1
      PROVE  g[s] = Body(g, base, us, s)
  <2>0. s \ {Max(s)} \in SUBSET DOMAIN us
    OBVIOUS
  <2>1. CASE s \subseteq 1 .. k
    <3>1. g[s] = f[s] /\ g[s \ {Max(s)}] = f[s \ {Max(s)}]
      BY <2>0, <2>1
    <3>2. f[s] = Body(f, base, us, s)
      BY <2>1 DEF Follows
    <3> QED
      BY <3>1, <3>2 DEF Body
  <2>2. CASE ~ (s \subseteq 1 .. k)
    <3>1. s \ {Max(s)} \subseteq 1 .. k
      <4>1. Max(s) = k + 1
        BY <1>2, <2>2, MaxOfNext
      <4> QED
        BY <1>2, <4>1
    <3>2. g[s \ {Max(s)}] = f[s \ {Max(s)}]
      BY <2>0, <3>1
    <3>3. g[s] = Body(f, base, us, s)
      BY <2>2
    <3> QED
      BY <3>2, <3>3 DEF Body
  <2> QED
    BY <2>1, <2>2
<1> QED
  BY <1>1, <1>2 DEF Follows

\* So there is one for every number of elements.
LEMMA FollowsAll ==
  ASSUME NEW base, NEW us, NEW n \in Nat, DOMAIN us = 1 .. n, NEW k \in Nat
  PROVE  \E f : Follows(f, base, us, k)
<1> DEFINE T == {j \in Nat : ~ \E f : Follows(f, base, us, j)}
<1>1. \E f : Follows(f, base, us, 0)
  <2> DEFINE f == [s \in SUBSET DOMAIN us |-> base]
  <2>1. \A s \in SUBSET DOMAIN us : s \subseteq 1 .. 0 => f[s] = Body(f, base, us, s)
    BY DEF Body
  <2>2. f = [s \in SUBSET DOMAIN us |-> f[s]]
    OBVIOUS
  <2> QED
    BY <2>1, <2>2 DEF Follows
<1> SUFFICES ASSUME T # {} PROVE FALSE
  OBVIOUS
<1>2. PICK j \in T : \A i \in T : j <= i
  BY LeastNumber
<1>3. j # 0 /\ j \in Nat
  BY <1>1
<1>4. j - 1 \in Nat /\ ~ (j <= j - 1)
  BY <1>3
<1>5. j - 1 \notin T
  BY <1>2, <1>4
<1>6. PICK f : Follows(f, base, us, j - 1)
  BY <1>4, <1>5
<1>7. (j - 1) + 1 = j
  BY <1>3
<1>8. \E g : Follows(g, base, us, (j - 1) + 1)
  BY <1>4, <1>6, FollowsNext
<1> QED
  BY <1>7, <1>8

\* The function of the library's fold exists, and the fold is its value.
LEMMA FoldFollows ==
  ASSUME NEW base, NEW us, NEW n \in Nat, DOMAIN us = 1 .. n
  PROVE  \E f : /\ f = [s \in SUBSET DOMAIN us |-> Body(f, base, us, s)]
                /\ FoldLeft(Op, base, us) = f[DOMAIN us]
<1> DEFINE f == CHOOSE f : f = [s \in SUBSET DOMAIN us |-> Body(f, base, us, s)]
<1>1. \E g : g = [s \in SUBSET DOMAIN us |-> Body(g, base, us, s)]
  <2>1. PICK g : Follows(g, base, us, n)
    BY FollowsAll
  <2>2. \A s \in SUBSET DOMAIN us : g[s] = Body(g, base, us, s)
    BY <2>1 DEF Follows
  <2>3. g = [s \in SUBSET DOMAIN us |-> g[s]]
    BY <2>1 DEF Follows
  <2>4. g = [s \in SUBSET DOMAIN us |-> Body(g, base, us, s)]
    BY <2>2, <2>3
  <2> QED
    BY <2>4
<1>2. f = [s \in SUBSET DOMAIN us |-> Body(f, base, us, s)]
  BY <1>1
<1>3. FoldLeft(Op, base, us) = f[DOMAIN us]
  BY DEF FoldLeft, MapThenFoldSet, Body
<1> QED
  BY <1>2, <1>3

\* The fold of the n elements of us, and the results on the way to it.
Folded(base, us) == FoldLeft(Op, base, us)
Steps(g, base, us, n) ==
  /\ g[0] = base
  /\ \A k \in 1 .. n : g[k] = Op(g[k - 1], us[k])
  /\ Folded(base, us) = g[n]

\* The updates queued before a render are applied one by one, in their order.
THEOREM FoldSteps ==
  ASSUME NEW base, NEW us, NEW n \in Nat, DOMAIN us = 1 .. n
  PROVE  \E g : Steps(g, base, us, n)
<1>1. PICK f : /\ f = [s \in SUBSET DOMAIN us |-> Body(f, base, us, s)]
               /\ FoldLeft(Op, base, us) = f[DOMAIN us]
  BY FoldFollows
<1> DEFINE g == [k \in 0 .. n |-> f[1 .. k]]
<1>2. \A s \in SUBSET DOMAIN us : f[s] = Body(f, base, us, s)
  BY <1>1
<1>3. g[0] = base
  <2>1. 1 .. 0 = {} /\ 1 .. 0 \in SUBSET DOMAIN us
    OBVIOUS
  <2>2. f[1 .. 0] = base
    BY <1>2, <2>1 DEF Body
  <2> QED
    BY <2>2
<1>4. ASSUME NEW k \in 1 .. n PROVE g[k] = Op(g[k - 1], us[k])
  <2>1. 1 .. k \in SUBSET DOMAIN us /\ 1 .. k # {} /\ k \in 1 .. k
    <3>1. k \in Nat /\ 1 <= k /\ k <= n
      OBVIOUS
    <3>2. \A x \in 1 .. k : x \in 1 .. n
      BY <3>1
    <3>3. k \in 1 .. k
      BY <3>1
    <3> QED
      BY <3>2, <3>3
  <2>2. Max(1 .. k) = k
    <3>1. (k - 1) + 1 = k /\ k - 1 \in Nat /\ ~ (1 .. k \subseteq 1 .. (k - 1))
      BY <2>1
    <3> QED
      BY <3>1, MaxOfNext
  <2>3. (1 .. k) \ {k} = 1 .. (k - 1)
    <3>1. \A x \in (1 .. k) \ {k} : x \in 1 .. (k - 1)
      OBVIOUS
    <3>2. \A x \in 1 .. (k - 1) : x \in (1 .. k) \ {k}
      OBVIOUS
    <3> QED
      BY <3>1, <3>2
  <2>4. f[1 .. k] = Op(f[1 .. (k - 1)], us[k])
    BY <1>2, <2>1, <2>2, <2>3 DEF Body
  <2> QED
    BY <2>4
<1>5. Folded(base, us) = g[n]
  BY <1>1 DEF Folded
<1> QED
  BY <1>3, <1>4, <1>5 DEF Steps

\* Without an update a render changes nothing.
THEOREM FoldNothing ==
  ASSUME NEW base
  PROVE  Folded(base, <<>>) = base
<1>1. DOMAIN <<>> = 1 .. 0
  OBVIOUS
<1>2. PICK g : Steps(g, base, <<>>, 0)
  BY <1>1, FoldSteps
<1> QED
  BY <1>2 DEF Steps

\* An update that is queued last is applied to what the others make.
THEOREM FoldOneMore ==
  ASSUME NEW base, NEW us, NEW vs, NEW n \in Nat, DOMAIN us = 1 .. n, DOMAIN vs = 1 .. n + 1,
         \A k \in 1 .. n : vs[k] = us[k]
  PROVE  Folded(base, vs) = Op(Folded(base, us), vs[n + 1])
<1>1. PICK g : Steps(g, base, us, n)
  BY FoldSteps
<1>2. PICK h : Steps(h, base, vs, n + 1)
  BY FoldSteps
<1> DEFINE Different == {k \in 0 .. n : h[k] # g[k]}
<1>3. Different = {}
  <2> SUFFICES ASSUME Different # {} PROVE FALSE
    OBVIOUS
  <2>1. Different \in SUBSET Nat
    OBVIOUS
  <2>2. PICK k \in Different : \A j \in Different : k <= j
    BY <2>1, LeastNumber
  <2>3. k # 0
    BY <1>1, <1>2, <2>2 DEF Steps
  <2>4. k \in 1 .. n /\ k \in 1 .. n + 1 /\ k - 1 \in 0 .. n /\ ~ (k <= k - 1)
    BY <2>2, <2>3
  <2>5. h[k - 1] = g[k - 1]
    BY <2>2, <2>4
  <2>6. g[k] = Op(g[k - 1], us[k]) /\ h[k] = Op(h[k - 1], vs[k])
    BY <1>1, <1>2, <2>4 DEF Steps
  <2> QED
    BY <2>2, <2>4, <2>5, <2>6
<1>4. h[n] = g[n]
  BY <1>3
<1>5. n + 1 \in 1 .. n + 1 /\ (n + 1) - 1 = n
  OBVIOUS
<1>6. h[n + 1] = Op(h[(n + 1) - 1], vs[n + 1])
  BY <1>2, <1>5 DEF Steps
<1>7. h[n + 1] = Op(h[n], vs[n + 1])
  BY <1>5, <1>6
<1> QED
  BY <1>1, <1>2, <1>4, <1>7 DEF Steps
===============================================================================
