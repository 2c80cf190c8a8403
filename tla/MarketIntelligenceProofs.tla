---------------------- MODULE MarketIntelligenceProofs ----------------------
(* Theorems about MarketIntelligence: keys of snapshots are unique, gaps     *)
(* that were decided stay decided, whatever a run could not score has a      *)
(* recorded gap, and the scores, ranks and confidence of every committed run *)
(* are what the model promises of them, however sessions interleave.         *)
EXTENDS MarketIntelligence, FiniteSetTheorems, SequenceTheorems, WellFoundedInduction, TLAPS

(***************************************************************************)
(* The inductive invariant, a part per idea.                               *)
(***************************************************************************)

Fields == {"stage", "snapshot", "todo", "held", "waiting", "made", "outcome"}

Shape(x) == x = [field \in Fields |-> x[field]]

Shapes ==
    /\ txn = [s \in Sessions |-> txn[s]]
    /\ \A s \in Sessions : Shape(txn[s]) /\ txn[s].stage \in {"idle", "writing", "done"}
    /\ home \subseteq Markets /\ clock \in Nat /\ workload \in Workloads
    /\ snapshots \subseteq DOMAIN Content
    /\ \A g \in DOMAIN gaps : gaps[g] \in {"OPEN", "RESOLVED"}

\* No two snapshots share a key or a digest.
KeysOK ==
    \A d, e \in snapshots : d # e =>
        Content[d].key # Content[e].key /\ Content[d].digest # Content[e].digest

\* Rows on hand are nobody else's, and not committed.
HoldsOK ==
    \A s \in Sessions : \A row \in txn[s].held : ~Committed(row) /\ ~HeldByAnother(s, row)

\* The rows a session has yet to take.  The two keys of a snapshot are among
\* them until they are held: neither is ever skipped.
Pending(s) == ToSet(txn[s].todo)

PendingOK ==
    \A s \in Sessions :
        /\ txn[s].todo \in Seq(Pending(s))
        /\ txn[s].stage # "writing" => txn[s].held = {}
        /\ txn[s].snapshot # None =>
              /\ txn[s].snapshot \in DOMAIN Content
              /\ {DigestRow(txn[s].snapshot), KeyRow(txn[s].snapshot)} \subseteq Pending(s) \cup txn[s].held

\* Whatever a run could not score is among the rows.
Explains(rows, r) ==
    \A m \in DOMAIN r.missing : \A i \in DOMAIN r.missing[m] :
        \E g \in rows : /\ g[1] = "gap" /\ g[2] = r.missing[m][i] /\ g[3] = m
                        /\ g[4] = Content[r.document].digest

Sound(r) == r.kind \in RunTypes /\ DOMAIN r.score \subseteq Markets

\* A run about to be committed is explained by the gaps there are, and by rows
\* its session holds or has yet to take.
RunsOK ==
    /\ \A r \in runs : Sound(r) /\ Explains(DOMAIN gaps, r)
    /\ \A s \in Sessions : \A r \in txn[s].made :
          Sound(r) /\ Explains(DOMAIN gaps \cup txn[s].held \cup Pending(s), r)
    /\ \A row \in registry : row[1] = "row"

MarketInv == Shapes /\ KeysOK /\ HoldsOK /\ PendingOK /\ RunsOK

-----------------------------------------------------------------------------
(***************************************************************************)
(* Numbers and sequences.                                                  *)
(***************************************************************************)

\* A set of numbers has a least one.
LEMMA LeastNumber ==
    ASSUME NEW S \in SUBSET Nat, S # {}
    PROVE  \E x \in S : \A y \in S : x <= y
<1> DEFINE R == {ss \in Nat \X Nat : ss[1] < ss[2]}
<1>1. IsWellFoundedOn(R, Nat)
  BY NatLessThanWellFounded DEF OpToRel
<1> HIDE DEF R
<1>2. PICK x \in S : \A y \in S : ~ (<<y, x>> \in R)
  BY <1>1, WFMin
<1>3. \A y \in S : ~ (y < x)
  BY <1>2 DEF R
<1> QED
  BY <1>3

\* The first i sequences of ss, one after the other, for all i at once.
Flattens(f, ss, k) ==
    f = [i \in 1..k |-> IF i = 1 THEN ss[i] ELSE f[i - 1] \o ss[i]]

LEMMA FlatteningExists ==
    ASSUME NEW ss, NEW n \in Nat \ {0}
    PROVE  \E f : Flattens(f, ss, n)
<1> DEFINE Bad == {k \in 1..n : ~ \E f : Flattens(f, ss, k)}
<1> SUFFICES ASSUME Bad # {} PROVE FALSE
  OBVIOUS
<1>1. PICK k \in Bad : \A j \in Bad : k <= j
  <2>1. Bad \in SUBSET Nat
    OBVIOUS
  <2> QED
    BY <2>1, LeastNumber
<1>2. k \in 1..n /\ ~ \E f : Flattens(f, ss, k)
  OBVIOUS
<1>3. CASE k = 1
  <2> DEFINE f == [i \in 1..1 |-> ss[1]]
  <2>1. Flattens(f, ss, 1)
    BY DEF Flattens
  <2> QED
    BY <2>1, <1>2, <1>3
<1>4. CASE k # 1
  <2>1. k - 1 \in 1..n /\ k - 1 \notin Bad
    BY <1>1, <1>2, <1>4
  <2>2. PICK g : Flattens(g, ss, k - 1)
    BY <2>1
  <2> DEFINE f == [i \in 1..k |-> IF i < k THEN g[i] ELSE g[k - 1] \o ss[k]]
  <2>3. ASSUME NEW i \in 1..k
        PROVE  f[i] = IF i = 1 THEN ss[i] ELSE f[i - 1] \o ss[i]
    <3>1. CASE i = k
      <4>1. k - 1 \in 1..k /\ k \in 1..k
        BY <1>2, <1>4
      <4>2. f[k - 1] = g[k - 1]
        BY <4>1
      <4>3. f[k] = g[k - 1] \o ss[k]
        <5>1. \A j \in 1..k : f[j] = IF j < k THEN g[j] ELSE g[k - 1] \o ss[k]
          OBVIOUS
        <5>2. ~ (k < k)
          BY <4>1
        <5> HIDE DEF f
        <5> QED
          BY <5>1, <5>2, <4>1
      <4> QED
        BY <4>2, <4>3, <3>1, <1>4
    <3>2. CASE i # k
      <4>1. i \in 1..(k - 1)
        BY <3>2, <1>2
      <4>2. g[i] = IF i = 1 THEN ss[i] ELSE g[i - 1] \o ss[i]
        BY <4>1, <2>2 DEF Flattens
      <4> QED
        BY <4>1, <4>2, <1>2
    <3> QED
      BY <3>1, <3>2
  <2>4. Flattens(f, ss, k)
    <3> HIDE DEF f
    <3>1. f = [i \in 1..k |-> f[i]]
      BY DEF f
    <3> QED
      BY <3>1, <2>3 DEF Flattens
  <2> QED
    BY <2>4, <1>2
<1> QED
  BY <1>3, <1>4

LEMMA OfItsMembers ==
    ASSUME NEW T, NEW s \in Seq(T)
    PROVE  s \in Seq(ToSet(s))
<1>1. Len(s) \in Nat /\ s \in [1..Len(s) -> T]
  BY LenProperties
<1>2. \A i \in 1..Len(s) : s[i] \in ToSet(s)
  BY <1>1 DEF ToSet
<1>3. s \in [1..Len(s) -> ToSet(s)]
  BY <1>1, <1>2
<1> QED
  BY <1>1, <1>3, SeqDef

LEMMA BothParts ==
    ASSUME NEW T, NEW s \in Seq(T), NEW t \in Seq(T)
    PROVE  ToSet(s \o t) = ToSet(s) \cup ToSet(t)
<1>1. Len(s \o t) = Len(s) + Len(t) /\ Len(s) \in Nat /\ Len(t) \in Nat
  OBVIOUS
<1>2. DOMAIN s = 1..Len(s) /\ DOMAIN t = 1..Len(t) /\ DOMAIN (s \o t) = 1..(Len(s) + Len(t))
  OBVIOUS
<1>3. \A i \in 1..Len(s) : (s \o t)[i] = s[i] /\ i \in DOMAIN (s \o t)
  BY <1>1, <1>2
<1>4. \A i \in 1..Len(t) : (s \o t)[Len(s) + i] = t[i] /\ Len(s) + i \in DOMAIN (s \o t)
  BY <1>1, <1>2
<1>5. \A i \in DOMAIN (s \o t) : i \in 1..Len(s) \/ (i - Len(s) \in 1..Len(t) /\ i = Len(s) + (i - Len(s)))
  BY <1>1, <1>2
<1>6. ASSUME NEW x \in ToSet(s \o t) PROVE x \in ToSet(s) \cup ToSet(t)
  <2>1. PICK i \in DOMAIN (s \o t) : x = (s \o t)[i]
    BY <1>6 DEF ToSet
  <2> QED
    BY <2>1, <1>2, <1>3, <1>4, <1>5 DEF ToSet
<1>7. ASSUME NEW x \in ToSet(s) PROVE x \in ToSet(s \o t)
  <2>1. PICK i \in 1..Len(s) : x = s[i]
    BY <1>2 DEF ToSet
  <2> QED
    BY <2>1, <1>3 DEF ToSet
<1>8. ASSUME NEW x \in ToSet(t) PROVE x \in ToSet(s \o t)
  <2>1. PICK i \in 1..Len(t) : x = t[i]
    BY <1>2 DEF ToSet
  <2> QED
    BY <2>1, <1>4 DEF ToSet
<1> QED
  BY <1>6, <1>7, <1>8

\* Sequences one after the other are a sequence, and each member of each is in it.
LEMMA FlatteningHolds ==
    ASSUME NEW T, NEW ss \in Seq(Seq(T))
    PROVE  /\ FlattenSeq(ss) \in Seq(T)
           /\ \A i \in DOMAIN ss : ToSet(ss[i]) \subseteq ToSet(FlattenSeq(ss))
<1> DEFINE n == Len(ss)
<1>0. n \in Nat /\ DOMAIN ss = 1..n /\ \A i \in 1..n : ss[i] \in Seq(T)
  OBVIOUS
<1>1. CASE n = 0
  <2>1. ss = <<>>
    BY <1>1
  <2> QED
    BY <2>1, <1>1 DEF FlattenSeq
<1>2. CASE n # 0
  <2> DEFINE f == CHOOSE g : Flattens(g, ss, n)
  <2>1. Flattens(f, ss, n)
    BY <1>0, <1>2, FlatteningExists
  <2>2. FlattenSeq(ss) = f[n]
    BY <1>2 DEF FlattenSeq, Flattens
  <2> HIDE DEF f
  <2> DEFINE Good(k) == f[k] \in Seq(T) /\ \A i \in 1..k : ToSet(ss[i]) \subseteq ToSet(f[k])
             Bad == {k \in 1..n : ~ Good(k)}
  <2>3. Bad = {}
    <3> SUFFICES ASSUME Bad # {} PROVE FALSE
      OBVIOUS
    <3>1. PICK k \in Bad : \A j \in Bad : k <= j
      <4>1. Bad \in SUBSET Nat
        OBVIOUS
      <4> QED
        BY <4>1, LeastNumber
    <3>2. k \in 1..n /\ ~ Good(k)
      OBVIOUS
    <3>3. f[k] = IF k = 1 THEN ss[k] ELSE f[k - 1] \o ss[k]
      BY <3>2, <2>1 DEF Flattens
    <3>4. CASE k = 1
      BY <3>2, <3>3, <3>4, <1>0
    <3>5. CASE k # 1
      <4> HIDE DEF Good
      <4>0. k - 1 \in 1..n /\ ~ (k <= k - 1)
        BY <3>2, <3>5, <1>0
      <4>1. k - 1 \in 1..n /\ Good(k - 1)
        BY <3>1, <4>0
      <4> USE DEF Good
      <4>2. f[k] = f[k - 1] \o ss[k] /\ f[k - 1] \in Seq(T) /\ ss[k] \in Seq(T)
        BY <3>3, <3>5, <4>1, <3>2, <1>0
      <4>3. ToSet(f[k - 1]) \subseteq ToSet(f[k]) /\ ToSet(ss[k]) \subseteq ToSet(f[k])
        BY <4>2, BothParts
      <4>4. \A i \in 1..k : i \in 1..(k - 1) \/ i = k
        BY <3>2, <1>0
      <4>5. f[k] \in Seq(T)
        BY <4>2
      <4> QED
        BY <4>1, <4>3, <4>4, <4>5, <3>2
    <3> QED
      BY <3>4, <3>5
  <2>4. Good(n)
    <3> HIDE DEF Good
    <3>1. n \in 1..n
      BY <1>0, <1>2
    <3> QED
      BY <2>3, <3>1
  <2> QED
    BY <2>2, <2>4, <1>0
<1> QED
  BY <1>1, <1>2

\* What is left of a sequence when some of its members are left out.
LEMMA PartOfSequence ==
    ASSUME NEW T, NEW s \in Seq(T), NEW K
    PROVE  FlattenSeq([i \in DOMAIN s |-> IF i \in K THEN <<s[i]>> ELSE <<>>]) \in Seq(T)
<1> DEFINE ss == [i \in DOMAIN s |-> IF i \in K THEN <<s[i]>> ELSE <<>>]
<1>1. ss \in Seq(Seq(T))
  <2>1. \A i \in DOMAIN s : ss[i] \in Seq(T)
    OBVIOUS
  <2>2. DOMAIN s = 1..Len(s) /\ Len(s) \in Nat
    OBVIOUS
  <2> QED
    BY <2>1, <2>2
<1> QED
  BY <1>1, FlatteningHolds

\* The rows a session has yet to take are the next one and the rest.
LEMMA NextAndRest ==
    ASSUME NEW q, q \in Seq(ToSet(q)), q # <<>>
    PROVE  /\ Tail(q) \in Seq(ToSet(Tail(q)))
           /\ ToSet(q) = {Head(q)} \cup ToSet(Tail(q))
<1>1. Len(q) \in Nat \ {0} /\ DOMAIN q = 1..Len(q) /\ Head(q) = q[1]
  OBVIOUS
<1>2. Tail(q) \in Seq(ToSet(q)) /\ Len(Tail(q)) = Len(q) - 1 /\ DOMAIN Tail(q) = 1..(Len(q) - 1)
  BY <1>1
<1>3. \A i \in 1..(Len(q) - 1) : Tail(q)[i] = q[i + 1]
  BY <1>1
<1>4. Tail(q) \in Seq(ToSet(Tail(q)))
  BY <1>2, OfItsMembers
<1>5. ASSUME NEW x \in ToSet(q) PROVE x = Head(q) \/ x \in ToSet(Tail(q))
  <2>1. PICK i \in 1..Len(q) : x = q[i]
    BY <1>1 DEF ToSet
  <2>2. CASE i = 1
    BY <2>1, <2>2, <1>1
  <2>3. CASE i # 1
    <3>1. i - 1 \in 1..(Len(q) - 1) /\ Tail(q)[i - 1] = q[i]
      BY <2>1, <2>3, <1>1, <1>3
    <3> QED
      BY <3>1, <2>1, <1>2 DEF ToSet
  <2> QED
    BY <2>2, <2>3
<1>6. ASSUME NEW x \in ToSet(Tail(q)) PROVE x \in ToSet(q)
  <2>1. PICK i \in 1..(Len(q) - 1) : x = q[i + 1]
    BY <1>2, <1>3 DEF ToSet
  <2>2. i + 1 \in DOMAIN q
    BY <1>1
  <2> QED
    BY <2>1, <2>2 DEF ToSet
<1>7. Head(q) \in ToSet(q)
  BY <1>1 DEF ToSet
<1> QED
  BY <1>4, <1>5, <1>6, <1>7

-----------------------------------------------------------------------------
(***************************************************************************)
(* Sums over finite sets.                                                  *)
(***************************************************************************)

\* The sums of the subsets of S of at most k members, the way SumFunction takes
\* them: a member, and what is left.
Small(S, k) == {s \in SUBSET S : Cardinality(s) <= k}
Chosen(s) == CHOOSE x \in s : TRUE
Adds(sum, f, sets) == sum = [s \in sets |-> IF s = {} THEN 0 ELSE f[Chosen(s)] + sum[s \ {Chosen(s)}]]

LEMMA Smaller ==
    ASSUME NEW S, IsFiniteSet(S), NEW s \in SUBSET S, s # {}
    PROVE  /\ Chosen(s) \in s /\ s \ {Chosen(s)} \in SUBSET S
           /\ Cardinality(s \ {Chosen(s)}) = Cardinality(s) - 1
           /\ Cardinality(s) \in 1..Cardinality(S) /\ Cardinality(S) \in Nat
<1>1. Chosen(s) \in s
  BY DEF Chosen
<1>2. IsFiniteSet(s) /\ Cardinality(s) <= Cardinality(S)
  BY FS_Subset
<1>3. Cardinality(s) \in Nat /\ Cardinality(S) \in Nat /\ Cardinality(s) # 0
  BY <1>2, FS_CardinalityType, FS_EmptySet
<1>4. Cardinality(s \ {Chosen(s)}) = Cardinality(s) - 1
  BY <1>1, <1>2, FS_RemoveElement
<1> QED
  BY <1>1, <1>2, <1>3, <1>4

LEMMA SumsExist ==
    ASSUME NEW S, IsFiniteSet(S), NEW f
    PROVE  \E sum : Adds(sum, f, SUBSET S)
<1> DEFINE n == Cardinality(S)
           Bad == {k \in 0..n : ~ \E sum : Adds(sum, f, Small(S, k))}
<1>1. n \in Nat
  BY FS_CardinalityType
<1>2. Bad = {}
  <2> SUFFICES ASSUME Bad # {} PROVE FALSE
    OBVIOUS
  <2>1. PICK k \in Bad : \A j \in Bad : k <= j
    <3>1. Bad \in SUBSET Nat
      BY <1>1
    <3> QED
      BY <3>1, LeastNumber
  <2>2. k \in 0..n /\ ~ \E sum : Adds(sum, f, Small(S, k))
    OBVIOUS
  <2>3. CASE k = 0
    <3> DEFINE sum == [s \in Small(S, 0) |-> 0]
    <3>1. \A s \in Small(S, 0) : s = {}
      <4> SUFFICES ASSUME NEW s \in Small(S, 0), s # {} PROVE FALSE
        OBVIOUS
      <4>1. s \in SUBSET S /\ Cardinality(s) <= 0
        BY DEF Small
      <4>2. Cardinality(s) \in 1..n
        BY <4>1, Smaller
      <4> QED
        BY <4>1, <4>2, <1>1
    <3>2. Adds(sum, f, Small(S, 0))
      BY <3>1 DEF Adds
    <3> QED
      BY <3>2, <2>2, <2>3
  <2>4. CASE k # 0
    <3>1. k - 1 \in 0..n /\ k - 1 \notin Bad
      BY <2>1, <2>2, <2>4, <1>1
    <3>2. PICK g : Adds(g, f, Small(S, k - 1))
      BY <3>1
    <3> DEFINE sum == [s \in Small(S, k) |-> IF s = {} THEN 0 ELSE f[Chosen(s)] + g[s \ {Chosen(s)}]]
    <3>3. ASSUME NEW t \in Small(S, k - 1) PROVE t \in Small(S, k) /\ g[t] = sum[t]
      <4>1. t \in SUBSET S /\ Cardinality(t) <= k - 1
        BY DEF Small
      <4>2. Cardinality(t) \in Nat
        BY <4>1, FS_Subset, FS_CardinalityType
      <4>3. t \in Small(S, k)
        BY <4>1, <4>2, <2>2, <1>1 DEF Small
      <4>4. g[t] = IF t = {} THEN 0 ELSE f[Chosen(t)] + g[t \ {Chosen(t)}]
        BY <3>2 DEF Adds
      <4> QED
        BY <4>3, <4>4
    <3>4. ASSUME NEW s \in Small(S, k), s # {}
          PROVE  sum[s] = f[Chosen(s)] + sum[s \ {Chosen(s)}]
      <4>1. s \in SUBSET S /\ Cardinality(s) <= k
        BY DEF Small
      <4>2. s \ {Chosen(s)} \in SUBSET S /\ Cardinality(s \ {Chosen(s)}) = Cardinality(s) - 1 /\ Cardinality(s) \in 1..n
        BY <4>1, <3>4, Smaller
      <4>3. s \ {Chosen(s)} \in Small(S, k - 1)
        BY <4>1, <4>2, <2>2, <1>1 DEF Small
      <4>4. g[s \ {Chosen(s)}] = sum[s \ {Chosen(s)}]
        BY <4>3, <3>3
      <4>5. sum[s] = f[Chosen(s)] + g[s \ {Chosen(s)}]
        BY <3>4
      <4> QED
        BY <4>4, <4>5
    <3>5. \A s \in Small(S, k) : s = {} => sum[s] = 0
      OBVIOUS
    <3>6. sum = [s \in Small(S, k) |-> sum[s]]
      OBVIOUS
    <3> HIDE DEF sum
    <3>7. Adds(sum, f, Small(S, k))
      BY <3>4, <3>5, <3>6 DEF Adds
    <3> QED
      BY <3>7, <2>2
  <2> QED
    BY <2>3, <2>4
<1>3. Small(S, n) = SUBSET S
  BY FS_Subset DEF Small
<1>4. n \in 0..n
  BY <1>1
<1> HIDE DEF n
<1>5. \E sum : Adds(sum, f, Small(S, n))
  BY <1>2, <1>4
<1> QED
  BY <1>3, <1>5

\* SumFunction is well defined.
LEMMA SumIs ==
    ASSUME NEW f, IsFiniteSet(DOMAIN f)
    PROVE  \E sum : Adds(sum, f, SUBSET DOMAIN f) /\ SumFunction(f) = sum[DOMAIN f]
<1> DEFINE sum == CHOOSE iter : Adds(iter, f, SUBSET DOMAIN f)
<1>1. Adds(sum, f, SUBSET DOMAIN f)
  BY SumsExist
<1>2. SumFunction(f) = sum[DOMAIN f]
  BY DEF SumFunction, SumFunctionOnSet, FoldFunctionOnSet, MapThenFoldSet, Adds, Chosen
<1> QED
  BY <1>1, <1>2

\* Smaller addends make a smaller sum.
LEMMA SumsCompare ==
    ASSUME NEW S, IsFiniteSet(S), NEW f \in [S -> Int], NEW g \in [S -> Int],
           \A x \in S : f[x] <= g[x]
    PROVE  /\ SumFunction(f) \in Int /\ SumFunction(g) \in Int
           /\ SumFunction(f) <= SumFunction(g)
           /\ (\E x \in S : f[x] < g[x]) => SumFunction(f) < SumFunction(g)
<1>0. DOMAIN f = S /\ DOMAIN g = S
  OBVIOUS
<1>1. PICK p : Adds(p, f, SUBSET S) /\ SumFunction(f) = p[S]
  BY <1>0, SumIs
<1>2. PICK q : Adds(q, g, SUBSET S) /\ SumFunction(g) = q[S]
  BY <1>0, SumIs
<1> DEFINE n == Cardinality(S)
           Good(s) == /\ p[s] \in Int /\ q[s] \in Int /\ p[s] <= q[s]
                      /\ (\E x \in s : f[x] < g[x]) => p[s] < q[s]
           Bad == {k \in 0..n : \E s \in SUBSET S : Cardinality(s) = k /\ ~Good(s)}
<1>3. n \in Nat /\ \A s \in SUBSET S : Cardinality(s) \in 0..n
  BY FS_CardinalityType, FS_Subset
<1>4. Bad = {}
  <2> SUFFICES ASSUME Bad # {} PROVE FALSE
    OBVIOUS
  <2>1. PICK k \in Bad : \A j \in Bad : k <= j
    <3>1. Bad \in SUBSET Nat
      BY <1>3
    <3> HIDE DEF Bad
    <3> QED
      BY <3>1, LeastNumber
  <2>2. PICK s \in SUBSET S : Cardinality(s) = k /\ ~Good(s)
    OBVIOUS
  <2>3. k \in 0..n
    OBVIOUS
  <2>4. p[s] = IF s = {} THEN 0 ELSE f[Chosen(s)] + p[s \ {Chosen(s)}]
    BY <1>1 DEF Adds
  <2>5. q[s] = IF s = {} THEN 0 ELSE g[Chosen(s)] + q[s \ {Chosen(s)}]
    BY <1>2 DEF Adds
  <2>6. CASE s = {}
    BY <2>2, <2>4, <2>5, <2>6
  <2>7. CASE s # {}
    <3> DEFINE x == Chosen(s)
               t == s \ {x}
    <3>1. x \in s /\ t \in SUBSET S /\ Cardinality(t) = k - 1 /\ k \in 1..n
      BY <2>2, <2>7, Smaller
    <3>2. k - 1 \in 0..n /\ ~(k <= k - 1)
      BY <3>1, <1>3
    <3>3. k - 1 \notin Bad
      <4> HIDE DEF Bad
      <4> QED
        BY <3>2, <2>1
    <3>4. Good(t)
      <4> HIDE DEF Good, t, x
      <4> QED
        BY <3>1, <3>2, <3>3
    <3>5. p[s] = f[x] + p[t] /\ q[s] = g[x] + q[t]
      BY <2>4, <2>5, <2>7
    <3>6. \A y \in s : y = x \/ y \in t
      OBVIOUS
    <3>7. f[x] \in Int /\ g[x] \in Int /\ f[x] <= g[x]
      BY <3>1
    <3> HIDE DEF x, t
    <3>8. p[s] \in Int /\ q[s] \in Int /\ p[s] <= q[s]
      BY <3>4, <3>5, <3>7
    <3>9. ASSUME NEW y \in s, f[y] < g[y] PROVE p[s] < q[s]
      BY <3>4, <3>5, <3>6, <3>7, <3>9
    <3> QED
      BY <3>8, <3>9, <2>2
  <2> QED
    BY <2>6, <2>7
<1>5. Good(S)
  <2> HIDE DEF Good
  <2> QED
    BY <1>3, <1>4
<1> QED
  BY <1>1, <1>2, <1>5

LEMMA SumOfZeros ==
    ASSUME NEW S, IsFiniteSet(S)
    PROVE  SumFunction([x \in S |-> 0]) = 0
<1> DEFINE f == [x \in S |-> 0]
<1>0. DOMAIN f = S /\ \A x \in S : f[x] = 0
  OBVIOUS
<1> HIDE DEF f
<1>1. PICK p : Adds(p, f, SUBSET S) /\ SumFunction(f) = p[S]
  BY <1>0, SumIs
<1> DEFINE n == Cardinality(S)
           Bad == {k \in 0..n : \E s \in SUBSET S : Cardinality(s) = k /\ p[s] # 0}
<1>3. n \in Nat /\ \A s \in SUBSET S : Cardinality(s) \in 0..n
  BY FS_CardinalityType, FS_Subset
<1>4. Bad = {}
  <2> SUFFICES ASSUME Bad # {} PROVE FALSE
    OBVIOUS
  <2>1. PICK k \in Bad : \A j \in Bad : k <= j
    <3>1. Bad \in SUBSET Nat
      BY <1>3
    <3> HIDE DEF Bad
    <3> QED
      BY <3>1, LeastNumber
  <2>2. PICK s \in SUBSET S : Cardinality(s) = k /\ p[s] # 0
    OBVIOUS
  <2>4. p[s] = IF s = {} THEN 0 ELSE f[Chosen(s)] + p[s \ {Chosen(s)}]
    BY <1>1 DEF Adds
  <2>5. s # {}
    BY <2>2, <2>4
  <2> DEFINE t == s \ {Chosen(s)}
  <2>6. Chosen(s) \in s /\ t \in SUBSET S /\ Cardinality(t) = k - 1 /\ k \in 1..n
    BY <2>2, <2>5, Smaller
  <2>7. p[s] = f[Chosen(s)] + p[t] /\ f[Chosen(s)] = 0
    BY <2>4, <2>5, <2>6, <1>0
  <2> HIDE DEF t
  <2>8. k - 1 \in 0..n /\ ~(k <= k - 1)
    BY <2>6, <1>3
  <2>9. k - 1 \notin Bad
    <3> HIDE DEF Bad
    <3> QED
      BY <2>8, <2>1
  <2>10. p[t] = 0
    BY <2>6, <2>8, <2>9
  <2> QED
    BY <2>2, <2>7, <2>10
<1>5. p[S] = 0
  BY <1>3, <1>4
<1> QED
  BY <1>1, <1>5 DEF f

\* The sum of natural numbers is one, and positive as soon as one of them is.
LEMMA SumIsNatural ==
    ASSUME NEW S, IsFiniteSet(S), NEW f \in [S -> Nat]
    PROVE  SumFunction(f) \in Nat /\ ((\E x \in S : f[x] > 0) => SumFunction(f) > 0)
<1> DEFINE zero == [x \in S |-> 0]
<1>1. zero \in [S -> Int] /\ f \in [S -> Int] /\ \A x \in S : zero[x] = 0 /\ zero[x] <= f[x]
  OBVIOUS
<1>2. SumFunction(zero) = 0
  BY SumOfZeros
<1> HIDE DEF zero
<1>3. /\ SumFunction(f) \in Int /\ SumFunction(zero) <= SumFunction(f)
      /\ (\E x \in S : zero[x] < f[x]) => SumFunction(zero) < SumFunction(f)
  BY <1>1, SumsCompare
<1> QED
  BY <1>1, <1>2, <1>3

-----------------------------------------------------------------------------
(***************************************************************************)
(* What the engines report missing.                                        *)
(***************************************************************************)

LEMMA ShortSequences ==
    ASSUME NEW T
    PROVE  /\ <<>> \in Seq(T)
           /\ \A a \in T : <<a>> \in Seq(T)
           /\ \A a, b \in T : <<a, b>> \in Seq(T)
           /\ \A a, b, c \in T : <<a, b, c>> \in Seq(T)
OBVIOUS

\* What may be reported missing: metrics, and what the contextual score asks for.
Reportable == Metrics \cup {
    "base_market_score", "fit_score", "vertical_sam", "sam_min", "sam_max", "ticket_min",
    "ticket_max", "context.vertical", "context.ticket", "context.channel"}

TermSet == [weight : Nat \ {0}, metric : Metrics, invert : BOOLEAN]

LEMMA ModelHasTerms ==
    /\ Components = 1..7
    /\ \A i \in Components : BaseModel[i].terms \in Seq(TermSet)
<1>1. Components = 1..7
  BY DEF Components, BaseModel
<1>4. BaseModel[1].terms \in Seq(TermSet)
  <2>1. BaseModel[1].terms = <<Term(12, "gdp", FALSE), Term(8, "gdp_per_capita", FALSE)>>
    BY DEF BaseModel
  <2>2.
        /\ Term(12, "gdp", FALSE) \in TermSet
        /\ Term(8, "gdp_per_capita", FALSE) \in TermSet
    BY DEF Term, TermSet, Metrics, RawMetrics
  <2> HIDE DEF TermSet
  <2> QED
    BY <2>1, <2>2, ShortSequences
<1>5. BaseModel[2].terms \in Seq(TermSet)
  <2>1. BaseModel[2].terms = <<Term(20, "innovation", FALSE)>>
    BY DEF BaseModel
  <2>2.
        /\ Term(20, "innovation", FALSE) \in TermSet
    BY DEF Term, TermSet, Metrics, RawMetrics
  <2> HIDE DEF TermSet
  <2> QED
    BY <2>1, <2>2, ShortSequences
<1>6. BaseModel[3].terms \in Seq(TermSet)
  <2>1. BaseModel[3].terms = <<Term(1, "gdp_per_capita", FALSE), Term(1, "innovation", TRUE)>>
    BY DEF BaseModel
  <2>2.
        /\ Term(1, "gdp_per_capita", FALSE) \in TermSet
        /\ Term(1, "innovation", TRUE) \in TermSet
    BY DEF Term, TermSet, Metrics, RawMetrics
  <2> HIDE DEF TermSet
  <2> QED
    BY <2>1, <2>2, ShortSequences
<1>7. BaseModel[4].terms \in Seq(TermSet)
  <2>1. BaseModel[4].terms = <<Term(9, "population", FALSE), Term(7, "manufacturing", FALSE), Term(4, "gdp", FALSE)>>
    BY DEF BaseModel
  <2>2.
        /\ Term(9, "population", FALSE) \in TermSet
        /\ Term(7, "manufacturing", FALSE) \in TermSet
        /\ Term(4, "gdp", FALSE) \in TermSet
    BY DEF Term, TermSet, Metrics, RawMetrics
  <2> HIDE DEF TermSet
  <2> QED
    BY <2>1, <2>2, ShortSequences
<1>8. BaseModel[5].terms \in Seq(TermSet)
  <2>1. BaseModel[5].terms = <<Term(10, "gdp_per_capita", FALSE)>>
    BY DEF BaseModel
  <2>2.
        /\ Term(10, "gdp_per_capita", FALSE) \in TermSet
    BY DEF Term, TermSet, Metrics, RawMetrics
  <2> HIDE DEF TermSet
  <2> QED
    BY <2>1, <2>2, ShortSequences
<1>9. BaseModel[6].terms \in Seq(TermSet)
  <2>1. BaseModel[6].terms = <<Term(4, "language", FALSE), Term(3, "timezone", FALSE), Term(3, "b2b", FALSE)>>
    BY DEF BaseModel
  <2>2.
        /\ Term(4, "language", FALSE) \in TermSet
        /\ Term(3, "timezone", FALSE) \in TermSet
        /\ Term(3, "b2b", FALSE) \in TermSet
    BY DEF Term, TermSet, Metrics, RawMetrics
  <2> HIDE DEF TermSet
  <2> QED
    BY <2>1, <2>2, ShortSequences
<1>10. BaseModel[7].terms \in Seq(TermSet)
  <2>1. BaseModel[7].terms = <<Term(5, "growth", FALSE)>>
    BY DEF BaseModel
  <2>2.
        /\ Term(5, "growth", FALSE) \in TermSet
    BY DEF Term, TermSet, Metrics, RawMetrics
  <2> HIDE DEF TermSet
  <2> QED
    BY <2>1, <2>2, ShortSequences
<1> QED
  BY <1>1, <1>4, <1>5, <1>6, <1>7, <1>8, <1>9, <1>10

LEMMA MissingIsPart ==
    ASSUME NEW raw, NEW i \in Components, NEW m
    PROVE  Missing(raw, i, m) \in Seq(TermSet)
<1> DEFINE terms == BaseModel[i].terms
           K == {n \in DOMAIN terms : raw[m][terms[n].metric] = None}
<1>1. terms \in Seq(TermSet)
  BY ModelHasTerms
<1> HIDE DEF terms
<1>2. FlattenSeq([n \in DOMAIN terms |-> IF n \in K THEN <<terms[n]>> ELSE <<>>]) \in Seq(TermSet)
  <2> HIDE DEF K
  <2> QED
    BY <1>1, PartOfSequence
<1>3. [n \in DOMAIN terms |-> IF raw[m][terms[n].metric] = None THEN <<terms[n]>> ELSE <<>>]
        = [n \in DOMAIN terms |-> IF n \in K THEN <<terms[n]>> ELSE <<>>]
  OBVIOUS
<1>4. Missing(raw, i, m)
        = FlattenSeq([n \in DOMAIN terms |-> IF raw[m][terms[n].metric] = None THEN <<terms[n]>> ELSE <<>>])
  BY DEF Missing, Passing, terms
<1> QED
  BY <1>2, <1>3, <1>4

LEMMA NativeMisses ==
    ASSUME NEW raw, NEW m
    PROVE  NativeGaps(raw, m) \in Seq(Reportable)
<1> DEFINE names(i) == [n \in DOMAIN Missing(raw, i, m) |-> Missing(raw, i, m)[n].metric]
<1>1. ASSUME NEW i \in Components PROVE names(i) \in Seq(Reportable)
  <2>1. PICK k \in Nat : Missing(raw, i, m) \in [1..k -> TermSet]
    BY MissingIsPart, SeqDef
  <2>2. names(i) \in [1..k -> Reportable]
    BY <2>1 DEF TermSet, Reportable
  <2> QED
    BY <2>2, SeqDef
<1> HIDE DEF names
<1>2. [i \in Components |-> names(i)] \in [1..7 -> Seq(Reportable)] /\ 7 \in Nat
  BY <1>1, ModelHasTerms
<1>3. [i \in Components |-> names(i)] \in Seq(Seq(Reportable))
  <2> DEFINE all == [i \in Components |-> names(i)]
  <2>1. all \in [1..7 -> Seq(Reportable)] /\ 7 \in Nat
    BY <1>2
  <2> HIDE DEF all
  <2>2. all \in UNION {[1..n -> Seq(Reportable)] : n \in Nat}
    BY <2>1
  <2>3. Seq(Seq(Reportable)) = UNION {[1..n -> Seq(Reportable)] : n \in Nat}
    BY SeqDef
  <2> QED
    BY <2>2, <2>3 DEF all
<1>4. NativeGaps(raw, m) = FlattenSeq([i \in Components |-> names(i)])
  BY DEF NativeGaps, names
<1> QED
  BY <1>3, <1>4, FlatteningHolds

LEMMA ReportsOfHandlers ==
    {<<>>, <<"base_market_score">>, <<"context.vertical">>, <<"fit_score", "vertical_sam">>,
     <<"sam_min", "sam_max">>, <<"context.ticket">>, <<"ticket_min", "ticket_max">>, <<"language">>}
        \subseteq Seq(Reportable)
<1>1. /\ "base_market_score" \in Reportable /\ "context.vertical" \in Reportable
      /\ "fit_score" \in Reportable /\ "vertical_sam" \in Reportable
      /\ "sam_min" \in Reportable /\ "sam_max" \in Reportable
      /\ "context.ticket" \in Reportable /\ "language" \in Reportable
      /\ "ticket_min" \in Reportable /\ "ticket_max" \in Reportable
  BY DEF Reportable, Metrics, RawMetrics
<1> QED
  BY <1>1, ShortSequences

Handlers == {"prior", "vertical", "icp", "ticket", "channel", "reuse"}

LEMMA ChannelTerms ==
    ASSUME NEW channel \in DOMAIN ChannelAccess
    PROVE  ChannelAccess[channel] \in Seq(TermSet)
<1>1. ChannelAccess["email"] \in Seq(TermSet)
  <2>1. ChannelAccess["email"] = <<Term(70, "b2b", FALSE), Term(30, "language", FALSE)>>
    BY DEF ChannelAccess
  <2>2.
        /\ Term(70, "b2b", FALSE) \in TermSet
        /\ Term(30, "language", FALSE) \in TermSet
    BY DEF Term, TermSet, Metrics, RawMetrics
  <2> HIDE DEF TermSet
  <2> QED
    BY <2>1, <2>2, ShortSequences
<1>2. ChannelAccess["phone"] \in Seq(TermSet)
  <2>1. ChannelAccess["phone"] = <<Term(60, "timezone", FALSE), Term(40, "language", FALSE)>>
    BY DEF ChannelAccess
  <2>2.
        /\ Term(60, "timezone", FALSE) \in TermSet
        /\ Term(40, "language", FALSE) \in TermSet
    BY DEF Term, TermSet, Metrics, RawMetrics
  <2> HIDE DEF TermSet
  <2> QED
    BY <2>1, <2>2, ShortSequences
<1>3. ChannelAccess["multichannel"] \in Seq(TermSet)
  <2>1. ChannelAccess["multichannel"] = <<Term(40, "b2b", FALSE), Term(35, "language", FALSE), Term(25, "timezone", FALSE)>>
    BY DEF ChannelAccess
  <2>2.
        /\ Term(40, "b2b", FALSE) \in TermSet
        /\ Term(35, "language", FALSE) \in TermSet
        /\ Term(25, "timezone", FALSE) \in TermSet
    BY DEF Term, TermSet, Metrics, RawMetrics
  <2> HIDE DEF TermSet
  <2> QED
    BY <2>1, <2>2, ShortSequences
<1>4. channel \in {"email", "phone", "multichannel"}
  BY DEF ChannelAccess
<1> QED
  BY <1>1, <1>2, <1>3, <1>4

LEMMA ChannelMisses ==
    ASSUME NEW known, NEW request, request.channel \in {None} \cup DOMAIN ChannelAccess
    PROVE  ChannelAccessibility(known, request).missing \in Seq(Reportable)
<1>1. CASE request.channel = None
  <2>1. ChannelAccessibility(known, request).missing = <<"context.channel">>
    BY <1>1 DEF ChannelAccessibility, Answer
  <2> QED
    BY <2>1, ShortSequences DEF Reportable
<1>2. CASE request.channel # None
  <2> DEFINE inputs == ChannelAccess[request.channel]
             K == {n \in DOMAIN inputs : known.raw[inputs[n].metric] = None}
             unseen == Passing(inputs, LAMBDA t : known.raw[t.metric] = None)
  <2>1. inputs \in Seq(TermSet)
    BY <1>2, ChannelTerms
  <2>2. ChannelAccessibility(known, request).missing = [n \in DOMAIN unseen |-> unseen[n].metric]
    BY <1>2 DEF ChannelAccessibility, Answer
  <2> HIDE DEF inputs
  <2>3. unseen \in Seq(TermSet)
    <3>1. FlattenSeq([n \in DOMAIN inputs |-> IF n \in K THEN <<inputs[n]>> ELSE <<>>]) \in Seq(TermSet)
      <4> HIDE DEF K
      <4> QED
        BY <2>1, PartOfSequence
    <3>2. [n \in DOMAIN inputs |-> IF known.raw[inputs[n].metric] = None THEN <<inputs[n]>> ELSE <<>>]
            = [n \in DOMAIN inputs |-> IF n \in K THEN <<inputs[n]>> ELSE <<>>]
      OBVIOUS
    <3> QED
      BY <3>1, <3>2 DEF Passing
  <2> HIDE DEF unseen
  <2>4. PICK k \in Nat : unseen \in [1..k -> TermSet]
    BY <2>3, SeqDef
  <2>5. [n \in DOMAIN unseen |-> unseen[n].metric] \in [1..k -> Reportable]
    BY <2>4 DEF TermSet, Reportable
  <2> QED
    BY <2>2, <2>5, SeqDef
<1> QED
  BY <1>1, <1>2

LEMMA HandlerMisses ==
    ASSUME NEW known, NEW request, request.channel \in {None} \cup DOMAIN ChannelAccess,
           NEW key \in Handlers
    PROVE  Handle(key, known, request).missing \in Seq(Reportable)
<1>1. Handle("prior", known, request).missing \in Seq(Reportable)
  <2>1. Handle("prior", known, request) = Prior(known, request)
    BY DEF Handle
  <2>2. Prior(known, request).missing \in {<<>>, <<"base_market_score">>}
    BY DEF Prior, Answer
  <2> QED
    BY <2>1, <2>2, ReportsOfHandlers
<1>2. Handle("vertical", known, request).missing \in Seq(Reportable)
  <2>1. Handle("vertical", known, request) = VerticalFit(known, request)
    BY DEF Handle
  <2>2. VerticalFit(known, request).missing \in {<<>>, <<"context.vertical">>, <<"fit_score", "vertical_sam">>}
    BY DEF VerticalFit, Answer
  <2> QED
    BY <2>1, <2>2, ReportsOfHandlers
<1>3. Handle("icp", known, request).missing \in Seq(Reportable)
  <2>1. Handle("icp", known, request) = IcpAvailability(known, request)
    BY DEF Handle
  <2>2. IcpAvailability(known, request).missing \in {<<>>, <<"sam_min", "sam_max">>}
    BY DEF IcpAvailability, Answer
  <2> QED
    BY <2>1, <2>2, ReportsOfHandlers
<1>4. Handle("ticket", known, request).missing \in Seq(Reportable)
  <2>1. Handle("ticket", known, request) = TicketFit(known, request)
    BY DEF Handle
  <2>2. TicketFit(known, request).missing \in {<<>>, <<"context.ticket">>, <<"ticket_min", "ticket_max">>}
    BY DEF TicketFit, Answer
  <2> QED
    BY <2>1, <2>2, ReportsOfHandlers
<1>5. Handle("channel", known, request).missing \in Seq(Reportable)
  BY ChannelMisses DEF Handle
<1>6. Handle("reuse", known, request).missing \in Seq(Reportable)
  <2>1. Handle("reuse", known, request) = StrategicReuse(known, request)
    BY DEF Handle
  <2>2. StrategicReuse(known, request).missing \in {<<>>, <<"language">>}
    BY DEF StrategicReuse, Answer
  <2> QED
    BY <2>1, <2>2, ReportsOfHandlers
<1> QED
  BY <1>1, <1>2, <1>3, <1>4, <1>5, <1>6 DEF Handlers

LEMMA ContextMisses ==
    ASSUME NEW known, NEW request, request.channel \in {None} \cup DOMAIN ChannelAccess
    PROVE  ContextualGaps(known, request) \in Seq(Reportable)
<1> DEFINE missing(i) == Handle(ContextualModel[i].key, known, request).missing
           all == FlattenSeq([i \in DOMAIN ContextualModel |-> missing(i)])
           K == {n \in DOMAIN all : all[n] \notin {"context.vertical", "context.ticket", "context.channel"}}
<1>1. DOMAIN ContextualModel = 1..6 /\ \A i \in 1..6 : ContextualModel[i].key \in Handlers
  BY DEF ContextualModel, Handlers
<1>2. \A i \in 1..6 : missing(i) \in Seq(Reportable)
  BY <1>1, HandlerMisses
<1> HIDE DEF missing
<1>3. [i \in DOMAIN ContextualModel |-> missing(i)] \in [1..6 -> Seq(Reportable)]
  BY <1>1, <1>2
<1>4. [i \in DOMAIN ContextualModel |-> missing(i)] \in Seq(Seq(Reportable))
  BY <1>3, SeqDef
<1>5. all \in Seq(Reportable)
  BY <1>4, FlatteningHolds
<1>6. ContextualGaps(known, request)
        = FlattenSeq([n \in DOMAIN all |->
              IF all[n] \notin {"context.vertical", "context.ticket", "context.channel"}
              THEN <<all[n]>> ELSE <<>>])
  BY DEF ContextualGaps, Passing, missing
<1> HIDE DEF all
<1>7. FlattenSeq([n \in DOMAIN all |-> IF n \in K THEN <<all[n]>> ELSE <<>>]) \in Seq(Reportable)
  <2> HIDE DEF K
  <2> QED
    BY <1>5, PartOfSequence
<1>8. [n \in DOMAIN all |-> IF all[n] \notin {"context.vertical", "context.ticket", "context.channel"}
                            THEN <<all[n]>> ELSE <<>>]
        = [n \in DOMAIN all |-> IF n \in K THEN <<all[n]>> ELSE <<>>]
  OBVIOUS
<1> QED
  BY <1>6, <1>7, <1>8

-----------------------------------------------------------------------------
(***************************************************************************)
(* Points and the weights they are earned over.                            *)
(***************************************************************************)

LEMMA Products ==
    ASSUME NEW a \in Nat, NEW b \in Nat
    PROVE  a * b \in Nat
OBVIOUS

LEMMA Quotients ==
    ASSUME NEW a \in Nat, NEW b \in Nat \ {0}
    PROVE  a \div b \in Nat
OBVIOUS

\* The models weigh every component.
LEMMA ModelsWeigh ==
    /\ DOMAIN BaseModel = 1..7 /\ DOMAIN ContextualModel = 1..6
    /\ \A i \in 1..7 : BaseModel[i].weight \in Nat \ {0}
    /\ \A i \in 1..6 : ContextualModel[i].weight \in Nat \ {0}
<1>1. \A i \in 1..7 : BaseModel[i].weight \in Nat \ {0}
  <2>1. \A i \in 1..7 : i = 1 \/ i = 2 \/ i = 3 \/ i = 4 \/ i = 5 \/ i = 6 \/ i = 7
    OBVIOUS
  <2> QED
    BY <2>1 DEF BaseModel
<1>2. \A i \in 1..6 : ContextualModel[i].weight \in Nat \ {0}
  <2>1. \A i \in 1..6 : i = 1 \/ i = 2 \/ i = 3 \/ i = 4 \/ i = 5 \/ i = 6
    OBVIOUS
  <2> QED
    BY <2>1 DEF ContextualModel
<1>3. DOMAIN BaseModel = 1..7 /\ DOMAIN ContextualModel = 1..6
  BY DEF BaseModel, ContextualModel
<1> QED
  BY <1>1, <1>2, <1>3

LEMMA ModelKinds ==
    \A i \in Components : BaseModel[i].kind \in {"sum", "product", "linear"}
<1>1. \A i \in 1..7 : i = 1 \/ i = 2 \/ i = 3 \/ i = 4 \/ i = 5 \/ i = 6 \/ i = 7
  OBVIOUS
<1> QED
  BY <1>1, ModelsWeigh DEF Components, BaseModel

\* Something weighs more than nothing, and less than more.
LEMMA WeightsCompare ==
    ASSUME NEW S, IsFiniteSet(S), NEW weights, DOMAIN weights = S,
           \A i \in S : weights[i].weight \in Nat \ {0},
           NEW A \in SUBSET S, NEW B \in SUBSET S, A \subseteq B
    PROVE  /\ Weigh(weights, A) \in Nat /\ Weigh(weights, B) \in Nat
           /\ A # {} => Weigh(weights, A) > 0
           /\ A # B => Weigh(weights, A) < Weigh(weights, B)
<1> DEFINE f == [i \in S |-> IF i \in A THEN weights[i].weight ELSE 0]
           g == [i \in S |-> IF i \in B THEN weights[i].weight ELSE 0]
<1>1. Weigh(weights, A) = SumFunction(f) /\ Weigh(weights, B) = SumFunction(g)
  BY DEF Weigh
<1>2. f \in [S -> Nat] /\ g \in [S -> Nat] /\ f \in [S -> Int] /\ g \in [S -> Int]
  OBVIOUS
<1>3. \A i \in S : f[i] <= g[i]
  OBVIOUS
<1>4. A # {} => \E i \in S : f[i] > 0
  OBVIOUS
<1>5. A # B => \E i \in S : f[i] < g[i]
  <2> SUFFICES ASSUME A # B PROVE \E i \in S : f[i] < g[i]
    OBVIOUS
  <2>1. PICK i \in B : i \notin A
    OBVIOUS
  <2>2. i \in S /\ f[i] = 0 /\ g[i] = weights[i].weight
    BY <2>1
  <2> QED
    BY <2>2
<1> HIDE DEF f, g
<1> QED
  BY <1>1, <1>2, <1>3, <1>4, <1>5, SumsCompare, SumIsNatural

\* A percentile is a natural number of parts.
LEMMA MidrankIsNatural ==
    ASSUME NEW S, IsFiniteSet(S), Cardinality(S) >= 2, NEW m \in S, NEW value
    PROVE  Midrank(S, m, value) \in Nat
<1> DEFINE below == Cardinality({k \in S : value[k] < value[m]})
           equal == Cardinality({k \in S : value[k] = value[m]})
           part == Unit \div (2 * (Cardinality(S) - 1))
<1>1. below \in Nat
  BY FS_Subset, FS_CardinalityType
<1>2. IsFiniteSet({k \in S : value[k] = value[m]}) /\ m \in {k \in S : value[k] = value[m]}
  BY FS_Subset
<1>3. equal \in Nat /\ equal # 0
  BY <1>2, FS_CardinalityType, FS_EmptySet
<1>4. Cardinality(S) \in Nat /\ 2 * (Cardinality(S) - 1) \in Nat \ {0}
  BY FS_CardinalityType
<1>5. part \in Nat
  BY <1>4, UnitIsExact, Quotients
<1>6. Midrank(S, m, value) = (2 * below + equal - 1) * part
  BY DEF Midrank
<1> HIDE DEF below, equal, part
<1>7. 2 * below + equal - 1 \in Nat
  BY <1>1, <1>3
<1> QED
  BY <1>5, <1>6, <1>7, Products

\* Nothing missing: every metric of the component is measured.
LEMMA NothingMissed ==
    ASSUME NEW raw, NEW i \in Components, NEW m, Missing(raw, i, m) = <<>>,
           NEW n \in DOMAIN BaseModel[i].terms
    PROVE  raw[m][BaseModel[i].terms[n].metric] # None
<1> DEFINE terms == BaseModel[i].terms
           K == {k \in DOMAIN terms : raw[m][terms[k].metric] = None}
           ss == [k \in DOMAIN terms |-> IF k \in K THEN <<terms[k]>> ELSE <<>>]
<1>1. terms \in Seq(TermSet)
  BY ModelHasTerms
<1>2. [k \in DOMAIN terms |-> IF raw[m][terms[k].metric] = None THEN <<terms[k]>> ELSE <<>>] = ss
  OBVIOUS
<1>3. Missing(raw, i, m) = FlattenSeq(ss)
  <2>1. Missing(raw, i, m)
          = FlattenSeq([k \in DOMAIN terms |-> IF raw[m][terms[k].metric] = None THEN <<terms[k]>> ELSE <<>>])
    BY DEF Missing, Passing
  <2> QED
    BY <2>1, <1>2
<1> SUFFICES ASSUME n \in K PROVE FALSE
  OBVIOUS
<1> HIDE DEF K
<1>4. ss \in Seq(Seq(TermSet)) /\ n \in DOMAIN ss /\ ss[n] = <<terms[n]>>
  <2> HIDE DEF terms
  <2>1. \A k \in DOMAIN terms : ss[k] \in Seq(TermSet)
    BY <1>1
  <2>2. DOMAIN terms = 1..Len(terms) /\ Len(terms) \in Nat
    BY <1>1
  <2>3. n \in DOMAIN terms
    BY DEF terms
  <2> QED
    BY <2>1, <2>2, <2>3
<1> HIDE DEF ss
<1>5. ToSet(ss[n]) \subseteq ToSet(FlattenSeq(ss))
  BY <1>4, FlatteningHolds
<1>6. FlattenSeq(ss) = <<>>
  BY <1>3
<1>7. ToSet(FlattenSeq(ss)) = {}
  BY <1>6 DEF ToSet
<1>8. terms[n] \in ToSet(ss[n])
  <2> DEFINE one == <<terms[n]>>
  <2>1. one[1] = terms[n] /\ 1 \in DOMAIN one /\ ss[n] = one
    BY <1>4
  <2> HIDE DEF one
  <2> QED
    BY <2>1 DEF ToSet
<1> QED
  BY <1>5, <1>7, <1>8

\* What the markets of a native run have measured, each in its range.
RawOK(raw) ==
    /\ IsFiniteSet(DOMAIN raw)
    /\ \A m \in DOMAIN raw : \A metric \in Metrics : Measurement(raw[m][metric], 0..TopValue)

LEMMA PercentileIsNatural ==
    ASSUME NEW raw, RawOK(raw), NEW metric, NEW m \in DOMAIN raw, raw[m][metric] # None,
           ~(Cardinality(Observed(raw, metric)) < 2)
    PROVE  Percentile(raw, metric, m) \in Nat
<1> DEFINE S == Observed(raw, metric)
           value == [k \in S |-> raw[k][metric]]
<1>1. IsFiniteSet(S) /\ m \in S
  BY FS_Subset DEF RawOK, Observed
<1>2. Cardinality(S) >= 2
  BY <1>1, FS_CardinalityType
<1>3. Percentile(raw, metric, m) = Midrank(S, m, value)
  BY DEF Percentile
<1> HIDE DEF S, value
<1> QED
  BY <1>1, <1>2, <1>3, MidrankIsNatural

LEMMA PointsAreNatural ==
    ASSUME NEW raw, RawOK(raw), ~TooFew(raw), NEW i \in Components, BaseModel[i].computable,
           NEW m \in Complete(raw, i)
    PROVE  Points(raw, i, m) \in Nat
<1> DEFINE terms == BaseModel[i].terms
<1>1. m \in DOMAIN raw /\ Missing(raw, i, m) = <<>> /\ Complete(raw, i) # {}
  BY DEF Complete
<1>2. ASSUME NEW n \in DOMAIN terms
      PROVE  /\ raw[m][terms[n].metric] # None /\ raw[m][terms[n].metric] \in 0..TopValue
             /\ terms[n].weight \in Nat /\ terms[n].metric \in Metrics
  <2>1. terms[n] \in TermSet
    BY ModelHasTerms
  <2>2. terms[n].weight \in Nat /\ terms[n].metric \in Metrics
    BY <2>1 DEF TermSet
  <2>3. raw[m][terms[n].metric] # None
    BY <1>1, NothingMissed
  <2> QED
    BY <1>1, <2>2, <2>3 DEF RawOK, Measurement
<1>3. IsFiniteSet(DOMAIN terms)
  <2>1. terms \in Seq(TermSet)
    BY ModelHasTerms
  <2> HIDE DEF terms
  <2>2. DOMAIN terms = 1..Len(terms) /\ Len(terms) \in Nat
    BY <2>1
  <2> QED
    BY <2>2, FS_Interval
<1>4. CASE BaseModel[i].kind = "sum"
  <2> DEFINE f == [n \in DOMAIN terms |-> terms[n].weight * Percentile(raw, terms[n].metric, m)]
  <2>1. Points(raw, i, m) = SumFunction(f)
    BY <1>4 DEF Points
  <2>2. ASSUME NEW n \in DOMAIN terms PROVE f[n] \in Nat
    <3>1. ~(Cardinality(Observed(raw, terms[n].metric)) < 2)
      BY <1>1, <1>4 DEF TooFew
    <3>2. Percentile(raw, terms[n].metric, m) \in Nat
      BY <1>1, <1>2, <3>1, PercentileIsNatural
    <3> QED
      BY <1>2, <3>2, Products
  <2>3. f \in [DOMAIN terms -> Nat]
    BY <2>2
  <2> HIDE DEF f
  <2> QED
    BY <2>1, <2>3, <1>3, SumIsNatural
<1>5. CASE BaseModel[i].kind = "linear"
  <2> DEFINE part == Unit \div TopValue
             f == [n \in DOMAIN terms |-> terms[n].weight * raw[m][terms[n].metric] * part]
  <2>1. Points(raw, i, m) = SumFunction(f)
    BY <1>5 DEF Points
  <2>2. part \in Nat
    BY TopValueIsPositive, UnitIsExact, Quotients
  <2> HIDE DEF part
  <2>3. ASSUME NEW n \in DOMAIN terms PROVE f[n] \in Nat
    <3>1. raw[m][terms[n].metric] \in Nat /\ terms[n].weight \in Nat
      BY <1>2, TopValueIsPositive
    <3>2. terms[n].weight * raw[m][terms[n].metric] \in Nat
      BY <3>1, Products
    <3> QED
      BY <3>2, <2>2, Products
  <2>4. f \in [DOMAIN terms -> Nat]
    BY <2>3
  <2> HIDE DEF f
  <2> QED
    BY <2>1, <2>4, <1>3, SumIsNatural
<1>6. CASE BaseModel[i].kind = "product"
  <2> DEFINE S == Complete(raw, i)
             value == [k \in S |-> InnerProduct(raw, i, k)]
  <2>1. Points(raw, i, m) = BaseModel[i].weight * Midrank(S, m, value)
    BY <1>6 DEF Points
  <2>2. IsFiniteSet(S)
    BY FS_Subset DEF RawOK, Complete
  <2>3. ~(Cardinality(S) < 2)
    BY <1>1, <1>6 DEF TooFew
  <2>4. Cardinality(S) >= 2
    BY <2>2, <2>3, FS_CardinalityType
  <2> HIDE DEF S, value
  <2>5. Midrank(S, m, value) \in Nat
    BY <2>2, <2>4, MidrankIsNatural DEF S
  <2>6. BaseModel[i].weight \in Nat
    BY ModelsWeigh DEF Components
  <2> QED
    BY <2>1, <2>5, <2>6, Products
<1> QED
  BY <1>4, <1>5, <1>6, ModelKinds

-----------------------------------------------------------------------------
(***************************************************************************)
(* Ranks.                                                                  *)
(***************************************************************************)

LEMMA Scaling ==
    ASSUME NEW x \in Int, NEW y \in Int, NEW k \in Nat \ {0}
    PROVE  x < y <=> x * k < y * k
OBVIOUS

LEMMA Rearranged ==
    ASSUME NEW x \in Int, NEW y \in Int, NEW z \in Int
    PROVE  x * y \in Int /\ (x * y) * z = (x * z) * y
OBVIOUS

\* What is scored: something earned over a weight.
Scores == Int \X (Nat \ {0})

\* Better orders scores the way their quotients would.
LEMMA BetterIsOrder ==
    ASSUME NEW a \in Scores, NEW b \in Scores, NEW c \in Scores
    PROVE  /\ Better(a, b) => ~Better(b, a)
           /\ Better(a, b) /\ ~Better(c, b) => Better(a, c)
           /\ ~Better(b, a) /\ Better(b, c) => Better(a, c)
           /\ ~Better(b, a) /\ ~Better(c, b) => ~Better(c, a)
<1> DEFINE p == a[1]  q == a[2]  r == b[1]  s == b[2]  t == c[1]  u == c[2]
<1>1. p \in Int /\ r \in Int /\ t \in Int /\ q \in Nat \ {0} /\ s \in Nat \ {0} /\ u \in Nat \ {0}
  BY DEF Scores
<1>2. /\ Better(a, b) <=> p * s > r * q
      /\ Better(b, a) <=> r * q > p * s
      /\ Better(b, c) <=> r * u > t * s
      /\ Better(c, b) <=> t * s > r * u
      /\ Better(a, c) <=> p * u > t * q
      /\ Better(c, a) <=> t * q > p * u
  BY DEF Better
<1> HIDE DEF p, q, r, s, t, u
<1>3. p * s \in Int /\ r * q \in Int /\ r * u \in Int /\ t * s \in Int /\ p * u \in Int /\ t * q \in Int
  BY <1>1
<1> DEFINE ab == (p * s) * u  ba == (r * q) * u  bc == (r * u) * q  cb == (t * s) * q
           ac == (p * u) * s  ca == (t * q) * s
<1>4. /\ p * s > r * q <=> ab > ba
      /\ r * q > p * s <=> ba > ab
  BY <1>1, <1>3, Scaling
<1>5. /\ r * u > t * s <=> bc > cb
      /\ t * s > r * u <=> cb > bc
  BY <1>1, <1>3, Scaling
<1>6. /\ p * u > t * q <=> ac > ca
      /\ t * q > p * u <=> ca > ac
  BY <1>1, <1>3, Scaling
<1>7. ab = ac /\ ba = bc /\ cb = ca
  BY <1>1, Rearranged
<1>8. ab \in Int /\ ba \in Int /\ cb \in Int
  BY <1>1, <1>3
<1> HIDE DEF ab, ba, bc, cb, ac, ca
<1> QED
  BY <1>2, <1>4, <1>5, <1>6, <1>7, <1>8

\* The order of the listing is total.
LEMMA BeforeIsOrder ==
    ASSUME NEW S \in SUBSET Markets, NEW score, \A m \in S : score[m] \in Scores,
           NEW a \in S, NEW b \in S, NEW c \in S
    PROVE  /\ ~Before(score, a, a)
           /\ a # b => Before(score, a, b) \/ Before(score, b, a)
           /\ Before(score, a, b) => ~Before(score, b, a) /\ ~Better(score[b], score[a])
           /\ Before(score, a, b) /\ Before(score, b, c) => Before(score, a, c)
<1>1. a \in Int /\ b \in Int /\ c \in Int
  <2>1. Cardinality(Markets) \in Nat
    BY MarketsAreOrdered, FS_CardinalityType
  <2> QED
    BY <2>1, MarketsAreOrdered
<1> DEFINE x == score[a]  y == score[b]  z == score[c]
<1>2. x \in Scores /\ y \in Scores /\ z \in Scores
  OBVIOUS
<1> HIDE DEF x, y, z
<1>3. /\ Better(x, y) => ~Better(y, x)
      /\ Better(x, y) /\ ~Better(z, y) => Better(x, z)
      /\ ~Better(y, x) /\ Better(y, z) => Better(x, z)
      /\ ~Better(y, x) /\ ~Better(z, y) => ~Better(z, x)
  BY <1>2, BetterIsOrder
<1>4. Better(y, z) => ~Better(z, y)
  BY <1>2, BetterIsOrder
<1>5. ~Better(x, x)
  BY <1>2, BetterIsOrder
<1>6. Better(y, x) => ~Better(x, y)
  BY <1>2, BetterIsOrder
<1>7. /\ Before(score, a, a) <=> Better(x, x) \/ (~Better(x, x) /\ a < a)
      /\ Before(score, a, b) <=> Better(x, y) \/ (~Better(y, x) /\ a < b)
      /\ Before(score, b, a) <=> Better(y, x) \/ (~Better(x, y) /\ b < a)
      /\ Before(score, b, c) <=> Better(y, z) \/ (~Better(z, y) /\ b < c)
      /\ Before(score, a, c) <=> Better(x, z) \/ (~Better(z, x) /\ a < c)
  BY DEF Before, x, y, z
<1>8. ~Better(score[b], score[a]) <=> ~Better(y, x)
  BY DEF x, y
<1> QED
  BY <1>1, <1>3, <1>4, <1>5, <1>6, <1>7, <1>8

\* The ranked markets listed before a market, and those that score better.
Ahead(S, score, m) == {k \in S : Before(score, k, m)}
Above(S, score, m) == {k \in S : Better(score[k], score[m])}

LEMMA MarketsAreNumbers ==
    /\ IsFiniteSet(Markets) /\ Cardinality(Markets) \in Nat
    /\ Markets \subseteq Int
<1>1. Cardinality(Markets) \in Nat
  BY MarketsAreOrdered, FS_CardinalityType
<1> QED
  BY <1>1, MarketsAreOrdered

LEMMA AheadGrows ==
    ASSUME NEW S \in SUBSET Markets, NEW score, \A m \in S : score[m] \in Scores,
           NEW a \in S, NEW b \in S, Before(score, a, b)
    PROVE  Cardinality(Ahead(S, score, a)) < Cardinality(Ahead(S, score, b))
<1> DEFINE A == Ahead(S, score, a)
           B == Ahead(S, score, b)
<1>1. IsFiniteSet(S) /\ IsFiniteSet(A) /\ IsFiniteSet(B)
  BY MarketsAreNumbers, FS_Subset DEF Ahead
<1>2. a \in B /\ a \notin A
  BY BeforeIsOrder DEF Ahead
<1>3. ASSUME NEW k \in A PROVE k \in B
  BY BeforeIsOrder DEF Ahead
<1> HIDE DEF A, B
<1>4. A \subseteq B /\ A # B
  BY <1>2, <1>3
<1>5. Cardinality(A) <= Cardinality(B) /\ Cardinality(A) # Cardinality(B)
  BY <1>1, <1>4, FS_Subset
<1>6. Cardinality(A) \in Nat /\ Cardinality(B) \in Nat
  BY <1>1, FS_CardinalityType
<1> QED
  BY <1>5, <1>6 DEF A, B

\* The listing has every market once, in order.
LEMMA ListingIsSorted ==
    ASSUME NEW S \in SUBSET Markets, NEW score, \A m \in S : score[m] \in Scores
    PROVE  /\ IsFiniteSet(S) /\ Cardinality(S) \in Nat
           /\ \A i \in 1..Cardinality(S) :
                 /\ Listing(S, score)[i] \in S
                 /\ Cardinality(Ahead(S, score, Listing(S, score)[i])) = i - 1
           /\ \A m \in S : /\ Position(S, score, m) \in 1..Cardinality(S)
                           /\ Listing(S, score)[Position(S, score, m)] = m
<1> DEFINE n == Cardinality(S)
           ordered == Listing(S, score)
           place == [m \in S |-> Cardinality(Ahead(S, score, m)) + 1]
<1>1. IsFiniteSet(S) /\ n \in Nat
  BY MarketsAreNumbers, FS_Subset, FS_CardinalityType
<1>2. ASSUME NEW m \in S
      PROVE  Cardinality(Ahead(S, score, m)) \in Nat /\ place[m] \in 1..n
  <2>1. m \notin Ahead(S, score, m) /\ Ahead(S, score, m) \subseteq S
    BY BeforeIsOrder DEF Ahead
  <2>2. Cardinality(Ahead(S, score, m)) <= n /\ Cardinality(Ahead(S, score, m)) # n
    BY <1>1, <2>1, FS_Subset
  <2>3. Cardinality(Ahead(S, score, m)) \in Nat
    BY <1>1, <2>1, FS_Subset, FS_CardinalityType
  <2> QED
    BY <2>2, <2>3, <1>1
<1>3. ASSUME NEW a \in S, NEW b \in S, place[a] = place[b] PROVE a = b
  <2> SUFFICES ASSUME a # b PROVE FALSE
    OBVIOUS
  <2>1. Before(score, a, b) \/ Before(score, b, a)
    BY BeforeIsOrder
  <2>2. \/ Cardinality(Ahead(S, score, a)) < Cardinality(Ahead(S, score, b))
        \/ Cardinality(Ahead(S, score, b)) < Cardinality(Ahead(S, score, a))
    BY <2>1, AheadGrows
  <2> QED
    BY <2>2, <1>2, <1>3
<1>4. place \in Injection(S, 1..n)
  <2>1. place \in [S -> 1..n] /\ DOMAIN place = S
    BY <1>2
  <2> HIDE DEF place
  <2> QED
    BY <2>1, <1>3 DEF Injection, IsInjective
<1>5. place \in Surjection(S, 1..n)
  <2>1. IsFiniteSet(1..n) /\ Cardinality(1..n) = n
    BY <1>1, FS_Interval
  <2> HIDE DEF place
  <2> QED
    BY <2>1, <1>4, FS_Injection
<1>6. ASSUME NEW i \in 1..n
      PROVE  ordered[i] \in S /\ Cardinality(Ahead(S, score, ordered[i])) = i - 1
  <2>1. PICK m \in S : place[m] = i
    BY <1>5 DEF Surjection
  <2>2. Cardinality(Ahead(S, score, m)) = i - 1
    BY <2>1, <1>1, <1>2
  <2>3. ordered[i] = CHOOSE k \in S : Cardinality(Ahead(S, score, k)) = i - 1
    BY DEF Listing, Ahead
  <2> HIDE DEF ordered
  <2> QED
    BY <2>2, <2>3
<1>7. ASSUME NEW m \in S
      PROVE  Position(S, score, m) \in 1..n /\ ordered[Position(S, score, m)] = m
  <2> DEFINE i == place[m]
  <2>1. i \in 1..n /\ ordered[i] \in S /\ Cardinality(Ahead(S, score, ordered[i])) = i - 1
    BY <1>2, <1>6
  <2>2. place[ordered[i]] = i
    BY <2>1, <1>1
  <2>3. ordered[i] = m
    BY <2>1, <2>2, <1>3
  <2>4. Position(S, score, m) = CHOOSE j \in 1..n : ordered[j] = m
    BY DEF Position
  <2> HIDE DEF i, ordered
  <2> QED
    BY <2>1, <2>3, <2>4
<1> QED
  BY <1>1, <1>6, <1>7

\* Going down the listing, a tie has as many above it as the one before it, and
\* nobody else is tied with anyone before it.
LEMMA AboveNext ==
    ASSUME NEW S \in SUBSET Markets, NEW score, \A m \in S : score[m] \in Scores,
           NEW i \in 1..Cardinality(S)
    PROVE  LET ordered == Listing(S, score)
               tied == i > 1 /\ ~Better(score[ordered[i - 1]], score[ordered[i]])
           IN  /\ tied => Above(S, score, ordered[i]) = Above(S, score, ordered[i - 1])
               /\ ~tied => Cardinality(Above(S, score, ordered[i])) = i - 1
<1> DEFINE n == Cardinality(S)
           ordered == Listing(S, score)
           m == ordered[i]
           l == ordered[i - 1]
<1>1. n \in Nat /\ IsFiniteSet(S)
  BY ListingIsSorted
<1>2. m \in S /\ Cardinality(Ahead(S, score, m)) = i - 1
  BY ListingIsSorted
<1>3. i > 1 => l \in S /\ Cardinality(Ahead(S, score, l)) = i - 2
  <2> SUFFICES ASSUME i > 1 PROVE l \in S /\ Cardinality(Ahead(S, score, l)) = i - 2
    OBVIOUS
  <2>1. i - 1 \in 1..Cardinality(S)
    BY <1>1
  <2>2. l \in S /\ Cardinality(Ahead(S, score, l)) = (i - 1) - 1
    BY <2>1, ListingIsSorted
  <2> QED
    BY <2>2
<1> HIDE DEF m, l, n
<1>4. ASSUME i > 1, ~Better(score[l], score[m])
      PROVE  Above(S, score, m) = Above(S, score, l)
  <2>1. l \in S /\ l # m
    BY <1>2, <1>3, <1>4
  <2>2. ~Before(score, m, l)
    <3>1. ~(i - 1 < i - 2)
      BY <1>1
    <3> QED
      BY <3>1, <1>2, <1>3, <1>4, AheadGrows
  <2>3. ~Better(score[m], score[l])
    BY <2>1, <2>2, <1>2 DEF Before
  <2>4. ASSUME NEW k \in S PROVE Better(score[k], score[m]) <=> Better(score[k], score[l])
    <3>1. Better(score[k], score[m]) /\ ~Better(score[l], score[m]) => Better(score[k], score[l])
      BY <2>1, <1>2, BetterIsOrder
    <3>2. Better(score[k], score[l]) /\ ~Better(score[m], score[l]) => Better(score[k], score[m])
      BY <2>1, <1>2, BetterIsOrder
    <3> QED
      BY <3>1, <3>2, <1>4, <2>3
  <2> QED
    BY <2>4 DEF Above
<1>5. ASSUME i = 1 \/ Better(score[l], score[m])
      PROVE  Cardinality(Above(S, score, m)) = i - 1
  <2>1. ASSUME NEW k \in S, Better(score[k], score[m]) PROVE Before(score, k, m)
    BY <2>1 DEF Before
  <2>2. ASSUME NEW k \in S, Before(score, k, m) PROVE Better(score[k], score[m])
    <3>1. Cardinality(Ahead(S, score, k)) < i - 1
      BY <1>2, <2>2, AheadGrows
    <3>2. Cardinality(Ahead(S, score, k)) \in Nat
      BY <1>1, FS_Subset, FS_CardinalityType DEF Ahead
    <3>3. i > 1 /\ Better(score[l], score[m]) /\ l \in S
      BY <1>1, <1>3, <1>5, <3>1, <3>2
    <3>4. ~Before(score, l, k)
      <4>1. ~(i - 2 < Cardinality(Ahead(S, score, k)))
        BY <1>1, <3>1, <3>2
      <4> QED
        BY <4>1, <1>3, <3>3, AheadGrows
    <3>5. ~Better(score[l], score[k])
      BY <3>4 DEF Before
    <3> QED
      BY <1>2, <3>3, <3>5, BetterIsOrder
  <2>3. Above(S, score, m) = Ahead(S, score, m)
    BY <2>1, <2>2 DEF Above, Ahead
  <2> QED
    BY <2>3, <1>2
<1>6. i > 1 \/ i = 1
  BY <1>1 DEF n
<1> HIDE DEF ordered
<1> QED
  BY <1>4, <1>5, <1>6 DEF m, l, ordered

\* A ranked market stands after those that score better.
LEMMA RankIsStanding ==
    ASSUME NEW S \in SUBSET Markets, NEW score, \A m \in S : score[m] \in Scores,
           NEW m \in S
    PROVE  CompetitionRanks(S, score)[m] = Cardinality(Above(S, score, m)) + 1
<1> DEFINE n == Cardinality(S)
           ordered == Listing(S, score)
           tied(i) == i > 1 /\ ~Better(score[ordered[i - 1]], score[ordered[i]])
           IsRank(f) == f = [i \in 1..n |-> IF tied(i) THEN f[i - 1] ELSE i]
           rank == CHOOSE f : IsRank(f)
           standing == [i \in 1..n |-> Cardinality(Above(S, score, ordered[i])) + 1]
<1>1. n \in Nat /\ IsFiniteSet(S) /\ \A i \in 1..n : ordered[i] \in S
  BY ListingIsSorted
<1>2. ASSUME NEW i \in 1..n
      PROVE  /\ tied(i) => i - 1 \in 1..n /\ standing[i] = standing[i - 1]
             /\ ~tied(i) => standing[i] = i
  <2>1. /\ tied(i) => Above(S, score, ordered[i]) = Above(S, score, ordered[i - 1])
        /\ ~tied(i) => Cardinality(Above(S, score, ordered[i])) = i - 1
    BY AboveNext
  <2>2. tied(i) => i - 1 \in 1..n
    BY <1>1
  <2> HIDE DEF tied, ordered
  <2> QED
    BY <2>1, <2>2
<1>3. IsRank(standing)
  <2>1. standing = [i \in 1..n |-> standing[i]]
    OBVIOUS
  <2> HIDE DEF standing, tied
  <2> QED
    BY <2>1, <1>2
<1>4. IsRank(rank)
  <2> HIDE DEF IsRank, standing
  <2> QED
    BY <1>3
<1>5. CompetitionRanks(S, score)[m] = rank[Position(S, score, m)]
  BY DEF CompetitionRanks
<1> HIDE DEF rank
<1> DEFINE Bad == {i \in 1..n : rank[i] # standing[i]}
<1>6. Bad = {}
  <2> HIDE DEF standing, tied, n
  <2> SUFFICES ASSUME Bad # {} PROVE FALSE
    OBVIOUS
  <2>1. PICK i \in Bad : \A j \in Bad : i <= j
    <3>1. Bad \in SUBSET Nat
      BY <1>1
    <3> HIDE DEF Bad
    <3> QED
      BY <3>1, LeastNumber
  <2>2. i \in 1..n /\ rank[i] # standing[i]
    OBVIOUS
  <2>3. rank[i] = IF tied(i) THEN rank[i - 1] ELSE i
    BY <1>4, <2>2
  <2>4. CASE tied(i)
    <3>1. i - 1 \in 1..n /\ ~(i <= i - 1)
      BY <1>1, <1>2, <2>2, <2>4
    <3>2. rank[i - 1] = standing[i - 1]
      BY <2>1, <3>1
    <3> QED
      BY <1>2, <2>2, <2>3, <2>4, <3>2
  <2>5. CASE ~tied(i)
    BY <1>2, <2>2, <2>3, <2>5
  <2> QED
    BY <2>4, <2>5
<1>7. Position(S, score, m) \in 1..n /\ ordered[Position(S, score, m)] = m
  BY ListingIsSorted
<1> HIDE DEF ordered
<1> QED
  BY <1>5, <1>6, <1>7

-----------------------------------------------------------------------------
(***************************************************************************)
(* What is earned, over what is covered.                                   *)
(***************************************************************************)

\* What a component may earn, and what is earned in all.
LEMMA SumOfParts ==
    ASSUME NEW S, IsFiniteSet(S), NEW values, DOMAIN values = S, NEW A \in SUBSET S
    PROVE  /\ (\A i \in A : values[i] \in Int) => Sum(values, A) \in Int
           /\ (\A i \in A : values[i] \in Nat) => Sum(values, A) \in Nat
           /\ (\A i \in A : values[i] \in Nat) /\ (\E i \in A : values[i] > 0) => Sum(values, A) > 0
<1> DEFINE f == [i \in S |-> IF i \in A THEN values[i] ELSE 0]
<1>1. Sum(values, A) = SumFunction(f)
  BY DEF Sum
<1>2. (\A i \in A : values[i] \in Int) => f \in [S -> Int]
  OBVIOUS
<1>3. (\A i \in A : values[i] \in Nat) => f \in [S -> Nat]
  OBVIOUS
<1>4. (\E i \in A : values[i] > 0) => \E i \in S : f[i] > 0
  OBVIOUS
<1>5. f \in [S -> Int] => \A i \in S : f[i] <= f[i]
  OBVIOUS
<1> HIDE DEF f
<1> QED
  BY <1>1, <1>2, <1>3, <1>4, <1>5, SumsCompare, SumIsNatural

LEMMA ComponentsAre ==
    /\ Components = 1..7 /\ IsFiniteSet(Components) /\ DOMAIN BaseModel = Components
    /\ \A i \in Components : BaseModel[i].weight \in Nat \ {0}
<1>1. Components = 1..7
  BY ModelsWeigh DEF Components
<1>2. IsFiniteSet(1..7)
  <2>1. \A k \in Nat : IsFiniteSet(1..k)
    BY FS_Interval
  <2> QED
    BY <2>1
<1> QED
  BY <1>1, <1>2, ModelsWeigh

\* The result of a market in a native run.
NativeCovers(raw, m) == {i \in Components : BaseModel[i].computable /\ m \in Complete(raw, i)}

LEMMA NativeResultIs ==
    ASSUME NEW raw, RawOK(raw), ~TooFew(raw), NEW m \in DOMAIN raw
    PROVE  LET x == NativeResult(raw, m)
           IN  /\ x.covered = NativeCovers(raw, m) /\ x.covered \subseteq Components
               /\ DOMAIN x.earned = Components
               /\ \A i \in x.covered : x.earned[i] \in Nat
               /\ x.score = IF x.covered = {} THEN None
                            ELSE <<Sum(x.earned, x.covered), Weigh(BaseModel, x.covered)>>
               /\ Measurement(x.score, Scores)
<1> DEFINE covered == NativeCovers(raw, m)
           points == [i \in Components |-> IF i \in covered THEN Points(raw, i, m) ELSE None]
           score == IF covered = {} THEN None ELSE <<Sum(points, covered), Weigh(BaseModel, covered)>>
           x == NativeResult(raw, m)
<1>1. x = Result(points, covered, score)
  BY DEF NativeResult, NativeCovers
<1>2. x.earned = points /\ x.covered = covered /\ x.score = score
  BY <1>1 DEF Result
<1>3. covered \in SUBSET Components
  BY DEF NativeCovers
<1>4. ASSUME NEW i \in covered PROVE points[i] \in Nat
  <2>1. i \in Components /\ BaseModel[i].computable /\ m \in Complete(raw, i)
    BY DEF NativeCovers
  <2>2. Points(raw, i, m) \in Nat
    BY <2>1, PointsAreNatural
  <2> QED
    BY <2>1, <2>2
<1>5. DOMAIN points = Components
  OBVIOUS
<1> HIDE DEF points
<1>6. Sum(points, covered) \in Nat
  BY <1>3, <1>4, <1>5, ComponentsAre, SumOfParts
<1>7. covered # {} => Weigh(BaseModel, covered) \in Nat \ {0}
  <2>1. Weigh(BaseModel, covered) \in Nat /\ (covered # {} => Weigh(BaseModel, covered) > 0)
    BY <1>3, ComponentsAre, WeightsCompare
  <2> QED
    BY <2>1
<1>8. Measurement(score, Scores)
  BY <1>6, <1>7 DEF Measurement, Scores
<1> HIDE DEF covered, score, x
<1> QED
  BY <1>2, <1>3, <1>4, <1>5, <1>8 DEF covered, score, x

LEMMA GrowingProduct ==
    ASSUME NEW k \in Nat \ {0}, NEW x \in Nat, NEW y \in Nat, x < y
    PROVE  k * y > k * x
OBVIOUS

\* What is measured at zero counts against a market, what is not measured does not.
LEMMA UnknownOutscoresZero ==
    ASSUME NEW raw, RawOK(raw), ~TooFew(raw), NEW a \in DOMAIN raw, NEW b \in DOMAIN raw,
           NativeResult(raw, a).covered # NativeResult(raw, b).covered,
           NativeResult(raw, a).covered \subseteq NativeResult(raw, b).covered,
           \E i \in NativeResult(raw, a).covered : NativeResult(raw, a).earned[i] > 0,
           \A i \in NativeResult(raw, a).covered :
               NativeResult(raw, a).earned[i] = NativeResult(raw, b).earned[i],
           \A i \in NativeResult(raw, b).covered \ NativeResult(raw, a).covered :
               NativeResult(raw, b).earned[i] = 0
    PROVE  Better(NativeResult(raw, a).score, NativeResult(raw, b).score)
<1> DEFINE x == NativeResult(raw, a)
           y == NativeResult(raw, b)
<1>1. /\ x.covered \subseteq Components /\ y.covered \subseteq Components
      /\ DOMAIN x.earned = Components /\ DOMAIN y.earned = Components
      /\ \A i \in x.covered : x.earned[i] \in Nat
      /\ x.score = IF x.covered = {} THEN None ELSE <<Sum(x.earned, x.covered), Weigh(BaseModel, x.covered)>>
      /\ y.score = IF y.covered = {} THEN None ELSE <<Sum(y.earned, y.covered), Weigh(BaseModel, y.covered)>>
  BY NativeResultIs
<1> HIDE DEF x, y
<1>2. /\ x.covered # y.covered /\ x.covered \subseteq y.covered
      /\ \E i \in x.covered : x.earned[i] > 0
      /\ \A i \in x.covered : x.earned[i] = y.earned[i]
      /\ \A i \in y.covered \ x.covered : y.earned[i] = 0
  BY DEF x, y
<1> DEFINE earned == Sum(x.earned, x.covered)
<1>3. Sum(y.earned, y.covered) = earned
  <2>1. [i \in Components |-> IF i \in x.covered THEN x.earned[i] ELSE 0]
          = [i \in Components |-> IF i \in y.covered THEN y.earned[i] ELSE 0]
    BY <1>2
  <2> QED
    BY <2>1, <1>1 DEF Sum
<1>4. earned \in Nat \ {0}
  <2>1. /\ (\A i \in x.covered : x.earned[i] \in Nat) => earned \in Nat
        /\ (\A i \in x.covered : x.earned[i] \in Nat) /\ (\E i \in x.covered : x.earned[i] > 0) => earned > 0
    BY <1>1, ComponentsAre, SumOfParts
  <2> HIDE DEF earned
  <2> QED
    BY <2>1, <1>1, <1>2
<1> DEFINE less == Weigh(BaseModel, x.covered)
           more == Weigh(BaseModel, y.covered)
<1>5. less \in Nat /\ more \in Nat /\ less < more
  BY <1>1, <1>2, ComponentsAre, WeightsCompare
<1>6. x.score = <<earned, less>> /\ y.score = <<earned, more>>
  BY <1>1, <1>2, <1>3
<1> HIDE DEF earned, less, more
<1>7. earned * more > earned * less
  BY <1>4, <1>5, GrowingProduct
<1>8. Better(x.score, y.score)
  BY <1>6, <1>7 DEF Better
<1> QED
  BY <1>8 DEF x, y

-----------------------------------------------------------------------------
(***************************************************************************)
(* Confidence.                                                             *)
(***************************************************************************)

LEMMA DivisionIsMonotone ==
    ASSUME NEW x \in Nat, NEW y \in Nat, x <= y, NEW k \in Nat \ {0}
    PROVE  x \div k <= y \div k
<1> DEFINE p == x \div k
           q == y \div k
<1>1. p \in Int /\ k * p <= x /\ x < k * p + k
  OBVIOUS
<1>2. q \in Int /\ k * q <= y /\ y < k * q + k
  OBVIOUS
<1> HIDE DEF p, q
<1>3. ASSUME q < p PROVE FALSE
  <2> DEFINE z == p - (q + 1)
  <2>1. z \in Nat /\ p = (q + 1) + z
    BY <1>1, <1>2, <1>3
  <2> HIDE DEF z
  <2>2. k * z \in Nat
    BY <2>1, Products
  <2>3. k * p = k * q + k + k * z
    BY <2>1, <1>2
  <2>4. k * p \in Int /\ k * q \in Int
    BY <1>1, <1>2
  <2> QED
    BY <2>2, <2>3, <2>4, <1>1, <1>2
<1>4. p <= q
  BY <1>1, <1>2, <1>3
<1> QED
  BY <1>4 DEF p, q

LEMMA TotalIsPositive == TotalWeight(BaseModel) \in Nat \ {0}
<1> DEFINE S == DOMAIN BaseModel
<1>1. IsFiniteSet(S) /\ S # {} /\ \A i \in S : BaseModel[i].weight \in Nat \ {0}
  BY ComponentsAre
<1> HIDE DEF S
<1>2. Weigh(BaseModel, S) \in Nat /\ Weigh(BaseModel, S) > 0
  BY <1>1, WeightsCompare DEF S
<1> QED
  BY <1>2 DEF TotalWeight, S

LEMMA LabelIsWorth ==
    ASSUME NEW label
    PROVE  LabelWorth(label) \in Nat
BY DEF LabelWorth, LabelFactor

LEMMA ProductsCompare ==
    ASSUME NEW a \in Nat, NEW b \in Nat, NEW c \in Nat, b <= c
    PROVE  a * b <= a * c
OBVIOUS

\* Evidence is worth something, and the more the surer its source is of it.
LEMMA EvidenceGrows ==
    ASSUME NEW metric \in RawMetrics, NEW label, NEW surer, LabelWorth(label) <= LabelWorth(surer)
    PROVE  /\ EvidenceConfidence(FactOf[metric], RecencyOf[metric], label) \in Nat
           /\ EvidenceConfidence(FactOf[metric], RecencyOf[metric], label)
                <= EvidenceConfidence(FactOf[metric], RecencyOf[metric], surer)
<1> DEFINE fact == FactOf[metric]
           recency == RecencyOf[metric]
           f == IF fact = None THEN 0 ELSE FactFactor[fact]
           g == IF recency = None THEN 70 ELSE RecencyFactor[recency]
           h == LabelWorth(label)
<1>1. fact \in {"FACT", "PROXY", "INFERENCE"}
  BY DEF FactOf
<1>2. recency \in {"YEAR", "SNAPSHOT", "UNDATED"}
  BY DEF RecencyOf
<1> HIDE DEF fact, recency
<1>3. f \in Nat
  BY <1>1 DEF FactFactor
<1>4. g \in Nat
  BY <1>2 DEF RecencyFactor
<1>5. h \in Nat
  BY LabelIsWorth
<1>6. /\ EvidenceConfidence(FactOf[metric], RecencyOf[metric], label) = (f * g) * h
      /\ EvidenceConfidence(FactOf[metric], RecencyOf[metric], surer) = (f * g) * LabelWorth(surer)
  BY DEF EvidenceConfidence, fact, recency
<1> HIDE DEF f, g, h
<1>7. f * g \in Nat
  BY <1>3, <1>4, Products
<1>8. (f * g) * h \in Nat
  BY <1>5, <1>7, Products
<1>9. LabelWorth(surer) \in Nat /\ h <= LabelWorth(surer)
  BY LabelIsWorth DEF h
<1>a. (f * g) * h <= (f * g) * LabelWorth(surer)
  BY <1>5, <1>7, <1>9, ProductsCompare
<1> QED
  BY <1>6, <1>8, <1>a

LEMMA ComponentsHaveTerms ==
    ASSUME NEW i \in Components
    PROVE  /\ IsFiniteSet(DOMAIN BaseModel[i].terms)
           /\ Len(BaseModel[i].terms) \in Nat \ {0}
<1> DEFINE terms == BaseModel[i].terms
<1>1. terms \in Seq(TermSet)
  BY ModelHasTerms
<1>2. terms # <<>>
  <2>1. i = 1 \/ i = 2 \/ i = 3 \/ i = 4 \/ i = 5 \/ i = 6 \/ i = 7
    BY ComponentsAre
  <2>2. \A a, b, c : <<a>> # <<>> /\ <<a, b>> # <<>> /\ <<a, b, c>> # <<>>
    OBVIOUS
  <2>3. /\ \E a : BaseModel[2].terms = <<a>>
        /\ \E a : BaseModel[5].terms = <<a>>
        /\ \E a : BaseModel[7].terms = <<a>>
    BY DEF BaseModel
  <2>4. /\ \E a, b : BaseModel[1].terms = <<a, b>>
        /\ \E a, b : BaseModel[3].terms = <<a, b>>
    BY DEF BaseModel
  <2>5. /\ \E a, b, c : BaseModel[4].terms = <<a, b, c>>
        /\ \E a, b, c : BaseModel[6].terms = <<a, b, c>>
    BY DEF BaseModel
  <2> QED
    BY <2>1, <2>2, <2>3, <2>4, <2>5
<1> HIDE DEF terms
<1>3. Len(terms) \in Nat \ {0} /\ DOMAIN terms = 1..Len(terms)
  BY <1>1, <1>2
<1>4. IsFiniteSet(DOMAIN terms)
  BY <1>3, FS_Interval
<1> QED
  BY <1>3, <1>4 DEF terms

\* What the evidence for the terms of a component is worth.
Worth(raw, label, t) ==
    IF t.metric \in RawMetrics /\ raw[t.metric] # None
    THEN EvidenceConfidence(FactOf[t.metric], RecencyOf[t.metric], label) ELSE 0

LEMMA ComponentConfidenceIs ==
    ASSUME NEW raw, NEW label, NEW i \in Components
    PROVE  LET terms == BaseModel[i].terms
           IN  /\ ComponentConfidence(raw, label, i)
                    = SumFunction([n \in DOMAIN terms |-> Worth(raw, label, terms[n])]) \div Len(terms)
               /\ ComponentConfidence(raw, label, i) \in Nat
<1> DEFINE terms == BaseModel[i].terms
           f == [n \in DOMAIN terms |-> Worth(raw, label, terms[n])]
<1>1. ComponentConfidence(raw, label, i) = SumFunction(f) \div Len(terms)
  BY DEF ComponentConfidence, Worth
<1>2. ASSUME NEW n \in DOMAIN terms PROVE Worth(raw, label, terms[n]) \in Nat
  <2>1. LabelWorth(label) <= LabelWorth(label)
    BY LabelIsWorth
  <2> QED
    BY <2>1, EvidenceGrows DEF Worth
<1>3. f \in [DOMAIN terms -> Nat]
  BY <1>2
<1>4. IsFiniteSet(DOMAIN terms) /\ Len(terms) \in Nat \ {0}
  BY ComponentsHaveTerms
<1> HIDE DEF f, terms
<1>5. SumFunction(f) \in Nat
  BY <1>3, <1>4, SumIsNatural
<1>6. SumFunction(f) \div Len(terms) \in Nat
  BY <1>4, <1>5, Quotients
<1> QED
  BY <1>1, <1>6 DEF f, terms

\* Of markets measured on all of a component, the confidence in it follows how
\* sure their entries are.
LEMMA CompleteCompares ==
    ASSUME NEW x, NEW y, NEW label, NEW surer, LabelWorth(label) <= LabelWorth(surer),
           NEW i \in Components,
           \A n \in DOMAIN BaseModel[i].terms :
               LET metric == BaseModel[i].terms[n].metric
               IN  metric \in RawMetrics /\ x[metric] # None /\ y[metric] # None
    PROVE  ComponentConfidence(x, label, i) <= ComponentConfidence(y, surer, i)
<1> DEFINE terms == BaseModel[i].terms
           f == [n \in DOMAIN terms |-> Worth(x, label, terms[n])]
           g == [n \in DOMAIN terms |-> Worth(y, surer, terms[n])]
<1>1. ASSUME NEW n \in DOMAIN terms
      PROVE  /\ Worth(x, label, terms[n]) \in Nat /\ Worth(y, surer, terms[n]) \in Nat
             /\ Worth(x, label, terms[n]) <= Worth(y, surer, terms[n])
  <2>1. LabelWorth(surer) <= LabelWorth(surer)
    BY LabelIsWorth
  <2>2. /\ terms[n].metric \in RawMetrics
        /\ Worth(x, label, terms[n]) = EvidenceConfidence(FactOf[terms[n].metric], RecencyOf[terms[n].metric], label)
        /\ Worth(y, surer, terms[n]) = EvidenceConfidence(FactOf[terms[n].metric], RecencyOf[terms[n].metric], surer)
    BY DEF Worth
  <2> QED
    BY <2>1, <2>2, EvidenceGrows
<1>2. /\ f \in [DOMAIN terms -> Nat] /\ g \in [DOMAIN terms -> Nat]
      /\ \A n \in DOMAIN terms : f[n] <= g[n]
  BY <1>1
<1>3. IsFiniteSet(DOMAIN terms) /\ Len(terms) \in Nat \ {0}
  BY ComponentsHaveTerms
<1>4. /\ ComponentConfidence(x, label, i) = SumFunction(f) \div Len(terms)
      /\ ComponentConfidence(y, surer, i) = SumFunction(g) \div Len(terms)
  BY ComponentConfidenceIs
<1> HIDE DEF f, g, terms
<1>5. SumFunction(f) \in Nat /\ SumFunction(g) \in Nat
  BY <1>2, <1>3, SumIsNatural
<1>6. SumFunction(f) <= SumFunction(g)
  <2>1. f \in [DOMAIN terms -> Int] /\ g \in [DOMAIN terms -> Int]
    BY <1>2
  <2> QED
    BY <2>1, <1>2, <1>3, SumsCompare
<1> QED
  BY <1>3, <1>4, <1>5, <1>6, DivisionIsMonotone

LEMMA FactorsCompare ==
    ASSUME NEW a \in Nat, NEW b \in Nat, NEW c \in Nat, a <= b
    PROVE  a * c <= b * c
OBVIOUS

LEMMA ConfidenceGrows ==
    ASSUME NEW c \in [Components -> Nat], NEW d \in [Components -> Nat],
           NEW A \in SUBSET Components, NEW B \in SUBSET Components, A \subseteq B,
           \A i \in A : c[i] <= d[i]
    PROVE  AggregateConfidence(c, A) <= AggregateConfidence(d, B)
<1> DEFINE f == [i \in Components |-> IF i \in A THEN c[i] * BaseModel[i].weight ELSE 0]
           g == [i \in Components |-> IF i \in B THEN d[i] * BaseModel[i].weight ELSE 0]
<1>1. /\ AggregateConfidence(c, A) = SumFunction(f) \div TotalWeight(BaseModel)
      /\ AggregateConfidence(d, B) = SumFunction(g) \div TotalWeight(BaseModel)
  BY DEF AggregateConfidence
<1>2. \A i \in Components : c[i] * BaseModel[i].weight \in Nat /\ d[i] * BaseModel[i].weight \in Nat
  BY ComponentsAre, Products
<1>3. f \in [Components -> Nat] /\ g \in [Components -> Nat]
  BY <1>2
<1>4. ASSUME NEW i \in Components PROVE f[i] <= g[i]
  <2>1. CASE i \in A
    <3>1. /\ BaseModel[i].weight \in Nat /\ c[i] \in Nat /\ d[i] \in Nat /\ c[i] <= d[i]
          /\ f[i] = c[i] * BaseModel[i].weight /\ g[i] = d[i] * BaseModel[i].weight
      BY <2>1, ComponentsAre
    <3> QED
      BY <3>1, FactorsCompare
  <2>2. CASE i \notin A
    <3>1. f[i] = 0 /\ g[i] \in Nat
      BY <1>3, <2>2
    <3> QED
      BY <3>1
  <2> QED
    BY <2>1, <2>2
<1> HIDE DEF f, g
<1>5. SumFunction(f) \in Nat /\ SumFunction(g) \in Nat
  BY <1>3, ComponentsAre, SumIsNatural
<1>6. SumFunction(f) <= SumFunction(g)
  <2>1. f \in [Components -> Int] /\ g \in [Components -> Int]
    BY <1>3
  <2> QED
    BY <2>1, <1>4, ComponentsAre, SumsCompare
<1> QED
  BY <1>1, <1>5, <1>6, TotalIsPositive, DivisionIsMonotone

-----------------------------------------------------------------------------
(***************************************************************************)
(* Contextual scores.                                                      *)
(***************************************************************************)

\* The evidence stored for a market, each in its range.
KnownOK(known) ==
    /\ Measurement(known.base, Int)
    /\ Measurement(known.fit, Int) /\ Measurement(known.icp, Int)
    /\ Measurement(known.ticket, Int \X Int)
    /\ \A metric \in Metrics : Measurement(known.raw[metric], 0..TopValue)

LEMMA QuotientIsNumber ==
    ASSUME NEW a \in Int, NEW b \in Nat \ {0}
    PROVE  a \div b \in Int
OBVIOUS

LEMMA PriorIsNumber ==
    ASSUME NEW known, KnownOK(known), NEW request
    PROVE  Measurement(Prior(known, request).value, Int)
BY DEF Prior, Answer, KnownOK, Measurement

LEMMA TicketIsNumber ==
    ASSUME NEW known, KnownOK(known), NEW request, Measurement(request.ticket, Int)
    PROVE  Measurement(TicketFit(known, request).value, Int)
<1>1. CASE request.ticket = None \/ known.ticket = None
  BY <1>1 DEF TicketFit, Answer, Measurement
<1>2. CASE request.ticket # None /\ known.ticket # None
  <2> DEFINE t == request.ticket
             low == known.ticket[1]
             high == known.ticket[2]
             lo == Least(low, high)
             hi == Greatest(low, high)
             distance == Greatest(lo - t, t - hi)
             width == Greatest(hi - lo, 1)
  <2>1. t \in Int /\ low \in Int /\ high \in Int
    BY <1>2 DEF KnownOK, Measurement
  <2>2. TicketFit(known, request).value = Overlap(t, low, high)
    BY <1>2 DEF TicketFit, Answer
  <2>3. Overlap(t, low, high) = IF distance <= 0 THEN Precision
                                ELSE Greatest(0, Precision - (distance * Precision) \div width)
    BY DEF Overlap
  <2> HIDE DEF t, low, high
  <2>4. lo \in Int /\ hi \in Int
    BY <2>1 DEF Least, Greatest
  <2> HIDE DEF lo, hi
  <2>5. distance \in Int /\ width \in Nat \ {0}
    BY <2>1, <2>4 DEF Greatest
  <2> HIDE DEF distance, width
  <2>6. distance * Precision \in Int
    BY <2>5 DEF Precision
  <2>7. (distance * Precision) \div width \in Int
    BY <2>5, <2>6, QuotientIsNumber
  <2> DEFINE q == (distance * Precision) \div width
  <2> HIDE DEF q
  <2>8. Greatest(0, Precision - q) \in Int /\ Precision \in Int
    BY <2>7 DEF q, Greatest, Precision
  <2> QED
    BY <2>2, <2>3, <2>8 DEF Measurement, q
<1> QED
  BY <1>1, <1>2

LEMMA ReuseIsNumber ==
    ASSUME NEW known, KnownOK(known), NEW request
    PROVE  Measurement(StrategicReuse(known, request).value, Int)
<1>1. CASE known.raw["language"] = None
  BY <1>1 DEF StrategicReuse, Answer, Measurement
<1>2. CASE known.raw["language"] # None
  <2> DEFINE x == known.raw["language"]
             language == (x * Precision) \div TopValue
  <2>1. x \in Nat
    <3>1. "language" \in Metrics
      BY DEF Metrics, RawMetrics
    <3> QED
      BY <1>2, <3>1, TopValueIsPositive DEF KnownOK, Measurement
  <2>2. StrategicReuse(known, request).value
          \in {language, (3 * language) \div 4 + 250, (3 * language) \div 4 + 100}
    BY <1>2 DEF StrategicReuse, Answer
  <2> HIDE DEF x
  <2>3. x * Precision \in Nat
    BY <2>1 DEF Precision
  <2>4. language \in Nat
    BY <2>3, TopValueIsPositive, Quotients
  <2> HIDE DEF language
  <2>5. 3 * language \in Nat
    BY <2>4
  <2>6. (3 * language) \div 4 \in Nat
    BY <2>5, Quotients
  <2> QED
    BY <2>2, <2>4, <2>6 DEF Measurement
<1> QED
  BY <1>1, <1>2

LEMMA ChannelIsNumber ==
    ASSUME NEW known, KnownOK(known), NEW request,
           request.channel \in {None} \cup DOMAIN ChannelAccess
    PROVE  Measurement(ChannelAccessibility(known, request).value, Int)
<1>1. CASE request.channel = None
  BY <1>1 DEF ChannelAccessibility, Answer, Measurement
<1>2. CASE request.channel # None
  <2> DEFINE inputs == ChannelAccess[request.channel]
             used == Passing(inputs, LAMBDA t : known.raw[t.metric] # None)
             parts == [n \in DOMAIN used |-> used[n].weight * known.raw[used[n].metric]]
             T == {t \in TermSet : known.raw[t.metric] # None}
  <2>1. inputs \in Seq(TermSet)
    BY <1>2, ChannelTerms
  <2>2. ChannelAccessibility(known, request).value
          = IF used = <<>> THEN None
            ELSE (SumFunction(parts) * Precision) \div (TotalWeight(used) * TopValue)
    BY <1>2 DEF ChannelAccessibility, Answer
  <2> HIDE DEF inputs
  <2>3. used \in Seq(T)
    <3> DEFINE ss == [n \in DOMAIN inputs |-> IF known.raw[inputs[n].metric] # None
                                              THEN <<inputs[n]>> ELSE <<>>]
    <3>1. \A n \in DOMAIN inputs : inputs[n] \in TermSet
      BY <2>1
    <3>2. \A n \in DOMAIN inputs : ss[n] \in Seq(T)
      <4> SUFFICES ASSUME NEW n \in DOMAIN inputs PROVE ss[n] \in Seq(T)
        OBVIOUS
      <4>1. CASE known.raw[inputs[n].metric] # None
        <5>1. inputs[n] \in T
          BY <3>1, <4>1
        <5> HIDE DEF T
        <5> QED
          BY <4>1, <5>1, ShortSequences
      <4>2. CASE known.raw[inputs[n].metric] = None
        <5> HIDE DEF T
        <5> QED
          BY <4>2, ShortSequences
      <4> QED
        BY <4>1, <4>2
    <3>3. DOMAIN inputs = 1..Len(inputs) /\ Len(inputs) \in Nat /\ DOMAIN ss = DOMAIN inputs
      BY <2>1
    <3>4. used = FlattenSeq(ss)
      BY DEF Passing
    <3> HIDE DEF ss, T, used
    <3>5. ss \in Seq(Seq(T))
      <4>1. ss = [n \in 1..Len(inputs) |-> ss[n]]
        BY <3>3 DEF ss
      <4> QED
        BY <3>2, <3>3, <4>1
    <3> QED
      BY <3>4, <3>5, FlatteningHolds
  <2> HIDE DEF used
  <2>4. DOMAIN used = 1..Len(used) /\ Len(used) \in Nat /\ \A n \in DOMAIN used : used[n] \in T
    <3> HIDE DEF T
    <3> QED
      BY <2>3
  <2>5. IsFiniteSet(DOMAIN used)
    BY <2>4, FS_Interval
  <2>6. ASSUME NEW n \in DOMAIN used
        PROVE  used[n].weight \in Nat \ {0} /\ known.raw[used[n].metric] \in Nat
    <3>1. used[n] \in TermSet /\ known.raw[used[n].metric] # None
      BY <2>4
    <3>2. used[n].weight \in Nat \ {0} /\ used[n].metric \in Metrics
      BY <3>1 DEF TermSet
    <3> QED
      BY <3>1, <3>2, TopValueIsPositive DEF KnownOK, Measurement
  <2>7. SumFunction(parts) \in Nat
    <3>1. \A n \in DOMAIN used : used[n].weight * known.raw[used[n].metric] \in Nat
      BY <2>6, Products
    <3>2. parts \in [DOMAIN used -> Nat]
      BY <3>1
    <3> HIDE DEF parts
    <3> QED
      BY <3>2, <2>5, SumIsNatural
  <2>8. used # <<>> => TotalWeight(used) \in Nat \ {0}
    <3> SUFFICES ASSUME used # <<>> PROVE TotalWeight(used) \in Nat \ {0}
      OBVIOUS
    <3> DEFINE S == DOMAIN used
    <3>1. S # {}
      <4> HIDE DEF T
      <4>1. Len(used) # 0
        BY <2>3
      <4> QED
        BY <4>1, <2>4
    <3>2. IsFiniteSet(S) /\ \A n \in S : used[n].weight \in Nat \ {0}
      BY <2>5, <2>6
    <3> HIDE DEF S
    <3>3. Weigh(used, S) \in Nat /\ Weigh(used, S) > 0
      BY <3>1, <3>2, WeightsCompare DEF S
    <3> QED
      BY <3>3 DEF TotalWeight, S
  <2> DEFINE earned == SumFunction(parts)
             weight == TotalWeight(used)
  <2> HIDE DEF parts, earned, weight
  <2>9. CASE used # <<>>
    <3>1. earned * Precision \in Int
      BY <2>7 DEF earned, Precision
    <3>2. weight * TopValue \in Nat \ {0}
      BY <2>8, <2>9, TopValueIsPositive DEF weight
    <3>3. (earned * Precision) \div (weight * TopValue) \in Int
      BY <3>1, <3>2, QuotientIsNumber
    <3> QED
      BY <3>3, <2>2, <2>9 DEF Measurement, earned, weight
  <2>10. CASE used = <<>>
    BY <2>2, <2>10 DEF Measurement
  <2> QED
    BY <2>9, <2>10
<1> QED
  BY <1>1, <1>2

LEMMA HandlerIsNumber ==
    ASSUME NEW known, KnownOK(known), NEW request, Measurement(request.ticket, Int),
           request.channel \in {None} \cup DOMAIN ChannelAccess, NEW key \in Handlers
    PROVE  Measurement(Handle(key, known, request).value, Int)
<1>1. Handle("prior", known, request) = Prior(known, request)
  BY DEF Handle
<1>2. Handle("vertical", known, request) = VerticalFit(known, request)
  BY DEF Handle
<1>3. Handle("icp", known, request) = IcpAvailability(known, request)
  BY DEF Handle
<1>4. Handle("ticket", known, request) = TicketFit(known, request)
  BY DEF Handle
<1>5. Handle("channel", known, request) = ChannelAccessibility(known, request)
  BY DEF Handle
<1>6. Handle("reuse", known, request) = StrategicReuse(known, request)
  BY DEF Handle
<1>7. Measurement(VerticalFit(known, request).value, Int)
  BY DEF VerticalFit, Answer, KnownOK, Measurement
<1>8. Measurement(IcpAvailability(known, request).value, Int)
  BY DEF IcpAvailability, Answer, KnownOK, Measurement
<1>9. /\ Measurement(Handle("prior", known, request).value, Int)
      /\ Measurement(Handle("vertical", known, request).value, Int)
      /\ Measurement(Handle("icp", known, request).value, Int)
      /\ Measurement(Handle("ticket", known, request).value, Int)
      /\ Measurement(Handle("channel", known, request).value, Int)
      /\ Measurement(Handle("reuse", known, request).value, Int)
  BY <1>1, <1>2, <1>3, <1>4, <1>5, <1>6, <1>7, <1>8, PriorIsNumber, TicketIsNumber,
     ChannelIsNumber, ReuseIsNumber
<1> QED
  BY <1>9 DEF Handlers

LEMMA ContextualScore ==
    ASSUME NEW known, KnownOK(known), NEW request, Measurement(request.ticket, Int),
           request.channel \in {None} \cup DOMAIN ChannelAccess
    PROVE  Measurement(ContextualResult(known, request).score, Scores)
<1> DEFINE S == 1..6
           value(i) == Handle(ContextualModel[i].key, known, request).value
           covered == {i \in S : value(i) # None}
           points == [i \in S |-> IF i \in covered
                                  THEN ContextualModel[i].weight * Least(Precision, Greatest(0, value(i)))
                                  ELSE None]
           score == IF covered = {} THEN None
                    ELSE <<Sum(points, covered), Weigh(ContextualModel, covered)>>
<1>1. /\ DOMAIN ContextualModel = S /\ \A i \in S : ContextualModel[i].key \in Handlers
      /\ \A i \in S : ContextualModel[i].weight \in Nat \ {0}
  BY ModelsWeigh DEF ContextualModel, Handlers
<1>2. ContextualResult(known, request).score = score
  <2> DEFINE answers == [i \in DOMAIN ContextualModel |-> Handle(ContextualModel[i].key, known, request)]
  <2>1. DOMAIN answers = S /\ \A i \in S : answers[i].value = value(i)
    BY <1>1
  <2>2. {i \in DOMAIN answers : answers[i].value # None} = covered
    BY <2>1
  <2>3. [i \in DOMAIN answers |->
            IF i \in {j \in DOMAIN answers : answers[j].value # None}
            THEN ContextualModel[i].weight * Least(Precision, Greatest(0, answers[i].value))
            ELSE None] = points
    BY <2>1, <2>2
  <2> HIDE DEF covered, points, value
  <2>4. ContextualResult(known, request) = Result(points, covered, score)
    BY <2>2, <2>3 DEF ContextualResult
  <2> QED
    BY <2>4 DEF Result
<1>3. ASSUME NEW i \in covered PROVE points[i] \in Int
  <2>1. Measurement(value(i), Int) /\ value(i) # None
    BY <1>1, HandlerIsNumber
  <2>2. value(i) \in Int
    BY <2>1 DEF Measurement
  <2>3. points[i] = ContextualModel[i].weight * Least(Precision, Greatest(0, value(i)))
    OBVIOUS
  <2> DEFINE v == value(i)
  <2> HIDE DEF value, v
  <2>4. Least(Precision, Greatest(0, v)) \in Nat
    BY <2>2 DEF v, Least, Greatest, Precision
  <2>5. ContextualModel[i].weight \in Nat
    BY <1>1
  <2>6. ContextualModel[i].weight * Least(Precision, Greatest(0, v)) \in Nat
    BY <2>4, <2>5, Products
  <2> QED
    BY <2>3, <2>6 DEF v
<1>4. IsFiniteSet(S)
  <2>1. \A k \in Nat : IsFiniteSet(1..k)
    BY FS_Interval
  <2> QED
    BY <2>1
<1>5. DOMAIN points = S /\ covered \in SUBSET S
  OBVIOUS
<1> HIDE DEF points, covered, S
<1>6. Sum(points, covered) \in Int
  BY <1>3, <1>4, <1>5, SumOfParts
<1>7. Weigh(ContextualModel, covered) \in Nat /\ (covered # {} => Weigh(ContextualModel, covered) > 0)
  BY <1>1, <1>4, <1>5, WeightsCompare
<1> QED
  BY <1>2, <1>6, <1>7 DEF Measurement, Scores

-----------------------------------------------------------------------------
(***************************************************************************)
(* A run, when it is computed.                                             *)
(***************************************************************************)

\* What the invariants say of one run.
WellScored(r) == \A m \in DOMAIN r.score : Measurement(r.score[m], Scores)

Stands(r) ==
    r.kind # "imported_reference" =>
        \A m \in DOMAIN r.rank :
            /\ r.rank[m] # None => Comparable(r, m) /\ r.rank[m] = Standing(r, m)
            /\ r.kind # "contextual" /\ Comparable(r, m) => r.rank[m] # None

Renormalises(r) ==
    r.kind = "native_recalculation" =>
        \A a, b \in DOMAIN r.score :
            /\ r.covered[a] # r.covered[b] /\ r.covered[a] \subseteq r.covered[b]
            /\ \E i \in r.covered[a] : r.earned[a][i] > 0
            /\ \A i \in r.covered[a] : r.earned[a][i] = r.earned[b][i]
            /\ \A i \in r.covered[b] \ r.covered[a] : r.earned[b][i] = 0
            => Better(r.score[a], r.score[b])

Confides(r) ==
    r.kind = "native_recalculation" =>
        \A a, b \in DOMAIN r.score :
            LET label == Content[r.document].label
            IN  r.covered[a] \subseteq r.covered[b] /\ LabelWorth(label[a]) <= LabelWorth(label[b])
                    => Confidence(r, a) <= Confidence(r, b)

\* Of a document that the tables took.
Reproduces(r) ==
    LET d == r.document
    IN  /\ r.kind = "reference_reproduction" /\ Valid(d) /\ ~BreaksConstraint(d)
        /\ Consistent(d) /\ r.home \subseteq {Content[d].home}
        => \A m \in Content[d].ranked :
              r.score[m] = Published(Content[d].total[m]) /\ r.rank[m] = Content[d].rank[m]

Graded(r) == WellScored(r) /\ Stands(r) /\ Renormalises(r) /\ Confides(r) /\ Reproduces(r)

\* A run that ranks the comparable ones of its markets.
LEMMA RankedStands ==
    ASSUME NEW r, NEW universe \in SUBSET Markets, NEW S \in SUBSET universe,
           DOMAIN r.score = universe, \A m \in S : r.score[m] \in Scores,
           r.score = [m \in universe |-> r.score[m]],
           r.rank = Ranked(S, r.score),
           \A m \in S : Comparable(r, m),
           r.kind # "contextual" => \A m \in universe : Comparable(r, m) => m \in S
    PROVE  /\ Stands(r) /\ DOMAIN r.rank = universe
           /\ \A m \in S : r.rank[m] = Cardinality(Above(S, r.score, m)) + 1
<1> DEFINE score == r.score
<1>1. /\ DOMAIN r.rank = universe
      /\ \A m \in universe : r.rank[m] = IF m \in S THEN CompetitionRanks(S, score)[m] ELSE None
  BY DEF Ranked
<1>2. S \in SUBSET Markets /\ IsFiniteSet(S)
  BY MarketsAreNumbers, FS_Subset
<1>3. ASSUME NEW m \in S
      PROVE  r.rank[m] = Cardinality(Above(S, score, m)) + 1 /\ r.rank[m] \in Int
  <2>1. CompetitionRanks(S, score)[m] = Cardinality(Above(S, score, m)) + 1
    BY <1>2, RankIsStanding
  <2>2. Cardinality(Above(S, score, m)) \in Nat
    BY <1>2, FS_Subset, FS_CardinalityType DEF Above
  <2> QED
    BY <1>1, <2>1, <2>2
<1>4. \A m \in universe : r.rank[m] # None <=> m \in S
  BY <1>1, <1>3, NoneIsNoNumber
<1>5. ASSUME NEW m \in S PROVE r.rank[m] = Standing(r, m)
  <2>1. {k \in DOMAIN r.rank : r.rank[k] # None /\ Better(r.score[k], r.score[m])} = Above(S, score, m)
    BY <1>1, <1>4 DEF Above
  <2>2. Standing(r, m) = 1 + Cardinality(Above(S, score, m))
    BY <2>1 DEF Standing
  <2>3. Cardinality(Above(S, score, m)) \in Nat
    BY <1>2, FS_Subset, FS_CardinalityType DEF Above
  <2> QED
    BY <1>3, <2>2, <2>3
<1>6. Stands(r)
  BY <1>1, <1>4, <1>5 DEF Stands
<1> QED
  BY <1>1, <1>3, <1>6

LEMMA ScoreIsNotNone == \A x \in Scores : x # None
<1> SUFFICES ASSUME NEW x \in Scores PROVE x # None
  OBVIOUS
<1>1. PICK a \in Int, b \in Nat \ {0} : x = <<a, b>>
  BY DEF Scores
<1>2. <<a, b>> \in Int \X Int
  OBVIOUS
<1> QED
  BY <1>1, <1>2, NoneIsNoNumber

LEMMA PublishedIsScore ==
    ASSUME NEW points \in 0..100
    PROVE  Published(points) \in Scores
<1>1. points * Unit \in Int
  BY UnitIsExact
<1> QED
  BY <1>1, TotalIsPositive DEF Published, Scores

LEMMA ReferenceIsGraded ==
    ASSUME NEW d \in DOMAIN Content, Valid(d)
    PROVE  Graded(ReferenceRun(d)) /\ ReferenceRun(d).document = d
<1> DEFINE r == ReferenceRun(d)
           universe == Scored(d) \cup Content[d].universe
           result == [m \in universe |->
                        IF m \in Scored(d)
                        THEN Result(Content[d].parts[m], Components, Published(Content[d].total[m]))
                        ELSE Result(<<>>, {}, Published(Content[d].total[m]))]
           rank == [m \in universe |-> IF m \in Content[d].ranked THEN Content[d].rank[m] ELSE None]
<1>1. r = Run("imported_reference", d, home \cup {Content[d].home}, universe, result, rank, NothingMissing(universe))
  BY DEF ReferenceRun
<1>2. \A m \in universe : result[m].score = Published(Content[d].total[m])
  BY DEF Result
<1>3. \A m \in universe : Published(Content[d].total[m]) \in Scores
  BY PublishedIsScore DEF Valid
<1> HIDE DEF result, rank, r, universe
<1>4. r.kind = "imported_reference" /\ r.document = d /\ r.score = [m \in universe |-> result[m].score]
  BY <1>1 DEF Run
<1>5. WellScored(r)
  BY <1>2, <1>3, <1>4 DEF WellScored, Measurement
<1>6. Stands(r) /\ Renormalises(r) /\ Confides(r) /\ Reproduces(r)
  BY <1>4 DEF Stands, Renormalises, Confides, Reproduces
<1> QED
  BY <1>4, <1>5, <1>6 DEF Graded, r

LEMMA ReproducedResultIs ==
    ASSUME NEW parts, DOMAIN parts = Components, PointsWithin(parts)
    PROVE  LET x == ReproducedResult(parts)
           IN  x.covered = Components /\ x.score \in Scores /\ x.score # None /\ HalfCovered(BaseModel, x.covered)
<1> DEFINE covered == {i \in Components : parts[i] # None}
           score == <<Sum(parts, covered) * Unit, TotalWeight(BaseModel)>>
           x == ReproducedResult(parts)
<1>1. \A i \in Components : parts[i] \in Nat /\ parts[i] # None
  BY ComponentsAre, NoneIsNoNumber DEF PointsWithin
<1>2. covered = Components
  BY <1>1
<1>3. Sum(parts, covered) \in Nat
  BY <1>1, <1>2, ComponentsAre, SumOfParts
<1>4. Sum(parts, covered) * Unit \in Nat
  BY <1>3, UnitIsExact, Products
<1>5. x.covered = covered /\ x.score = score
  BY DEF ReproducedResult, Result
<1>6. score \in Scores
  BY <1>4, TotalIsPositive DEF Scores
<1>7. HalfCovered(BaseModel, Components)
  <2>1. Weigh(BaseModel, Components) = TotalWeight(BaseModel)
    BY ComponentsAre DEF TotalWeight
  <2> QED
    BY <2>1, TotalIsPositive DEF HalfCovered
<1>8. score # None
  BY <1>6, ScoreIsNotNone
<1> HIDE DEF score, covered, x
<1> QED
  BY <1>2, <1>5, <1>6, <1>7, <1>8 DEF x

\* What a document says of a market is in range or missing.
LEMMA RawIsMeasured ==
    ASSUME NEW d \in DOMAIN Content, NEW m, NEW metric \in Metrics
    PROVE  Measurement(Raw(d, m)[metric], 0..TopValue)
<1>1. Raw(d, m)[metric] = IF m \in Scored(d) /\ metric \in RawMetrics THEN Content[d].raw[m][metric] ELSE None
  BY DEF Raw
<1>2. m \in Scored(d) /\ metric \in RawMetrics => Measurement(Content[d].raw[m][metric], 0..TopValue)
  BY MarketAssumption DEF Scored
<1> QED
  BY <1>1, <1>2 DEF Measurement

\* A score that is stored is a number, whatever its run counted in.
LEMMA StoredIsNumber ==
    ASSUME NEW base, WellScored(base), NEW m
    PROVE  Measurement(Stored(base, m), Int)
<1> DEFINE whole == IF base.kind = "contextual" THEN Precision ELSE Unit
           a == base.score[m][1]
           b == base.score[m][2]
<1>1. CASE m \notin DOMAIN base.score \/ base.score[m] = None
  BY <1>1 DEF Stored, Measurement
<1>2. CASE m \in DOMAIN base.score /\ base.score[m] # None
  <2>1. a \in Int /\ b \in Nat \ {0}
    BY <1>2 DEF WellScored, Measurement, Scores
  <2>2. whole \in Nat \ {0}
    BY UnitIsExact DEF Precision
  <2>3. Stored(base, m) = (a * Precision) \div (b * whole)
    BY <1>2 DEF Stored
  <2> HIDE DEF a, b, whole
  <2>4. a * Precision \in Int
    BY <2>1 DEF Precision
  <2>5. b * whole \in Nat \ {0}
    BY <2>1, <2>2
  <2>6. (a * Precision) \div (b * whole) \in Int
    BY <2>4, <2>5, QuotientIsNumber
  <2> QED
    BY <2>3, <2>6 DEF Measurement
<1> QED
  BY <1>1, <1>2

LEMMA KnownIsOK ==
    ASSUME NEW d \in DOMAIN Content, NEW base, WellScored(base), NEW m \in Markets
    PROVE  KnownOK(Known(d, m, base))
<1> DEFINE known == Known(d, m, base)
<1>1. /\ known.base = Stored(base, m)
      /\ known.fit = Content[d].fit[m] /\ known.icp = Content[d].icp[m]
      /\ known.ticket = Content[d].ticket[m] /\ known.raw = Raw(d, m)
  BY DEF Known
<1>2. Measurement(known.base, Int)
  BY <1>1, StoredIsNumber
<1>3. /\ Measurement(Content[d].fit[m], Int) /\ Measurement(Content[d].icp[m], Int)
      /\ Measurement(Content[d].ticket[m], Int \X Int)
  BY MarketAssumption
<1>4. \A metric \in Metrics : Measurement(Raw(d, m)[metric], 0..TopValue)
  BY RawIsMeasured
<1> HIDE DEF known
<1> QED
  BY <1>1, <1>2, <1>3, <1>4 DEF KnownOK, known

LEMMA ContextualIsGraded ==
    ASSUME NEW d \in DOMAIN Content, NEW base, WellScored(base), NEW context,
           context.markets \in SUBSET Markets,
           context.channel \in {None} \cup DOMAIN ChannelAccess,
           Measurement(context.ticket, Int)
    PROVE  Graded(ContextualRun(d, base, context)) /\ ContextualRun(d, base, context).document = d
<1> DEFINE universe == context.markets
           known == [m \in universe |-> Known(d, m, base)]
           result == [m \in universe |-> ContextualResult(known[m], context)]
           score == [m \in universe |-> result[m].score]
           S == EligibleForContext(result, context.allowLowCoverage)
           missing == [m \in universe |-> ContextualGaps(known[m], context)]
           r == ContextualRun(d, base, context)
<1>1. r = Run("contextual", d, home, universe, result, Ranked(S, score), missing)
  BY DEF ContextualRun
<1>2. \A m \in universe : KnownOK(known[m])
  BY KnownIsOK
<1>3. \A m \in universe : Measurement(score[m], Scores)
  <2>1. \A m \in universe : Measurement(ContextualResult(known[m], context).score, Scores)
    BY <1>2, ContextualScore
  <2> QED
    BY <2>1
<1>4. S \in SUBSET universe /\ \A m \in S : score[m] # None
  BY DEF EligibleForContext
<1>5. DOMAIN score = universe /\ score = [m \in universe |-> score[m]]
  OBVIOUS
<1>6. score = [m \in universe |-> result[m].score]
  OBVIOUS
<1>7. \A m \in S : score[m] \in Scores
  BY <1>3, <1>4 DEF Measurement
<1> HIDE DEF result, known, missing, r, S, score, universe
<1>8. r.kind = "contextual" /\ r.document = d /\ r.score = score /\ r.rank = Ranked(S, score)
  BY <1>1, <1>6 DEF Run
<1>9. \A m \in S : Comparable(r, m)
  BY <1>4, <1>8 DEF Comparable
<1>10. universe \in SUBSET Markets
  BY DEF universe
<1>11. Stands(r)
  <2>1. /\ DOMAIN r.score = universe /\ \A m \in S : r.score[m] \in Scores
        /\ r.score = [m \in universe |-> r.score[m]] /\ r.rank = Ranked(S, r.score)
    BY <1>5, <1>7, <1>8
  <2>2. r.kind # "contextual" => \A m \in universe : Comparable(r, m) => m \in S
    BY <1>8
  <2> QED
    BY <1>4, <1>9, <1>10, <2>1, <2>2, RankedStands
<1>12. WellScored(r)
  BY <1>3, <1>5, <1>8 DEF WellScored
<1>13. Renormalises(r) /\ Confides(r) /\ Reproduces(r)
  BY <1>8 DEF Renormalises, Confides, Reproduces
<1> QED
  BY <1>8, <1>11, <1>12, <1>13 DEF Graded, r

\* Confidence over what two markets are covered by.
LEMMA ConfidenceCompares ==
    ASSUME NEW raw, NEW label, NEW surer, LabelWorth(label) <= LabelWorth(surer), NEW a, NEW b,
           NEW A \in SUBSET Components, NEW B \in SUBSET Components, A \subseteq B,
           \A i \in A : Missing(raw, i, a) = <<>> /\ Missing(raw, i, b) = <<>>,
           \A i \in A : \A n \in DOMAIN BaseModel[i].terms : BaseModel[i].terms[n].metric \in RawMetrics
    PROVE  AggregateConfidence([i \in Components |-> ComponentConfidence(raw[a], label, i)], A)
             <= AggregateConfidence([i \in Components |-> ComponentConfidence(raw[b], surer, i)], B)
<1> DEFINE c == [i \in Components |-> ComponentConfidence(raw[a], label, i)]
           e == [i \in Components |-> ComponentConfidence(raw[b], surer, i)]
<1>1. c \in [Components -> Nat] /\ e \in [Components -> Nat]
  <2>1. \A i \in Components : ComponentConfidence(raw[a], label, i) \in Nat /\ ComponentConfidence(raw[b], surer, i) \in Nat
    BY ComponentConfidenceIs
  <2> QED
    BY <2>1
<1>2. ASSUME NEW i \in A PROVE c[i] <= e[i]
  <2>1. \A n \in DOMAIN BaseModel[i].terms :
            /\ raw[a][BaseModel[i].terms[n].metric] # None
            /\ raw[b][BaseModel[i].terms[n].metric] # None
    BY NothingMissed
  <2>2. \A n \in DOMAIN BaseModel[i].terms :
            LET metric == BaseModel[i].terms[n].metric
            IN  metric \in RawMetrics /\ raw[a][metric] # None /\ raw[b][metric] # None
    BY <2>1
  <2>3. ComponentConfidence(raw[a], label, i) <= ComponentConfidence(raw[b], surer, i)
    BY <2>2, CompleteCompares
  <2> QED
    BY <2>3
<1> HIDE DEF c, e
<1>3. AggregateConfidence(c, A) <= AggregateConfidence(e, B)
  BY <1>1, <1>2, ConfidenceGrows
<1> QED
  BY <1>3 DEF c, e

LEMMA NativeIsGraded ==
    ASSUME NEW d \in DOMAIN Content, NEW flagged, ~NativeFails(d)
    PROVE  Graded(NativeRun(d, flagged)) /\ NativeRun(d, flagged).document = d
<1> DEFINE universe == Universe(d)
           raw == [m \in universe |-> Raw(d, m)]
           result == [m \in universe |-> NativeResult(raw, m)]
           score == [m \in universe |-> result[m].score]
           S == EligibleForBase(result, flagged)
           missing == [m \in universe |-> NativeGaps(raw, m)]
           r == NativeRun(d, flagged)
<1>1. r = Run("native_recalculation", d, flagged, universe, result, Ranked(S, score), missing)
  BY DEF NativeRun
<1>2. universe \in SUBSET Markets /\ IsFiniteSet(universe)
  <2>1. universe \in SUBSET Markets
    BY MarketAssumption DEF Universe, Scored
  <2> QED
    BY <2>1, MarketsAreNumbers, FS_Subset
<1>3. RawOK(raw) /\ ~TooFew(raw) /\ DOMAIN raw = universe
  <2>1. \A m \in universe : \A metric \in Metrics : Measurement(raw[m][metric], 0..TopValue)
    BY RawIsMeasured
  <2> QED
    BY <1>2, <2>1 DEF RawOK, NativeFails
<1>4. \A m \in universe : \A metric : raw[m][metric] = Raw(d, m)[metric]
  OBVIOUS
<1>5. \A m \in universe : raw[m] = Raw(d, m)
  OBVIOUS
<1>6. \A m \in universe : result[m] = NativeResult(raw, m) /\ score[m] = NativeResult(raw, m).score
  OBVIOUS
<1>7. S = {m \in universe : /\ score[m] # None /\ m \notin flagged
                            /\ HalfCovered(BaseModel, NativeResult(raw, m).covered)}
  BY DEF EligibleForBase
<1>8. DOMAIN score = universe /\ score = [m \in universe |-> score[m]]
  OBVIOUS
<1>9. /\ r.kind = "native_recalculation" /\ r.document = d /\ r.score = score /\ r.home = flagged
      /\ r.rank = Ranked(S, score)
      /\ \A m \in universe : /\ r.earned[m] = NativeResult(raw, m).earned
                             /\ r.covered[m] = NativeResult(raw, m).covered
  <2>1. /\ r.earned = [m \in universe |-> result[m].earned]
        /\ r.covered = [m \in universe |-> result[m].covered]
    BY <1>1 DEF Run
  <2>2. /\ r.kind = "native_recalculation" /\ r.document = d /\ r.home = flagged
        /\ r.rank = Ranked(S, score) /\ r.score = [m \in universe |-> result[m].score]
    BY <1>1 DEF Run
  <2> HIDE DEF r
  <2> QED
    BY <2>1, <2>2
<1> HIDE DEF result, missing, r, S, score, universe, raw
<1>10. \A m \in universe :
          /\ NativeResult(raw, m).covered = NativeCovers(raw, m)
          /\ NativeResult(raw, m).covered \subseteq Components
          /\ Measurement(score[m], Scores)
  BY <1>3, <1>6, NativeResultIs
<1>11. \A m \in universe : m \in S <=> Comparable(r, m)
  BY <1>7, <1>9 DEF Comparable
<1>12. S \in SUBSET universe /\ \A m \in S : score[m] \in Scores
  BY <1>7, <1>10 DEF Measurement
<1>13. Stands(r)
  <2>1. /\ DOMAIN r.score = universe /\ \A m \in S : r.score[m] \in Scores
        /\ r.score = [m \in universe |-> r.score[m]] /\ r.rank = Ranked(S, r.score)
    BY <1>8, <1>9, <1>12
  <2> QED
    BY <1>2, <1>11, <1>12, <2>1, RankedStands
<1>14. WellScored(r)
  BY <1>8, <1>9, <1>10 DEF WellScored
<1>15. Renormalises(r)
  <2> SUFFICES ASSUME NEW a \in universe, NEW b \in universe,
                      r.covered[a] # r.covered[b], r.covered[a] \subseteq r.covered[b],
                      \E i \in r.covered[a] : r.earned[a][i] > 0,
                      \A i \in r.covered[a] : r.earned[a][i] = r.earned[b][i],
                      \A i \in r.covered[b] \ r.covered[a] : r.earned[b][i] = 0
               PROVE  Better(r.score[a], r.score[b])
    BY <1>8, <1>9 DEF Renormalises
  <2>1. Better(NativeResult(raw, a).score, NativeResult(raw, b).score)
    BY <1>3, <1>9, UnknownOutscoresZero
  <2> QED
    BY <1>6, <1>9, <2>1
<1>16. Confides(r)
  <2> DEFINE label == Content[d].label
  <2> SUFFICES ASSUME NEW a \in universe, NEW b \in universe, r.covered[a] \subseteq r.covered[b],
                      LabelWorth(label[a]) <= LabelWorth(label[b])
               PROVE  Confidence(r, a) <= Confidence(r, b)
    BY <1>8, <1>9 DEF Confides
  <2>1. /\ Confidence(r, a) = AggregateConfidence(
             [i \in Components |-> ComponentConfidence(raw[a], label[a], i)], r.covered[a])
        /\ Confidence(r, b) = AggregateConfidence(
             [i \in Components |-> ComponentConfidence(raw[b], label[b], i)], r.covered[b])
    BY <1>5, <1>9 DEF Confidence
  <2>2. r.covered[a] \in SUBSET Components /\ r.covered[b] \in SUBSET Components
    BY <1>9, <1>10
  <2>3. \A i \in r.covered[a] : Missing(raw, i, a) = <<>> /\ Missing(raw, i, b) = <<>>
    BY <1>9, <1>10 DEF NativeCovers, Complete
  <2>4. ASSUME NEW m \in universe, NEW i \in Components, Missing(raw, i, m) = <<>>,
               NEW n \in DOMAIN BaseModel[i].terms
        PROVE  BaseModel[i].terms[n].metric \in RawMetrics
    <3>1. raw[m][BaseModel[i].terms[n].metric] # None
      BY <2>4, NothingMissed
    <3>2. BaseModel[i].terms \in Seq(TermSet)
      BY ModelHasTerms
    <3>3. BaseModel[i].terms[n] \in TermSet
      BY <3>2
    <3>4. BaseModel[i].terms[n].metric \in Metrics
      BY <3>3 DEF TermSet
    <3> QED
      BY <1>5, <3>1, <3>4 DEF Raw
  <2> QED
    BY <2>1, <2>2, <2>3, <2>4, ConfidenceCompares
<1>17. Reproduces(r)
  BY <1>9 DEF Reproduces
<1> QED
  BY <1>9, <1>13, <1>14, <1>15, <1>16, <1>17 DEF Graded, r
\* Ranks without ties or gaps: as many stand above a market as its rank leaves.
LEMMA RankCounts ==
    ASSUME NEW S, IsFiniteSet(S), NEW rank, \A k, m \in S : rank[k] = rank[m] => k = m,
           {rank[k] : k \in S} = 1..Cardinality(S), NEW m \in S
    PROVE  rank[m] \in Nat /\ Cardinality({k \in S : rank[k] < rank[m]}) + 1 = rank[m]
<1> DEFINE L == {k \in S : rank[k] < rank[m]}
           T == 1..(rank[m] - 1)
           f == [k \in L |-> rank[k]]
<1>1. Cardinality(S) \in Nat
  BY FS_CardinalityType
<1>2. \A k \in S : rank[k] \in 1..Cardinality(S)
  OBVIOUS
<1>3. \A i \in 1..Cardinality(S) : \E k \in S : rank[k] = i
  OBVIOUS
<1>4. rank[m] \in Nat /\ rank[m] > 0 /\ rank[m] <= Cardinality(S)
  BY <1>1, <1>2
<1>5. f \in Bijection(L, T)
  <2>1. \A k \in L : rank[k] \in T
    BY <1>1, <1>2, <1>4
  <2>2. f \in [L -> T]
    BY <2>1
  <2>3. IsInjective(f)
    BY DEF IsInjective
  <2>4. ASSUME NEW i \in T PROVE \E k \in L : f[k] = i
    <3>1. i \in 1..Cardinality(S) /\ i < rank[m]
      BY <1>1, <1>4
    <3> QED
      BY <3>1, <1>3
  <2> HIDE DEF f, L, T
  <2> QED
    BY <2>2, <2>3, <2>4 DEF Bijection, Injection, Surjection
<1>6. ExistsBijection(L, T)
  BY <1>5 DEF ExistsBijection
<1>7. IsFiniteSet(L)
  BY FS_Subset
<1>8. Cardinality(T) = Cardinality(L)
  BY <1>6, <1>7, FS_Bijection
<1>9. Cardinality(T) = IF 1 > rank[m] - 1 THEN 0 ELSE rank[m] - 1 - 1 + 1
  <2>1. rank[m] - 1 \in Int
    BY <1>4
  <2> HIDE DEF T
  <2>2. \A b \in Int : Cardinality(1..b) = IF 1 > b THEN 0 ELSE b - 1 + 1
    BY FS_Interval
  <2> QED
    BY <2>1, <2>2 DEF T
<1> HIDE DEF L, T
<1>10. Cardinality(L) + 1 = rank[m]
  BY <1>4, <1>8, <1>9
<1> QED
  BY <1>4, <1>10 DEF L

\* A larger total is a better score.
LEMMA TotalsCompare ==
    ASSUME NEW x \in 0..100, NEW y \in 0..100
    PROVE  Better(Published(x), Published(y)) <=> y < x
<1> DEFINE T == TotalWeight(BaseModel)
           k == Unit * T
<1>1. T \in Nat /\ T > 0
  BY TotalIsPositive
<1>2. k \in Nat /\ k > 0
  BY <1>1, UnitIsExact, GrowingProduct
<1>3. (x * Unit) * T = x * k /\ (y * Unit) * T = y * k
  BY <1>1, UnitIsExact
<1>4. Better(Published(x), Published(y)) <=> (x * Unit) * T > (y * Unit) * T
  BY DEF Better, Published
<1>5. y < x <=> y * k < x * k
  <2> HIDE DEF k
  <2> QED
    BY <1>2, Scaling
<1>6. x * k \in Int /\ y * k \in Int
  <2> HIDE DEF k
  <2> QED
    BY <1>2
<1> HIDE DEF T, k
<1> QED
  BY <1>3, <1>4, <1>5, <1>6
LEMMA ReproductionIsGraded ==
    ASSUME NEW d \in DOMAIN Content, Valid(d), NEW flagged, Content[d].home \in flagged
    PROVE  Graded(ReproductionRun(d, flagged)) /\ ReproductionRun(d, flagged).document = d
<1> DEFINE universe == Scored(d)
           result == [m \in universe |-> ReproducedResult(Content[d].parts[m])]
           score == [m \in universe |-> result[m].score]
           S == EligibleForBase(result, flagged)
           missing == NothingMissing(universe)
           r == ReproductionRun(d, flagged)
<1>1. r = Run("reference_reproduction", d, flagged, universe, result, Ranked(S, score), missing)
  BY DEF ReproductionRun
<1>2. universe \in SUBSET Markets
  BY MarketAssumption DEF Scored
<1>3. \A m \in universe :
         /\ score[m] = ReproducedResult(Content[d].parts[m]).score
         /\ result[m].score = score[m]
         /\ result[m].covered = ReproducedResult(Content[d].parts[m]).covered
  OBVIOUS
<1>4. ASSUME NEW m \in universe
      PROVE  /\ score[m] \in Scores /\ score[m] # None
             /\ HalfCovered(BaseModel, result[m].covered)
  <2>1. DOMAIN Content[d].parts[m] = Components
    BY MarketAssumption DEF Scored
  <2>2. PointsWithin(Content[d].parts[m])
    BY DEF Valid
  <2> DEFINE x == ReproducedResult(Content[d].parts[m])
  <2>3. x.score \in Scores /\ x.score # None /\ HalfCovered(BaseModel, x.covered)
    BY <2>1, <2>2, ReproducedResultIs
  <2> QED
    BY <1>3, <2>3
<1>5. S = {m \in universe : /\ result[m].score # None /\ m \notin flagged
                            /\ HalfCovered(BaseModel, result[m].covered)}
  BY DEF EligibleForBase
<1>6. DOMAIN score = universe /\ score = [m \in universe |-> score[m]]
  OBVIOUS
<1>7. /\ r.kind = "reference_reproduction" /\ r.document = d /\ r.score = score /\ r.home = flagged
      /\ r.rank = Ranked(S, score)
      /\ \A m \in universe : r.covered[m] = result[m].covered
  <2>1. r.covered = [m \in universe |-> result[m].covered]
    BY <1>1 DEF Run
  <2>2. /\ r.kind = "reference_reproduction" /\ r.document = d /\ r.home = flagged
        /\ r.rank = Ranked(S, score) /\ r.score = [m \in universe |-> result[m].score]
    BY <1>1 DEF Run
  <2> HIDE DEF r
  <2> QED
    BY <2>1, <2>2
<1> HIDE DEF result, missing, r, S, score, universe
<1>8. S = universe \ flagged
  BY <1>3, <1>4, <1>5
<1>9. S \in SUBSET universe /\ \A m \in S : score[m] \in Scores
  BY <1>4, <1>8
<1>10. \A m \in universe : m \in S <=> Comparable(r, m)
  BY <1>4, <1>7, <1>8 DEF Comparable
<1>11. /\ Stands(r)
       /\ \A m \in S : r.rank[m] = Cardinality(Above(S, score, m)) + 1
  <2>1. /\ DOMAIN r.score = universe /\ \A m \in S : r.score[m] \in Scores
        /\ r.score = [m \in universe |-> r.score[m]] /\ r.rank = Ranked(S, r.score)
    BY <1>6, <1>7, <1>9
  <2>2. Stands(r) /\ \A m \in S : r.rank[m] = Cardinality(Above(S, r.score, m)) + 1
    BY <1>2, <1>9, <1>10, <2>1, RankedStands
  <2> QED
    BY <1>7, <2>2
<1>12. WellScored(r)
  BY <1>4, <1>6, <1>7 DEF WellScored, Measurement
<1>13. Reproduces(r)
  <2> SUFFICES ASSUME ~BreaksConstraint(d), Consistent(d), flagged \subseteq {Content[d].home},
                      NEW m \in Content[d].ranked
               PROVE  r.score[m] = Published(Content[d].total[m]) /\ r.rank[m] = Content[d].rank[m]
    BY <1>7 DEF Reproduces
  <2> DEFINE ranked == Content[d].ranked
             rank == Content[d].rank
             total == Content[d].total
  <2>1. S = ranked
    BY <1>8 DEF BreaksConstraint, Scored, universe
  <2>2. \A k \in ranked : score[k] = Published(total[k])
    BY <1>3 DEF Consistent, Scored, universe
  <2>3. \A k \in ranked : total[k] \in 0..100
    BY DEF Valid, Scored
  <2>4. \A k \in ranked : Better(score[k], score[m]) <=> rank[k] < rank[m]
    <3>1. \A k \in ranked : Better(score[k], score[m]) <=> total[m] < total[k]
      BY <2>2, <2>3, TotalsCompare
    <3>2. \A k \in ranked : rank[k] < rank[m] <=> total[k] > total[m]
      BY DEF Consistent
    <3> QED
      BY <2>3, <3>1, <3>2
  <2>5. Above(S, score, m) = {k \in ranked : rank[k] < rank[m]}
    BY <2>1, <2>4 DEF Above
  <2>6. IsFiniteSet(ranked)
    BY <1>2, <1>8, <2>1, MarketsAreNumbers, FS_Subset
  <2>7. /\ \A k, n \in ranked : rank[k] = rank[n] => k = n
        /\ {rank[k] : k \in ranked} = 1..Cardinality(ranked)
    BY DEF Valid, Consistent
  <2> HIDE DEF ranked, rank, total
  <2>8. m \in ranked
    BY DEF ranked
  <2>9. Cardinality({k \in ranked : rank[k] < rank[m]}) + 1 = rank[m]
    BY <2>6, <2>7, <2>8, RankCounts
  <2>10. r.rank[m] = rank[m]
    BY <1>11, <2>1, <2>5, <2>8, <2>9
  <2> QED
    BY <1>7, <2>2, <2>8, <2>10 DEF rank, total
<1>14. Renormalises(r) /\ Confides(r)
  BY <1>7 DEF Renormalises, Confides
<1> QED
  BY <1>7, <1>11, <1>12, <1>13, <1>14 DEF Graded, r

-----------------------------------------------------------------------------
(***************************************************************************)
(* Runs and the gaps they leave.                                           *)
(***************************************************************************)

LEMMA RunIs ==
    ASSUME NEW kind \in RunTypes, NEW d, NEW flagged, NEW universe \in SUBSET Markets, NEW result,
           NEW rank, NEW missing
    PROVE  LET r == Run(kind, d, flagged, universe, result, rank, missing)
           IN  Sound(r) /\ r.document = d /\ r.missing = missing /\ r.kind = kind
BY DEF Run, Sound

\* A run that reports nothing missing.
LEMMA NothingToExplain ==
    ASSUME NEW r, NEW universe, r.missing = NothingMissing(universe), NEW rows
    PROVE  Explains(rows, r)
BY DEF Explains, NothingMissing

LEMMA ScoredMarkets ==
    ASSUME NEW d \in DOMAIN Content
    PROVE  Scored(d) \subseteq Markets /\ Universe(d) \subseteq Markets /\ Content[d].universe \subseteq Markets
BY MarketAssumption DEF Scored, Universe

LEMMA ReferenceIsSound ==
    ASSUME NEW d \in DOMAIN Content, NEW rows
    PROVE  Sound(ReferenceRun(d)) /\ Explains(rows, ReferenceRun(d))
<1>1. "imported_reference" \in RunTypes
  BY DEF RunTypes
<1>2. Scored(d) \cup Content[d].universe \in SUBSET Markets
  BY ScoredMarkets
<1>3. /\ Sound(ReferenceRun(d))
      /\ ReferenceRun(d).missing = NothingMissing(Scored(d) \cup Content[d].universe)
  BY <1>1, <1>2, RunIs DEF ReferenceRun
<1> QED
  BY <1>3, NothingToExplain

LEMMA ReproductionIsSound ==
    ASSUME NEW d \in DOMAIN Content, NEW flagged, NEW rows
    PROVE  Sound(ReproductionRun(d, flagged)) /\ Explains(rows, ReproductionRun(d, flagged))
<1>1. "reference_reproduction" \in RunTypes
  BY DEF RunTypes
<1>2. Scored(d) \in SUBSET Markets
  BY ScoredMarkets
<1>3. /\ Sound(ReproductionRun(d, flagged))
      /\ ReproductionRun(d, flagged).missing = NothingMissing(Scored(d))
  BY <1>1, <1>2, RunIs DEF ReproductionRun
<1> QED
  BY <1>3, NothingToExplain

\* What a run reports missing is reportable, of markets.
Reports(r) ==
    /\ DOMAIN r.missing \subseteq Markets
    /\ \A m \in DOMAIN r.missing : r.missing[m] \in Seq(Reportable)

LEMMA NativeIsSound ==
    ASSUME NEW d \in DOMAIN Content, NEW flagged
    PROVE  Sound(NativeRun(d, flagged)) /\ Reports(NativeRun(d, flagged))
<1> DEFINE raw == [m \in Universe(d) |-> Raw(d, m)]
<1>1. "native_recalculation" \in RunTypes
  BY DEF RunTypes
<1>2. Universe(d) \in SUBSET Markets
  BY ScoredMarkets
<1>3. /\ Sound(NativeRun(d, flagged))
      /\ NativeRun(d, flagged).missing = [m \in Universe(d) |-> NativeGaps(raw, m)]
  BY <1>1, <1>2, RunIs DEF NativeRun
<1>4. \A m : NativeGaps(raw, m) \in Seq(Reportable)
  BY NativeMisses
<1> QED
  BY <1>2, <1>3, <1>4 DEF Reports

LEMMA ContextualIsSound ==
    ASSUME NEW d, NEW base, NEW context, context.markets \subseteq Markets,
           context.channel \in {None} \cup DOMAIN ChannelAccess
    PROVE  Sound(ContextualRun(d, base, context)) /\ Reports(ContextualRun(d, base, context))
<1> DEFINE known == [m \in context.markets |-> Known(d, m, base)]
<1>1. "contextual" \in RunTypes
  BY DEF RunTypes
<1>2. context.markets \in SUBSET Markets
  OBVIOUS
<1>3. /\ Sound(ContextualRun(d, base, context))
      /\ ContextualRun(d, base, context).missing
            = [m \in context.markets |-> ContextualGaps(known[m], context)]
  BY <1>1, <1>2, RunIs DEF ContextualRun
<1> HIDE DEF known
<1>4. \A m : ContextualGaps(known[m], context) \in Seq(Reportable)
  BY ContextMisses
<1> QED
  BY <1>2, <1>3, <1>4 DEF Reports

LEMMA GapRowsExplain ==
    ASSUME NEW r, Reports(r), NEW vertical
    PROVE  /\ GapRows(r, vertical) \in Seq(ToSet(GapRows(r, vertical)))
           /\ Explains(ToSet(GapRows(r, vertical)), r)
<1> DEFINE T == {Question(x, m, r.document, vertical) : x \in Reportable, m \in Markets}
           asked(m) == [i \in DOMAIN r.missing[m] |-> Question(r.missing[m][i], m, r.document, vertical)]
           all == [m \in Markets |-> IF m \in DOMAIN r.missing THEN asked(m) ELSE <<>>]
           n == Cardinality(Markets)
<1>1. Markets = 1..n /\ n \in Nat
  BY MarketsAreOrdered, FS_CardinalityType
<1>2. ASSUME NEW m \in DOMAIN r.missing
      PROVE  asked(m) \in Seq(T)
  <2>1. PICK k \in Nat : r.missing[m] \in [1..k -> Reportable]
    BY SeqDef DEF Reports
  <2>2. m \in Markets
    BY DEF Reports
  <2>3. asked(m) \in [1..k -> T]
    BY <2>1, <2>2
  <2> HIDE DEF T, asked
  <2> QED
    BY <2>3, SeqDef
<1>3. \A m \in Markets : all[m] \in Seq(T)
  <2> HIDE DEF T, asked
  <2> QED
    BY <1>2
<1>4. all \in Seq(Seq(T))
  <2>1. all \in [1..n -> Seq(T)]
    <3>1. all \in [Markets -> Seq(T)]
      <4>1. all = [m \in Markets |-> all[m]]
        OBVIOUS
      <4> HIDE DEF all, T
      <4> QED
        BY <4>1, <1>3
    <3> HIDE DEF all, T
    <3> QED
      BY <3>1, <1>1
  <2> HIDE DEF all, T
  <2> QED
    BY <2>1, <1>1, SeqDef
<1>5. GapRows(r, vertical) = FlattenSeq(all)
  BY DEF GapRows
<1> HIDE DEF T
<1>6. GapRows(r, vertical) \in Seq(T) /\ \A m \in Markets : ToSet(all[m]) \subseteq ToSet(GapRows(r, vertical))
  <2> HIDE DEF all
  <2>1. DOMAIN all = Markets
    BY DEF all
  <2> QED
    BY <1>4, <1>5, <2>1, FlatteningHolds
<1>7. ASSUME NEW m \in DOMAIN r.missing, NEW i \in DOMAIN r.missing[m]
      PROVE  Question(r.missing[m][i], m, r.document, vertical) \in ToSet(GapRows(r, vertical))
  <2>1. m \in Markets /\ all[m] = asked(m)
    BY DEF Reports
  <2>2. asked(m)[i] \in ToSet(asked(m)) /\ asked(m)[i] = Question(r.missing[m][i], m, r.document, vertical)
    BY DEF ToSet
  <2> HIDE DEF all, asked
  <2> QED
    BY <2>1, <2>2, <1>6
<1>8. ASSUME NEW x, NEW m
      PROVE  LET g == Question(x, m, r.document, vertical)
             IN  g[1] = "gap" /\ g[2] = x /\ g[3] = m /\ g[4] = Content[r.document].digest
  BY DEF Question
<1> QED
  BY <1>6, <1>7, <1>8, OfItsMembers DEF Explains

LEMMA MoreRowsExplain ==
    ASSUME NEW r, NEW A, NEW B, A \subseteq B, Explains(A, r)
    PROVE  Explains(B, r)
BY DEF Explains

-----------------------------------------------------------------------------
(***************************************************************************)
(* Steps.                                                                  *)
(***************************************************************************)

Tables == <<snapshots, registry, home, runs, gaps>>

LEMMA SameCommitted ==
    ASSUME UNCHANGED Tables, NEW row
    PROVE  Committed(row)' <=> Committed(row)
BY DEF Tables, Committed

\* While the tables stay, rows that are given up are no one's.
LEMMA HoldsLess ==
    ASSUME HoldsOK, UNCHANGED Tables,
           \A t \in Sessions : txn'[t].held \subseteq txn[t].held
    PROVE  HoldsOK'
<1> SUFFICES ASSUME NEW t \in Sessions, NEW row \in txn'[t].held
             PROVE  ~Committed(row)' /\ ~HeldByAnother(t, row)'
  BY DEF HoldsOK
<1>1. ~Committed(row) /\ ~HeldByAnother(t, row)
  BY DEF HoldsOK
<1>2. ~Committed(row)'
  BY <1>1, SameCommitted
<1>3. ~HeldByAnother(t, row)'
  BY <1>1 DEF HeldByAnother
<1> QED
  BY <1>2, <1>3

\* A session's record replaced by another.
LEMMA SessionMoves ==
    ASSUME Shapes, NEW s \in Sessions, NEW x, txn' = [txn EXCEPT ![s] = x]
    PROVE  /\ txn'[s] = x
           /\ \A t \in Sessions \ {s} : txn'[t] = txn[t]
           /\ txn' = [t \in Sessions |-> txn'[t]]
<1>1. txn = [t \in Sessions |-> txn[t]]
  BY DEF Shapes
<1> QED
  BY <1>1

Done(outcome) == [Idle EXCEPT !.stage = "done", !.outcome = outcome]

LEMMA IdleIs ==
    Shape(Idle) /\ Idle.stage = "idle" /\ Idle.held = {} /\ Idle.snapshot = None
    /\ Idle.todo = <<>> /\ Idle.made = {}
BY DEF Idle, Shape, Fields

LEMMA DoneIs ==
    ASSUME NEW outcome
    PROVE  LET x == Done(outcome)
           IN  /\ Shape(x) /\ x.stage = "done" /\ x.snapshot = None /\ x.todo = <<>>
               /\ x.held = {} /\ x.made = {}
BY IdleIs DEF Done, Shape, Fields

\* A session that ends without a commit leaves the tables as they were.
LEMMA GivesUp ==
    ASSUME MarketInv, NEW s \in Sessions, NEW outcome,
           txn' = [txn EXCEPT ![s] = Done(outcome)],
           UNCHANGED <<snapshots, registry, home, runs, gaps, clock, workload>>
    PROVE  MarketInv'
<1> DEFINE x == Done(outcome)
<1>1. /\ Shape(x) /\ x.stage = "done" /\ x.snapshot = None /\ x.todo = <<>>
      /\ x.held = {} /\ x.made = {}
  BY DoneIs
<1> HIDE DEF x
<1>2. /\ txn'[s] = x
      /\ \A t \in Sessions \ {s} : txn'[t] = txn[t]
      /\ txn' = [t \in Sessions |-> txn'[t]]
  BY SessionMoves DEF x, MarketInv
<1>3. Shapes'
  <2>1. \A t \in Sessions : Shape(txn'[t]) /\ txn'[t].stage \in {"idle", "writing", "done"}
    BY <1>1, <1>2 DEF MarketInv, Shapes
  <2> QED
    BY <2>1, <1>2 DEF MarketInv, Shapes
<1>4. KeysOK'
  BY DEF MarketInv, KeysOK
<1>5. HoldsOK'
  <2>1. \A t \in Sessions : txn'[t].held \subseteq txn[t].held
    BY <1>1, <1>2
  <2> QED
    BY <2>1, HoldsLess DEF MarketInv, Tables
<1>6. PendingOK'
  <2> SUFFICES ASSUME NEW t \in Sessions
               PROVE  /\ txn'[t].todo \in Seq(Pending(t)')
                      /\ txn'[t].stage # "writing" => txn'[t].held = {}
                      /\ txn'[t].snapshot # None =>
                            /\ txn'[t].snapshot \in DOMAIN Content
                            /\ {DigestRow(txn'[t].snapshot), KeyRow(txn'[t].snapshot)}
                                  \subseteq Pending(t)' \cup txn'[t].held
    BY DEF PendingOK
  <2>1. CASE t = s
    <3>1. txn'[t].todo \in Seq(Pending(t)')
      BY <2>1, <1>1, <1>2, ShortSequences DEF Pending
    <3> QED
      BY <3>1, <2>1, <1>1, <1>2
  <2>2. CASE t # s
    BY <2>2, <1>2 DEF MarketInv, PendingOK, Pending
  <2> QED
    BY <2>1, <2>2
<1>7. RunsOK'
  <2> SUFFICES ASSUME NEW t \in Sessions, NEW r \in txn'[t].made
               PROVE  Sound(r) /\ Explains(DOMAIN gaps \cup txn'[t].held \cup Pending(t)', r)
    BY DEF MarketInv, RunsOK
  <2>1. t # s
    BY <1>1, <1>2
  <2> QED
    BY <2>1, <1>2 DEF MarketInv, RunsOK, Pending
<1> QED
  BY <1>3, <1>4, <1>5, <1>6, <1>7 DEF MarketInv

\* A session starts with the rows it will take and the runs it will commit.
LEMMA Starts ==
    ASSUME MarketInv, NEW s \in Sessions, NEW snapshot, NEW todo, NEW made,
           Start(s, snapshot, todo, made), UNCHANGED workload,
           todo \in Seq(ToSet(todo)),
           \A r \in made : Sound(r) /\ Explains(ToSet(todo), r),
           snapshot # None =>
               snapshot \in DOMAIN Content /\ {DigestRow(snapshot), KeyRow(snapshot)} \subseteq ToSet(todo)
    PROVE  MarketInv'
<1> DEFINE x == [Idle EXCEPT !.stage = "writing", !.snapshot = snapshot, !.todo = todo, !.made = made]
<1>1. /\ Shape(x) /\ x.stage = "writing" /\ x.snapshot = snapshot /\ x.todo = todo
      /\ x.held = {} /\ x.made = made
  BY IdleIs DEF Shape, Fields
<1>0. txn' = [txn EXCEPT ![s] = x] /\ UNCHANGED Tables
  BY DEF Start, Tables
<1> HIDE DEF x
<1>2. /\ txn'[s] = x
      /\ \A t \in Sessions \ {s} : txn'[t] = txn[t]
      /\ txn' = [t \in Sessions |-> txn'[t]]
  BY <1>0, SessionMoves DEF MarketInv
<1>3. Shapes'
  <2>1. \A t \in Sessions : Shape(txn'[t]) /\ txn'[t].stage \in {"idle", "writing", "done"}
    BY <1>1, <1>2 DEF MarketInv, Shapes
  <2>2. clock' \in Nat
    BY DEF Start, MarketInv, Shapes
  <2> QED
    BY <2>1, <2>2, <1>2, <1>0 DEF MarketInv, Shapes, Tables
<1>4. KeysOK'
  BY <1>0 DEF MarketInv, KeysOK, Tables
<1>5. HoldsOK'
  <2>1. \A t \in Sessions : txn'[t].held \subseteq txn[t].held
    BY <1>1, <1>2
  <2> QED
    BY <2>1, <1>0, HoldsLess DEF MarketInv
<1>6. PendingOK'
  <2> SUFFICES ASSUME NEW t \in Sessions
               PROVE  /\ txn'[t].todo \in Seq(Pending(t)')
                      /\ txn'[t].stage # "writing" => txn'[t].held = {}
                      /\ txn'[t].snapshot # None =>
                            /\ txn'[t].snapshot \in DOMAIN Content
                            /\ {DigestRow(txn'[t].snapshot), KeyRow(txn'[t].snapshot)}
                                  \subseteq Pending(t)' \cup txn'[t].held
    BY DEF PendingOK
  <2>1. CASE t = s
    BY <2>1, <1>1, <1>2 DEF Pending
  <2>2. CASE t # s
    BY <2>2, <1>2 DEF MarketInv, PendingOK, Pending
  <2> QED
    BY <2>1, <2>2
<1>7. RunsOK'
  <2>1. \A r \in runs' : Sound(r) /\ Explains(DOMAIN gaps', r)
    BY <1>0 DEF MarketInv, RunsOK, Tables
  <2>2. \A row \in registry' : row[1] = "row"
    BY <1>0 DEF MarketInv, RunsOK, Tables
  <2>3. ASSUME NEW t \in Sessions, NEW r \in txn'[t].made
        PROVE  Sound(r) /\ Explains(DOMAIN gaps' \cup txn'[t].held \cup Pending(t)', r)
    <3>1. CASE t = s
      <4>1. Sound(r) /\ Explains(ToSet(todo), r)
        BY <3>1, <2>3, <1>1, <1>2
      <4>2. ToSet(todo) \subseteq DOMAIN gaps' \cup txn'[t].held \cup Pending(t)'
        BY <3>1, <1>1, <1>2 DEF Pending
      <4> QED
        BY <4>1, <4>2, MoreRowsExplain
    <3>2. CASE t # s
      BY <3>2, <2>3, <1>0, <1>2 DEF MarketInv, RunsOK, Pending, Tables
    <3> QED
      BY <3>1, <3>2
  <2> QED
    BY <2>1, <2>2, <2>3 DEF RunsOK
<1> QED
  BY <1>3, <1>4, <1>5, <1>6, <1>7 DEF MarketInv

\* A session takes the next of its rows, or passes one that it holds, or that is
\* committed and no error.
LEMMA TakesNext ==
    ASSUME MarketInv, NEW s \in Sessions, NEW x,
           txn[s].stage = "writing", txn[s].todo # <<>>,
           txn' = [txn EXCEPT ![s] = x], UNCHANGED <<snapshots, registry, home, runs, gaps, clock, workload>>,
           Shape(x), x.stage = "writing", x.snapshot = txn[s].snapshot, x.made = txn[s].made,
           x.todo = Tail(txn[s].todo),
           \/ /\ x.held = txn[s].held \cup {Wanted(s)}
              /\ ~Committed(Wanted(s)) /\ ~HeldByAnother(s, Wanted(s))
           \/ /\ x.held = txn[s].held
              /\ Wanted(s) \in txn[s].held \/ (Committed(Wanted(s)) /\ Tolerated(s, Wanted(s)))
    PROVE  MarketInv'
<1>1. UNCHANGED Tables
  BY DEF Tables
<1>2. /\ txn'[s] = x
      /\ \A t \in Sessions \ {s} : txn'[t] = txn[t]
      /\ txn' = [t \in Sessions |-> txn'[t]]
  BY SessionMoves DEF MarketInv
<1>3. /\ txn[s].todo \in Seq(Pending(s))
      /\ Tail(txn[s].todo) \in Seq(ToSet(Tail(txn[s].todo)))
      /\ Pending(s) = {Wanted(s)} \cup ToSet(Tail(txn[s].todo))
  <2>1. txn[s].todo \in Seq(Pending(s))
    BY DEF MarketInv, PendingOK
  <2> QED
    BY <2>1, NextAndRest DEF Pending, Wanted
<1>4. Pending(s)' = ToSet(Tail(txn[s].todo))
  BY <1>2 DEF Pending
<1>5. Shapes'
  <2>1. \A t \in Sessions : Shape(txn'[t]) /\ txn'[t].stage \in {"idle", "writing", "done"}
    BY <1>2 DEF MarketInv, Shapes
  <2> QED
    BY <2>1, <1>2 DEF MarketInv, Shapes
<1>6. KeysOK'
  BY DEF MarketInv, KeysOK
<1>7. HoldsOK'
  <2> SUFFICES ASSUME NEW t \in Sessions, NEW row \in txn'[t].held
               PROVE  ~Committed(row)' /\ ~HeldByAnother(t, row)'
    BY DEF HoldsOK
  <2>1. \/ row \in txn[t].held
        \/ t = s /\ row = Wanted(s) /\ ~Committed(Wanted(s)) /\ ~HeldByAnother(s, Wanted(s))
    BY <1>2
  <2>2. ~Committed(row) /\ ~HeldByAnother(t, row)
    BY <2>1 DEF MarketInv, HoldsOK
  <2>3. ASSUME NEW u \in Sessions \ {t} PROVE row \notin txn'[u].held
    <3>1. row \notin txn[u].held
      BY <2>2 DEF HeldByAnother
    <3>2. CASE u # s
      BY <3>1, <3>2, <1>2
    <3>3. CASE u = s
      <4>1. t # s /\ row \in txn[t].held
        BY <2>1, <2>3, <3>3
      <4>2. SUFFICES ASSUME row \in x.held PROVE FALSE
        BY <3>3, <1>2
      <4>3. row = Wanted(s) /\ ~HeldByAnother(s, Wanted(s))
        BY <3>1, <3>3, <4>2
      <4> QED
        BY <4>1, <4>3 DEF HeldByAnother
    <3> QED
      BY <3>2, <3>3
  <2> QED
    BY <2>2, <2>3, <1>1, SameCommitted DEF HeldByAnother
<1>8. PendingOK'
  <2> SUFFICES ASSUME NEW t \in Sessions
               PROVE  /\ txn'[t].todo \in Seq(Pending(t)')
                      /\ txn'[t].stage # "writing" => txn'[t].held = {}
                      /\ txn'[t].snapshot # None =>
                            /\ txn'[t].snapshot \in DOMAIN Content
                            /\ {DigestRow(txn'[t].snapshot), KeyRow(txn'[t].snapshot)}
                                  \subseteq Pending(t)' \cup txn'[t].held
    BY DEF PendingOK
  <2>1. CASE t = s
    <3> DEFINE d == txn[s].snapshot
    <3>1. ASSUME d # None
          PROVE  d \in DOMAIN Content /\ {DigestRow(d), KeyRow(d)} \subseteq Pending(s) \cup txn[s].held
      BY <3>1 DEF MarketInv, PendingOK
    <3>2. ASSUME Wanted(s) \in {DigestRow(d), KeyRow(d)} PROVE Wanted(s) \in x.held
      <4>1. ~Tolerated(s, Wanted(s))
        BY <3>2 DEF Tolerated, DigestRow, KeyRow
      <4> QED
        BY <4>1
    <3>3. txn[s].held \subseteq x.held
      OBVIOUS
    <3>4. x.todo \in Seq(Pending(s)')
      BY <1>3, <1>4
    <3> HIDE DEF d
    <3>5. d # None => {DigestRow(d), KeyRow(d)} \subseteq Pending(s)' \cup x.held
      BY <3>1, <3>2, <3>3, <1>3, <1>4
    <3> QED
      BY <2>1, <3>1, <3>4, <3>5, <1>2 DEF d
  <2>2. CASE t # s
    BY <2>2, <1>2 DEF MarketInv, PendingOK, Pending
  <2> QED
    BY <2>1, <2>2
<1>9. RunsOK'
  <2>1. \A r \in runs' : Sound(r) /\ Explains(DOMAIN gaps', r)
    BY DEF MarketInv, RunsOK
  <2>2. \A row \in registry' : row[1] = "row"
    BY DEF MarketInv, RunsOK
  <2>3. ASSUME NEW t \in Sessions, NEW r \in txn'[t].made
        PROVE  Sound(r) /\ Explains(DOMAIN gaps' \cup txn'[t].held \cup Pending(t)', r)
    <3>1. CASE t = s
      <4>1. Sound(r) /\ Explains(DOMAIN gaps \cup txn[s].held \cup Pending(s), r)
        BY <3>1, <2>3, <1>2 DEF MarketInv, RunsOK
      <4>2. ASSUME NEW g \in DOMAIN gaps \cup txn[s].held \cup Pending(s), g[1] = "gap"
            PROVE  g \in DOMAIN gaps \cup x.held \cup ToSet(Tail(txn[s].todo))
        <5>1. CASE g = Wanted(s)
          <6>1. CASE Committed(Wanted(s))
            <7>1. Wanted(s) \in DOMAIN gaps
              BY <4>2, <5>1, <6>1 DEF Committed, MarketInv, RunsOK, DigestRow, KeyRow
            <7> QED
              BY <7>1, <5>1
          <6>2. CASE ~Committed(Wanted(s))
            BY <5>1, <6>2
          <6> QED
            BY <6>1, <6>2
        <5>2. CASE g # Wanted(s)
          BY <5>2, <4>2, <1>3
        <5> QED
          BY <5>1, <5>2
      <4>3. Explains(DOMAIN gaps \cup x.held \cup ToSet(Tail(txn[s].todo)), r)
        BY <4>1, <4>2 DEF Explains
      <4> QED
        BY <4>1, <4>3, <3>1, <1>2, <1>4
    <3>2. CASE t # s
      BY <3>2, <2>3, <1>2 DEF MarketInv, RunsOK, Pending
    <3> QED
      BY <3>1, <3>2
  <2> QED
    BY <2>1, <2>2, <2>3 DEF RunsOK
<1> QED
  BY <1>5, <1>6, <1>7, <1>8, <1>9 DEF MarketInv

\* What is waited for does not change what is pending or held.
LEMMA Waits ==
    ASSUME MarketInv, NEW s \in Sessions, txn' = [txn EXCEPT ![s].waiting = TRUE],
           UNCHANGED <<snapshots, registry, home, runs, gaps, clock, workload>>
    PROVE  MarketInv'
<1>1. ASSUME NEW t \in Sessions
      PROVE  /\ Shape(txn'[t]) /\ txn'[t].stage = txn[t].stage /\ txn'[t].snapshot = txn[t].snapshot
             /\ txn'[t].todo = txn[t].todo /\ txn'[t].held = txn[t].held /\ txn'[t].made = txn[t].made
  BY DEF MarketInv, Shapes, Shape, Fields
<1>2. Shapes'
  BY <1>1 DEF MarketInv, Shapes
<1>3. KeysOK'
  BY DEF MarketInv, KeysOK
<1>4. HoldsOK'
  BY <1>1, HoldsLess DEF MarketInv, Tables
<1>5. \A t \in Sessions : Pending(t)' = Pending(t)
  BY <1>1 DEF Pending
<1>6. PendingOK'
  BY <1>1, <1>5 DEF MarketInv, PendingOK
<1>7. RunsOK'
  BY <1>1, <1>5 DEF MarketInv, RunsOK
<1> QED
  BY <1>2, <1>3, <1>4, <1>6, <1>7 DEF MarketInv

LEMMA InsertStep ==
    ASSUME MarketInv, NEW s \in Sessions, Insert(s), UNCHANGED workload
    PROVE  MarketInv'
<1>1. UNCHANGED <<snapshots, registry, home, runs, gaps, clock, workload>>
  BY DEF Insert
<1>2. Shape(txn[s]) /\ txn = [t \in Sessions |-> txn[t]]
  BY DEF MarketInv, Shapes
<1>3. txn[s].stage = "writing" /\ txn[s].todo # <<>>
  BY DEF Insert
<1>4. ASSUME Skip(s),
             Wanted(s) \in txn[s].held \/ (Committed(Wanted(s)) /\ Tolerated(s, Wanted(s)))
      PROVE  MarketInv'
  <2> DEFINE x == [txn[s] EXCEPT !.todo = Tail(@), !.waiting = FALSE]
  <2>1. txn' = [txn EXCEPT ![s] = x]
    BY <1>2, <1>4 DEF Skip
  <2>2. /\ Shape(x) /\ x.stage = txn[s].stage /\ x.snapshot = txn[s].snapshot /\ x.made = txn[s].made
        /\ x.todo = Tail(txn[s].todo) /\ x.held = txn[s].held
    BY <1>2 DEF Shape, Fields
  <2> HIDE DEF x
  <2> QED
    BY <2>1, <2>2, <1>1, <1>3, <1>4, TakesNext
<1>5. ASSUME Claim(s), ~Committed(Wanted(s)), ~HeldByAnother(s, Wanted(s))
      PROVE  MarketInv'
  <2> DEFINE x == [txn[s] EXCEPT !.todo = Tail(@), !.waiting = FALSE, !.held = @ \cup {Wanted(s)}]
  <2>1. txn' = [txn EXCEPT ![s] = x]
    BY <1>2, <1>5 DEF Claim
  <2>2. /\ Shape(x) /\ x.stage = txn[s].stage /\ x.snapshot = txn[s].snapshot /\ x.made = txn[s].made
        /\ x.todo = Tail(txn[s].todo) /\ x.held = txn[s].held \cup {Wanted(s)}
    BY <1>2 DEF Shape, Fields
  <2> HIDE DEF x
  <2> QED
    BY <2>1, <2>2, <1>1, <1>3, <1>5, TakesNext
<1>6. ASSUME txn' = Rolled(s, "integrity") PROVE MarketInv'
  <2>1. txn' = [txn EXCEPT ![s] = Done("integrity")]
    BY <1>6 DEF Rolled, Done
  <2> QED
    BY <2>1, <1>1, GivesUp
<1>7. ASSUME txn' = [txn EXCEPT ![s].waiting = TRUE] PROVE MarketInv'
  BY <1>7, <1>1, Waits
<1> QED
  BY <1>4, <1>5, <1>6, <1>7 DEF Insert

\* What becomes committed with a session is what the session held.
LEMMA CommitStep ==
    ASSUME MarketInv, NEW s \in Sessions, Commit(s), UNCHANGED workload
    PROVE  MarketInv'
<1> DEFINE d == txn[s].snapshot
           x == Done("committed")
<1>1. /\ Shape(x) /\ x.stage = "done" /\ x.snapshot = None /\ x.todo = <<>>
      /\ x.held = {} /\ x.made = {}
  BY DoneIs
<1>2. txn' = [txn EXCEPT ![s] = x]
  BY DEF Commit, Rolled, Done
<1> HIDE DEF x
<1>3. /\ txn'[s] = x
      /\ \A t \in Sessions \ {s} : txn'[t] = txn[t]
      /\ txn' = [t \in Sessions |-> txn'[t]]
  BY <1>2, SessionMoves DEF MarketInv
<1>4. Pending(s) = {}
  BY DEF Commit, Pending, ToSet
<1>5. d # None => /\ d \in DOMAIN Content /\ DigestRow(d) \in txn[s].held /\ KeyRow(d) \in txn[s].held
                  /\ snapshots' = snapshots \cup {d} /\ home' = home \cup {Content[d].home}
  BY <1>4 DEF MarketInv, PendingOK, Commit
<1>6. d = None => snapshots' = snapshots /\ home' = home
  BY DEF Commit
<1>7. /\ registry' = registry \cup HeldRows(s, "row") /\ runs' = runs \cup txn[s].made
      /\ clock' = clock
      /\ DOMAIN gaps' = DOMAIN gaps \cup HeldRows(s, "gap")
      /\ \A g \in DOMAIN gaps' : gaps'[g] = IF g \in DOMAIN gaps THEN gaps[g] ELSE "OPEN"
  BY DEF Commit, GapsAfter
<1>8. ASSUME NEW row \in txn[s].held PROVE ~Committed(row)
  BY DEF MarketInv, HoldsOK
<1> HIDE DEF d
<1>9. ASSUME NEW row, Committed(row)' PROVE Committed(row) \/ row \in txn[s].held
  BY <1>5, <1>6, <1>7, <1>9 DEF Committed, HeldRows, DigestRow, KeyRow
<1>10. Shapes'
  <2>1. \A t \in Sessions : Shape(txn'[t]) /\ txn'[t].stage \in {"idle", "writing", "done"}
    BY <1>1, <1>3 DEF MarketInv, Shapes
  <2>2. home' \subseteq Markets /\ snapshots' \subseteq DOMAIN Content
    BY <1>5, <1>6, MarketAssumption DEF MarketInv, Shapes
  <2>3. \A g \in DOMAIN gaps' : gaps'[g] \in {"OPEN", "RESOLVED"}
    BY <1>7 DEF MarketInv, Shapes
  <2> QED
    BY <2>1, <2>2, <2>3, <1>3, <1>7 DEF MarketInv, Shapes
<1>11. KeysOK'
  <2>1. ASSUME d # None, NEW e \in snapshots, e # d
        PROVE  Content[d].key # Content[e].key /\ Content[d].digest # Content[e].digest
    <3>1. ~Committed(DigestRow(d)) /\ ~Committed(KeyRow(d))
      BY <2>1, <1>5, <1>8
    <3>2. DigestRow(d) # DigestRow(e) /\ KeyRow(d) # KeyRow(e)
      BY <3>1, <2>1 DEF Committed
    <3> QED
      BY <3>2 DEF DigestRow, KeyRow
  <2> QED
    BY <2>1, <1>5, <1>6 DEF MarketInv, KeysOK
<1>12. HoldsOK'
  <2> SUFFICES ASSUME NEW t \in Sessions, NEW row \in txn'[t].held
               PROVE  ~Committed(row)' /\ ~HeldByAnother(t, row)'
    BY DEF HoldsOK
  <2>1. t # s /\ row \in txn[t].held
    BY <1>1, <1>3
  <2>2. ~Committed(row) /\ ~HeldByAnother(t, row)
    BY <2>1 DEF MarketInv, HoldsOK
  <2>3. row \notin txn[s].held
    BY <2>1, <2>2 DEF HeldByAnother
  <2>4. ~Committed(row)'
    BY <2>2, <2>3, <1>9
  <2>5. ASSUME NEW u \in Sessions \ {t} PROVE row \notin txn'[u].held
    BY <2>2, <1>1, <1>3 DEF HeldByAnother
  <2> QED
    BY <2>4, <2>5 DEF HeldByAnother
<1>13. PendingOK'
  <2> SUFFICES ASSUME NEW t \in Sessions
               PROVE  /\ txn'[t].todo \in Seq(Pending(t)')
                      /\ txn'[t].stage # "writing" => txn'[t].held = {}
                      /\ txn'[t].snapshot # None =>
                            /\ txn'[t].snapshot \in DOMAIN Content
                            /\ {DigestRow(txn'[t].snapshot), KeyRow(txn'[t].snapshot)}
                                  \subseteq Pending(t)' \cup txn'[t].held
    BY DEF PendingOK
  <2>1. CASE t = s
    <3>1. txn'[t].todo \in Seq(Pending(t)')
      BY <2>1, <1>1, <1>3, ShortSequences DEF Pending
    <3> QED
      BY <3>1, <2>1, <1>1, <1>3
  <2>2. CASE t # s
    BY <2>2, <1>3 DEF MarketInv, PendingOK, Pending
  <2> QED
    BY <2>1, <2>2
<1>14. RunsOK'
  <2>1. ASSUME NEW r \in runs' PROVE Sound(r) /\ Explains(DOMAIN gaps', r)
    <3>1. CASE r \in runs
      <4>1. Sound(r) /\ Explains(DOMAIN gaps, r)
        BY <3>1 DEF MarketInv, RunsOK
      <4> QED
        BY <4>1, <1>7, MoreRowsExplain
    <3>2. CASE r \in txn[s].made
      <4>1. Sound(r) /\ Explains(DOMAIN gaps \cup txn[s].held \cup Pending(s), r)
        BY <3>2 DEF MarketInv, RunsOK
      <4>2. ASSUME NEW g \in DOMAIN gaps \cup txn[s].held \cup Pending(s), g[1] = "gap"
            PROVE  g \in DOMAIN gaps'
        BY <4>2, <1>4, <1>7 DEF HeldRows
      <4> QED
        BY <4>1, <4>2 DEF Explains
    <3> QED
      BY <3>1, <3>2, <1>7
  <2>2. \A row \in registry' : row[1] = "row"
    BY <1>7 DEF MarketInv, RunsOK, HeldRows
  <2>3. ASSUME NEW t \in Sessions, NEW r \in txn'[t].made
        PROVE  Sound(r) /\ Explains(DOMAIN gaps' \cup txn'[t].held \cup Pending(t)', r)
    <3>1. t # s
      BY <2>3, <1>1, <1>3
    <3>2. Sound(r) /\ Explains(DOMAIN gaps \cup txn[t].held \cup Pending(t), r)
      BY <3>1, <2>3, <1>3 DEF MarketInv, RunsOK
    <3>3. DOMAIN gaps \cup txn[t].held \cup Pending(t) \subseteq DOMAIN gaps' \cup txn'[t].held \cup Pending(t)'
      BY <3>1, <1>3, <1>7 DEF Pending
    <3> QED
      BY <3>2, <3>3, MoreRowsExplain
  <2> QED
    BY <2>1, <2>2, <2>3 DEF RunsOK
<1> QED
  BY <1>10, <1>11, <1>12, <1>13, <1>14 DEF MarketInv

\* Somebody decides a gap.
LEMMA StatusStep ==
    ASSUME MarketInv, NEW s \in Sessions, NEW status \in {"OPEN", "RESOLVED"},
           txn[s].stage = "idle", SetStatus(s, status), UNCHANGED workload
    PROVE  MarketInv'
<1> DEFINE x == Done("committed")
<1>1. /\ Shape(x) /\ x.stage = "done" /\ x.snapshot = None /\ x.todo = <<>>
      /\ x.held = {} /\ x.made = {}
  BY DoneIs
<1>2. txn' = [txn EXCEPT ![s] = x] /\ UNCHANGED <<snapshots, registry, home, runs, clock>>
  BY DEF SetStatus, Done
<1> HIDE DEF x
<1>3. /\ txn'[s] = x
      /\ \A t \in Sessions \ {s} : txn'[t] = txn[t]
      /\ txn' = [t \in Sessions |-> txn'[t]]
  BY <1>2, SessionMoves DEF MarketInv
<1>4. DOMAIN gaps' = DOMAIN gaps /\ \A g \in DOMAIN gaps : gaps'[g] \in {gaps[g], status}
  BY DEF SetStatus
<1>5. \A row : Committed(row)' <=> Committed(row)
  BY <1>2, <1>4 DEF Committed
<1>6. Shapes'
  <2>1. \A t \in Sessions : Shape(txn'[t]) /\ txn'[t].stage \in {"idle", "writing", "done"}
    BY <1>1, <1>3 DEF MarketInv, Shapes
  <2> QED
    BY <2>1, <1>2, <1>3, <1>4 DEF MarketInv, Shapes
<1>7. KeysOK'
  BY <1>2 DEF MarketInv, KeysOK
<1>8. HoldsOK'
  <2> SUFFICES ASSUME NEW t \in Sessions, NEW row \in txn'[t].held
               PROVE  ~Committed(row)' /\ ~HeldByAnother(t, row)'
    BY DEF HoldsOK
  <2>1. t # s /\ row \in txn[t].held
    BY <1>1, <1>3
  <2>2. ~Committed(row) /\ ~HeldByAnother(t, row)
    BY <2>1 DEF MarketInv, HoldsOK
  <2>3. ASSUME NEW u \in Sessions \ {t} PROVE row \notin txn'[u].held
    BY <2>2, <1>1, <1>3 DEF HeldByAnother
  <2> QED
    BY <2>2, <2>3, <1>5 DEF HeldByAnother
<1>9. PendingOK'
  <2> SUFFICES ASSUME NEW t \in Sessions
               PROVE  /\ txn'[t].todo \in Seq(Pending(t)')
                      /\ txn'[t].stage # "writing" => txn'[t].held = {}
                      /\ txn'[t].snapshot # None =>
                            /\ txn'[t].snapshot \in DOMAIN Content
                            /\ {DigestRow(txn'[t].snapshot), KeyRow(txn'[t].snapshot)}
                                  \subseteq Pending(t)' \cup txn'[t].held
    BY DEF PendingOK
  <2>1. CASE t = s
    <3>1. txn'[t].todo \in Seq(Pending(t)')
      BY <2>1, <1>1, <1>3, ShortSequences DEF Pending
    <3> QED
      BY <3>1, <2>1, <1>1, <1>3
  <2>2. CASE t # s
    BY <2>2, <1>3 DEF MarketInv, PendingOK, Pending
  <2> QED
    BY <2>1, <2>2
<1>10. RunsOK'
  <2>1. \A r \in runs' : Sound(r) /\ Explains(DOMAIN gaps', r)
    BY <1>2, <1>4 DEF MarketInv, RunsOK
  <2>2. \A row \in registry' : row[1] = "row"
    BY <1>2 DEF MarketInv, RunsOK
  <2>3. ASSUME NEW t \in Sessions, NEW r \in txn'[t].made
        PROVE  Sound(r) /\ Explains(DOMAIN gaps' \cup txn'[t].held \cup Pending(t)', r)
    <3>1. t # s
      BY <2>3, <1>1, <1>3
    <3> QED
      BY <3>1, <2>3, <1>3, <1>4 DEF MarketInv, RunsOK, Pending
  <2> QED
    BY <2>1, <2>2, <2>3 DEF RunsOK
<1> QED
  BY <1>6, <1>7, <1>8, <1>9, <1>10 DEF MarketInv

-----------------------------------------------------------------------------
(***************************************************************************)
(* Requests.                                                               *)
(***************************************************************************)

LEMMA JoinedRows ==
    ASSUME NEW p, p \in Seq(ToSet(p)), NEW q, q \in Seq(ToSet(q))
    PROVE  p \o q \in Seq(ToSet(p \o q)) /\ ToSet(p \o q) = ToSet(p) \cup ToSet(q)
<1> DEFINE T == ToSet(p) \cup ToSet(q)
<1>1. ToSet(p) \subseteq T /\ ToSet(q) \subseteq T
  OBVIOUS
<1> HIDE DEF T
<1>2. p \in Seq(T) /\ q \in Seq(T)
  BY <1>1, SeqMonotonic
<1>3. p \o q \in Seq(T)
  BY <1>2
<1>4. p \o q \in Seq(ToSet(p \o q))
  BY <1>3, OfItsMembers
<1> QED
  BY <1>2, <1>4, BothParts

LEMMA ImportStep ==
    ASSUME MarketInv, NEW s \in Sessions, NEW d \in DOMAIN Content, NEW recalculate,
           BeginImport(s, d, recalculate), UNCHANGED workload
    PROVE  MarketInv'
<1> DEFINE plan == ImportPlan(d, recalculate)
           flagged == home \cup {Content[d].home}
           native == NativeRun(d, flagged)
           keys == <<DigestRow(d), KeyRow(d)>>
           gapRows == GapRows(native, None)
           rows == Content[d].rows
<1>1. ASSUME NEW outcome, Answered(s, outcome) PROVE MarketInv'
  <2>1. txn' = [txn EXCEPT ![s] = Done(outcome)]
    BY <1>1 DEF Answered, Done
  <2>2. UNCHANGED <<snapshots, registry, home, runs, gaps, clock, workload>>
    BY <1>1 DEF Answered
  <2> QED
    BY <2>1, <2>2, GivesUp
<1>2. ASSUME Start(s, d, keys \o plan.rows, plan.made) PROVE MarketInv'
  <2>1. keys \in Seq(ToSet(keys)) /\ ToSet(keys) = {DigestRow(d), KeyRow(d)}
    <3> DEFINE T == {DigestRow(d), KeyRow(d)}
    <3>1. DigestRow(d) \in T /\ KeyRow(d) \in T
      OBVIOUS
    <3> HIDE DEF T
    <3>2. keys \in Seq(T)
      BY <3>1, ShortSequences
    <3>3. keys \in Seq(ToSet(keys))
      BY <3>2, OfItsMembers
    <3>4. DOMAIN keys = {1, 2} /\ keys[1] = DigestRow(d) /\ keys[2] = KeyRow(d)
      OBVIOUS
    <3> HIDE DEF keys
    <3> QED
      BY <3>3, <3>4 DEF ToSet
  <2>2. rows \in Seq(ToSet(rows))
    BY MarketAssumption
  <2>3. Sound(native) /\ Reports(native)
    BY NativeIsSound
  <2> HIDE DEF native, rows, keys
  <2>4. gapRows \in Seq(ToSet(gapRows)) /\ Explains(ToSet(gapRows), native)
    BY <2>3, GapRowsExplain
  <2> HIDE DEF gapRows
  <2>5. rows \o gapRows \in Seq(ToSet(rows \o gapRows)) /\ ToSet(gapRows) \subseteq ToSet(rows \o gapRows)
    BY <2>2, <2>4, JoinedRows
  <2>6. \/ plan.rows = rows \o gapRows
           /\ plan.made = {ReferenceRun(d), ReproductionRun(d, flagged), native}
        \/ plan.rows = rows /\ plan.made = {ReferenceRun(d)}
    BY DEF ImportPlan, rows, gapRows, native
  <2> HIDE DEF plan, flagged
  <2>7. plan.rows \in Seq(ToSet(plan.rows))
    BY <2>2, <2>5, <2>6
  <2>8. /\ keys \o plan.rows \in Seq(ToSet(keys \o plan.rows))
        /\ {DigestRow(d), KeyRow(d)} \subseteq ToSet(keys \o plan.rows)
        /\ ToSet(plan.rows) \subseteq ToSet(keys \o plan.rows)
    BY <2>1, <2>7, JoinedRows
  <2>9. ASSUME NEW r \in plan.made
        PROVE  Sound(r) /\ Explains(ToSet(keys \o plan.rows), r)
    <3>1. CASE r = ReferenceRun(d)
      BY <3>1, ReferenceIsSound
    <3>2. CASE r = ReproductionRun(d, flagged)
      BY <3>2, ReproductionIsSound
    <3>3. CASE r = native /\ plan.rows = rows \o gapRows
      <4>1. ToSet(gapRows) \subseteq ToSet(keys \o plan.rows)
        BY <3>3, <2>5, <2>8
      <4> QED
        BY <4>1, <3>3, <2>3, <2>4, MoreRowsExplain
    <3> QED
      BY <3>1, <3>2, <3>3, <2>6
  <2> QED
    BY <1>2, <2>8, <2>9, Starts
<1> HIDE DEF native, flagged
<1>3. \/ \E outcome : Answered(s, outcome)
      \/ Start(s, d, keys \o plan.rows, plan.made)
  BY DEF BeginImport
<1> HIDE DEF plan, keys
<1> QED
  BY <1>1, <1>2, <1>3

\* A run over a snapshot, with the rows of its gaps.
LEMMA RunStep ==
    ASSUME MarketInv, NEW s \in Sessions, NEW r, Sound(r), NEW todo, todo \in Seq(ToSet(todo)),
           Explains(ToSet(todo), r), Start(s, None, todo, {r}), UNCHANGED workload
    PROVE  MarketInv'
<1>1. \A q \in {r} : Sound(q) /\ Explains(ToSet(todo), q)
  OBVIOUS
<1> DEFINE made == {r}
           snapshot == None
<1>2. Start(s, snapshot, todo, made) /\ \A q \in made : Sound(q) /\ Explains(ToSet(todo), q)
  BY <1>1
<1>3. snapshot # None => snapshot \in DOMAIN Content /\ {DigestRow(snapshot), KeyRow(snapshot)} \subseteq ToSet(todo)
  OBVIOUS
<1> HIDE DEF made, snapshot
<1> QED
  BY <1>2, <1>3, Starts

LEMMA AnsweredStep ==
    ASSUME MarketInv, NEW s \in Sessions, NEW outcome, Answered(s, outcome), UNCHANGED workload
    PROVE  MarketInv'
<1>1. txn' = [txn EXCEPT ![s] = Done(outcome)]
  BY DEF Answered, Done
<1>2. UNCHANGED <<snapshots, registry, home, runs, gaps, clock, workload>>
  BY DEF Answered
<1> QED
  BY <1>1, <1>2, GivesUp

LEMMA BeginStep ==
    ASSUME MarketInv, NEW s \in Sessions, Begin(s), UNCHANGED workload
    PROVE  MarketInv'
<1>1. txn[s].stage = "idle" /\ workload \in Workloads
  BY DEF Begin, MarketInv, Shapes
<1>2. PICK q \in Requests(workload) :
        \/ q.kind = "import" /\ BeginImport(s, q.document, q.recalculate)
        \/ q.kind = "reproduction" /\ BeginReproduction(s, q.document)
        \/ q.kind = "native" /\ BeginNative(s, q.document)
        \/ q.kind = "contextual" /\ BeginContextual(s, q.document, q.context)
        \/ q.kind = "status" /\ SetStatus(s, q.status)
  BY DEF Begin
<1>3. IF q.kind = "status" THEN q.status \in {"OPEN", "RESOLVED"}
      ELSE /\ q.document \in DOMAIN Content
           /\ q.kind = "contextual" =>
                 /\ q.context.markets \subseteq Markets
                 /\ q.context.channel \in {None} \cup DOMAIN ChannelAccess
  BY <1>1, MarketAssumption
<1>4. CASE q.kind = "import" /\ BeginImport(s, q.document, q.recalculate)
  BY <1>3, <1>4, ImportStep
<1>5. CASE q.kind = "reproduction" /\ BeginReproduction(s, q.document)
  <2> DEFINE r == ReproductionRun(q.document, home)
             todo == <<>>
  <2>1. Start(s, None, todo, {r})
    BY <1>5 DEF BeginReproduction
  <2>2. Sound(r) /\ Explains(ToSet(todo), r)
    BY <1>3, <1>5, ReproductionIsSound
  <2>3. todo \in Seq(ToSet(todo))
    BY ShortSequences
  <2> HIDE DEF r, todo
  <2> QED
    BY <2>1, <2>2, <2>3, RunStep
<1>6. CASE q.kind = "native" /\ BeginNative(s, q.document)
  <2> DEFINE r == NativeRun(q.document, home)
             todo == GapRows(r, None)
  <2>1. Answered(s, "refused") \/ Start(s, None, todo, {r})
    BY <1>6 DEF BeginNative
  <2>2. Sound(r) /\ Reports(r)
    BY <1>3, <1>6, NativeIsSound
  <2> HIDE DEF r
  <2>3. todo \in Seq(ToSet(todo)) /\ Explains(ToSet(todo), r)
    BY <2>2, GapRowsExplain
  <2> HIDE DEF todo
  <2> QED
    BY <2>1, <2>2, <2>3, RunStep, AnsweredStep
<1>7. CASE q.kind = "contextual" /\ BeginContextual(s, q.document, q.context)
  <2>1. CASE Answered(s, "refused")
    BY <2>1, AnsweredStep
  <2>2. ASSUME NEW base,
               Start(s, None, GapRows(ContextualRun(q.document, base, q.context), q.context.vertical),
                     {ContextualRun(q.document, base, q.context)})
        PROVE  MarketInv'
    <3> DEFINE r == ContextualRun(q.document, base, q.context)
               todo == GapRows(r, q.context.vertical)
    <3>1. Start(s, None, todo, {r})
      BY <2>2
    <3>2. Sound(r) /\ Reports(r)
      BY <1>3, <1>7, ContextualIsSound
    <3> HIDE DEF r
    <3>3. todo \in Seq(ToSet(todo)) /\ Explains(ToSet(todo), r)
      BY <3>2, GapRowsExplain
    <3> HIDE DEF todo
    <3> QED
      BY <3>1, <3>2, <3>3, RunStep
  <2> QED
    BY <1>7, <2>1, <2>2 DEF BeginContextual
<1>8. CASE q.kind = "status" /\ SetStatus(s, q.status)
  BY <1>1, <1>3, <1>8, StatusStep
<1> QED
  BY <1>2, <1>4, <1>5, <1>6, <1>7, <1>8

-----------------------------------------------------------------------------
(***************************************************************************)
(* The runs there are, and those about to be committed.                    *)
(***************************************************************************)

\* A document that was validated and that the tables took.
Accepted(d) == Valid(d) /\ ~BreaksConstraint(d) /\ Content[d].home \in home

\* A session's runs are over snapshots, or over the one it imports.
Accounted(x) ==
    /\ x.snapshot # None => Valid(x.snapshot)
    /\ \A r \in x.made : Graded(r) /\ r.document \in snapshots \cup ({x.snapshot} \ {None})

GradesOK ==
    /\ \A d \in snapshots : Accepted(d)
    /\ \A r \in runs : Graded(r) /\ r.document \in snapshots
    /\ \A s \in Sessions : Accounted(txn[s])

\* Until a session commits, the tables of snapshots and runs stay.
LEMMA GradesKept ==
    ASSUME GradesOK, UNCHANGED <<snapshots, home, runs>>,
           \A t \in Sessions : \/ txn'[t].snapshot = txn[t].snapshot /\ txn'[t].made = txn[t].made
                               \/ Accounted(txn'[t])
    PROVE  GradesOK'
<1>1. ASSUME NEW t \in Sessions PROVE Accounted(txn[t])'
  BY DEF GradesOK, Accounted
<1>2. \A d \in snapshots : Accepted(d)'
  BY DEF GradesOK, Accepted
<1> QED
  BY <1>1, <1>2 DEF GradesOK

\* A session's record replaced.
LEMMA RecordReplaced ==
    ASSUME MarketInv, GradesOK, UNCHANGED <<snapshots, home, runs>>, NEW s \in Sessions, NEW x,
           txn' = [txn EXCEPT ![s] = x], Accounted(x)
    PROVE  GradesOK'
<1>1. \A t \in Sessions : \/ txn'[t].snapshot = txn[t].snapshot /\ txn'[t].made = txn[t].made
                          \/ Accounted(txn'[t])
  BY SessionMoves DEF MarketInv
<1> QED
  BY <1>1, GradesKept

LEMMA GradesAfterEnd ==
    ASSUME MarketInv, GradesOK, UNCHANGED <<snapshots, home, runs>>, NEW s \in Sessions, NEW outcome,
           txn' = [txn EXCEPT ![s] = [Idle EXCEPT !.stage = "done", !.outcome = outcome]]
    PROVE  GradesOK'
<1> DEFINE x == Done(outcome)
<1>1. txn' = [txn EXCEPT ![s] = x]
  BY DEF Done
<1>2. x.snapshot = None /\ x.made = {}
  BY DoneIs
<1> HIDE DEF x
<1>3. Accounted(x)
  BY <1>2 DEF Accounted
<1> QED
  BY <1>1, <1>3, RecordReplaced

LEMMA GradesAfterStart ==
    ASSUME MarketInv, GradesOK, NEW s \in Sessions, NEW snapshot, NEW todo, NEW made,
           Start(s, snapshot, todo, made), snapshot # None => Valid(snapshot),
           \A r \in made : Graded(r) /\ r.document \in snapshots \cup ({snapshot} \ {None})
    PROVE  GradesOK'
<1> DEFINE x == [Idle EXCEPT !.stage = "writing", !.snapshot = snapshot, !.todo = todo, !.made = made]
<1>1. x.snapshot = snapshot /\ x.made = made
  BY DEF Idle
<1>2. txn' = [txn EXCEPT ![s] = x] /\ UNCHANGED <<snapshots, home, runs>>
  BY DEF Start
<1> HIDE DEF x
<1>3. Accounted(x)
  BY <1>1 DEF Accounted
<1> QED
  BY <1>2, <1>3, RecordReplaced

LEMMA GradesAfterInsert ==
    ASSUME MarketInv, GradesOK, NEW s \in Sessions, Insert(s)
    PROVE  GradesOK'
<1>1. UNCHANGED <<snapshots, home, runs>>
  BY DEF Insert
<1>2. txn = [t \in Sessions |-> txn[t]] /\ \A t \in Sessions : Shape(txn[t])
  BY DEF MarketInv, Shapes
<1>3. ASSUME Skip(s) \/ Claim(s) \/ txn' = [txn EXCEPT ![s].waiting = TRUE], NEW t \in Sessions
      PROVE  txn'[t].snapshot = txn[t].snapshot /\ txn'[t].made = txn[t].made
  <2>1. CASE Skip(s)
    BY <1>2, <2>1 DEF Skip, Shape, Fields
  <2>2. CASE Claim(s)
    BY <1>2, <2>2 DEF Claim, Shape, Fields
  <2>3. CASE txn' = [txn EXCEPT ![s].waiting = TRUE]
    BY <1>2, <2>3 DEF Shape, Fields
  <2> QED
    BY <1>3, <2>1, <2>2, <2>3
<1>4. CASE Skip(s) \/ Claim(s) \/ txn' = [txn EXCEPT ![s].waiting = TRUE]
  BY <1>1, <1>3, <1>4, GradesKept
<1>5. CASE txn' = Rolled(s, "integrity")
  BY <1>1, <1>5, GradesAfterEnd DEF Rolled
<1> QED
  BY <1>4, <1>5 DEF Insert

LEMMA GradesAfterCommit ==
    ASSUME MarketInv, GradesOK, NEW s \in Sessions, Commit(s)
    PROVE  GradesOK'
<1> DEFINE d == txn[s].snapshot
           x == Done("committed")
<1>1. x.snapshot = None /\ x.made = {}
  BY DoneIs
<1>2. txn' = [txn EXCEPT ![s] = x]
  BY DEF Commit, Rolled, Done
<1> HIDE DEF x
<1>3. txn'[s] = x /\ \A t \in Sessions \ {s} : txn'[t] = txn[t]
  BY <1>2, SessionMoves DEF MarketInv
<1>4. /\ d # None => /\ ~BreaksConstraint(d) /\ Valid(d)
                     /\ snapshots' = snapshots \cup {d} /\ home' = home \cup {Content[d].home}
      /\ d = None => snapshots' = snapshots /\ home' = home
      /\ runs' = runs \cup txn[s].made
  BY DEF Commit, GradesOK, Accounted
<1>5. ASSUME NEW r \in txn[s].made PROVE Graded(r) /\ r.document \in snapshots \cup ({d} \ {None})
  BY DEF GradesOK, Accounted
<1> HIDE DEF d
<1>6. ASSUME NEW e \in snapshots' PROVE Accepted(e)'
  <2>1. e \in snapshots => Accepted(e)
    BY DEF GradesOK
  <2> QED
    BY <1>4, <1>6, <2>1 DEF Accepted
<1>7. ASSUME NEW r \in runs' PROVE Graded(r) /\ r.document \in snapshots'
  BY <1>4, <1>5 DEF GradesOK
<1>8. ASSUME NEW t \in Sessions PROVE Accounted(txn[t])'
  <2>1. CASE t = s
    BY <1>1, <1>3, <2>1 DEF Accounted
  <2>2. CASE t # s
    BY <1>3, <1>4, <2>2 DEF GradesOK, Accounted
  <2> QED
    BY <2>1, <2>2
<1> QED
  BY <1>6, <1>7, <1>8 DEF GradesOK

LEMMA GradesAfterImport ==
    ASSUME MarketInv, GradesOK, NEW s \in Sessions, NEW d \in DOMAIN Content, NEW recalculate,
           BeginImport(s, d, recalculate)
    PROVE  GradesOK'
<1> DEFINE plan == ImportPlan(d, recalculate)
           flagged == home \cup {Content[d].home}
           native == NativeRun(d, flagged)
<1>1. ASSUME NEW outcome, Answered(s, outcome) PROVE GradesOK'
  BY <1>1, GradesAfterEnd DEF Answered
<1>2. ASSUME NEW todo, Valid(d), ~(recalculate /\ NativeFails(d)), Start(s, d, todo, plan.made)
      PROVE  GradesOK'
  <2>1. Graded(ReferenceRun(d)) /\ ReferenceRun(d).document = d
    BY <1>2, ReferenceIsGraded
  <2>2. Graded(ReproductionRun(d, flagged)) /\ ReproductionRun(d, flagged).document = d
    BY <1>2, ReproductionIsGraded
  <2>3. recalculate => Graded(native) /\ native.document = d
    BY <1>2, NativeIsGraded
  <2>4. plan.made = IF recalculate THEN {ReferenceRun(d), ReproductionRun(d, flagged), native}
                    ELSE {ReferenceRun(d)}
    BY DEF ImportPlan
  <2> HIDE DEF plan, flagged, native
  <2>5. \A r \in plan.made : Graded(r) /\ r.document = d
    BY <2>1, <2>2, <2>3, <2>4
  <2>6. d # None
    BY MarketAssumption
  <2> QED
    BY <1>2, <2>5, <2>6, GradesAfterStart
<1> HIDE DEF native, flagged
<1>3. \/ \E outcome : Answered(s, outcome)
      \/ /\ Valid(d) /\ ~(recalculate /\ NativeFails(d))
         /\ \E todo : Start(s, d, todo, plan.made)
  BY DEF BeginImport
<1> HIDE DEF plan
<1> QED
  BY <1>1, <1>2, <1>3

\* A session starts with one run over a snapshot.
LEMMA GradesAfterRun ==
    ASSUME MarketInv, GradesOK, NEW s \in Sessions, NEW todo, NEW r, Start(s, None, todo, {r}),
           Graded(r), r.document \in snapshots
    PROVE  GradesOK'
<1> DEFINE made == {r}
           snapshot == None
<1>1. Start(s, snapshot, todo, made)
  OBVIOUS
<1>2. snapshot # None => Valid(snapshot)
  OBVIOUS
<1>3. \A q \in made : q = r
  OBVIOUS
<1> HIDE DEF made, snapshot
<1>4. ASSUME NEW q \in made
      PROVE  Graded(q) /\ q.document \in snapshots \cup ({snapshot} \ {None})
  <2>1. q = r
    BY <1>3
  <2> QED
    BY <2>1
<1> QED
  BY <1>1, <1>2, <1>4, GradesAfterStart

LEMMA GradesAfterBegin ==
    ASSUME MarketInv, GradesOK, NEW s \in Sessions, Begin(s)
    PROVE  GradesOK'
<1>1. workload \in Workloads
  BY DEF MarketInv, Shapes
<1>2. PICK q \in Requests(workload) :
        \/ q.kind = "import" /\ BeginImport(s, q.document, q.recalculate)
        \/ q.kind = "reproduction" /\ BeginReproduction(s, q.document)
        \/ q.kind = "native" /\ BeginNative(s, q.document)
        \/ q.kind = "contextual" /\ BeginContextual(s, q.document, q.context)
        \/ q.kind = "status" /\ SetStatus(s, q.status)
  BY DEF Begin
<1>3. q.kind # "status" =>
         /\ q.document \in DOMAIN Content
         /\ q.kind = "contextual" =>
               /\ q.context.markets \in SUBSET Markets
               /\ q.context.channel \in {None} \cup DOMAIN ChannelAccess
               /\ Measurement(q.context.ticket, Int)
  BY <1>1, MarketAssumption
<1>4. ASSUME NEW outcome, Answered(s, outcome) PROVE GradesOK'
  BY <1>4, GradesAfterEnd DEF Answered
<1> DEFINE d == q.document
<1>5. d \in snapshots => Valid(d) /\ Content[d].home \in home
  BY DEF GradesOK, Accepted
<1>6. CASE q.kind = "import" /\ BeginImport(s, d, q.recalculate)
  BY <1>3, <1>6, GradesAfterImport
<1>7. CASE q.kind = "reproduction" /\ BeginReproduction(s, d)
  <2> DEFINE r == ReproductionRun(d, home)
             todo == <<>>
  <2>1. d \in snapshots /\ Start(s, None, todo, {r})
    BY <1>7 DEF BeginReproduction
  <2>2. Graded(r) /\ r.document = d
    BY <1>3, <1>5, <1>7, <2>1, ReproductionIsGraded
  <2> HIDE DEF r, todo
  <2> QED
    BY <2>1, <2>2, GradesAfterRun
<1>8. CASE q.kind = "native" /\ BeginNative(s, d)
  <2> DEFINE r == NativeRun(d, home)
             todo == GapRows(r, None)
  <2>1. d \in snapshots
    BY <1>8 DEF BeginNative
  <2>2. CASE NativeFails(d)
    <3>1. Answered(s, "refused")
      BY <1>8, <2>2 DEF BeginNative
    <3> QED
      BY <1>4, <3>1
  <2>3. ~NativeFails(d) => Graded(r) /\ r.document = d
    BY <1>3, <1>8, NativeIsGraded
  <2>4. CASE ~NativeFails(d)
    <3>1. Start(s, None, todo, {r})
      BY <1>8, <2>4 DEF BeginNative
    <3> HIDE DEF r, todo
    <3> QED
      BY <2>1, <2>3, <2>4, <3>1, GradesAfterRun
  <2> QED
    BY <2>2, <2>4
<1>9. CASE q.kind = "contextual" /\ BeginContextual(s, d, q.context)
  <2>1. CASE Answered(s, "refused")
    BY <1>4, <2>1
  <2>2. ASSUME NEW base \in BaseRuns(d, q.context.named), NEW todo,
               Start(s, None, todo, {ContextualRun(d, base, q.context)})
        PROVE  GradesOK'
    <3> DEFINE r == ContextualRun(d, base, q.context)
    <3>1. base \in runs
      BY <2>2 DEF BaseRuns
    <3>2. WellScored(base)
      BY <3>1 DEF GradesOK, Graded
    <3>3. Graded(r) /\ r.document = d
      BY <1>3, <1>9, <3>2, ContextualIsGraded
    <3>4. d \in snapshots
      BY <1>9 DEF BeginContextual
    <3>5. Start(s, None, todo, {r})
      BY <2>2
    <3> HIDE DEF r
    <3> QED
      BY <3>3, <3>4, <3>5, GradesAfterRun
  <2> QED
    BY <1>9, <2>1, <2>2 DEF BeginContextual
<1>10. CASE q.kind = "status" /\ SetStatus(s, q.status)
  <2>1. /\ UNCHANGED <<snapshots, home, runs>>
        /\ txn' = [txn EXCEPT ![s] = [Idle EXCEPT !.stage = "done", !.outcome = "committed"]]
    BY <1>10 DEF SetStatus
  <2> QED
    BY <2>1, GradesAfterEnd
<1> QED
  BY <1>2, <1>6, <1>7, <1>8, <1>9, <1>10

-----------------------------------------------------------------------------
(***************************************************************************)
(* Theorems.                                                               *)
(***************************************************************************)

LEMMA MarketInit == Init => MarketInv
<1> SUFFICES ASSUME Init PROVE MarketInv
  OBVIOUS
<1>1. \A s \in Sessions : txn[s] = Idle
  BY DEF Init
<1>2. Shapes
  <2>1. \A s \in Sessions : Shape(txn[s]) /\ txn[s].stage \in {"idle", "writing", "done"}
    BY <1>1, IdleIs
  <2>2. \A g \in DOMAIN gaps : gaps[g] \in {"OPEN", "RESOLVED"}
    BY DEF Init
  <2> QED
    BY <2>1, <2>2 DEF Init, Shapes
<1>3. KeysOK
  BY DEF Init, KeysOK
<1>4. HoldsOK
  BY <1>1, IdleIs DEF HoldsOK
<1>5. PendingOK
  <2>1. \A s \in Sessions : txn[s].todo \in Seq(Pending(s))
    BY <1>1, IdleIs, ShortSequences DEF Pending
  <2> QED
    BY <2>1, <1>1, IdleIs DEF PendingOK
<1>6. RunsOK
  BY <1>1, IdleIs DEF Init, RunsOK
<1> QED
  BY <1>2, <1>3, <1>4, <1>5, <1>6 DEF MarketInv

LEMMA MarketStep == MarketInv /\ [Next]_vars => MarketInv'
<1> SUFFICES ASSUME MarketInv, [Next]_vars PROVE MarketInv'
  OBVIOUS
<1>1. ASSUME NEW s \in Sessions, NEW outcome, txn' = Rolled(s, outcome),
             UNCHANGED <<snapshots, registry, home, runs, gaps, clock, workload>>
      PROVE  MarketInv'
  <2>1. txn' = [txn EXCEPT ![s] = Done(outcome)]
    BY <1>1 DEF Rolled, Done
  <2> QED
    BY <2>1, <1>1, GivesUp
<1>2. CASE Next
  <2>1. PICK s \in Sessions : Begin(s) \/ Step(s) \/ Crash(s)
    BY <1>2 DEF Next
  <2>2. UNCHANGED workload
    BY <1>2 DEF Next
  <2>3. CASE Begin(s)
    BY <2>2, <2>3, BeginStep
  <2>4. CASE Insert(s)
    BY <2>2, <2>4, InsertStep
  <2>5. CASE Commit(s)
    BY <2>2, <2>5, CommitStep
  <2>6. CASE RejectedByTable(s)
    BY <2>2, <2>6, <1>1 DEF RejectedByTable
  <2>7. CASE DeadlockVictim(s)
    BY <2>2, <2>7, <1>1 DEF DeadlockVictim
  <2>8. CASE Crash(s)
    BY <2>2, <2>8, <1>1 DEF Crash
  <2> QED
    BY <2>1, <2>3, <2>4, <2>5, <2>6, <2>7, <2>8 DEF Step
<1>3. CASE UNCHANGED vars
  BY <1>3 DEF vars, MarketInv, Shapes, KeysOK, HoldsOK, PendingOK, RunsOK, Pending, Committed, HeldByAnother
<1> QED
  BY <1>2, <1>3

LEMMA MarketInvariant == Spec => []MarketInv
<1> QED
  BY MarketInit, MarketStep, PTL DEF Spec

LEMMA GradesInit == Init => GradesOK
BY IdleIs DEF Init, GradesOK, Accounted

LEMMA GradesStep == MarketInv /\ GradesOK /\ [Next]_vars => GradesOK'
<1> SUFFICES ASSUME MarketInv, GradesOK, [Next]_vars PROVE GradesOK'
  OBVIOUS
<1>1. CASE Next
  <2>1. PICK s \in Sessions : Begin(s) \/ Step(s) \/ Crash(s)
    BY <1>1 DEF Next
  <2>2. ASSUME NEW outcome, txn' = Rolled(s, outcome), UNCHANGED <<snapshots, registry, home, runs, gaps, clock>>
        PROVE  GradesOK'
    BY <2>2, GradesAfterEnd DEF Rolled
  <2>3. CASE Begin(s)
    BY <2>3, GradesAfterBegin
  <2>4. CASE Insert(s)
    BY <2>4, GradesAfterInsert
  <2>5. CASE Commit(s)
    BY <2>5, GradesAfterCommit
  <2>6. CASE RejectedByTable(s)
    BY <2>2, <2>6 DEF RejectedByTable
  <2>7. CASE DeadlockVictim(s)
    BY <2>2, <2>7 DEF DeadlockVictim
  <2>8. CASE Crash(s)
    BY <2>2, <2>8 DEF Crash
  <2> QED
    BY <2>1, <2>3, <2>4, <2>5, <2>6, <2>7, <2>8 DEF Step
<1>2. CASE UNCHANGED vars
  BY <1>2 DEF vars, GradesOK, Accepted, Accounted
<1> QED
  BY <1>1, <1>2

LEMMA GradesInvariant == Spec => []GradesOK
<1> QED
  BY MarketInvariant, GradesInit, GradesStep, PTL DEF Spec

\* Every variable stays in its domain, a row is held by one session and not
\* committed, and no two snapshots share a key or a digest, however their
\* imports interleave.
THEOREM TypeCorrect == Spec => []TypeOK
<1>1. MarketInv => TypeOK
  BY DEF MarketInv, Shapes, KeysOK, HoldsOK, RunsOK, Sound, TypeOK
<1> QED
  BY <1>1, MarketInvariant, PTL

\* Whatever a committed run could not score is a recorded gap, also when another
\* session inserted the gap first and the run only skipped it.
THEOREM GapsExplainRuns == Spec => []GapsExplainCoverage
<1>1. MarketInv => GapsExplainCoverage
  BY DEF MarketInv, RunsOK, Explains, GapsExplainCoverage
<1> QED
  BY <1>1, MarketInvariant, PTL

\* No session's step changes the status of a gap that exists.
THEOREM DecisionsStand == Spec => DecidedGapsStay
<1>1. ASSUME NEW s \in Sessions, Step(s), NEW g \in DOMAIN gaps
      PROVE  gaps'[g] = gaps[g]
  <2>1. CASE Commit(s)
    BY <2>1 DEF Commit, GapsAfter
  <2>2. CASE ~Commit(s)
    BY <1>1, <2>2 DEF Step, Insert, RejectedByTable, DeadlockVictim
  <2> QED
    BY <2>1, <2>2
<1>2. [Next]_vars => [\A s \in Sessions : Step(s) => \A g \in DOMAIN gaps : gaps'[g] = gaps[g]]_vars
  BY <1>1
<1> QED
  BY <1>2, PTL DEF Spec, DecidedGapsStay

\* Whatever is tied, unranked or listed where, the rank of a market in a
\* committed run is one more than the number of ranked markets that score
\* strictly better, whoever ran it over which snapshot (rank_results).
THEOREM RanksStand == Spec => []RanksAreStanding
<1>1. GradesOK => RanksAreStanding
  BY DEF GradesOK, Graded, Stands, RanksAreStanding
<1> QED
  BY <1>1, GradesInvariant, PTL

\* What was never measured is left out of a native score and not counted as a
\* zero: of two markets that are otherwise equal, the one measured at zero loses
\* (run_native_recalculation).
THEOREM UnknownsOutscoreZeros == Spec => []UnknownIsNotZero
<1>1. GradesOK => UnknownIsNotZero
  BY DEF GradesOK, Graded, Renormalises, UnknownIsNotZero
<1> QED
  BY <1>1, GradesInvariant, PTL

\* A market measured on more of the model, whose entry is labelled no less sure,
\* is at least as confident (aggregate_confidence, evidence_confidence).
THEOREM ConfidenceFollowsEvidence == Spec => []EvidenceRaisesConfidence
<1>1. GradesOK => EvidenceRaisesConfidence
  BY DEF GradesOK, Graded, Confides, EvidenceRaisesConfidence
<1> QED
  BY <1>1, GradesInvariant, PTL

\* A reproduction of a consistent snapshot gives the scores and ranks that the
\* document published, whenever it is run (run_reference_reproduction).
THEOREM ReproductionsAgree == Spec => []ReproducesPublished
<1>1. GradesOK => ReproducesPublished
  BY DEF GradesOK, Accepted, Graded, Reproduces, ReproducesPublished
<1> QED
  BY <1>1, GradesInvariant, PTL

=============================================================================
