----------------------- MODULE EvidenceTrailProofs ------------------------
(* Theorems about EvidenceTrail: shared rows have one holder, whatever is    *)
(* read in a document is cited for every retrieval of it, claims rest on     *)
(* what may be asserted or was confirmed, and confidences are never at odds  *)
(* with their evidence, however attempts, reviewers and pruning interleave;  *)
(* and the voices behind a claim are as many as its evidence has witnesses.  *)
EXTENDS EvidenceTrail, SequenceTheorems, FiniteSetTheorems, FunctionTheorems, WellFoundedInduction,
        TLAPS

(***************************************************************************)
(* The inductive invariant.  It speaks of tables: those committed (db), and *)
(* for each attempt the whole of what is committed and its own.             *)
(***************************************************************************)

Fields == {"stage", "at", "version", "plan", "todo", "waiting", "got", "blank", "observed",
           "failed", "own", "outcome"}

Tables == {"rows", "bodies", "fetches", "extractions", "usages", "evidence", "candidates",
           "claims", "links", "edges"}

Whole(base, own) == [table \in Tables |-> base[table] \cup own[table]]

Shaped(t) ==
    /\ t = [field \in Fields |-> t[field]]
    /\ t.own = [table \in Tables |-> t.own[table]]
    /\ t.stage \in {"idle", "fetching", "extracting", "asserted", "done"}
    /\ t.outcome \in Outcomes \ {"divergence"}
    /\ t.todo \in Seq(ToSet(t.todo)) /\ t.plan \in Seq(Sources) /\ t.got \in Seq(ToSet(t.got))

Shapes ==
    /\ db = [table \in Tables |-> db[table]]
    /\ txn = [a \in Attempts |-> txn[a]]
    /\ \A a \in Attempts : Shaped(txn[a])

\* Every variable of the world stays in its domain.
WorldOK ==
    /\ page = [s \in Sources |-> page[s]]
    /\ \A s \in Sources : page[s] \in ToSet(Website[s])
    /\ clock \in Nat /\ version \in 1..MaxVersions
    /\ pruned \subseteq ({"body", "text"} \X DOMAIN Document)

\* A row an attempt inserted is nobody else's, and not committed.
HoldsOK ==
    \A a \in Attempts : \A row \in txn[a].own.rows : row \notin db.rows /\ ~HeldByAnother(a, row)

-----------------------------------------------------------------------------
(* Rows that refer to rows.                                                  *)

\* A shared key stands for a body or an extraction that is there.
StandsFor(row, tables) ==
    /\ row[1] = "body" => \E b \in tables.bodies : b.body = row[2]
    /\ row[1] = "extraction" => \E x \in tables.extractions : x.id = row[2]

\* What stands behind a piece of evidence: its extraction and its retrieval.
Founded(e, tables) ==
    /\ \E x \in tables.extractions : x.id = e.extraction /\ x.id.body = e.body
    /\ \E f \in tables.fetches : f.source = e.source /\ f.attempt = e.attempt /\ f.body = e.body

\* A candidate waits with evidence that is there.
Proposed(c, tables) ==
    /\ c.evidence \in tables.evidence
    /\ c.evidence = [extraction |-> c.evidence.extraction, source |-> c.evidence.source,
                     attempt |-> c.evidence.attempt, body |-> c.evidence.body, span |-> c.evidence.span]

\* A link rests on what may be asserted, or on a candidate a reviewer confirmed.
Accountable(l, tables) ==
    \/ \E x \in ToSet(Extractors) : /\ x.id = l.evidence.extraction.extractor
                                    /\ ~x.sampled /\ x.confidence >= 60
    \/ \E c \in tables.candidates : /\ l.evidence.extraction = HumanId(c)
                                    /\ l.evidence = [c.evidence EXCEPT !.extraction = HumanId(c)]
                                    /\ l.claim.rule = None => c.says.key = l.claim.key

\* The confidence of a claim is a matter of its lineage: the tier and the voice of
\* a piece of evidence are those of its origin.
FromLineage(id) ==
    Confidence(id.fact, {Tier[o[1]] : o \in id.lineage},
               MaximumMatching({<<Publisher[o[1]], o[2]>> : o \in id.lineage}), id.rule # None)

\* What is linked to a claim is its lineage, all of it and nothing else.
Faithful(l) == Origin(l.evidence) \in l.claim.lineage

Attested(c, tables) ==
    /\ c.confidence = FromLineage(c.id)
    /\ \A o \in c.id.lineage : \E l \in tables.links : l.claim = c.id /\ Origin(l.evidence) = o

Sound(tables) ==
    /\ \A row \in tables.rows : StandsFor(row, tables)
    /\ \A b \in tables.bodies : b.body \in DOMAIN Document
    /\ \A e \in tables.evidence : Founded(e, tables)
    /\ \A c \in tables.candidates : Proposed(c, tables)
    /\ \A l \in tables.links : Accountable(l, tables) /\ Faithful(l)
    /\ \A c \in tables.claims : Attested(c, tables)

-----------------------------------------------------------------------------
(* Retrievals and what is done about them.                                   *)

HasBody(body, tables) == \E b \in tables.bodies : b.body = body

\* An extractor's reading of a body is cited for an attempt's retrieval of it.
CitedFor(tables, attempt, source, body, x) ==
    \E u \in tables.usages :
        /\ u.attempt = attempt /\ u.extraction.body = body /\ u.extraction.extractor = x.id
        /\ \E r \in tables.extractions :
              /\ r.id = u.extraction
              /\ \A o \in r.says : \E e \in tables.evidence :
                    /\ e.extraction = r.id /\ e.source = source /\ e.attempt = attempt
                    /\ e.span = o.span

Settled(f, tables) ==
    /\ f.body # None => HasBody(f.body, tables)
    /\ f.outcome = "OK" =>
          \A x \in ToSet(Extractors) : x.media = Document[f.body].media =>
              CitedFor(tables, f.attempt, f.source, f.body, x)

\* A row still to take asks for a shared row, on behalf of what the attempt got.
Asks(row, g, x) ==
    /\ row.key[1] = "extraction" /\ row.got = g /\ row.extractor = x
    /\ row.key[2].body = g.body /\ row.key[2].extractor = x.id

Asked(row, t) ==
    \/ row.key[1] = "source"
    \/ row.key[1] = "artifact" /\ row.got \in ToSet(t.got)
    \/ row.key[1] = "body" /\ row.key[2] = row.got.body /\ row.got \in ToSet(t.got)
    \/ \E g \in ToSet(t.got) : \E x \in ToSet(Extractors) : Asks(row, g, x)

\* What an attempt has got it has fetched.
Got(g, t) ==
    /\ g.body \in DOMAIN Document
    /\ \E f \in t.own.fetches : f.source = g.source /\ f.body = g.body

\* The body an attempt fetched is there, or is about to be inserted.
Fetches(a, f, t, tables) ==
    /\ f.attempt = a
    /\ f.outcome = "OK" => \E g \in ToSet(t.got) : g.source = f.source /\ g.body = f.body
    /\ f.body # None =>
          \/ HasBody(f.body, tables)
          \/ \E row \in ToSet(t.todo) : row.key[1] = "body" /\ row.key[2] = f.body

\* Everything an attempt got is cited, or is still to be read.
Reads(a, t, tables) ==
    /\ t.stage = "asserted" => t.todo = <<>>
    /\ t.stage \in {"extracting", "asserted"} =>
          \A g \in ToSet(t.got) : \A x \in ToSet(Extractors) :
              x.media = Document[g.body].media =>
                  \/ \E row \in ToSet(t.todo) : Asks(row, g, x)
                  \/ CitedFor(tables, a, g.source, g.body, x)

\* What an attempt is about to assert may be asserted.
Assertable(f) ==
    \E x \in ToSet(Extractors) : x.id = f.evidence.extraction.extractor /\ ~MustWait(x)

Working(a, t, tables) ==
    /\ \A g \in ToSet(t.got) : Got(g, t)
    /\ \A f \in t.own.fetches : Fetches(a, f, t, tables)
    /\ \A row \in ToSet(t.todo) : Asked(row, t)
    /\ Reads(a, t, tables)
    /\ \A f \in t.observed : Assertable(f)

CommittedOK == Sound(db) /\ \A f \in db.fetches : Settled(f, db)

AttemptOK(a, t, base) == Sound(Whole(base, t.own)) /\ Working(a, t, Whole(base, t.own))

AttemptsOK == \A a \in Attempts : AttemptOK(a, txn[a], db)

TrailInv == Shapes /\ WorldOK /\ HoldsOK /\ CommittedOK /\ AttemptsOK

-----------------------------------------------------------------------------
(***************************************************************************)
(* Numbers and sequences.                                                  *)
(***************************************************************************)

\* A set of numbers has a least one.
LEMMA LeastNumber ==
    ASSUME NEW S \in SUBSET Nat, S # {}
    PROVE  \E x \in S : \A y \in S : x <= y
<1> DEFINE R == {ss \in Nat \X Nat : ss[1] < ss[2]}
<1>1. IsWellFoundedOn(R, Nat)
  BY NatLessThanWellFounded DEF OpToRel
<1> HIDE DEF R
<1>2. PICK x \in S : \A y \in S : ~ (<<y, x>> \in R)
  BY <1>1, WFMin
<1>3. \A y \in S : ~ (y < x)
  BY <1>2 DEF R
<1> QED
  BY <1>3

\* The first i sequences of ss, one after the other, for all i at once.
Flattens(f, ss, k) ==
    f = [i \in 1..k |-> IF i = 1 THEN ss[i] ELSE f[i - 1] \o ss[i]]

LEMMA FlatteningExists ==
    ASSUME NEW ss, NEW n \in Nat \ {0}
    PROVE  \E f : Flattens(f, ss, n)
<1> DEFINE Bad == {k \in 1..n : ~ \E f : Flattens(f, ss, k)}
<1> SUFFICES ASSUME Bad # {} PROVE FALSE
  OBVIOUS
<1>1. PICK k \in Bad : \A j \in Bad : k <= j
  <2>1. Bad \in SUBSET Nat
    OBVIOUS
  <2> QED
    BY <2>1, LeastNumber
<1>2. k \in 1..n /\ ~ \E f : Flattens(f, ss, k)
  OBVIOUS
<1>3. CASE k = 1
  <2> DEFINE f == [i \in 1..1 |-> ss[1]]
  <2>1. Flattens(f, ss, 1)
    BY DEF Flattens
  <2> QED
    BY <2>1, <1>2, <1>3
<1>4. CASE k # 1
  <2>1. k - 1 \in 1..n /\ k - 1 \notin Bad
    BY <1>1, <1>2, <1>4
  <2>2. PICK g : Flattens(g, ss, k - 1)
    BY <2>1
  <2> DEFINE f == [i \in 1..k |-> IF i < k THEN g[i] ELSE g[k - 1] \o ss[k]]
  <2>3. ASSUME NEW i \in 1..k
        PROVE  f[i] = IF i = 1 THEN ss[i] ELSE f[i - 1] \o ss[i]
    <3>1. CASE i = k
      <4>1. k - 1 \in 1..k /\ k \in 1..k
        BY <1>2, <1>4
      <4>2. f[k - 1] = g[k - 1]
        BY <4>1
      <4>3. f[k] = g[k - 1] \o ss[k]
        <5>1. \A j \in 1..k : f[j] = IF j < k THEN g[j] ELSE g[k - 1] \o ss[k]
          OBVIOUS
        <5>2. ~ (k < k)
          BY <4>1
        <5> HIDE DEF f
        <5> QED
          BY <5>1, <5>2, <4>1
      <4> QED
        BY <4>2, <4>3, <3>1, <1>4
    <3>2. CASE i # k
      <4>1. i \in 1..(k - 1)
        BY <3>2, <1>2
      <4>2. g[i] = IF i = 1 THEN ss[i] ELSE g[i - 1] \o ss[i]
        BY <4>1, <2>2 DEF Flattens
      <4> QED
        BY <4>1, <4>2, <1>2
    <3> QED
      BY <3>1, <3>2
  <2>4. Flattens(f, ss, k)
    <3> HIDE DEF f
    <3>1. f = [i \in 1..k |-> f[i]]
      BY DEF f
    <3> QED
      BY <3>1, <2>3 DEF Flattens
  <2> QED
    BY <2>4, <1>2
<1> QED
  BY <1>3, <1>4

LEMMA OfItsMembers ==
    ASSUME NEW T, NEW s \in Seq(T)
    PROVE  s \in Seq(ToSet(s))
<1>1. Len(s) \in Nat /\ s \in [1..Len(s) -> T]
  BY LenProperties
<1>2. \A i \in 1..Len(s) : s[i] \in ToSet(s)
  BY <1>1 DEF ToSet
<1>3. s \in [1..Len(s) -> ToSet(s)]
  BY <1>1, <1>2
<1> QED
  BY <1>1, <1>3, SeqDef

LEMMA BothParts ==
    ASSUME NEW T, NEW s \in Seq(T), NEW t \in Seq(T)
    PROVE  ToSet(s \o t) = ToSet(s) \cup ToSet(t)
<1>1. Len(s \o t) = Len(s) + Len(t) /\ Len(s) \in Nat /\ Len(t) \in Nat
  OBVIOUS
<1>2. DOMAIN s = 1..Len(s) /\ DOMAIN t = 1..Len(t) /\ DOMAIN (s \o t) = 1..(Len(s) + Len(t))
  OBVIOUS
<1>3. \A i \in 1..Len(s) : (s \o t)[i] = s[i] /\ i \in DOMAIN (s \o t)
  BY <1>1, <1>2
<1>4. \A i \in 1..Len(t) : (s \o t)[Len(s) + i] = t[i] /\ Len(s) + i \in DOMAIN (s \o t)
  BY <1>1, <1>2
<1>5. \A i \in DOMAIN (s \o t) : i \in 1..Len(s) \/ (i - Len(s) \in 1..Len(t) /\ i = Len(s) + (i - Len(s)))
  BY <1>1, <1>2
<1>6. ASSUME NEW x \in ToSet(s \o t) PROVE x \in ToSet(s) \cup ToSet(t)
  <2>1. PICK i \in DOMAIN (s \o t) : x = (s \o t)[i]
    BY <1>6 DEF ToSet
  <2> QED
    BY <2>1, <1>2, <1>3, <1>4, <1>5 DEF ToSet
<1>7. ASSUME NEW x \in ToSet(s) PROVE x \in ToSet(s \o t)
  <2>1. PICK i \in 1..Len(s) : x = s[i]
    BY <1>2 DEF ToSet
  <2> QED
    BY <2>1, <1>3 DEF ToSet
<1>8. ASSUME NEW x \in ToSet(t) PROVE x \in ToSet(s \o t)
  <2>1. PICK i \in 1..Len(t) : x = t[i]
    BY <1>2 DEF ToSet
  <2> QED
    BY <2>1, <1>4 DEF ToSet
<1> QED
  BY <1>6, <1>7, <1>8

\* Sequences one after the other are a sequence, and each member of each is in it.
LEMMA FlatteningHolds ==
    ASSUME NEW T, NEW ss \in Seq(Seq(T))
    PROVE  /\ FlattenSeq(ss) \in Seq(T)
           /\ \A i \in DOMAIN ss : ToSet(ss[i]) \subseteq ToSet(FlattenSeq(ss))
<1> DEFINE n == Len(ss)
<1>0. n \in Nat /\ DOMAIN ss = 1..n /\ \A i \in 1..n : ss[i] \in Seq(T)
  OBVIOUS
<1>1. CASE n = 0
  <2>1. ss = <<>>
    BY <1>1
  <2> QED
    BY <2>1, <1>1 DEF FlattenSeq
<1>2. CASE n # 0
  <2> DEFINE f == CHOOSE g : Flattens(g, ss, n)
  <2>1. Flattens(f, ss, n)
    BY <1>0, <1>2, FlatteningExists
  <2>2. FlattenSeq(ss) = f[n]
    BY <1>2 DEF FlattenSeq, Flattens
  <2> HIDE DEF f
  <2> DEFINE Good(k) == f[k] \in Seq(T) /\ \A i \in 1..k : ToSet(ss[i]) \subseteq ToSet(f[k])
             Bad == {k \in 1..n : ~ Good(k)}
  <2>3. Bad = {}
    <3> SUFFICES ASSUME Bad # {} PROVE FALSE
      OBVIOUS
    <3>1. PICK k \in Bad : \A j \in Bad : k <= j
      <4>1. Bad \in SUBSET Nat
        OBVIOUS
      <4> QED
        BY <4>1, LeastNumber
    <3>2. k \in 1..n /\ ~ Good(k)
      OBVIOUS
    <3>3. f[k] = IF k = 1 THEN ss[k] ELSE f[k - 1] \o ss[k]
      BY <3>2, <2>1 DEF Flattens
    <3>4. CASE k = 1
      BY <3>2, <3>3, <3>4, <1>0
    <3>5. CASE k # 1
      <4> HIDE DEF Good
      <4>0. k - 1 \in 1..n /\ ~ (k <= k - 1)
        BY <3>2, <3>5, <1>0
      <4>1. k - 1 \in 1..n /\ Good(k - 1)
        BY <3>1, <4>0
      <4> USE DEF Good
      <4>2. f[k] = f[k - 1] \o ss[k] /\ f[k - 1] \in Seq(T) /\ ss[k] \in Seq(T)
        BY <3>3, <3>5, <4>1, <3>2, <1>0
      <4>3. ToSet(f[k - 1]) \subseteq ToSet(f[k]) /\ ToSet(ss[k]) \subseteq ToSet(f[k])
        BY <4>2, BothParts
      <4>4. \A i \in 1..k : i \in 1..(k - 1) \/ i = k
        BY <3>2, <1>0
      <4>5. f[k] \in Seq(T)
        BY <4>2
      <4> QED
        BY <4>1, <4>3, <4>4, <4>5, <3>2
    <3> QED
      BY <3>4, <3>5
  <2>4. Good(n)
    <3> HIDE DEF Good
    <3>1. n \in 1..n
      BY <1>0, <1>2
    <3> QED
      BY <2>3, <3>1
  <2> QED
    BY <2>2, <2>4, <1>0
<1> QED
  BY <1>1, <1>2

\* The rows an attempt has yet to take are the next one and the rest.
LEMMA NextAndRest ==
    ASSUME NEW q, q \in Seq(ToSet(q)), q # <<>>
    PROVE  /\ Tail(q) \in Seq(ToSet(Tail(q)))
           /\ ToSet(q) = {Head(q)} \cup ToSet(Tail(q))
<1>1. Len(q) \in Nat \ {0} /\ DOMAIN q = 1..Len(q) /\ Head(q) = q[1]
  OBVIOUS
<1>2. Tail(q) \in Seq(ToSet(q)) /\ Len(Tail(q)) = Len(q) - 1 /\ DOMAIN Tail(q) = 1..(Len(q) - 1)
  BY <1>1
<1>3. \A i \in 1..(Len(q) - 1) : Tail(q)[i] = q[i + 1]
  BY <1>1
<1>4. Tail(q) \in Seq(ToSet(Tail(q)))
  BY <1>2, OfItsMembers
<1>5. ASSUME NEW x \in ToSet(q) PROVE x = Head(q) \/ x \in ToSet(Tail(q))
  <2>1. PICK i \in 1..Len(q) : x = q[i]
    BY <1>1 DEF ToSet
  <2>2. CASE i = 1
    BY <2>1, <2>2, <1>1
  <2>3. CASE i # 1
    <3>1. i - 1 \in 1..(Len(q) - 1) /\ Tail(q)[i - 1] = q[i]
      BY <2>1, <2>3, <1>1, <1>3
    <3> QED
      BY <3>1, <2>1, <1>2 DEF ToSet
  <2> QED
    BY <2>2, <2>3
<1>6. ASSUME NEW x \in ToSet(Tail(q)) PROVE x \in ToSet(q)
  <2>1. PICK i \in 1..(Len(q) - 1) : x = q[i + 1]
    BY <1>2, <1>3 DEF ToSet
  <2>2. i + 1 \in DOMAIN q
    BY <1>1
  <2> QED
    BY <2>1, <2>2 DEF ToSet
<1>7. Head(q) \in ToSet(q)
  BY <1>1 DEF ToSet
<1> QED
  BY <1>4, <1>5, <1>6, <1>7

-----------------------------------------------------------------------------
(***************************************************************************)
(* Tables that grow.                                                       *)
(***************************************************************************)

Within(S, T) == \A table \in Tables : S[table] \subseteq T[table]

LEMMA WholeIs ==
    ASSUME NEW base, NEW own
    PROVE  /\ \A table \in Tables : Whole(base, own)[table] = base[table] \cup own[table]
           /\ Within(base, Whole(base, own))
           /\ Within(own, Whole(base, own))
<1>1. \A table \in Tables : Whole(base, own)[table] = base[table] \cup own[table]
  BY DEF Whole
<1> QED
  BY <1>1 DEF Within

LEMMA WholeGrows ==
    ASSUME NEW S, NEW T, NEW own, Within(S, T)
    PROVE  Within(Whole(S, own), Whole(T, own))
<1>1. \A table \in Tables : /\ Whole(S, own)[table] = S[table] \cup own[table]
                            /\ Whole(T, own)[table] = T[table] \cup own[table]
  BY WholeIs
<1> QED
  BY <1>1 DEF Within

\* What refers to rows still does when there are more.
LEMMA MoreTables ==
    ASSUME NEW S, NEW T, Within(S, T)
    PROVE  /\ \A row : StandsFor(row, S) => StandsFor(row, T)
           /\ \A e : Founded(e, S) => Founded(e, T)
           /\ \A c : Proposed(c, S) => Proposed(c, T)
           /\ \A l : Accountable(l, S) => Accountable(l, T)
           /\ \A c : Attested(c, S) => Attested(c, T)
           /\ \A b : HasBody(b, S) => HasBody(b, T)
           /\ \A a, s, b, x : CitedFor(S, a, s, b, x) => CitedFor(T, a, s, b, x)
<1>1. /\ S.bodies \subseteq T.bodies /\ S.extractions \subseteq T.extractions
      /\ S.fetches \subseteq T.fetches /\ S.evidence \subseteq T.evidence
      /\ S.candidates \subseteq T.candidates /\ S.links \subseteq T.links
      /\ S.usages \subseteq T.usages
  BY DEF Within, Tables
<1>2. \A row : StandsFor(row, S) => StandsFor(row, T)
  BY <1>1 DEF StandsFor
<1>3. \A e : Founded(e, S) => Founded(e, T)
  BY <1>1 DEF Founded
<1>4. \A c : Proposed(c, S) => Proposed(c, T)
  BY <1>1 DEF Proposed
<1>5. \A l : Accountable(l, S) => Accountable(l, T)
  BY <1>1 DEF Accountable
<1>6. \A c : Attested(c, S) => Attested(c, T)
  BY <1>1 DEF Attested
<1>7. \A b : HasBody(b, S) => HasBody(b, T)
  BY <1>1 DEF HasBody
<1>8. ASSUME NEW a, NEW s, NEW b, NEW x, CitedFor(S, a, s, b, x)
      PROVE  CitedFor(T, a, s, b, x)
  <2>1. PICK u \in S.usages :
          /\ u.attempt = a /\ u.extraction.body = b /\ u.extraction.extractor = x.id
          /\ \E r \in S.extractions :
                /\ r.id = u.extraction
                /\ \A o \in r.says : \E e \in S.evidence :
                      e.extraction = r.id /\ e.source = s /\ e.attempt = a /\ e.span = o.span
    BY <1>8 DEF CitedFor
  <2>2. PICK r \in S.extractions :
          /\ r.id = u.extraction
          /\ \A o \in r.says : \E e \in S.evidence :
                e.extraction = r.id /\ e.source = s /\ e.attempt = a /\ e.span = o.span
    BY <2>1
  <2>3. \A o \in r.says : \E e \in T.evidence :
            e.extraction = r.id /\ e.source = s /\ e.attempt = a /\ e.span = o.span
    BY <2>2, <1>1
  <2>4. u \in T.usages /\ r \in T.extractions
    BY <2>1, <2>2, <1>1
  <2> QED
    BY <2>1, <2>2, <2>3, <2>4 DEF CitedFor
<1> QED
  BY <1>2, <1>3, <1>4, <1>5, <1>6, <1>7, <1>8

\* Tables are sound when what they have beyond sound ones is.
LEMMA SoundMore ==
    ASSUME NEW S, NEW T, Sound(S), Within(S, T),
           \A row \in T.rows : row \in S.rows \/ StandsFor(row, T),
           \A b \in T.bodies : b \in S.bodies \/ b.body \in DOMAIN Document,
           \A e \in T.evidence : e \in S.evidence \/ Founded(e, T),
           \A c \in T.candidates : c \in S.candidates \/ Proposed(c, T),
           \A l \in T.links : l \in S.links \/ (Accountable(l, T) /\ Faithful(l)),
           \A c \in T.claims : c \in S.claims \/ Attested(c, T)
    PROVE  Sound(T)
<1> USE MoreTables
<1>1. \A row \in T.rows : StandsFor(row, T)
  BY DEF Sound
<1>2. \A b \in T.bodies : b.body \in DOMAIN Document
  BY DEF Sound
<1>3. \A e \in T.evidence : Founded(e, T)
  BY DEF Sound
<1>4. \A c \in T.candidates : Proposed(c, T)
  BY DEF Sound
<1>5. \A l \in T.links : Accountable(l, T) /\ Faithful(l)
  BY DEF Sound
<1>6. \A c \in T.claims : Attested(c, T)
  BY DEF Sound
<1> QED
  BY <1>1, <1>2, <1>3, <1>4, <1>5, <1>6 DEF Sound

\* What an attempt has written stays sound when others commit.
LEMMA SoundOnMore ==
    ASSUME NEW S, NEW T, NEW own, Within(S, T), Sound(T), Sound(Whole(S, own))
    PROVE  Sound(Whole(T, own))
<1> DEFINE U == Whole(S, own)
           V == Whole(T, own)
<1>1. Within(U, V) /\ Within(T, V)
  BY WholeGrows, WholeIs
<1>2. \A table \in Tables : \A row \in V[table] : row \in U[table] \/ row \in T[table]
  BY WholeIs
<1> HIDE DEF U, V
<1>3. \A row \in V.rows : row \in U.rows \/ row \in T.rows
  BY <1>2 DEF Tables
<1>4. \A b \in V.bodies : b \in U.bodies \/ b \in T.bodies
  BY <1>2 DEF Tables
<1>5. \A e \in V.evidence : e \in U.evidence \/ e \in T.evidence
  BY <1>2 DEF Tables
<1>6. \A c \in V.candidates : c \in U.candidates \/ c \in T.candidates
  BY <1>2 DEF Tables
<1>7. \A l \in V.links : l \in U.links \/ l \in T.links
  BY <1>2 DEF Tables
<1>8. \A c \in V.claims : c \in U.claims \/ c \in T.claims
  BY <1>2 DEF Tables
<1>9. Sound(U)
  BY DEF U
<1>a. \A row \in V.rows : row \in U.rows \/ StandsFor(row, V)
  BY <1>1, <1>3, MoreTables DEF Sound
<1>b. \A b \in V.bodies : b \in U.bodies \/ b.body \in DOMAIN Document
  BY <1>4 DEF Sound
<1>c. \A e \in V.evidence : e \in U.evidence \/ Founded(e, V)
  BY <1>1, <1>5, MoreTables DEF Sound
<1>d. \A c \in V.candidates : c \in U.candidates \/ Proposed(c, V)
  BY <1>1, <1>6, MoreTables DEF Sound
<1>e. \A l \in V.links : l \in U.links \/ (Accountable(l, V) /\ Faithful(l))
  BY <1>1, <1>7, MoreTables DEF Sound
<1>f. \A c \in V.claims : c \in U.claims \/ Attested(c, V)
  BY <1>1, <1>8, MoreTables DEF Sound
<1>g. Sound(V)
  BY <1>1, <1>9, <1>a, <1>b, <1>c, <1>d, <1>e, <1>f, SoundMore
<1> QED
  BY <1>g DEF V

\* An attempt's work stays in order when others commit.
LEMMA AttemptOnMore ==
    ASSUME NEW a, NEW t, NEW S, NEW T, Within(S, T), Sound(T), AttemptOK(a, t, S)
    PROVE  AttemptOK(a, t, T)
<1> DEFINE U == Whole(S, t.own)
           V == Whole(T, t.own)
<1>1. Within(U, V)
  BY WholeGrows
<1>2. Sound(V)
  BY SoundOnMore DEF AttemptOK
<1>3. Working(a, t, U)
  BY DEF AttemptOK
<1> HIDE DEF U, V
<1>4. /\ \A b : HasBody(b, U) => HasBody(b, V)
      /\ \A at, s, b, x : CitedFor(U, at, s, b, x) => CitedFor(V, at, s, b, x)
  BY <1>1, MoreTables
<1>5. \A f \in t.own.fetches : Fetches(a, f, t, V)
  BY <1>3, <1>4 DEF Working, Fetches
<1>6. Reads(a, t, V)
  BY <1>3, <1>4 DEF Working, Reads
<1>7. Working(a, t, V)
  BY <1>3, <1>5, <1>6 DEF Working
<1> QED
  BY <1>2, <1>7 DEF AttemptOK, V

LEMMA SettledOnMore ==
    ASSUME NEW S, NEW T, Within(S, T), NEW f, Settled(f, S)
    PROVE  Settled(f, T)
BY MoreTables DEF Settled

-----------------------------------------------------------------------------
(***************************************************************************)
(* Steps of an attempt, and the beginning.                                 *)
(***************************************************************************)

\* A step of one attempt that commits nothing.
LEMMA OwnStep ==
    ASSUME TrailInv, NEW a \in Attempts, NEW t, Set(a, t), db' = db,
           Shaped(t), AttemptOK(a, t, db),
           \A row \in t.own.rows :
               row \in txn[a].own.rows \/ (row \notin db.rows /\ ~HeldByAnother(a, row))
    PROVE  Shapes' /\ HoldsOK' /\ CommittedOK' /\ AttemptsOK'
<1>1. txn'[a] = t /\ \A b \in Attempts : b # a => txn'[b] = txn[b]
  BY DEF Set, TrailInv, Shapes
<1>2. Shapes'
  BY <1>1 DEF TrailInv, Shapes, Set
<1>3. HoldsOK'
  <2>1. \A b \in Attempts : \A row \in txn'[b].own.rows :
            row \in txn[b].own.rows \/ (b = a /\ row \notin db.rows /\ ~HeldByAnother(a, row))
    BY <1>1
  <2>2. \A b \in Attempts : \A row \in txn[b].own.rows : row \notin db.rows /\ ~HeldByAnother(b, row)
    BY DEF TrailInv, HoldsOK
  <2>3. \A b, c \in Attempts : \A row \in txn'[b].own.rows : b # c => row \notin txn'[c].own.rows
    BY <2>1, <2>2 DEF HeldByAnother
  <2>4. \A b \in Attempts : \A row \in txn'[b].own.rows : row \notin db.rows
    BY <2>1, <2>2
  <2> QED
    BY <2>3, <2>4 DEF HoldsOK, HeldByAnother
<1>4. CommittedOK'
  BY DEF TrailInv, CommittedOK
<1>5. AttemptsOK'
  BY <1>1 DEF TrailInv, AttemptsOK
<1> QED
  BY <1>2, <1>3, <1>4, <1>5

LEMMA NothingWritten ==
    ASSUME NEW S, Sound(S)
    PROVE  Sound(Whole(S, NoRows))
<1>1. \A table \in Tables : NoRows[table] = {}
  BY DEF NoRows, Tables
<1>2. \A table \in Tables : Whole(S, NoRows)[table] = S[table]
  <2>1. \A table \in Tables : Whole(S, NoRows)[table] = S[table] \cup NoRows[table]
    BY WholeIs
  <2> HIDE DEF NoRows
  <2> QED
    BY <1>1, <2>1
<1>3. /\ Whole(S, NoRows).rows = S.rows /\ Whole(S, NoRows).bodies = S.bodies
      /\ Whole(S, NoRows).evidence = S.evidence /\ Whole(S, NoRows).candidates = S.candidates
      /\ Whole(S, NoRows).links = S.links /\ Whole(S, NoRows).claims = S.claims
  BY <1>2 DEF Tables
<1>4. Within(S, Whole(S, NoRows))
  BY WholeIs
<1> QED
  BY <1>3, <1>4, SoundMore

\* An attempt that has just begun, or that has ended.
LEMMA NothingDone ==
    ASSUME NEW a, NEW t, NEW S, Sound(S), t.own = NoRows, t.got = <<>>, t.observed = {},
           t.stage \in {"idle", "fetching", "done"}, \A row \in ToSet(t.todo) : row.key[1] = "source"
    PROVE  AttemptOK(a, t, S)
<1>1. ToSet(t.got) = {}
  BY DEF ToSet
<1>2. t.own.fetches = {}
  BY DEF NoRows
<1>3. Working(a, t, Whole(S, t.own))
  BY <1>1, <1>2 DEF Working, Asked, Reads
<1> QED
  BY <1>3, NothingWritten DEF AttemptOK

LEMMA IdleShape ==
    ASSUME NEW t, t = [field \in Fields |-> t[field]], t.own = NoRows, t.stage \in {"idle", "done"},
           t.outcome \in Outcomes \ {"divergence"}, t.todo = <<>>, t.plan = <<>>, t.got = <<>>
    PROVE  Shaped(t)
<1>1. ToSet(<<>>) = {} /\ <<>> \in Seq({}) /\ <<>> \in Seq(Sources)
  BY DEF ToSet
<1>2. NoRows = [table \in Tables |-> NoRows[table]]
  BY DEF NoRows, Tables
<1>3. t.todo \in Seq(ToSet(t.todo)) /\ t.got \in Seq(ToSet(t.got)) /\ t.plan \in Seq(Sources)
  BY <1>1
<1> QED
  BY <1>2, <1>3 DEF Shaped

LEMMA TrailInit == Init => TrailInv
<1> SUFFICES ASSUME Init PROVE TrailInv
  OBVIOUS
<1>0. NoRows = [table \in Tables |-> NoRows[table]] /\ \A table \in Tables : NoRows[table] = {}
  BY DEF NoRows, Tables
<1>1. /\ NoRows.rows = {} /\ NoRows.bodies = {} /\ NoRows.evidence = {} /\ NoRows.candidates = {}
      /\ NoRows.links = {} /\ NoRows.claims = {} /\ NoRows.fetches = {}
  BY DEF NoRows
<1>2. Sound(NoRows)
  BY <1>1 DEF Sound
<1>3. CommittedOK
  BY <1>1, <1>2 DEF CommittedOK, Init
<1>4. Shaped(Idle)
  <2>1. None \in Outcomes \ {"divergence"}
    BY TrailAssumption DEF Outcomes
  <2>2. /\ Idle = [field \in Fields |-> Idle[field]] /\ Idle.own = NoRows /\ Idle.stage = "idle"
        /\ Idle.outcome = None /\ Idle.todo = <<>> /\ Idle.plan = <<>> /\ Idle.got = <<>>
    BY DEF Idle, Fields
  <2> QED
    BY <2>1, <2>2, IdleShape
<1>5. Shapes
  BY <1>0, <1>4 DEF Init, Shapes
<1>6. WorldOK
  <2>1. \A s \in Sources : Website[s][1] \in ToSet(Website[s])
    BY TrailAssumption DEF ToSet
  <2>2. 1 \in 1..MaxVersions
    BY TrailAssumption
  <2> QED
    BY <2>1, <2>2 DEF Init, WorldOK
<1>7. HoldsOK
  <2>1. \A a \in Attempts : txn[a].own.rows = {}
    BY <1>1 DEF Init, Idle
  <2> QED
    BY <2>1 DEF HoldsOK
<1>8. AttemptsOK
  <2> SUFFICES ASSUME NEW a \in Attempts PROVE AttemptOK(a, txn[a], db)
    BY DEF AttemptsOK
  <2>1. txn[a] = Idle /\ db = NoRows
    BY DEF Init
  <2>2. Idle.own = NoRows /\ Idle.got = <<>> /\ Idle.observed = {} /\ Idle.stage = "idle" /\ Idle.todo = <<>>
    BY DEF Idle
  <2>3. ToSet(<<>>) = {}
    BY DEF ToSet
  <2> QED
    BY <2>1, <2>2, <2>3, <1>2, NothingDone
<1> QED
  BY <1>3, <1>5, <1>6, <1>7, <1>8 DEF TrailInv

\* An attempt that ends without a commit leaves nothing behind.
LEMMA Aborts ==
    ASSUME TrailInv, NEW a \in Attempts, NEW outcome \in Outcomes \ {"divergence"},
           Set(a, Ended(a, outcome)), db' = db
    PROVE  Shapes' /\ HoldsOK' /\ CommittedOK' /\ AttemptsOK'
<1> DEFINE t == Ended(a, outcome)
<1>3. /\ t = [field \in Fields |-> t[field]] /\ t.own = NoRows /\ t.got = <<>> /\ t.observed = {}
      /\ t.stage = "done" /\ t.todo = <<>> /\ t.plan = <<>> /\ t.outcome = outcome
  BY DEF Ended, Idle, Fields
<1>2. Shaped(t)
  <2> HIDE DEF t
  <2> QED
    BY <1>3, IdleShape
<1>4. AttemptOK(a, t, db)
  <2>1. ToSet(<<>>) = {}
    BY DEF ToSet
  <2>2. Sound(db)
    BY DEF TrailInv, CommittedOK
  <2> HIDE DEF t
  <2> QED
    BY <1>3, <2>1, <2>2, NothingDone
<1>5. t.own.rows = {}
  BY <1>3 DEF NoRows
<1> QED
  BY <1>2, <1>4, <1>5, OwnStep

LEMMA Begins ==
    ASSUME TrailInv, NEW a \in Attempts, Begin(a)
    PROVE  Shapes' /\ HoldsOK' /\ CommittedOK' /\ AttemptsOK'
<1> DEFINE rows == [i \in DOMAIN Plan[a] |-> SourceRow(Plan[a][i])]
           t == [Idle EXCEPT !.stage = "fetching", !.at = clock + 1, !.version = version,
                             !.plan = Plan[a], !.todo = rows]
<1>0. Set(a, t) /\ db' = db
  BY DEF Begin
<1>1. Plan[a] \in Seq(Sources)
  BY TrailAssumption
<1>2. rows \in Seq(ToSet(rows))
  <2>1. DOMAIN Plan[a] = 1..Len(Plan[a]) /\ Len(Plan[a]) \in Nat
    BY <1>1
  <2>2. \A i \in DOMAIN Plan[a] : rows[i] \in ToSet(rows)
    BY DEF ToSet
  <2>3. rows \in [1..Len(Plan[a]) -> ToSet(rows)]
    BY <2>1, <2>2
  <2> QED
    BY <2>1, <2>3, SeqDef
<1>3. \A row \in ToSet(rows) : row.key[1] = "source"
  <2>1. \A s : SourceRow(s).key[1] = "source"
    BY DEF SourceRow
  <2>2. \A i \in DOMAIN rows : rows[i] = SourceRow(Plan[a][i])
    OBVIOUS
  <2> HIDE DEF rows
  <2> QED
    BY <2>1, <2>2 DEF ToSet
<1> HIDE DEF rows
<1>4. /\ t = [field \in Fields |-> t[field]] /\ t.own = NoRows /\ t.stage = "fetching"
      /\ t.outcome = None /\ t.todo = rows /\ t.plan = Plan[a] /\ t.got = <<>> /\ t.observed = {}
  BY DEF Idle, Fields
<1> HIDE DEF t
<1>5. Shaped(t)
  <2>1. NoRows = [table \in Tables |-> NoRows[table]]
    BY DEF NoRows, Tables
  <2>2. <<>> \in Seq(ToSet(<<>>))
    BY DEF ToSet
  <2>3. None \in Outcomes \ {"divergence"}
    BY TrailAssumption DEF Outcomes
  <2> QED
    BY <1>1, <1>2, <1>4, <2>1, <2>2, <2>3 DEF Shaped
<1>6. AttemptOK(a, t, db)
  <2>1. Sound(db)
    BY DEF TrailInv, CommittedOK
  <2> QED
    BY <1>3, <1>4, <2>1, NothingDone
<1>7. t.own.rows = {}
  BY <1>4 DEF NoRows
<1> QED
  BY <1>0, <1>5, <1>6, <1>7, OwnStep

\* What an attempt adds to its own is sound if each row it adds is.
LEMMA SoundOwn ==
    ASSUME NEW S, NEW own, NEW more, Sound(Whole(S, own)), Within(own, more),
           \A row \in more.rows : row \in own.rows \/ StandsFor(row, Whole(S, more)),
           \A b \in more.bodies : b \in own.bodies \/ b.body \in DOMAIN Document,
           \A e \in more.evidence : e \in own.evidence \/ Founded(e, Whole(S, more)),
           \A c \in more.candidates : c \in own.candidates \/ Proposed(c, Whole(S, more)),
           \A l \in more.links : l \in own.links \/ (Accountable(l, Whole(S, more)) /\ Faithful(l)),
           \A c \in more.claims : c \in own.claims \/ Attested(c, Whole(S, more))
    PROVE  Within(Whole(S, own), Whole(S, more)) /\ Sound(Whole(S, more))
<1> DEFINE U == Whole(S, own)
           V == Whole(S, more)
<1>1. \A table \in Tables : U[table] = S[table] \cup own[table] /\ V[table] = S[table] \cup more[table]
  BY WholeIs
<1>2. Within(U, V)
  BY <1>1 DEF Within
<1>3. /\ U.rows = S.rows \cup own.rows /\ V.rows = S.rows \cup more.rows
      /\ U.bodies = S.bodies \cup own.bodies /\ V.bodies = S.bodies \cup more.bodies
      /\ U.evidence = S.evidence \cup own.evidence /\ V.evidence = S.evidence \cup more.evidence
      /\ U.candidates = S.candidates \cup own.candidates /\ V.candidates = S.candidates \cup more.candidates
      /\ U.links = S.links \cup own.links /\ V.links = S.links \cup more.links
      /\ U.claims = S.claims \cup own.claims /\ V.claims = S.claims \cup more.claims
  BY <1>1 DEF Tables
<1>4. Sound(U) /\ \A row \in more.rows : row \in own.rows \/ StandsFor(row, V)
  OBVIOUS
<1>5. \A e \in more.evidence : e \in own.evidence \/ Founded(e, V)
  OBVIOUS
<1>6. \A c \in more.candidates : c \in own.candidates \/ Proposed(c, V)
  OBVIOUS
<1>7. \A l \in more.links : l \in own.links \/ (Accountable(l, V) /\ Faithful(l))
  OBVIOUS
<1>8. \A c \in more.claims : c \in own.claims \/ Attested(c, V)
  OBVIOUS
<1> HIDE DEF U, V
<1>a. \A row \in V.rows : row \in U.rows \/ StandsFor(row, V)
  BY <1>3, <1>4
<1>b. \A b \in V.bodies : b \in U.bodies \/ b.body \in DOMAIN Document
  BY <1>3
<1>c. \A e \in V.evidence : e \in U.evidence \/ Founded(e, V)
  BY <1>3, <1>5
<1>d. \A c \in V.candidates : c \in U.candidates \/ Proposed(c, V)
  BY <1>3, <1>6
<1>e. \A l \in V.links : l \in U.links \/ (Accountable(l, V) /\ Faithful(l))
  BY <1>3, <1>7
<1>f. \A c \in V.claims : c \in U.claims \/ Attested(c, V)
  BY <1>3, <1>8
<1>g. Sound(V)
  BY <1>2, <1>4, <1>a, <1>b, <1>c, <1>d, <1>e, <1>f, SoundMore
<1> QED
  BY <1>2, <1>g DEF U, V

-----------------------------------------------------------------------------
(***************************************************************************)
(* Retrieval.                                                              *)
(***************************************************************************)

\* What answers a request: a document, or a refusal that is no success.
LEMMA Answers ==
    ASSUME WorldOK, NEW s \in Sources
    PROVE  /\ Answer(s)[1] = "body" => Answer(s)[2] \in DOMAIN Document
           /\ Answer(s)[1] # "body" => Answer(s)[2] # "OK"
<1>1. \A r \in Sources : page[r] \in ToSet(Website[r])
  BY DEF WorldOK
<1>2. CASE Redirects(s)
  <2>1. page[s][2] \in Sources /\ \A next \in ToSet(Website[page[s][2]]) : next[1] # "redirects"
    BY <1>1, <1>2, TrailAssumption DEF Redirects
  <2>2. Answer(s) = page[page[s][2]]
    BY <1>2 DEF Answer, Answering
  <2>3. Answer(s) \in ToSet(Website[page[s][2]])
    BY <1>1, <2>1, <2>2
  <2> QED
    BY <2>1, <2>3, TrailAssumption
<1>3. CASE ~Redirects(s)
  <2>1. Answer(s) = page[s] /\ page[s][1] # "redirects"
    BY <1>3 DEF Answer, Answering, Redirects
  <2> QED
    BY <1>1, <2>1, TrailAssumption
<1> QED
  BY <1>2, <1>3

\* A page that was validated is one whose body is there.
LEMMA ValidatedBody ==
    ASSUME TrailInv, NEW a \in Attempts, NEW s, txn[a].todo = <<>>, Validated(a, s) # {},
           Answer(s)[2] # None
    PROVE  HasBody(Answer(s)[2], Whole(db, txn[a].own))
<1>1. PICK f \in Validated(a, s) : TRUE
  OBVIOUS
<1>2. f \in db.fetches \cup txn[a].own.fetches /\ Answer(s) = <<"body", f.body>>
  BY <1>1 DEF Validated, LastSuccess, Seen
<1>3. f.body = Answer(s)[2] /\ f.body # None
  BY <1>2
<1>4. CASE f \in db.fetches
  <2>1. HasBody(f.body, db)
    BY <1>3, <1>4 DEF TrailInv, CommittedOK, Settled
  <2> QED
    BY <1>3, <2>1, WholeIs, MoreTables
<1>5. CASE f \in txn[a].own.fetches
  <2>1. ToSet(txn[a].todo) = {}
    BY DEF ToSet
  <2>2. Fetches(a, f, txn[a], Whole(db, txn[a].own))
    BY <1>5 DEF TrailInv, AttemptsOK, AttemptOK, Working
  <2> QED
    BY <1>3, <2>1, <2>2 DEF Fetches
<1> QED
  BY <1>2, <1>4, <1>5

LEMMA FetchesOne ==
    ASSUME TrailInv, NEW a \in Attempts, Fetch(a)
    PROVE  Shapes' /\ HoldsOK' /\ CommittedOK' /\ AttemptsOK'
<1> DEFINE old == txn[a]
           s == Head(old.plan)
           f == Fetched(a, s)
           g == [source |-> s, body |-> Answer(s)[2]]
           got == IF Outcome(a, s) = "OK" THEN <<g>> ELSE <<>>
           bodies == [i \in DOMAIN got |-> BodyRow(got[i])]
           target == IF Redirects(s) THEN <<SourceRow(Answering(s))>> ELSE <<>>
           failed == old.failed \/ Answer(s)[1] # "body"
           own == [old.own EXCEPT !.fetches = @ \cup {f}, !.edges = @ \cup RedirectEdges(a, s)]
           t == [old EXCEPT !.plan = Tail(@), !.todo = bodies \o target, !.got = @ \o got,
                            !.failed = failed, !.own = own]
<1>0. /\ old.stage = "fetching" /\ old.todo = <<>> /\ old.plan # <<>> /\ db' = db
      /\ Set(a, t)
  BY DEF Fetch
<1>1. Shaped(old)
  BY DEF TrailInv, Shapes
<1>2. s \in Sources /\ Tail(old.plan) \in Seq(Sources)
  <2>1. old.plan \in Seq(Sources) /\ old.plan # <<>>
    BY <1>0, <1>1 DEF Shaped
  <2> HIDE DEF old
  <2> QED
    BY <2>1
<1> HIDE DEF s, f, got, bodies, target, g, failed, old
<1>3. /\ t = [field \in Fields |-> t[field]]
      /\ t.stage = "fetching" /\ t.outcome = old.outcome /\ t.observed = old.observed
      /\ t.plan = Tail(old.plan) /\ t.todo = bodies \o target /\ t.got = old.got \o got
      /\ t.own = own
  <2> HIDE DEF own
  <2> QED
    BY <1>0, <1>1 DEF Shaped, Fields
<1>4. /\ t.own = [table \in Tables |-> t.own[table]]
      /\ t.own.fetches = old.own.fetches \cup {f}
      /\ \A table \in Tables \ {"fetches", "edges"} : t.own[table] = old.own[table]
      /\ old.own.edges \subseteq t.own.edges
  <2>1. old.own = [table \in Tables |-> old.own[table]]
    BY <1>1 DEF Shaped
  <2> HIDE DEF t
  <2> QED
    BY <1>3, <2>1 DEF Tables
<1> HIDE DEF t, own
<1>5. /\ f.source = s /\ f.attempt = a /\ f.outcome = Outcome(a, s)
      /\ f.body = IF Answer(s)[1] = "body" THEN Answer(s)[2] ELSE None
      /\ g.source = s /\ g.body = Answer(s)[2]
  BY DEF f, g, Fetched
<1>6. /\ Answer(s)[1] = "body" => Answer(s)[2] \in DOMAIN Document
      /\ Answer(s)[1] # "body" => Answer(s)[2] # "OK"
  BY <1>2, Answers DEF TrailInv
<1>7. Outcome(a, s) = "OK" => Answer(s)[1] = "body"
  BY <1>6 DEF Outcome
<1>8. /\ got \in Seq({g}) /\ ToSet(got) = IF Outcome(a, s) = "OK" THEN {g} ELSE {}
      /\ bodies \in Seq({BodyRow(g)})
      /\ ToSet(bodies) = IF Outcome(a, s) = "OK" THEN {BodyRow(g)} ELSE {}
  <2>1. CASE Outcome(a, s) = "OK"
    <3>1. got = <<g>> /\ DOMAIN got = {1} /\ got[1] = g
      BY <2>1 DEF got
    <3>2. bodies = <<BodyRow(g)>> /\ DOMAIN bodies = {1} /\ bodies[1] = BodyRow(g)
      BY <3>1 DEF bodies
    <3> QED
      BY <2>1, <3>1, <3>2 DEF ToSet
  <2>2. CASE Outcome(a, s) # "OK"
    <3>1. got = <<>> /\ bodies = <<>>
      BY <2>2 DEF got, bodies
    <3> QED
      BY <2>2, <3>1 DEF ToSet
  <2> QED
    BY <2>1, <2>2
<1>9. /\ target \in Seq({SourceRow(Answering(s))}) /\ ToSet(target) \subseteq {SourceRow(Answering(s))}
  <2>1. CASE Redirects(s)
    <3>1. target = <<SourceRow(Answering(s))>> /\ DOMAIN target = {1}
      BY <2>1 DEF target
    <3> QED
      BY <3>1 DEF ToSet
  <2>2. CASE ~Redirects(s)
    <3>1. target = <<>>
      BY <2>2 DEF target
    <3> QED
      BY <3>1 DEF ToSet
  <2> QED
    BY <2>1, <2>2
<1> DEFINE R == {BodyRow(g), SourceRow(Answering(s))}
           G == ToSet(old.got) \cup {g}
<1>a. bodies \in Seq(R) /\ target \in Seq(R) /\ old.got \in Seq(G) /\ got \in Seq(G)
  BY <1>1, <1>8, <1>9 DEF Shaped
<1>b. /\ t.todo \in Seq(ToSet(t.todo)) /\ ToSet(t.todo) = ToSet(bodies) \cup ToSet(target)
      /\ t.got \in Seq(ToSet(t.got)) /\ ToSet(t.got) = ToSet(old.got) \cup ToSet(got)
  <2> HIDE DEF R, G
  <2>1. bodies \o target \in Seq(R) /\ old.got \o got \in Seq(G)
    BY <1>a
  <2>2. t.todo \in Seq(ToSet(t.todo)) /\ t.got \in Seq(ToSet(t.got))
    BY <1>3, <2>1, OfItsMembers
  <2>3. ToSet(bodies \o target) = ToSet(bodies) \cup ToSet(target)
    BY <1>a, BothParts
  <2>4. ToSet(old.got \o got) = ToSet(old.got) \cup ToSet(got)
    BY <1>a, BothParts
  <2> QED
    BY <1>3, <2>2, <2>3, <2>4
<1>c. Shaped(t)
  BY <1>1, <1>2, <1>3, <1>4, <1>b DEF Shaped
<1> DEFINE W == Whole(db, old.own)
           V == Whole(db, t.own)
<1>d. Within(W, V) /\ Sound(V)
  <2>1. Within(old.own, t.own)
    BY <1>4 DEF Within
  <2>2. /\ t.own.rows = old.own.rows /\ t.own.bodies = old.own.bodies /\ t.own.evidence = old.own.evidence
        /\ t.own.candidates = old.own.candidates /\ t.own.links = old.own.links
        /\ t.own.claims = old.own.claims
    BY <1>4 DEF Tables
  <2>3. Sound(W)
    BY DEF TrailInv, AttemptsOK, AttemptOK, old
  <2> QED
    BY <2>1, <2>2, <2>3, SoundOwn
<1>e. Working(a, old, W)
  BY DEF TrailInv, AttemptsOK, AttemptOK, old
<1>f. \A h \in ToSet(t.got) : Got(h, t)
  <2>1. Outcome(a, s) = "OK" => Got(g, t)
    BY <1>4, <1>5, <1>6, <1>7 DEF Got
  <2>2. \A h \in ToSet(old.got) : Got(h, t)
    BY <1>e, <1>4 DEF Working, Got
  <2> QED
    BY <2>1, <2>2, <1>b, <1>8
<1>g. \A h \in t.own.fetches : Fetches(a, h, t, V)
  <2>1. Fetches(a, f, t, V)
    <3>1. f.outcome = "OK" => g \in ToSet(t.got) /\ g.source = f.source /\ g.body = f.body
      BY <1>5, <1>7, <1>8, <1>b
    <3>2. ASSUME f.body # None PROVE HasBody(f.body, V) \/ Outcome(a, s) = "OK"
      <4>1. Answer(s)[1] = "body" /\ Answer(s)[2] # None /\ f.body = Answer(s)[2]
        BY <3>2, <1>5
      <4>2. Outcome(a, s) # "OK" => Validated(a, s) # {}
        BY <4>1 DEF Outcome
      <4>3. Validated(a, s) # {} => HasBody(f.body, W)
        BY <4>1, <1>0, ValidatedBody DEF old
      <4> QED
        BY <4>2, <4>3, <1>d, MoreTables
    <3>3. Outcome(a, s) = "OK" => /\ BodyRow(g) \in ToSet(t.todo) /\ BodyRow(g).key[1] = "body"
                                  /\ BodyRow(g).key[2] = f.body
      BY <1>5, <1>7, <1>8, <1>b DEF BodyRow
    <3> QED
      BY <3>1, <3>2, <3>3, <1>5 DEF Fetches
  <2>2. ASSUME NEW h \in old.own.fetches PROVE Fetches(a, h, t, V)
    <3>1. Fetches(a, h, old, W)
      BY <1>e DEF Working
    <3>2. ToSet(old.todo) = {}
      BY <1>0 DEF ToSet, old
    <3>3. h.body # None => HasBody(h.body, V)
      BY <3>1, <3>2, <1>d, MoreTables DEF Fetches
    <3> QED
      BY <3>1, <3>3, <1>b DEF Fetches
  <2> QED
    BY <2>1, <2>2, <1>4
<1>h. \A row \in ToSet(t.todo) : Asked(row, t)
  <2>1. Outcome(a, s) = "OK" => Asked(BodyRow(g), t)
    <3>1. BodyRow(g).key[1] = "body" /\ BodyRow(g).key[2] = g.body /\ BodyRow(g).got = g
      BY DEF BodyRow
    <3> QED
      BY <3>1, <1>b, <1>8 DEF Asked
  <2>2. Asked(SourceRow(Answering(s)), t)
    BY DEF Asked, SourceRow
  <2> QED
    BY <2>1, <2>2, <1>b, <1>8, <1>9
<1>i. Reads(a, t, V) /\ \A h \in t.observed : Assertable(h)
  BY <1>3, <1>e DEF Reads, Working
<1>j. AttemptOK(a, t, db)
  BY <1>d, <1>f, <1>g, <1>h, <1>i DEF AttemptOK, Working
<1>k. t.own.rows = old.own.rows
  BY <1>4 DEF Tables
<1> QED
  BY <1>0, <1>c, <1>j, <1>k, OwnStep DEF old

-----------------------------------------------------------------------------
(***************************************************************************)
(* What there is to read.                                                  *)
(***************************************************************************)

\* Sequences, one for each member of a sequence, put together.
LEMMA OneAfterTheOther ==
    ASSUME NEW T, NEW n \in Nat, NEW ss, ss = [i \in 1..n |-> ss[i]], \A i \in 1..n : ss[i] \in Seq(T)
    PROVE  /\ FlattenSeq(ss) \in Seq(T)
           /\ \A i \in 1..n : ToSet(ss[i]) \subseteq ToSet(FlattenSeq(ss))
<1>1. ss \in [1..n -> Seq(T)]
  OBVIOUS
<1>2. ss \in Seq(Seq(T)) /\ DOMAIN ss = 1..n
  BY <1>1
<1> QED
  BY <1>2, FlatteningHolds

\* A sequence has its members at its places.
LEMMA Places ==
    ASSUME NEW T, NEW q \in Seq(T)
    PROVE  /\ DOMAIN q = 1..Len(q) /\ Len(q) \in Nat
           /\ \A i \in 1..Len(q) : q[i] \in T /\ q[i] \in ToSet(q)
           /\ \A x \in ToSet(q) : x \in T /\ \E i \in 1..Len(q) : x = q[i]
BY DEF ToSet

ArtifactRows(got) == {ArtifactRow(g) : g \in got}
ExtractionRows(a, got) == UNION {{ExtractionRow(a, g, x) : x \in ToSet(Extractors)} : g \in got}
DeclarationRows(got) == UNION {{SourceRow(d.source) : d \in ToSet(Document[g.body].declares)} : g \in got}

ReadingRows(a, got) == ArtifactRows(got) \cup ExtractionRows(a, got) \cup DeclarationRows(got)

\* The artifact of a body and each extractor that reads its kind.
LEMMA ReadsAll ==
    ASSUME NEW a, NEW got, NEW g \in got
    PROVE  /\ RowsToRead(a, g) \in Seq(ReadingRows(a, got))
           /\ \A x \in ToSet(Extractors) : x.media = Document[g.body].media =>
                 ExtractionRow(a, g, x) \in ToSet(RowsToRead(a, g))
<1> DEFINE R == ReadingRows(a, got)
           n == Len(Extractors)
           asked(x) == IF x.media = Document[g.body].media THEN <<ExtractionRow(a, g, x)>> ELSE <<>>
           ss == [i \in DOMAIN Extractors |-> asked(Extractors[i])]
<1>1. /\ DOMAIN Extractors = 1..n /\ n \in Nat
      /\ \A i \in 1..n : Extractors[i] \in ToSet(Extractors)
      /\ \A x \in ToSet(Extractors) : \E i \in 1..n : x = Extractors[i]
  BY Places, TrailAssumption
<1>2. ArtifactRow(g) \in R /\ \A x \in ToSet(Extractors) : ExtractionRow(a, g, x) \in R
  <2>1. ArtifactRow(g) \in ArtifactRows(got)
    BY DEF ArtifactRows
  <2>2. \A x \in ToSet(Extractors) : ExtractionRow(a, g, x) \in ExtractionRows(a, got)
    BY DEF ExtractionRows
  <2> QED
    BY <2>1, <2>2 DEF ReadingRows
<1>3. \A x \in ToSet(Extractors) : asked(x) \in Seq(R)
  <2> HIDE DEF R
  <2> QED
    BY <1>2
<1>4. ss = [i \in 1..n |-> ss[i]] /\ \A i \in 1..n : ss[i] = asked(Extractors[i])
  BY <1>1
<1>5. RowsToRead(a, g) = <<ArtifactRow(g)>> \o FlattenSeq(ss)
  BY DEF RowsToRead
<1>6. \A x \in ToSet(Extractors) : x.media = Document[g.body].media =>
          ExtractionRow(a, g, x) \in ToSet(asked(x))
  <2>1. \A r : r \in ToSet(<<r>>)
    BY DEF ToSet
  <2> QED
    BY <2>1
<1> HIDE DEF ss, asked, n, R
<1>7. /\ FlattenSeq(ss) \in Seq(R)
      /\ \A i \in 1..n : ToSet(ss[i]) \subseteq ToSet(FlattenSeq(ss))
  <2>1. \A i \in 1..n : ss[i] \in Seq(R)
    BY <1>1, <1>3, <1>4
  <2> QED
    BY <1>1, <1>4, <2>1, OneAfterTheOther
<1>8. <<ArtifactRow(g)>> \in Seq(R)
  BY <1>2
<1>9. RowsToRead(a, g) \in Seq(R) /\ ToSet(FlattenSeq(ss)) \subseteq ToSet(RowsToRead(a, g))
  <2>1. <<ArtifactRow(g)>> \o FlattenSeq(ss) \in Seq(R)
    BY <1>7, <1>8
  <2>2. ToSet(<<ArtifactRow(g)>> \o FlattenSeq(ss)) = ToSet(<<ArtifactRow(g)>>) \cup ToSet(FlattenSeq(ss))
    BY <1>7, <1>8, BothParts
  <2> QED
    BY <1>5, <2>1, <2>2
<1>a. ASSUME NEW x \in ToSet(Extractors), x.media = Document[g.body].media
      PROVE  ExtractionRow(a, g, x) \in ToSet(RowsToRead(a, g))
  <2>1. PICK i \in 1..n : x = Extractors[i]
    BY <1>1
  <2>2. ExtractionRow(a, g, x) \in ToSet(ss[i])
    BY <1>4, <1>6, <1>a, <2>1
  <2> QED
    BY <1>7, <1>9, <2>2
<1> QED
  BY <1>9, <1>a DEF R

LEMMA DeclaresSources ==
    ASSUME NEW a, NEW got, NEW g \in got, g.body \in DOMAIN Document
    PROVE  DeclaredRows(g) \in Seq(ReadingRows(a, got))
<1> DEFINE R == ReadingRows(a, got)
           declared == Document[g.body].declares
           n == Len(declared)
           named(d) == IF d.source # g.source THEN <<SourceRow(d.source)>> ELSE <<>>
           ss == [i \in DOMAIN declared |-> named(declared[i])]
<1>1. DOMAIN declared = 1..n /\ n \in Nat /\ \A i \in 1..n : declared[i] \in ToSet(declared)
  BY Places, TrailAssumption
<1>2. \A d \in ToSet(declared) : SourceRow(d.source) \in R
  <2>1. \A d \in ToSet(declared) : SourceRow(d.source) \in DeclarationRows(got)
    BY DEF DeclarationRows
  <2> QED
    BY <2>1 DEF ReadingRows
<1>3. \A d \in ToSet(declared) : named(d) \in Seq(R)
  <2> HIDE DEF R
  <2> QED
    BY <1>2
<1>4. ss = [i \in 1..n |-> ss[i]] /\ \A i \in 1..n : ss[i] = named(declared[i])
  BY <1>1
<1>5. DeclaredRows(g) = FlattenSeq(ss)
  BY DEF DeclaredRows
<1> HIDE DEF ss, named, R, n, declared
<1>6. \A i \in 1..n : ss[i] \in Seq(R)
  BY <1>1, <1>3, <1>4
<1>7. FlattenSeq(ss) \in Seq(R)
  BY <1>1, <1>4, <1>6, OneAfterTheOther
<1> QED
  BY <1>5, <1>7 DEF R

LEMMA RowsAreAsked ==
    ASSUME NEW a, NEW t, NEW row \in ReadingRows(a, ToSet(t.got))
    PROVE  Asked(row, t)
<1>1. CASE row \in ArtifactRows(ToSet(t.got))
  BY <1>1 DEF Asked, ArtifactRow, ArtifactRows
<1>2. CASE row \in ExtractionRows(a, ToSet(t.got))
  <2>1. \E g \in ToSet(t.got) : \E x \in ToSet(Extractors) : row = ExtractionRow(a, g, x)
    BY <1>2 DEF ExtractionRows
  <2>2. \A g, x : Asks(ExtractionRow(a, g, x), g, x)
    BY DEF Asks, ExtractionRow, ExtractionId
  <2> QED
    BY <2>1, <2>2 DEF Asked
<1>3. CASE row \in DeclarationRows(ToSet(t.got))
  <2>1. \E g \in ToSet(t.got) : \E d \in ToSet(Document[g.body].declares) : row = SourceRow(d.source)
    BY <1>3 DEF DeclarationRows
  <2> QED
    BY <2>1 DEF Asked, SourceRow
<1> QED
  BY <1>1, <1>2, <1>3 DEF ReadingRows

LEMMA EndsFetching ==
    ASSUME TrailInv, NEW a \in Attempts, EndFetching(a)
    PROVE  Shapes' /\ HoldsOK' /\ CommittedOK' /\ AttemptsOK'
<1> DEFINE old == txn[a]
           got == old.got
           n == Len(got)
           reads == [i \in DOMAIN got |-> RowsToRead(a, got[i])]
           named == [i \in DOMAIN got |-> DeclaredRows(got[i])]
           todo == FlattenSeq(reads) \o FlattenSeq(named)
           t == [old EXCEPT !.stage = "extracting", !.plan = <<>>, !.todo = todo]
           R == ReadingRows(a, ToSet(got))
           W == Whole(db, old.own)
<1>0. old.todo = <<>> /\ db' = db /\ Set(a, t)
  BY DEF EndFetching
<1>1. Shaped(old) /\ Sound(W) /\ Working(a, old, W)
  BY DEF TrailInv, Shapes, AttemptsOK, AttemptOK
<1>2. got \in Seq(ToSet(got))
  BY <1>1 DEF Shaped
<1>3. /\ DOMAIN got = 1..n /\ n \in Nat
      /\ \A i \in 1..n : got[i] \in ToSet(got) /\ got[i].body \in DOMAIN Document
      /\ \A g \in ToSet(got) : \E i \in 1..n : g = got[i]
  <2>1. \A g \in ToSet(got) : g.body \in DOMAIN Document
    BY <1>1 DEF Working, Got
  <2> HIDE DEF got
  <2>2. /\ DOMAIN got = 1..n /\ n \in Nat /\ \A i \in 1..n : got[i] \in ToSet(got)
        /\ \A g \in ToSet(got) : \E i \in 1..n : g = got[i]
    BY <1>2, Places
  <2> QED
    BY <2>1, <2>2
<1>4. /\ reads = [i \in 1..n |-> reads[i]] /\ \A i \in 1..n : reads[i] = RowsToRead(a, got[i])
      /\ named = [i \in 1..n |-> named[i]] /\ \A i \in 1..n : named[i] = DeclaredRows(got[i])
  BY <1>3
<1> HIDE DEF reads, named, n, got
<1>5. /\ FlattenSeq(reads) \in Seq(R)
      /\ \A i \in 1..n : ToSet(reads[i]) \subseteq ToSet(FlattenSeq(reads))
  <2>1. \A i \in 1..n : reads[i] \in Seq(R)
    BY <1>3, <1>4, ReadsAll
  <2> HIDE DEF R
  <2> QED
    BY <1>3, <1>4, <2>1, OneAfterTheOther
<1>6. FlattenSeq(named) \in Seq(R)
  <2>1. \A i \in 1..n : named[i] \in Seq(R)
    BY <1>3, <1>4, DeclaresSources
  <2> HIDE DEF R
  <2> QED
    BY <1>3, <1>4, <2>1, OneAfterTheOther
<1>7. /\ todo \in Seq(R) /\ todo \in Seq(ToSet(todo)) /\ \A row \in ToSet(todo) : row \in R
      /\ ToSet(FlattenSeq(reads)) \subseteq ToSet(todo)
  <2> HIDE DEF R
  <2>1. todo \in Seq(R)
    BY <1>5, <1>6
  <2> HIDE DEF todo
  <2>2. todo \in Seq(ToSet(todo)) /\ \A row \in ToSet(todo) : row \in R
    BY <2>1, OfItsMembers, Places
  <2>3. ToSet(FlattenSeq(reads)) \subseteq ToSet(todo)
    BY <1>5, <1>6, BothParts DEF todo
  <2> QED
    BY <2>1, <2>2, <2>3
<1> HIDE DEF todo
<1>8. /\ t = [field \in Fields |-> t[field]] /\ t.own = old.own /\ t.stage = "extracting"
      /\ t.outcome = old.outcome /\ t.todo = todo /\ t.plan = <<>> /\ t.got = got
      /\ t.observed = old.observed
  BY <1>1 DEF Shaped, Fields, got
<1>9. W = Whole(db, t.own)
  BY <1>8
<1> HIDE DEF t, W
<1>a. Shaped(t)
  <2>1. <<>> \in Seq(Sources)
    OBVIOUS
  <2> QED
    BY <1>1, <1>2, <1>7, <1>8, <2>1 DEF Shaped
<1>b. \A g \in ToSet(t.got) : Got(g, t)
  BY <1>1, <1>8 DEF Working, Got, got
<1>c. \A f \in t.own.fetches : Fetches(a, f, t, W)
  <2>1. ToSet(old.todo) = {}
    BY <1>0 DEF ToSet
  <2> HIDE DEF old
  <2> QED
    BY <1>1, <1>8, <2>1 DEF Working, Fetches, got
<1>d. \A row \in ToSet(t.todo) : Asked(row, t)
  BY <1>7, <1>8, RowsAreAsked
<1>e. Reads(a, t, W)
  <2>1. ASSUME NEW g \in ToSet(got), NEW x \in ToSet(Extractors), x.media = Document[g.body].media
        PROVE  \E row \in ToSet(todo) : Asks(row, g, x)
    <3>1. PICK i \in 1..n : g = got[i]
      BY <1>3
    <3>2. ExtractionRow(a, g, x) \in ToSet(reads[i])
      BY <1>4, <2>1, <3>1, ReadsAll
    <3>3. ExtractionRow(a, g, x) \in ToSet(todo)
      BY <1>5, <1>7, <3>1, <3>2
    <3>4. Asks(ExtractionRow(a, g, x), g, x)
      BY DEF Asks, ExtractionRow, ExtractionId
    <3> QED
      BY <3>3, <3>4
  <2> QED
    BY <1>8, <2>1 DEF Reads
<1>f. AttemptOK(a, t, db)
  BY <1>1, <1>8, <1>9, <1>b, <1>c, <1>d, <1>e DEF AttemptOK, Working
<1> QED
  BY <1>0, <1>8, <1>a, <1>f, OwnStep

-----------------------------------------------------------------------------
(***************************************************************************)
(* Taking the shared rows, one at a time.                                  *)
(***************************************************************************)

\* What an attempt does about its next row, and leaves the rest of its work alone.
LEMMA TakesNext ==
    ASSUME TrailInv, NEW a \in Attempts, NEW t, Set(a, t), db' = db, txn[a].todo # <<>>,
           t = [field \in Fields |-> t[field]], t.own = [table \in Tables |-> t.own[table]],
           t.stage = txn[a].stage, t.outcome = txn[a].outcome, t.plan = txn[a].plan,
           t.got = txn[a].got, t.todo = Tail(txn[a].todo),
           Within(txn[a].own, t.own), t.own.fetches = txn[a].own.fetches,
           Sound(Whole(db, t.own)),
           \A f \in t.observed : f \in txn[a].observed \/ Assertable(f),
           NEW row, row = Head(txn[a].todo),
           row.key[1] = "body" => HasBody(row.key[2], Whole(db, t.own)),
           \A g, x : Asks(row, g, x) => CitedFor(Whole(db, t.own), a, g.source, g.body, x),
           \A r \in t.own.rows :
               r \in txn[a].own.rows \/ (r \notin db.rows /\ ~HeldByAnother(a, r))
    PROVE  Shapes' /\ HoldsOK' /\ CommittedOK' /\ AttemptsOK'
<1> DEFINE old == txn[a]
           W == Whole(db, old.own)
           V == Whole(db, t.own)
<1>1. Shaped(old) /\ Working(a, old, W)
  BY DEF TrailInv, Shapes, AttemptsOK, AttemptOK
<1>2. t.todo \in Seq(ToSet(t.todo)) /\ ToSet(old.todo) = {row} \cup ToSet(t.todo)
  <2>1. old.todo \in Seq(ToSet(old.todo))
    BY <1>1 DEF Shaped
  <2> HIDE DEF old
  <2>2. Tail(old.todo) \in Seq(ToSet(Tail(old.todo))) /\ ToSet(old.todo) = {Head(old.todo)} \cup ToSet(Tail(old.todo))
    BY <2>1, NextAndRest DEF old
  <2> QED
    BY <2>2 DEF old
<1>3. Shaped(t)
  BY <1>1, <1>2 DEF Shaped
<1>4. Within(W, V)
  <2>1. \A table \in Tables : W[table] = db[table] \cup old.own[table] /\ V[table] = db[table] \cup t.own[table]
    BY WholeIs
  <2> QED
    BY <2>1 DEF Within
<1>5. Sound(V) /\ (row.key[1] = "body" => HasBody(row.key[2], V))
      /\ \A g, x : Asks(row, g, x) => CitedFor(V, a, g.source, g.body, x)
  OBVIOUS
<1> HIDE DEF W, V
<1>6. /\ \A b : HasBody(b, W) => HasBody(b, V)
      /\ \A at, s, b, x : CitedFor(W, at, s, b, x) => CitedFor(V, at, s, b, x)
  BY <1>4, MoreTables
<1>7. \A g \in ToSet(t.got) : Got(g, t)
  BY <1>1 DEF Working, Got
<1>8. \A f \in t.own.fetches : Fetches(a, f, t, V)
  <2> SUFFICES ASSUME NEW f \in old.own.fetches PROVE Fetches(a, f, t, V)
    OBVIOUS
  <2>1. Fetches(a, f, old, W)
    BY <1>1 DEF Working
  <2>2. ASSUME f.body # None
        PROVE  HasBody(f.body, V) \/ \E r \in ToSet(t.todo) : r.key[1] = "body" /\ r.key[2] = f.body
    <3>1. HasBody(f.body, W) \/ \E r \in ToSet(old.todo) : r.key[1] = "body" /\ r.key[2] = f.body
      BY <2>1, <2>2 DEF Fetches
    <3> QED
      BY <3>1, <1>2, <1>5, <1>6
  <2> QED
    BY <2>1, <2>2 DEF Fetches
<1>9. \A r \in ToSet(t.todo) : Asked(r, t)
  BY <1>1, <1>2 DEF Working, Asked
<1>a. Reads(a, t, V)
  <2>1. t.stage # "asserted"
    BY <1>1 DEF Working, Reads
  <2>2. ASSUME t.stage = "extracting", NEW g \in ToSet(t.got), NEW x \in ToSet(Extractors),
               x.media = Document[g.body].media
        PROVE  (\E r \in ToSet(t.todo) : Asks(r, g, x)) \/ CitedFor(V, a, g.source, g.body, x)
    <3>1. (\E r \in ToSet(old.todo) : Asks(r, g, x)) \/ CitedFor(W, a, g.source, g.body, x)
      BY <1>1, <2>2 DEF Working, Reads
    <3> QED
      BY <3>1, <1>2, <1>5, <1>6
  <2> QED
    BY <2>1, <2>2 DEF Reads
<1>b. \A f \in t.observed : Assertable(f)
  BY <1>1 DEF Working
<1>c. AttemptOK(a, t, db)
  BY <1>5, <1>7, <1>8, <1>9, <1>a, <1>b DEF AttemptOK, Working, V
<1> QED
  BY <1>3, <1>c, OwnStep

LEMMA Waits ==
    ASSUME TrailInv, NEW a \in Attempts, Set(a, [txn[a] EXCEPT !.waiting = TRUE]), db' = db
    PROVE  Shapes' /\ HoldsOK' /\ CommittedOK' /\ AttemptsOK'
<1> DEFINE old == txn[a]
           t == [old EXCEPT !.waiting = TRUE]
           W == Whole(db, old.own)
<1>1. Shaped(old) /\ Sound(W) /\ Working(a, old, W)
  BY DEF TrailInv, Shapes, AttemptsOK, AttemptOK
<1>2. /\ t = [field \in Fields |-> t[field]] /\ t.own = old.own /\ t.stage = old.stage
      /\ t.outcome = old.outcome /\ t.todo = old.todo /\ t.plan = old.plan /\ t.got = old.got
      /\ t.observed = old.observed
  BY <1>1 DEF Shaped, Fields
<1>3. Set(a, t)
  OBVIOUS
<1>4. W = Whole(db, t.own)
  BY <1>2
<1> HIDE DEF t, W
<1>5. Shaped(t)
  BY <1>1, <1>2 DEF Shaped
<1>6. Working(a, t, W)
  <2>1. \A g \in ToSet(t.got) : Got(g, t)
    BY <1>1, <1>2 DEF Working, Got
  <2>2. \A f \in t.own.fetches : Fetches(a, f, t, W)
    BY <1>1, <1>2 DEF Working, Fetches
  <2>3. \A r \in ToSet(t.todo) : Asked(r, t)
    BY <1>1, <1>2 DEF Working, Asked
  <2>4. Reads(a, t, W) /\ \A f \in t.observed : Assertable(f)
    BY <1>1, <1>2 DEF Working, Reads
  <2> QED
    BY <2>1, <2>2, <2>3, <2>4 DEF Working
<1>7. AttemptOK(a, t, db)
  BY <1>1, <1>4, <1>6 DEF AttemptOK
<1> QED
  BY <1>2, <1>3, <1>5, <1>7, OwnStep

\* A body is stored by whoever inserts its row.
LEMMA Shares ==
    ASSUME TrailInv, NEW a \in Attempts, txn[a].todo # <<>>, NEW row, row = Head(txn[a].todo),
           row.key[1] # "extraction", Share(a, row), db' = db,
           row.key \in Seen(a, "rows") \/ ~HeldByAnother(a, row.key)
    PROVE  Shapes' /\ HoldsOK' /\ CommittedOK' /\ AttemptsOK'
<1> DEFINE old == txn[a]
           stored == IF row.key[1] = "body" /\ row.key \notin Seen(a, "rows")
                     THEN {[body |-> row.got.body, at |-> old.at]} ELSE {}
           emptied == IF row.key[1] = "artifact" /\ <<"text", row.got.body>> \in pruned
                      THEN {row.got.body} ELSE {}
           own == [old.own EXCEPT !.rows = @ \cup ({row.key} \ db.rows), !.bodies = @ \cup stored]
           t == [old EXCEPT !.todo = Tail(@), !.waiting = FALSE, !.own = own, !.blank = @ \cup emptied]
           W == Whole(db, old.own)
           V == Whole(db, t.own)
<1>1. Shaped(old) /\ Sound(W) /\ Working(a, old, W)
  BY DEF TrailInv, Shapes, AttemptsOK, AttemptOK
<1>2. Set(a, t)
  BY DEF Share
<1> HIDE DEF stored, emptied, own
<1>3. /\ t = [field \in Fields |-> t[field]] /\ t.stage = old.stage /\ t.outcome = old.outcome
      /\ t.plan = old.plan /\ t.got = old.got /\ t.todo = Tail(old.todo) /\ t.observed = old.observed
      /\ t.own = own
  BY <1>1 DEF Shaped, Fields
<1> HIDE DEF t
<1>4. /\ t.own = [table \in Tables |-> t.own[table]]
      /\ t.own.rows = old.own.rows \cup ({row.key} \ db.rows)
      /\ t.own.bodies = old.own.bodies \cup stored
      /\ \A table \in Tables \ {"rows", "bodies"} : t.own[table] = old.own[table]
  <2>1. old.own = [table \in Tables |-> old.own[table]]
    BY <1>1 DEF Shaped
  <2> QED
    BY <1>3, <2>1 DEF own, Tables
<1>5. Within(old.own, t.own)
  BY <1>4 DEF Within
<1>6. Asked(row, old)
  <2>1. old.todo \in Seq(ToSet(old.todo))
    BY <1>1 DEF Shaped
  <2>2. row \in ToSet(old.todo)
    BY <2>1, NextAndRest
  <2> QED
    BY <1>1, <2>2 DEF Working
<1>7. row.key[1] = "body" => row.key[2] = row.got.body /\ row.got.body \in DOMAIN Document
  <2>1. ASSUME row.key[1] = "body" PROVE row.key[2] = row.got.body /\ row.got \in ToSet(old.got)
    BY <1>6, <2>1 DEF Asked, Asks
  <2>2. \A g \in ToSet(old.got) : g.body \in DOMAIN Document
    BY <1>1 DEF Working, Got
  <2> QED
    BY <2>1, <2>2
<1>8. /\ V.bodies = db.bodies \cup t.own.bodies /\ W.rows = Seen(a, "rows")
      /\ \A body : HasBody(body, W) => HasBody(body, V)
  <2>1. Within(W, V)
    <3>1. \A table \in Tables : W[table] = db[table] \cup old.own[table] /\ V[table] = db[table] \cup t.own[table]
      BY WholeIs
    <3> QED
      BY <3>1, <1>5 DEF Within
  <2>2. V.bodies = db.bodies \cup t.own.bodies /\ W.rows = db.rows \cup old.own.rows
    BY WholeIs DEF Tables
  <2> HIDE DEF W, V
  <2> QED
    BY <2>1, <2>2, MoreTables DEF Seen, old
<1>9. row.key[1] = "body" => HasBody(row.key[2], V)
  <2> SUFFICES ASSUME row.key[1] = "body" PROVE HasBody(row.key[2], V)
    OBVIOUS
  <2>1. CASE row.key \in Seen(a, "rows")
    <3>1. StandsFor(row.key, W)
      BY <1>1, <1>8, <2>1 DEF Sound
    <3>2. HasBody(row.key[2], W)
      BY <3>1 DEF StandsFor, HasBody
    <3> QED
      BY <3>2, <1>8
  <2>2. CASE row.key \notin Seen(a, "rows")
    <3>1. stored = {[body |-> row.got.body, at |-> old.at]}
      BY <2>2 DEF stored
    <3>2. [body |-> row.got.body, at |-> old.at] \in V.bodies
      BY <3>1, <1>4, <1>8
    <3> HIDE DEF V
    <3> QED
      BY <3>2, <1>7 DEF HasBody
  <2> QED
    BY <2>1, <2>2
<1>a. Sound(V)
  <2>1. \A r \in t.own.rows : r \in old.own.rows \/ StandsFor(r, V)
    <3>1. StandsFor(row.key, V)
      BY <1>9 DEF StandsFor, HasBody
    <3> HIDE DEF V
    <3> QED
      BY <3>1, <1>4
  <2>2. \A b \in t.own.bodies : b \in old.own.bodies \/ b.body \in DOMAIN Document
    <3>1. \A b \in stored : b.body \in DOMAIN Document
      BY <1>7 DEF stored
    <3> QED
      BY <3>1, <1>4
  <2>3. /\ t.own.evidence = old.own.evidence /\ t.own.candidates = old.own.candidates
        /\ t.own.links = old.own.links /\ t.own.claims = old.own.claims
    BY <1>4 DEF Tables
  <2> QED
    BY <1>1, <1>5, <2>1, <2>2, <2>3, SoundOwn
<1>b. \A r \in t.own.rows : r \in old.own.rows \/ (r \notin db.rows /\ ~HeldByAnother(a, r))
  BY <1>4 DEF Seen
<1>c. \A g, x : ~Asks(row, g, x)
  BY DEF Asks
<1>d. t.own.fetches = old.own.fetches
  BY <1>4 DEF Tables
<1> QED
  BY <1>2, <1>3, <1>4, <1>5, <1>9, <1>a, <1>b, <1>c, <1>d, TakesNext
\* What is found in a body, with the evidence for it.
Item(a, row, o) ==
    [extraction |-> row.key[2], source |-> row.got.source, attempt |-> a, body |-> row.got.body,
     span |-> o.span]

Found(a, row, said) == {[says |-> o, evidence |-> Item(a, row, o)] : o \in said}

\* Whether a reading is reused or made: what it said is cited.
Citation(a, t, row, said) ==
    LET own == txn[a].own
        waits == MustWait(row.extractor)
    IN  /\ t = [field \in Fields |-> t[field]]
        /\ t.stage = txn[a].stage /\ t.outcome = txn[a].outcome /\ t.plan = txn[a].plan
        /\ t.got = txn[a].got /\ t.todo = Tail(txn[a].todo)
        /\ t.observed = txn[a].observed \cup (IF waits THEN {} ELSE Found(a, row, said))
        /\ t.own = [table \in Tables |-> t.own[table]]
        /\ \A table \in {"bodies", "fetches", "claims", "links", "edges"} : t.own[table] = own[table]
        /\ \E used \in t.own.usages : used.attempt = a /\ used.extraction = row.key[2]
        /\ own.usages \subseteq t.own.usages
        /\ t.own.evidence = own.evidence \cup {f.evidence : f \in Found(a, row, said)}
        /\ t.own.candidates = own.candidates \cup (IF waits THEN Found(a, row, said) ELSE {})
        /\ own.extractions \subseteq t.own.extractions /\ own.rows \subseteq t.own.rows
        /\ \A r \in t.own.rows : r \in own.rows \/ (r = row.key /\ r \notin db.rows /\ ~HeldByAnother(a, r))
        /\ \E r \in db.extractions \cup t.own.extractions : r.id = row.key[2] /\ r.says = said

\* What Cite makes of an attempt.
CitedAs(a, c, row, said) ==
    /\ c = [field \in Fields |-> c[field]]
    /\ c.stage = txn[a].stage /\ c.outcome = txn[a].outcome /\ c.plan = txn[a].plan
    /\ c.got = txn[a].got /\ c.todo = Tail(txn[a].todo)
    /\ c.observed = txn[a].observed \cup (IF MustWait(row.extractor) THEN {} ELSE Found(a, row, said))
    /\ c.own = [table \in Tables |-> c.own[table]]
    /\ \A table \in {"rows", "bodies", "fetches", "extractions", "claims", "links", "edges"} :
          c.own[table] = txn[a].own[table]
    /\ \E used \in c.own.usages : used.attempt = a /\ used.extraction = row.key[2]
    /\ txn[a].own.usages \subseteq c.own.usages
    /\ c.own.evidence = txn[a].own.evidence \cup {f.evidence : f \in Found(a, row, said)}
    /\ c.own.candidates = txn[a].own.candidates
           \cup (IF MustWait(row.extractor) THEN Found(a, row, said) ELSE {})

LEMMA CiteIs ==
    ASSUME NEW a, Shaped(txn[a]), NEW row, NEW said, NEW role
    PROVE  CitedAs(a, Cite(a, row, said, role), row, said)
<1> DEFINE old == txn[a]
           c == Cite(a, row, said, role)
           waits == MustWait(row.extractor)
           found == Found(a, row, said)
           used == [attempt |-> a, extraction |-> row.key[2], role |-> role]
           observed == old.observed \cup (IF waits THEN {} ELSE found)
           own == [old.own EXCEPT !.usages = @ \cup {used},
                                  !.evidence = @ \cup {f.evidence : f \in found},
                                  !.candidates = @ \cup (IF waits THEN found ELSE {})]
<1>1. c = [old EXCEPT !.todo = Tail(@), !.waiting = FALSE, !.own = own, !.observed = observed]
  BY DEF Cite, Citing, Found, Item
<1> HIDE DEF waits, found, observed
<1>2. /\ own = [table \in Tables |-> own[table]]
      /\ \A table \in {"rows", "bodies", "fetches", "extractions", "claims", "links", "edges"} :
            own[table] = old.own[table]
      /\ own.usages = old.own.usages \cup {used}
      /\ own.evidence = old.own.evidence \cup {f.evidence : f \in found}
      /\ own.candidates = old.own.candidates \cup (IF waits THEN found ELSE {})
  <2>1. old.own = [table \in Tables |-> old.own[table]]
    BY DEF Shaped
  <2> QED
    BY <2>1 DEF Tables
<1>3. used.attempt = a /\ used.extraction = row.key[2]
  OBVIOUS
<1> HIDE DEF own, used, c
<1>4. /\ c = [field \in Fields |-> c[field]]
      /\ c.stage = old.stage /\ c.outcome = old.outcome /\ c.plan = old.plan
      /\ c.got = old.got /\ c.todo = Tail(old.todo) /\ c.observed = observed /\ c.own = own
  BY <1>1 DEF Shaped, Fields
<1> QED
  BY <1>2, <1>3, <1>4 DEF CitedAs, observed, waits, found, c

LEMMA Cites ==
    ASSUME TrailInv, NEW a \in Attempts, txn[a].todo # <<>>, NEW row, row = Head(txn[a].todo),
           row.key[1] = "extraction", NEW said, NEW t, Citation(a, t, row, said), Set(a, t), db' = db
    PROVE  Shapes' /\ HoldsOK' /\ CommittedOK' /\ AttemptsOK'
<1> DEFINE old == txn[a]
           own == old.own
           waits == MustWait(row.extractor)
           found == Found(a, row, said)
           W == Whole(db, own)
           V == Whole(db, t.own)
<1>1. Shaped(old) /\ Sound(W) /\ Working(a, old, W)
  BY DEF TrailInv, Shapes, AttemptsOK, AttemptOK
<1>2. PICK g \in ToSet(old.got) : \E x \in ToSet(Extractors) : Asks(row, g, x)
  <2>1. old.todo \in Seq(ToSet(old.todo))
    BY <1>1 DEF Shaped
  <2>2. Asked(row, old)
    BY <1>1, <2>1, NextAndRest DEF Working
  <2> QED
    BY <2>2 DEF Asked
<1>3. PICK x \in ToSet(Extractors) : Asks(row, g, x)
  BY <1>2
<1>4. /\ row.got = g /\ row.extractor = x /\ row.key[2].body = g.body /\ row.key[2].extractor = x.id
  BY <1>3 DEF Asks
<1>5. PICK f \in own.fetches : f.source = g.source /\ f.body = g.body /\ f.attempt = a
  <2>1. PICK f \in own.fetches : f.source = g.source /\ f.body = g.body
    BY <1>1 DEF Working, Got
  <2> QED
    BY <1>1, <2>1 DEF Working, Fetches
<1> HIDE DEF found, waits
<1>6. /\ t.observed = old.observed \cup (IF waits THEN {} ELSE found)
      /\ t.own.fetches = own.fetches /\ t.own.bodies = own.bodies
      /\ t.own.claims = own.claims /\ t.own.links = own.links /\ t.own.edges = own.edges
      /\ own.usages \subseteq t.own.usages
      /\ t.own.evidence = own.evidence \cup {c.evidence : c \in found}
      /\ t.own.candidates = own.candidates \cup (IF waits THEN found ELSE {})
      /\ own.extractions \subseteq t.own.extractions /\ own.rows \subseteq t.own.rows
      /\ \A r \in t.own.rows : r \in own.rows \/ (r = row.key /\ r \notin db.rows /\ ~HeldByAnother(a, r))
  BY DEF Citation, found, waits
<1>7. Within(own, t.own)
  BY <1>6 DEF Within, Tables
<1>8. /\ V.extractions = db.extractions \cup t.own.extractions
      /\ V.evidence = db.evidence \cup t.own.evidence
      /\ V.usages = db.usages \cup t.own.usages
      /\ V.fetches = db.fetches \cup t.own.fetches
  BY WholeIs DEF Tables
<1>9. PICK r \in V.extractions : r.id = row.key[2] /\ r.says = said
  BY <1>8 DEF Citation
<1>a. PICK used \in V.usages : used.attempt = a /\ used.extraction = row.key[2]
  BY <1>8 DEF Citation
<1> HIDE DEF V, W, own, old
<1>b. \A o \in said : /\ Item(a, row, o) \in V.evidence /\ Founded(Item(a, row, o), V)
                      /\ Item(a, row, o).extraction = r.id /\ Item(a, row, o).source = g.source
                      /\ Item(a, row, o).attempt = a /\ Item(a, row, o).span = o.span
  <2> SUFFICES ASSUME NEW o \in said
               PROVE  /\ Item(a, row, o) \in V.evidence /\ Founded(Item(a, row, o), V)
                      /\ Item(a, row, o).extraction = r.id /\ Item(a, row, o).source = g.source
                      /\ Item(a, row, o).attempt = a /\ Item(a, row, o).span = o.span
    OBVIOUS
  <2>1. /\ Item(a, row, o).extraction = row.key[2] /\ Item(a, row, o).source = g.source
        /\ Item(a, row, o).attempt = a /\ Item(a, row, o).span = o.span
        /\ Item(a, row, o).body = g.body
    BY <1>4 DEF Item
  <2>2. Item(a, row, o) \in V.evidence
    <3>1. [says |-> o, evidence |-> Item(a, row, o)] \in found
      BY DEF found, Found
    <3>2. [says |-> o, evidence |-> Item(a, row, o)].evidence = Item(a, row, o)
      OBVIOUS
    <3>3. Item(a, row, o) \in {c.evidence : c \in found}
      BY <3>1, <3>2
    <3> QED
      BY <3>3, <1>6, <1>8
  <2>3. f \in V.fetches
    BY <1>5, <1>6, <1>8
  <2>4. Founded(Item(a, row, o), V)
    BY <2>1, <2>3, <1>4, <1>5, <1>9 DEF Founded
  <2> QED
    BY <2>1, <2>2, <2>4, <1>9
<1>c. \A c \in found : \E o \in said : c = [says |-> o, evidence |-> Item(a, row, o)]
                                       /\ c.says = o /\ c.evidence = Item(a, row, o)
  BY DEF found, Found
<1>d. Sound(V)
  <2>1. \A q \in t.own.rows : q \in own.rows \/ StandsFor(q, V)
    <3>1. StandsFor(row.key, V)
      BY <1>9 DEF StandsFor
    <3> QED
      BY <3>1, <1>6
  <2>2. \A e \in t.own.evidence : e \in own.evidence \/ Founded(e, V)
    BY <1>6, <1>b, <1>c
  <2>3. \A c \in t.own.candidates : c \in own.candidates \/ Proposed(c, V)
    <3> SUFFICES ASSUME NEW c \in found PROVE Proposed(c, V)
      BY <1>6
    <3>1. PICK o \in said : c.evidence = Item(a, row, o)
      BY <1>c
    <3>2. c.evidence \in V.evidence
      BY <3>1, <1>b
    <3>3. c.evidence = [extraction |-> c.evidence.extraction, source |-> c.evidence.source,
                        attempt |-> c.evidence.attempt, body |-> c.evidence.body, span |-> c.evidence.span]
      BY <3>1 DEF Item
    <3> QED
      BY <3>2, <3>3 DEF Proposed
  <2> QED
    BY <1>1, <1>6, <1>7, <2>1, <2>2, <2>3, SoundOwn DEF V, W
<1>e. \A h, y : Asks(row, h, y) => CitedFor(V, a, h.source, h.body, y)
  <2> SUFFICES ASSUME NEW h, NEW y, Asks(row, h, y) PROVE CitedFor(V, a, h.source, h.body, y)
    OBVIOUS
  <2>1. h = g /\ y = x
    BY <1>4 DEF Asks
  <2>2. \A o \in r.says : \E e \in V.evidence :
            e.extraction = r.id /\ e.source = g.source /\ e.attempt = a /\ e.span = o.span
    BY <1>9, <1>b
  <2>3. used.extraction.body = g.body /\ used.extraction.extractor = x.id /\ r.id = used.extraction
    BY <1>4, <1>9, <1>a
  <2> QED
    BY <1>9, <1>a, <2>1, <2>2, <2>3 DEF CitedFor
<1>f. \A c \in t.observed : c \in old.observed \/ Assertable(c)
  <2> SUFFICES ASSUME ~waits, NEW c \in found PROVE Assertable(c)
    BY <1>6
  <2>1. c.evidence.extraction = row.key[2]
    BY <1>c, <1>b, <1>9
  <2> QED
    BY <2>1, <1>4 DEF Assertable, waits
<1>g. row.key[1] # "body"
  OBVIOUS
<1>h. /\ t = [field \in Fields |-> t[field]] /\ t.own = [table \in Tables |-> t.own[table]]
      /\ t.stage = old.stage /\ t.outcome = old.outcome /\ t.plan = old.plan
      /\ t.got = old.got /\ t.todo = Tail(old.todo)
  BY DEF Citation, old
<1> QED
  BY <1>6, <1>7, <1>d, <1>e, <1>f, <1>g, <1>h, TakesNext DEF V, own, old

LEMMA Extracts ==
    ASSUME TrailInv, NEW a \in Attempts, txn[a].todo # <<>>, NEW row, row = Head(txn[a].todo),
           row.key[1] = "extraction", Extract(a, row), db' = db,
           row.key \in Seen(a, "rows") \/ ~HeldByAnother(a, row.key)
    PROVE  Shapes' /\ HoldsOK' /\ CommittedOK' /\ AttemptsOK'
<1> DEFINE id == row.key[2]
           reused == Cite(a, row, Stored(a, id).says, "REUSED")
           says == Reading(row.extractor, TextRead(a, row.got.body))
           created == Cite(a, row, says, "CREATED")
           own == [created.own EXCEPT !.rows = @ \cup {row.key},
                                      !.extractions = @ \cup {[id |-> id, says |-> says]}]
           made == [created EXCEPT !.own = own]
<1>1. Shaped(txn[a])
  BY DEF TrailInv, Shapes
<1>2. "integrity" \in Outcomes \ {"divergence"} /\ "raised" \in Outcomes \ {"divergence"}
  BY TrailAssumption DEF Outcomes
<1>3. CASE row.key \in Seen(a, "rows") /\ txn[a].waiting
  BY <1>2, <1>3, Aborts DEF Extract
<1>4. CASE row.key \notin Seen(a, "rows") /\ Raises(row.extractor, TextRead(a, row.got.body))
  BY <1>2, <1>4, Aborts DEF Extract
<1>5. CASE row.key \in Seen(a, "rows") /\ ~txn[a].waiting
  <2>1. Set(a, reused)
    BY <1>5 DEF Extract
  <2>2. Stored(a, id) \in Seen(a, "extractions") /\ Stored(a, id).id = id
    <3>1. Sound(Whole(db, txn[a].own))
      BY DEF TrailInv, AttemptsOK, AttemptOK
    <3>2. /\ Whole(db, txn[a].own).rows = Seen(a, "rows")
          /\ Whole(db, txn[a].own).extractions = Seen(a, "extractions")
      BY WholeIs DEF Tables, Seen
    <3>3. StandsFor(row.key, Whole(db, txn[a].own))
      BY <1>5, <3>1, <3>2 DEF Sound
    <3>4. \E e \in Seen(a, "extractions") : e.id = id
      BY <3>2, <3>3 DEF StandsFor
    <3> QED
      BY <3>4 DEF Stored
  <2> DEFINE said == Stored(a, id).says
  <2>3. \E r \in Seen(a, "extractions") : r.id = row.key[2] /\ r.says = said
    BY <2>2
  <2>4. CitedAs(a, reused, row, said)
    BY <1>1, CiteIs
  <2> HIDE DEF said, reused
  <2>5. Citation(a, reused, row, said)
    BY <2>3, <2>4 DEF CitedAs, Citation, Seen
  <2> QED
    BY <2>1, <2>5, Cites
<1>6. CASE row.key \notin Seen(a, "rows") /\ ~Raises(row.extractor, TextRead(a, row.got.body))
  <2>1. Set(a, made)
    BY <1>6 DEF Extract
  <2>2. CitedAs(a, created, row, says)
    BY <1>1, CiteIs
  <2> DEFINE r == [id |-> id, says |-> says]
  <2>3. r.id = row.key[2] /\ r.says = says
    OBVIOUS
  <2> HIDE DEF says, created, r
  <2>4. /\ own = [table \in Tables |-> own[table]]
        /\ own.rows = txn[a].own.rows \cup {row.key}
        /\ own.extractions = txn[a].own.extractions \cup {r}
        /\ \A table \in Tables \ {"rows", "extractions"} : own[table] = created.own[table]
    <3>1. /\ created.own = [table \in Tables |-> created.own[table]]
          /\ created.own.rows = txn[a].own.rows /\ created.own.extractions = txn[a].own.extractions
      BY <2>2 DEF CitedAs
    <3> QED
      BY <3>1 DEF Tables, r
  <2> HIDE DEF own
  <2>5. /\ made = [field \in Fields |-> made[field]] /\ made.own = own
        /\ \A field \in Fields \ {"own"} : made[field] = created[field]
    <3>1. created = [field \in Fields |-> created[field]]
      BY <2>2 DEF CitedAs
    <3> QED
      BY <3>1 DEF Fields
  <2> HIDE DEF made
  <2>6. /\ \A table \in {"bodies", "fetches", "claims", "links", "edges"} : made.own[table] = txn[a].own[table]
        /\ made.own.usages = created.own.usages /\ made.own.evidence = created.own.evidence
        /\ made.own.candidates = created.own.candidates
    <3>1. \A table \in {"bodies", "fetches", "claims", "links", "edges"} : created.own[table] = txn[a].own[table]
      BY <2>2 DEF CitedAs
    <3> QED
      BY <3>1, <2>4, <2>5 DEF Tables
  <2>7. /\ made.stage = created.stage /\ made.outcome = created.outcome /\ made.plan = created.plan
        /\ made.got = created.got /\ made.todo = created.todo /\ made.observed = created.observed
    BY <2>5 DEF Fields
  <2>8. row.key \notin db.rows /\ ~HeldByAnother(a, row.key)
    BY <1>6 DEF Seen
  <2>9. Citation(a, made, row, says)
    BY <2>2, <2>3, <2>4, <2>5, <2>6, <2>7, <2>8 DEF CitedAs, Citation
  <2> QED
    BY <2>1, <2>9, Cites
<1> QED
  BY <1>3, <1>4, <1>5, <1>6

LEMMA InsertsOne ==
    ASSUME TrailInv, NEW a \in Attempts, Insert(a)
    PROVE  Shapes' /\ HoldsOK' /\ CommittedOK' /\ AttemptsOK'
<1> DEFINE row == Head(txn[a].todo)
<1>1. txn[a].todo # <<>> /\ db' = db
  BY DEF Insert
<1>2. CASE row.key \notin Seen(a, "rows") /\ HeldByAnother(a, row.key)
  BY <1>1, <1>2, Waits DEF Insert
<1>3. CASE row.key \in Seen(a, "rows") \/ ~HeldByAnother(a, row.key)
  <2>1. IF row.key[1] = "extraction" THEN Extract(a, row) ELSE Share(a, row)
    BY <1>3 DEF Insert
  <2> HIDE DEF row
  <2>2. CASE row.key[1] = "extraction"
    BY <1>1, <1>3, <2>1, <2>2, Extracts DEF row
  <2>3. CASE row.key[1] # "extraction"
    BY <1>1, <1>3, <2>1, <2>3, Shares DEF row
  <2> QED
    BY <2>2, <2>3
<1> QED
  BY <1>2, <1>3
-----------------------------------------------------------------------------
(***************************************************************************)
(* Claims.                                                                 *)
(***************************************************************************)

\* Confidence is a matter of lineage.
LEMMA DerivedFromLineage ==
    ASSUME NEW id, NEW evidence, id.lineage = {Origin(e) : e \in evidence}
    PROVE  Derived(id.fact, evidence, id.rule # None) = FromLineage(id)
<1>1. \A e : Origin(e)[1] = e.source /\ Voice(e) = <<Publisher[Origin(e)[1]], Origin(e)[2]>>
  BY DEF Origin, Voice
<1> DEFINE tiers == {Tier[e.source] : e \in evidence}
           origins == {Tier[o[1]] : o \in id.lineage}
           voices == {Voice(e) : e \in evidence}
           sources == {<<Publisher[o[1]], o[2]>> : o \in id.lineage}
<1>2. tiers = origins
  <2>1. ASSUME NEW e \in evidence PROVE Tier[e.source] \in origins
    <3>1. Origin(e) \in id.lineage
      OBVIOUS
    <3> QED
      BY <3>1, <1>1
  <2>2. ASSUME NEW o \in id.lineage PROVE Tier[o[1]] \in tiers
    <3>1. PICK e \in evidence : o = Origin(e)
      OBVIOUS
    <3> QED
      BY <3>1, <1>1
  <2> QED
    BY <2>1, <2>2
<1>3. voices = sources
  <2>1. ASSUME NEW e \in evidence PROVE Voice(e) \in sources
    <3>1. Origin(e) \in id.lineage
      OBVIOUS
    <3> QED
      BY <3>1, <1>1
  <2>2. ASSUME NEW o \in id.lineage PROVE <<Publisher[o[1]], o[2]>> \in voices
    <3>1. PICK e \in evidence : o = Origin(e)
      OBVIOUS
    <3> QED
      BY <3>1, <1>1
  <2> QED
    BY <2>1, <2>2
<1>4. Derived(id.fact, evidence, id.rule # None) = Confidence(id.fact, tiers, MaximumMatching(voices), id.rule # None)
  BY DEF Derived, Voices
<1>5. FromLineage(id) = Confidence(id.fact, origins, MaximumMatching(sources), id.rule # None)
  BY DEF FromLineage
<1> HIDE DEF tiers, origins, voices, sources
<1> QED
  BY <1>2, <1>3, <1>4, <1>5

\* No confidence stored is at odds with what is linked.
LEMMA SoundConfidence ==
    ASSUME NEW tables, Sound(tables), NEW c \in tables.claims
    PROVE  c.confidence = Derived(c.id.fact, LinkedTo(tables, c.id), c.id.rule # None)
<1>1. Attested(c, tables)
  BY DEF Sound
<1>2. c.id.lineage = {Origin(e) : e \in LinkedTo(tables, c.id)}
  <2>1. ASSUME NEW o \in c.id.lineage PROVE \E e \in LinkedTo(tables, c.id) : o = Origin(e)
    <3>1. PICK l \in tables.links : l.claim = c.id /\ Origin(l.evidence) = o
      BY <1>1 DEF Attested
    <3>2. l.evidence \in LinkedTo(tables, c.id)
      BY <3>1 DEF LinkedTo
    <3> QED
      BY <3>1, <3>2
  <2>2. ASSUME NEW e \in LinkedTo(tables, c.id) PROVE Origin(e) \in c.id.lineage
    <3>1. PICK l \in tables.links : l.claim = c.id /\ e = l.evidence
      BY <2>2 DEF LinkedTo
    <3>2. Faithful(l)
      BY DEF Sound
    <3> QED
      BY <3>1, <3>2 DEF Faithful
  <2> QED
    BY <2>1, <2>2
<1> QED
  BY <1>1, <1>2, DerivedFromLineage DEF Attested

LEMMA NeverDiverges ==
    ASSUME NEW tables, Sound(tables), NEW assertions
    PROVE  ~Diverges(tables, assertions)
BY SoundConfidence DEF Diverges

\* An assertion states the lineage of its evidence, which may be asserted.
Stands(s, tables) ==
    /\ s.id.lineage = {Origin(e) : e \in s.evidence}
    /\ \A e \in s.evidence : Accountable([claim |-> s.id, evidence |-> e], tables)

LEMMA AssertingIsSound ==
    ASSUME NEW S, S = [table \in Tables |-> S[table]], Sound(S), NEW A, \A s \in A : Stands(s, S),
           NEW T, T = AfterAsserting(S, A)
    PROVE  /\ T = [table \in Tables |-> T[table]] /\ Within(S, T) /\ Sound(T)
           /\ \A table \in Tables \ {"claims", "links"} : T[table] = S[table]
<1> DEFINE known == {c.id : c \in S.claims}
           new == {s \in A : s.id \notin known}
           created == {[id |-> s.id,
                        confidence |-> Derived(s.id.fact, s.evidence, s.id.rule # None)] : s \in new}
           linked == UNION {{[claim |-> s.id, evidence |-> e] : e \in s.evidence} : s \in A}
<1>1. T = [S EXCEPT !.claims = @ \cup created, !.links = @ \cup linked]
  BY DEF AfterAsserting
<1>2. \A c \in created : \E s \in A : /\ c.id = s.id
                                      /\ c.confidence = Derived(s.id.fact, s.evidence, s.id.rule # None)
  OBVIOUS
<1>3. \A l \in linked : \E s \in A : \E e \in s.evidence :
          l = [claim |-> s.id, evidence |-> e] /\ l.claim = s.id /\ l.evidence = e
  OBVIOUS
<1>4. \A s \in A : \A e \in s.evidence : \E l \in linked : l.claim = s.id /\ l.evidence = e
  <2> SUFFICES ASSUME NEW s \in A, NEW e \in s.evidence
               PROVE  \E l \in linked : l.claim = s.id /\ l.evidence = e
    OBVIOUS
  <2>1. [claim |-> s.id, evidence |-> e] \in linked
    OBVIOUS
  <2>2. [claim |-> s.id, evidence |-> e].claim = s.id /\ [claim |-> s.id, evidence |-> e].evidence = e
    OBVIOUS
  <2> HIDE DEF linked
  <2> QED
    BY <2>1, <2>2
<1> HIDE DEF created, linked
<1>5. /\ T = [table \in Tables |-> T[table]]
      /\ T.claims = S.claims \cup created /\ T.links = S.links \cup linked
      /\ \A table \in Tables \ {"claims", "links"} : T[table] = S[table]
  BY <1>1 DEF Tables
<1>6. Within(S, T)
  BY <1>5 DEF Within
<1>7. ASSUME NEW c \in created PROVE Attested(c, T)
  <2>1. PICK s \in A : c.id = s.id /\ c.confidence = Derived(s.id.fact, s.evidence, s.id.rule # None)
    BY <1>2
  <2>2. s.id.lineage = {Origin(e) : e \in s.evidence}
    BY DEF Stands
  <2>3. c.confidence = FromLineage(c.id)
    BY <2>1, <2>2, DerivedFromLineage
  <2>4. ASSUME NEW o \in c.id.lineage PROVE \E l \in T.links : l.claim = c.id /\ Origin(l.evidence) = o
    <3>1. PICK e \in s.evidence : o = Origin(e)
      BY <2>1, <2>2
    <3>2. PICK l \in linked : l.claim = s.id /\ l.evidence = e
      BY <1>4
    <3> QED
      BY <1>5, <2>1, <3>1, <3>2
  <2> QED
    BY <2>3, <2>4 DEF Attested
<1>8. ASSUME NEW l \in linked PROVE Accountable(l, T) /\ Faithful(l)
  <2>1. PICK s \in A : \E e \in s.evidence :
          l = [claim |-> s.id, evidence |-> e] /\ l.claim = s.id /\ l.evidence = e
    BY <1>3
  <2>2. PICK e \in s.evidence : l = [claim |-> s.id, evidence |-> e] /\ l.claim = s.id /\ l.evidence = e
    BY <2>1
  <2>3. s.id.lineage = {Origin(d) : d \in s.evidence} /\ Accountable(l, S)
    BY <2>2 DEF Stands
  <2>4. Origin(l.evidence) \in l.claim.lineage
    BY <2>2, <2>3
  <2> QED
    BY <1>6, <2>3, <2>4, MoreTables DEF Faithful
<1>9. /\ T.rows = S.rows /\ T.bodies = S.bodies /\ T.evidence = S.evidence /\ T.candidates = S.candidates
  BY <1>5 DEF Tables
<1>a. Sound(T)
  BY <1>5, <1>6, <1>7, <1>8, <1>9, SoundMore
<1> QED
  BY <1>5, <1>6, <1>a

\* What an attempt observed may be asserted.
LEMMA ObservationsStand ==
    ASSUME NEW company, NEW found, \A f \in found : Assertable(f), NEW tables
    PROVE  \A s \in Assertions(company, found) : Stands(s, tables)
<1> DEFINE group(f) == {g \in found : /\ g.says.key = f.says.key /\ g.says.value = f.says.value
                                      /\ g.says.unit = f.says.unit /\ g.says.fact = f.says.fact
                                      /\ Origin(g.evidence) = Origin(f.evidence)}
           of(f) == {g.evidence : g \in group(f)}
<1> SUFFICES ASSUME NEW s \in Assertions(company, found) PROVE Stands(s, tables)
  OBVIOUS
<1>1. PICK f \in found : s = [id |-> Fingerprint(company, f.says, of(f), None), evidence |-> of(f)]
  BY DEF Assertions
<1>2. \A e \in of(f) : \E g \in found : e = g.evidence
  OBVIOUS
<1> HIDE DEF of, group
<1>3. s.id.lineage = {Origin(e) : e \in s.evidence} /\ s.evidence = of(f)
  BY <1>1 DEF Fingerprint
<1>4. ASSUME NEW e \in s.evidence PROVE Accountable([claim |-> s.id, evidence |-> e], tables)
  <2>1. PICK g \in found : e = g.evidence
    BY <1>2, <1>3
  <2>2. PICK x \in ToSet(Extractors) : x.id = e.extraction.extractor /\ ~MustWait(x)
    BY <2>1 DEF Assertable
  <2>3. ~x.sampled /\ x.confidence >= 60
    BY <2>2, TrailAssumption DEF MustWait
  <2> QED
    BY <2>2, <2>3 DEF Accountable
<1> QED
  BY <1>3, <1>4 DEF Stands

\* What is inferred rests on what stands behind its inputs.
LEMMA InferenceStands ==
    ASSUME NEW company, NEW tables, Sound(tables)
    PROVE  \A s \in Inferred(company, tables) : Stands(s, tables)
<1> DEFINE inputs(key) == {c.id : c \in {d \in tables.claims : /\ d.id.company = company
                                             /\ d.id.key = key /\ Dispatches(d.id)}}
           both == inputs("emergency_service") \cup inputs("branch_count")
           evidence == UNION {LinkedTo(tables, id) : id \in both}
           says == [key |-> "dispatch_centralization", value |-> <<"LIKELY_REQUIRED", Nothing>>,
                    unit |-> Nothing, fact |-> "INFERENCE"]
<1> SUFFICES ASSUME NEW s \in Inferred(company, tables) PROVE Stands(s, tables)
  OBVIOUS
<1>1. s = [id |-> Fingerprint(company, says, evidence, "R-DISPATCH-001"), evidence |-> evidence]
  BY DEF Inferred
<1>2. \A e \in evidence : \E l \in tables.links : e = l.evidence
  BY DEF LinkedTo
<1> HIDE DEF evidence, says
<1>3. /\ s.id.lineage = {Origin(e) : e \in s.evidence} /\ s.evidence = evidence
      /\ s.id.rule = "R-DISPATCH-001"
  BY <1>1 DEF Fingerprint
<1>4. ASSUME NEW e \in s.evidence PROVE Accountable([claim |-> s.id, evidence |-> e], tables)
  <2>1. PICK l \in tables.links : e = l.evidence
    BY <1>2, <1>3
  <2>2. Accountable(l, tables)
    BY DEF Sound
  <2>3. s.id.rule # None
    BY <1>3, TrailAssumption
  <2> QED
    BY <2>1, <2>2, <2>3 DEF Accountable
<1> QED
  BY <1>3, <1>4 DEF Stands

LEMMA TogetherIs ==
    ASSUME NEW a
    PROVE  Together(a) = Whole(db, txn[a].own)
BY DEF Together, Whole, NoRows, Tables, Seen

LEMMA AssertsClaims ==
    ASSUME TrailInv, NEW a \in Attempts, AssertClaims(a)
    PROVE  Shapes' /\ HoldsOK' /\ CommittedOK' /\ AttemptsOK'
<1> DEFINE old == txn[a]
           W == Whole(db, old.own)
           assertions == Assertions(Company[a], old.observed)
           asserted == AfterAsserting(Together(a), assertions)
           inferred == AfterAsserting(asserted, Inferred(Company[a], asserted))
           own == [old.own EXCEPT !.edges = @ \cup DeclaredEdges(a) \cup MirrorEdges(a),
                                  !.claims = inferred.claims \ db.claims,
                                  !.links = inferred.links \ db.links]
           t == [old EXCEPT !.stage = "asserted", !.own = own]
           V == Whole(db, t.own)
<1>0. old.stage = "extracting" /\ old.todo = <<>> /\ db' = db
  BY DEF AssertClaims
<1>1. Shaped(old) /\ Sound(W) /\ Working(a, old, W)
  BY DEF TrailInv, Shapes, AttemptsOK, AttemptOK
<1>2. /\ asserted = [table \in Tables |-> asserted[table]] /\ Within(W, asserted) /\ Sound(asserted)
      /\ \A table \in Tables \ {"claims", "links"} : asserted[table] = W[table]
  <2>1. Together(a) = W
    BY TogetherIs
  <2>2. W = [table \in Tables |-> W[table]]
    BY DEF Whole
  <2>3. \A s \in assertions : Stands(s, W)
    <3>1. \A f \in old.observed : Assertable(f)
      BY <1>1 DEF Working
    <3> QED
      BY <3>1, ObservationsStand
  <2>4. asserted = AfterAsserting(W, assertions)
    BY <2>1
  <2> HIDE DEF W, assertions, asserted
  <2> QED
    BY <1>1, <2>2, <2>3, <2>4, AssertingIsSound
<1>3. /\ Within(asserted, inferred) /\ Sound(inferred)
      /\ \A table \in Tables \ {"claims", "links"} : inferred[table] = asserted[table]
  <2> HIDE DEF asserted
  <2>1. \A s \in Inferred(Company[a], asserted) : Stands(s, asserted)
    BY <1>2, InferenceStands
  <2> QED
    BY <1>2, <2>1, AssertingIsSound
<1>4. Set(a, t)
  <2>1. ~Diverges(inferred, assertions \cup Inferred(Company[a], asserted))
    BY <1>3, NeverDiverges
  <2> QED
    BY <2>1 DEF AssertClaims
<1> HIDE DEF inferred, asserted, assertions, own, W
<1>5. /\ t = [field \in Fields |-> t[field]] /\ t.stage = "asserted" /\ t.outcome = old.outcome
      /\ t.plan = old.plan /\ t.got = old.got /\ t.todo = old.todo /\ t.observed = old.observed
      /\ t.own = own
  BY <1>1 DEF Shaped, Fields
<1> HIDE DEF t
<1>6. /\ t.own = [table \in Tables |-> t.own[table]]
      /\ old.own.edges \subseteq t.own.edges
      /\ t.own.claims = inferred.claims \ db.claims /\ t.own.links = inferred.links \ db.links
      /\ \A table \in Tables \ {"edges", "claims", "links"} : t.own[table] = old.own[table]
  <2>1. old.own = [table \in Tables |-> old.own[table]]
    BY <1>1 DEF Shaped
  <2> QED
    BY <1>5, <2>1 DEF own, Tables
<1>7. Shaped(t)
  BY <1>1, <1>5, <1>6 DEF Shaped
<1>8. \A table \in Tables : W[table] = db[table] \cup old.own[table] /\ V[table] = db[table] \cup t.own[table]
  BY WholeIs DEF W
<1> HIDE DEF V
<1>9. /\ \A table \in Tables : W[table] \subseteq inferred[table]
      /\ \A table \in Tables \ {"claims", "links"} : inferred[table] = W[table]
  BY <1>2, <1>3 DEF Within
<1>a. /\ V.claims = inferred.claims /\ V.links = inferred.links
      /\ \A table \in Tables \ {"edges", "claims", "links"} : V[table] = inferred[table]
      /\ inferred.edges \subseteq V.edges
  <2>1. /\ db.claims \subseteq W.claims /\ db.links \subseteq W.links
        /\ W.claims \subseteq inferred.claims /\ W.links \subseteq inferred.links
        /\ inferred.edges = W.edges /\ W.edges = db.edges \cup old.own.edges
    BY <1>8, <1>9 DEF Tables
  <2>2. /\ V.claims = db.claims \cup t.own.claims /\ V.links = db.links \cup t.own.links
        /\ V.edges = db.edges \cup t.own.edges
    BY <1>8 DEF Tables
  <2>3. \A table \in Tables \ {"edges", "claims", "links"} : V[table] = inferred[table]
    BY <1>6, <1>8, <1>9
  <2> QED
    BY <1>6, <2>1, <2>2, <2>3
<1>b. Within(inferred, V)
  BY <1>a DEF Within, Tables
<1>c. Within(W, V)
  BY <1>9, <1>b DEF Within
<1>d. Sound(V)
  <2>1. /\ V.rows = inferred.rows /\ V.bodies = inferred.bodies /\ V.evidence = inferred.evidence
        /\ V.candidates = inferred.candidates
    BY <1>a DEF Tables
  <2> QED
    BY <1>3, <1>a, <1>b, <2>1, SoundMore
<1>e. /\ \A b : HasBody(b, W) => HasBody(b, V)
      /\ \A at, s, b, x : CitedFor(W, at, s, b, x) => CitedFor(V, at, s, b, x)
  BY <1>c, MoreTables
<1>f. ToSet(old.todo) = {} /\ t.own.fetches = old.own.fetches /\ t.own.rows = old.own.rows
  <2>1. ToSet(old.todo) = {}
    BY <1>0 DEF ToSet
  <2>2. t.own.fetches = old.own.fetches /\ t.own.rows = old.own.rows
    BY <1>6 DEF Tables
  <2> QED
    BY <2>1, <2>2
<1> HIDE DEF old
<1>g. \A g \in ToSet(t.got) : Got(g, t)
  BY <1>1, <1>5, <1>f DEF Working, Got
<1>h. \A f \in t.own.fetches : Fetches(a, f, t, V)
  BY <1>1, <1>5, <1>e, <1>f DEF Working, Fetches
<1>i. Reads(a, t, V)
  <2>1. \A g \in ToSet(old.got) : \A x \in ToSet(Extractors) :
            x.media = Document[g.body].media => CitedFor(W, a, g.source, g.body, x)
    BY <1>0, <1>1, <1>f DEF Working, Reads
  <2> QED
    BY <1>0, <1>5, <1>e, <2>1 DEF Reads
<1>j. /\ \A r \in ToSet(t.todo) : Asked(r, t)
      /\ \A f \in t.observed : Assertable(f)
  BY <1>1, <1>5, <1>f DEF Working
<1>k. AttemptOK(a, t, db)
  BY <1>d, <1>g, <1>h, <1>i, <1>j DEF AttemptOK, Working, V
<1> QED
  BY <1>0, <1>4, <1>7, <1>f, <1>k, OwnStep DEF old
-----------------------------------------------------------------------------
(***************************************************************************)
(* What is committed.                                                      *)
(***************************************************************************)

\* More is committed, and the attempts that go on keep what they hold.
LEMMA MoreIsCommitted ==
    ASSUME TrailInv, db' = [table \in Tables |-> db'[table]], Within(db, db'), Sound(db'),
           \A f \in db'.fetches : f \in db.fetches \/ Settled(f, db'),
           txn' = [a \in Attempts |-> txn'[a]],
           \A a \in Attempts : Shaped(txn'[a]),
           \A a \in Attempts : txn'[a] = txn[a] \/ AttemptOK(a, txn'[a], db'),
           \A a \in Attempts : \A row \in txn'[a].own.rows :
               row \in txn[a].own.rows /\ row \notin db'.rows
    PROVE  Shapes' /\ HoldsOK' /\ CommittedOK' /\ AttemptsOK'
<1>1. Shapes'
  BY DEF Shapes, Shaped
<1>2. HoldsOK'
  <2>1. \A a, b \in Attempts : \A row \in txn[a].own.rows : a # b => row \notin txn[b].own.rows
    BY DEF TrailInv, HoldsOK, HeldByAnother
  <2> QED
    BY <2>1 DEF HoldsOK, HeldByAnother
<1>3. CommittedOK'
  <2>1. \A f \in db'.fetches : Settled(f, db')
    BY SettledOnMore DEF TrailInv, CommittedOK
  <2> QED
    BY <2>1 DEF CommittedOK
<1>4. AttemptsOK'
  <2> SUFFICES ASSUME NEW a \in Attempts PROVE AttemptOK(a, txn'[a], db')
    BY DEF AttemptsOK
  <2>1. AttemptOK(a, txn[a], db')
    BY AttemptOnMore DEF TrailInv, AttemptsOK
  <2> QED
    BY <2>1
<1> QED
  BY <1>1, <1>2, <1>3, <1>4

\* A retrieval is settled when the attempt that made it has asserted.
LEMMA RetrievalsSettle ==
    ASSUME NEW a, NEW t, NEW W, Working(a, t, W), t.stage = "asserted", NEW f \in t.own.fetches
    PROVE  Settled(f, W)
<1>1. Fetches(a, f, t, W) /\ t.todo = <<>> /\ Reads(a, t, W)
  BY DEF Working, Reads
<1>2. ToSet(t.todo) = {}
  BY <1>1 DEF ToSet
<1>3. f.body # None => HasBody(f.body, W)
  BY <1>1, <1>2 DEF Fetches
<1>4. ASSUME f.outcome = "OK", NEW x \in ToSet(Extractors), x.media = Document[f.body].media
      PROVE  CitedFor(W, f.attempt, f.source, f.body, x)
  <2>1. PICK g \in ToSet(t.got) : g.source = f.source /\ g.body = f.body
    BY <1>1, <1>4 DEF Fetches
  <2>2. CitedFor(W, a, g.source, g.body, x)
    BY <1>1, <1>2, <1>4, <2>1 DEF Reads
  <2> QED
    BY <1>1, <2>1, <2>2 DEF Fetches
<1> QED
  BY <1>3, <1>4 DEF Settled

LEMMA Commits ==
    ASSUME TrailInv, NEW a \in Attempts, Commit(a)
    PROVE  Shapes' /\ HoldsOK' /\ CommittedOK' /\ AttemptsOK'
<1> DEFINE old == txn[a]
           W == Whole(db, old.own)
           outcome == IF old.failed THEN "partial" ELSE "completed"
           t == Ended(a, outcome)
<1>1. old.stage = "asserted" /\ db' = W /\ Set(a, t)
  BY TogetherIs DEF Commit
<1>2. Sound(W) /\ Working(a, old, W)
  BY DEF TrailInv, AttemptsOK, AttemptOK
<1>3. /\ W = [table \in Tables |-> W[table]] /\ Within(db, W)
      /\ W.rows = db.rows \cup old.own.rows /\ W.fetches = db.fetches \cup old.own.fetches
  <2>1. W = [table \in Tables |-> W[table]]
    BY DEF Whole
  <2>2. Within(db, W) /\ W.rows = db.rows \cup old.own.rows /\ W.fetches = db.fetches \cup old.own.fetches
    BY WholeIs DEF Tables
  <2> QED
    BY <2>1, <2>2
<1> HIDE DEF W
<1>4. \A f \in W.fetches : f \in db.fetches \/ Settled(f, W)
  BY <1>1, <1>2, <1>3, RetrievalsSettle
<1>5. outcome \in Outcomes \ {"divergence"}
  BY DEF Outcomes
<1> HIDE DEF outcome
<1>6. /\ t = [field \in Fields |-> t[field]] /\ t.own = NoRows /\ t.got = <<>> /\ t.observed = {}
      /\ t.stage = "done" /\ t.todo = <<>> /\ t.plan = <<>> /\ t.outcome = outcome
  BY DEF Ended, Idle, Fields
<1> HIDE DEF t
<1>7. Shaped(t)
  BY <1>5, <1>6, IdleShape
<1>8. AttemptOK(a, t, W)
  <2>1. ToSet(<<>>) = {}
    BY DEF ToSet
  <2> QED
    BY <1>2, <1>6, <2>1, NothingDone
<1>9. txn'[a] = t /\ \A b \in Attempts : b # a => txn'[b] = txn[b]
  BY <1>1 DEF Set, TrailInv, Shapes
<1>a. \A b \in Attempts : \A row \in txn'[b].own.rows : row \in txn[b].own.rows /\ row \notin W.rows
  <2>1. t.own.rows = {}
    BY <1>6 DEF NoRows
  <2>2. \A b \in Attempts : \A row \in txn[b].own.rows : b # a => row \notin db.rows /\ row \notin old.own.rows
    BY DEF TrailInv, HoldsOK, HeldByAnother
  <2> QED
    BY <1>3, <1>9, <2>1, <2>2
<1>b. txn' = [b \in Attempts |-> txn'[b]] /\ \A b \in Attempts : Shaped(txn'[b])
  BY <1>1, <1>7, <1>9 DEF TrailInv, Shapes, Set
<1>c. \A b \in Attempts : txn'[b] = txn[b] \/ AttemptOK(b, txn'[b], W)
  BY <1>8, <1>9
<1> HIDE DEF old
<1> QED
  BY <1>1, <1>2, <1>3, <1>4, <1>a, <1>b, <1>c, MoreIsCommitted

LEMMA Confirms ==
    ASSUME TrailInv, NEW c \in db.candidates, Confirm(c)
    PROVE  Shapes' /\ HoldsOK' /\ CommittedOK' /\ AttemptsOK'
<1> DEFINE evidence == [c.evidence EXCEPT !.extraction = HumanId(c)]
           company == Company[c.evidence.attempt]
           assertion == [id |-> Fingerprint(company, c.says, {evidence}, None), evidence |-> {evidence}]
           reading == [id |-> HumanId(c), says |-> {c.says}]
           D == [db EXCEPT !.extractions = @ \cup {reading}, !.evidence = @ \cup {evidence}]
<1>1. db' = AfterAsserting(D, {assertion}) /\ txn' = txn
  BY DEF Confirm
<1>2. db = [table \in Tables |-> db[table]] /\ Sound(db)
  BY DEF TrailInv, Shapes, CommittedOK
<1>3. Proposed(c, db)
  BY <1>2 DEF Sound
<1>4. /\ evidence.extraction = HumanId(c) /\ evidence.source = c.evidence.source
      /\ evidence.attempt = c.evidence.attempt /\ evidence.body = c.evidence.body
  BY <1>3 DEF Proposed
<1>5. reading.id = HumanId(c) /\ reading.id.body = c.evidence.body
  BY DEF HumanId
<1>6. evidence = [c.evidence EXCEPT !.extraction = HumanId(c)]
  OBVIOUS
<1>7. /\ assertion.id.lineage = {Origin(evidence)} /\ assertion.evidence = {evidence}
      /\ assertion.id.key = c.says.key
  BY DEF Fingerprint
<1> HIDE DEF evidence, assertion, reading
<1>8. /\ D = [table \in Tables |-> D[table]]
      /\ D.extractions = db.extractions \cup {reading} /\ D.evidence = db.evidence \cup {evidence}
      /\ \A table \in Tables \ {"extractions", "evidence"} : D[table] = db[table]
  BY <1>2 DEF Tables
<1> HIDE DEF D
<1>9. Within(db, D)
  BY <1>8 DEF Within
<1>a. Sound(D)
  <2>1. Founded(evidence, D)
    <3>1. Founded(c.evidence, db)
      BY <1>2, <1>3 DEF Sound, Proposed
    <3>2. PICK f \in db.fetches : /\ f.source = c.evidence.source /\ f.attempt = c.evidence.attempt
                                  /\ f.body = c.evidence.body
      BY <3>1 DEF Founded
    <3>3. f \in D.fetches /\ reading \in D.extractions
      BY <1>8, <3>2 DEF Tables
    <3> QED
      BY <1>4, <1>5, <3>2, <3>3 DEF Founded
  <2>2. /\ D.rows = db.rows /\ D.bodies = db.bodies /\ D.candidates = db.candidates
        /\ D.links = db.links /\ D.claims = db.claims
    BY <1>8 DEF Tables
  <2> QED
    BY <1>2, <1>8, <1>9, <2>1, <2>2, SoundMore
<1>b. Stands(assertion, D)
  <2>1. c \in D.candidates
    BY <1>8 DEF Tables
  <2> DEFINE l == [claim |-> assertion.id, evidence |-> evidence]
  <2>2. l.claim = assertion.id /\ l.evidence = evidence
    OBVIOUS
  <2> HIDE DEF l
  <2>3. Accountable(l, D)
    BY <1>4, <1>6, <1>7, <2>1, <2>2 DEF Accountable
  <2> QED
    BY <1>7, <2>3 DEF Stands, l
<1>c. /\ db' = [table \in Tables |-> db'[table]] /\ Within(D, db') /\ Sound(db')
      /\ \A table \in Tables \ {"claims", "links"} : db'[table] = D[table]
  <2> DEFINE A == {assertion}
             T == AfterAsserting(D, A)
  <2>1. \A s \in A : Stands(s, D)
    BY <1>b
  <2>2. T = AfterAsserting(D, A)
    OBVIOUS
  <2>3. db' = T
    BY <1>1
  <2> HIDE DEF A, T
  <2>4. /\ T = [table \in Tables |-> T[table]] /\ Within(D, T) /\ Sound(T)
        /\ \A table \in Tables \ {"claims", "links"} : T[table] = D[table]
    BY ONLY <1>8, <1>a, <2>1, <2>2, AssertingIsSound
  <2> QED
    BY <2>3, <2>4
<1>d. Within(db, db')
  BY <1>9, <1>c DEF Within
<1>e. db'.rows = db.rows /\ db'.fetches = db.fetches
  BY <1>8, <1>c DEF Tables
<1>f. \A a \in Attempts : Shaped(txn[a]) /\ \A row \in txn[a].own.rows : row \notin db.rows
  BY DEF TrailInv, Shapes, HoldsOK
<1> QED
  BY <1>1, <1>c, <1>d, <1>e, <1>f, MoreIsCommitted DEF TrailInv, Shapes

-----------------------------------------------------------------------------
(***************************************************************************)
(* Every step.                                                             *)
(***************************************************************************)

\* The transactions and what is committed, when a step changes neither.
LEMMA NothingChanges ==
    ASSUME TrailInv, db' = db, txn' = txn
    PROVE  Shapes' /\ HoldsOK' /\ CommittedOK' /\ AttemptsOK'
BY DEF TrailInv, Shapes, Shaped, HoldsOK, HeldByAnother, CommittedOK, AttemptsOK

LEMMA WorldStays ==
    ASSUME TrailInv, [Next]_vars
    PROVE  WorldOK'
<1>0. WorldOK
  BY DEF TrailInv
<1>1. CASE UNCHANGED <<page, clock, version, pruned>>
  BY <1>0, <1>1 DEF WorldOK
<1>2. ASSUME NEW a \in Attempts, Begin(a) PROVE WorldOK'
  BY <1>0, <1>2 DEF WorldOK, Begin
<1>3. ASSUME NEW a \in Attempts, Step(a) \/ Crash(a) PROVE WorldOK'
  <2>1. UNCHANGED <<page, clock, version, pruned>>
    BY <1>3 DEF Step, Fetch, EndFetching, Insert, AssertClaims, Commit, DeadlockVictim, Crash, Abort
  <2> QED
    BY <1>1, <2>1
<1>4. ASSUME NEW c \in db.candidates, Confirm(c) PROVE WorldOK'
  BY <1>1, <1>4 DEF Confirm
<1>5. ASSUME NEW asOf \in PruneDates, Prune(asOf) PROVE WorldOK'
  <2> DEFINE retained == {b \in db.bodies : <<"body", b.body>> \notin pruned}
             may == {b \in retained : Expired(b, asOf) # {}}
             must == {b \in may : Expired(b, asOf) = {f \in db.fetches : f.body = b.body}}
             texts == {<<"text", b.body>> : b \in {c \in db.bodies : c.at + TextHorizon < asOf}}
  <2>1. PICK chosen \in SUBSET may : pruned' = pruned \cup texts \cup {<<"body", b.body>> : b \in chosen}
    BY <1>5 DEF Prune
  <2>2. \A b \in db.bodies : b.body \in DOMAIN Document
    BY DEF TrailInv, CommittedOK, Sound
  <2>3. texts \subseteq ({"body", "text"} \X DOMAIN Document)
    BY <2>2
  <2>4. chosen \subseteq db.bodies
    OBVIOUS
  <2> HIDE DEF may, texts
  <2>5. {<<"body", b.body>> : b \in chosen} \subseteq ({"body", "text"} \X DOMAIN Document)
    BY <2>2, <2>4
  <2>6. pruned' \subseteq ({"body", "text"} \X DOMAIN Document)
    BY <1>0, <2>1, <2>3, <2>5 DEF WorldOK
  <2>7. UNCHANGED <<page, clock, version>>
    BY <1>5 DEF Prune
  <2> QED
    BY <1>0, <2>6, <2>7 DEF WorldOK
<1>6. ASSUME NEW s \in Sources, PageChanges(s) PROVE WorldOK'
  <2>1. PICK i \in DOMAIN Website[s] : page' = [page EXCEPT ![s] = Website[s][i]]
    BY <1>6 DEF PageChanges
  <2>2. Website[s][i] \in ToSet(Website[s])
    BY DEF ToSet
  <2>3. UNCHANGED <<clock, version, pruned>>
    BY <1>6 DEF PageChanges
  <2>4. page' = [r \in Sources |-> page'[r]] /\ \A r \in Sources : page'[r] \in ToSet(Website[r])
    BY <1>0, <2>1, <2>2 DEF WorldOK
  <2> QED
    BY <1>0, <2>3, <2>4 DEF WorldOK
<1>7. ASSUME Deploy PROVE WorldOK'
  <2>1. version' \in 1..MaxVersions
    BY <1>0, <1>7, TrailAssumption DEF WorldOK, Deploy
  <2> QED
    BY <1>0, <1>7, <2>1 DEF WorldOK, Deploy
<1>8. CASE UNCHANGED vars
  BY <1>1, <1>8 DEF vars
<1> QED
  BY <1>2, <1>3, <1>4, <1>5, <1>6, <1>7, <1>8 DEF Next

LEMMA TrailStep ==
    ASSUME TrailInv, [Next]_vars
    PROVE  TrailInv'
<1> DEFINE Held == Shapes' /\ HoldsOK' /\ CommittedOK' /\ AttemptsOK'
<1>1. ASSUME NEW a \in Attempts, Begin(a) PROVE Held
  BY <1>1, Begins
<1>2. ASSUME NEW a \in Attempts, Step(a) PROVE Held
  <2>1. CASE Fetch(a)
    BY <2>1, FetchesOne
  <2>2. CASE EndFetching(a)
    BY <2>2, EndsFetching
  <2>3. CASE Insert(a)
    BY <2>3, InsertsOne
  <2>4. CASE AssertClaims(a)
    BY <2>4, AssertsClaims
  <2>5. CASE Commit(a)
    BY <2>5, Commits
  <2>6. CASE DeadlockVictim(a)
    <3>1. "deadlock" \in Outcomes \ {"divergence"}
      BY DEF Outcomes
    <3> QED
      BY <2>6, <3>1, Aborts DEF DeadlockVictim, Abort
  <2> QED
    BY <1>2, <2>1, <2>2, <2>3, <2>4, <2>5, <2>6 DEF Step
<1>3. ASSUME NEW a \in Attempts, Crash(a) PROVE Held
  <2>1. "crashed" \in Outcomes \ {"divergence"}
    BY DEF Outcomes
  <2> QED
    BY <1>3, <2>1, Aborts DEF Crash, Abort
<1>4. ASSUME NEW c \in db.candidates, Confirm(c) PROVE Held
  BY <1>4, Confirms
<1>5. ASSUME db' = db, txn' = txn PROVE Held
  BY <1>5, NothingChanges
<1>6. ASSUME NEW asOf \in PruneDates, Prune(asOf) PROVE Held
  BY <1>5, <1>6 DEF Prune
<1>7. ASSUME NEW s \in Sources, PageChanges(s) PROVE Held
  BY <1>5, <1>7 DEF PageChanges
<1>8. ASSUME Deploy PROVE Held
  BY <1>5, <1>8 DEF Deploy
<1>9. ASSUME UNCHANGED vars PROVE Held
  BY <1>5, <1>9 DEF vars
<1>a. Held
  <2> HIDE DEF Held
  <2> QED
    BY <1>1, <1>2, <1>3, <1>4, <1>6, <1>7, <1>8, <1>9 DEF Next
<1> QED
  BY <1>a, WorldStays DEF TrailInv

LEMMA TrailAlways == Spec => []TrailInv
<1>1. Init => TrailInv
  BY TrailInit
<1>2. TrailInv /\ [Next]_vars => TrailInv'
  BY TrailStep
<1> QED
  BY <1>1, <1>2, PTL DEF Spec

\* Every variable stays in its domain; a row that several attempts want has one
\* holder, and whatever is committed refers to committed rows, whichever attempts
\* crash, wait, deadlock or share a body (get_or_create_body, run_extraction).
THEOREM TypeCorrect == Spec => []TypeOK
<1>1. TrailInv => TypeOK
  <2> SUFFICES ASSUME TrailInv PROVE TypeOK
    OBVIOUS
  <2>1. \A a \in Attempts : txn[a].outcome \in Outcomes
    BY DEF TrailInv, Shapes, Shaped
  <2>2. \A f \in db.fetches : f.body # None => \E b \in db.bodies : b.body = f.body
    BY DEF TrailInv, CommittedOK, Settled, HasBody
  <2>3. \A e \in db.evidence : Founded(e, db)
    BY DEF TrailInv, CommittedOK, Sound
  <2> QED
    BY <2>1, <2>2, <2>3 DEF TrailInv, WorldOK, HoldsOK, Founded, TypeOK
<1> QED
  BY <1>1, TrailAlways, PTL

\* Whatever an extractor reads in a body is cited for every retrieval of it, by
\* whichever attempt and from whichever source, also where the reading was made by
\* another attempt (run_extraction, create_evidence_item).
THEOREM RetrievalsStayCited == Spec => []RetrievalsAreCited
<1>1. TrailInv => RetrievalsAreCited
  <2> SUFFICES ASSUME TrailInv, NEW f \in db.fetches, f.outcome = "OK", NEW x \in ToSet(Extractors),
                      x.media = Document[f.body].media
               PROVE  \E id \in Used(f, x) : \E r \in db.extractions : r.id = id
                          /\ \A o \in r.says : \E e \in db.evidence :
                                 /\ e.extraction = id /\ e.source = f.source /\ e.attempt = f.attempt
                                 /\ e.span = o.span
    BY DEF RetrievalsAreCited
  <2>1. CitedFor(db, f.attempt, f.source, f.body, x)
    BY DEF TrailInv, CommittedOK, Settled
  <2>2. PICK u \in db.usages :
          /\ u.attempt = f.attempt /\ u.extraction.body = f.body /\ u.extraction.extractor = x.id
          /\ \E r \in db.extractions :
                /\ r.id = u.extraction
                /\ \A o \in r.says : \E e \in db.evidence :
                      e.extraction = r.id /\ e.source = f.source /\ e.attempt = f.attempt /\ e.span = o.span
    BY <2>1 DEF CitedFor
  <2>3. u.extraction \in Used(f, x)
    BY <2>2 DEF Used
  <2> QED
    BY <2>2, <2>3
<1> QED
  BY <1>1, TrailAlways, PTL

\* A claim rests on what an extractor may assert, or on a reviewer who confirmed
\* that very reading of that very retrieval (_extract, record_human_extraction).
THEOREM ClaimsStayAccountable == Spec => []ClaimsAreAccountable
<1>1. TrailInv => ClaimsAreAccountable
  BY DEF TrailInv, CommittedOK, Sound, Accountable, ClaimsAreAccountable
<1> QED
  BY <1>1, TrailAlways, PTL

\* Evidence linked to a claim later never changes the confidence it was created
\* with, and no attempt fails for it (_assert_confidence_still_holds).
THEOREM ConfidencesStand == Spec => []ConfidenceStands
<1>1. TrailInv => ConfidenceStands
  <2> SUFFICES ASSUME TrailInv PROVE ConfidenceStands
    OBVIOUS
  <2>1. \A a \in Attempts : txn[a].outcome # "divergence"
    BY DEF TrailInv, Shapes, Shaped
  <2>2. \A c \in db.claims : c.confidence = Derived(c.id.fact, LinkedTo(db, c.id), c.id.rule # None)
    BY SoundConfidence DEF TrailInv, CommittedOK
  <2> QED
    BY <2>1, <2>2 DEF ConfidenceStands
<1> QED
  BY <1>1, TrailAlways, PTL

-----------------------------------------------------------------------------
(***************************************************************************)
(* Kuhn's algorithm.                                                       *)
(***************************************************************************)

\* Edges between finitely many numbered publishers and documents.
IsGraph(E) == IsFiniteSet(E) /\ E \in SUBSET (Int \X Int) /\ None \notin Int

Neighbours(E, p) == {d \in DocumentsOf(E) : <<p, d>> \in E}

Holders(E) == [DocumentsOf(E) -> Publishers(E) \cup {None}]

Searches(E) == [publisher : Publishers(E), seen : SUBSET DocumentsOf(E), holder : Holders(E)]

Results(E) == [found : BOOLEAN, seen : SUBSET DocumentsOf(E), holder : Holders(E)]

\* What a search looks at first, the search for its holder, and the search that
\* goes on when that one fails.
First(E, s) == Min(Neighbours(E, s.publisher) \ s.seen)

Deeper(E, s) == [publisher |-> s.holder[First(E, s)], seen |-> s.seen \cup {First(E, s)},
                 holder |-> s.holder]

Inner(E, f, s) ==
    IF s.holder[First(E, s)] = None
    THEN [found |-> TRUE, seen |-> s.seen \cup {First(E, s)}, holder |-> s.holder]
    ELSE f[Deeper(E, s)]

Onward(E, f, s) == [s EXCEPT !.seen = Inner(E, f, s).seen]

\* The body of the search.
Tried(E, f, s) ==
    IF Neighbours(E, s.publisher) \ s.seen = {}
    THEN [found |-> FALSE, seen |-> s.seen, holder |-> s.holder]
    ELSE IF Inner(E, f, s).found
         THEN [Inner(E, f, s) EXCEPT !.holder[First(E, s)] = s.publisher]
         ELSE f[Onward(E, f, s)]

Level(E, s) == Cardinality(DocumentsOf(E) \ s.seen)

Solves(E, f, n) == \A s \in Searches(E) : Level(E, s) < n => f[s] = Tried(E, f, s)

IsSearch(E, f) == f = [s \in Searches(E) |-> Tried(E, f, s)]

LEMMA AugmentedIs ==
    ASSUME NEW E, NEW p, NEW h
    PROVE  Augmented(E, p, h) =
             (CHOOSE f : IsSearch(E, f))[[publisher |-> p, seen |-> {}, holder |-> h]]
BY DEF Augmented, IsSearch, Tried, Inner, Onward, Deeper, First, Neighbours, Searches, Holders

\* A nonempty finite set of integers has a least and a greatest one.
LEMMA LeastMember ==
    ASSUME NEW S \in SUBSET Int, IsFiniteSet(S), S # {}
    PROVE  Min(S) \in S /\ Max(S) \in S
<1> DEFINE n == Cardinality(S)
<1>1. n \in Nat /\ ExistsBijection(1..n, S)
  BY FS_CardinalityType
<1> DEFINE Reached(k) == \A g : g \in [1..k -> Int] =>
               \E i, j \in 1..k : \A m \in 1..k : g[i] <= g[m] /\ g[m] <= g[j]
<1> DEFINE Bad == {k \in Nat \ {0} : ~ Reached(k)}
<1>2. Bad = {}
  <2> SUFFICES ASSUME Bad # {} PROVE FALSE
    OBVIOUS
  <2>1. PICK k \in Bad : \A j \in Bad : k <= j
    <3>1. Bad \in SUBSET Nat
      OBVIOUS
    <3> QED
      BY <3>1, LeastNumber
  <2>2. k \in Nat \ {0} /\ ~ Reached(k)
    OBVIOUS
  <2>3. PICK g : g \in [1..k -> Int] /\ ~ \E i, j \in 1..k : \A m \in 1..k : g[i] <= g[m] /\ g[m] <= g[j]
    BY <2>2
  <2>4. k # 1
    <3> SUFFICES ASSUME k = 1 PROVE FALSE
      OBVIOUS
    <3>1. \A m \in 1..k : m = 1
      OBVIOUS
    <3>2. 1 \in 1..k /\ g[1] \in Int
      BY <2>3
    <3>3. \A m \in 1..k : g[1] <= g[m] /\ g[m] <= g[1]
      BY <3>1, <3>2
    <3> QED
      BY <2>3, <3>2, <3>3
  <2>5. k - 1 \in Nat \ {0} /\ k - 1 \notin Bad
    <3> HIDE DEF Bad, Reached
    <3> QED
      BY <2>1, <2>2, <2>4
  <2>6. Reached(k - 1)
    BY <2>5
  <2> DEFINE shorter == [i \in 1..(k - 1) |-> g[i]]
  <2>7. shorter \in [1..(k - 1) -> Int]
    BY <2>2, <2>3
  <2>8. PICK i, j \in 1..(k - 1) : \A m \in 1..(k - 1) : shorter[i] <= shorter[m] /\ shorter[m] <= shorter[j]
    BY <2>6, <2>7
  <2> HIDE DEF Bad, Reached
  <2>9. \A m \in 1..(k - 1) : g[i] <= g[m] /\ g[m] <= g[j]
    BY <2>8
  <2>10. i \in 1..k /\ j \in 1..k /\ k \in 1..k /\ \A m \in 1..k : m = k \/ m \in 1..(k - 1)
    BY <2>2
  <2>11. \A m \in 1..k : g[m] \in Int
    BY <2>3
  <2> DEFINE low == IF g[k] < g[i] THEN k ELSE i
             high == IF g[k] > g[j] THEN k ELSE j
  <2>12. low \in 1..k /\ high \in 1..k
    BY <2>10
  <2>13. \A m \in 1..k : g[low] <= g[m] /\ g[m] <= g[high]
    BY <2>9, <2>10, <2>11
  <2> QED
    BY <2>3, <2>12, <2>13
<1>3. n # 0
  BY FS_EmptySet
<1>4. Reached(n)
  BY <1>1, <1>2, <1>3
<1>5. PICK g : g \in Bijection(1..n, S)
  BY <1>1 DEF ExistsBijection
<1>6. g \in [1..n -> Int] /\ g \in [1..n -> S] /\ \A x \in S : \E m \in 1..n : g[m] = x
  BY <1>5 DEF Bijection, Injection, Surjection
<1>7. PICK i, j \in 1..n : \A m \in 1..n : g[i] <= g[m] /\ g[m] <= g[j]
  BY <1>4, <1>6
<1>8. g[i] \in S /\ g[j] \in S
  BY <1>6
<1>9. \A x \in S : g[i] <= x /\ x <= g[j]
  BY <1>6, <1>7
<1>10. (\A x \in S : g[i] <= x) /\ (\A x \in S : g[j] >= x)
  BY <1>8, <1>9
<1> HIDE DEF n, Bad
<1>11. \E y \in S : \A x \in S : y <= x
  BY <1>8, <1>10
<1>12. \E y \in S : \A x \in S : y >= x
  BY <1>8, <1>10
<1>13. Min(S) \in S
  BY <1>11, Zenon DEF Min
<1>14. Max(S) \in S
  BY <1>12, Zenon DEF Max
<1> QED
  BY <1>13, <1>14

-----------------------------------------------------------------------------
(* One step of a search.                                                     *)

\* A function on a finite set takes finitely many values.
LEMMA FinitelyMany ==
    ASSUME NEW S, IsFiniteSet(S), NEW f, DOMAIN f = S, f = [x \in S |-> f[x]]
    PROVE  IsFiniteSet({f[x] : x \in S})
<1> DEFINE T == {f[x] : x \in S}
<1>1. f \in [S -> T] /\ \A t \in T : \E x \in S : f[x] = t
  OBVIOUS
<1>2. f \in Surjection(S, T)
  BY <1>1 DEF Surjection
<1> QED
  BY <1>2, FS_Surjection

LEMMA GraphIsFinite ==
    ASSUME NEW E, IsGraph(E)
    PROVE  /\ IsFiniteSet(Publishers(E)) /\ Publishers(E) \in SUBSET Int /\ None \notin Publishers(E)
           /\ IsFiniteSet(DocumentsOf(E)) /\ DocumentsOf(E) \in SUBSET Int
           /\ \A p, d : <<p, d>> \in E => p \in Publishers(E) /\ d \in Neighbours(E, p)
           /\ \A e \in E : e = <<e[1], e[2]>> /\ e[1] \in Publishers(E) /\ e[2] \in Neighbours(E, e[1])
<1>1. IsFiniteSet(Publishers(E)) /\ IsFiniteSet(DocumentsOf(E))
  <2> DEFINE f == [edge \in E |-> edge[1]]
             g == [edge \in E |-> edge[2]]
  <2>0. {f[edge] : edge \in E} = {edge[1] : edge \in E} /\ {g[edge] : edge \in E} = {edge[2] : edge \in E}
    OBVIOUS
  <2>1. IsFiniteSet({f[edge] : edge \in E}) /\ IsFiniteSet({g[edge] : edge \in E})
    <3>1. IsFiniteSet(E) /\ DOMAIN f = E /\ DOMAIN g = E
      BY DEF IsGraph
    <3>2. f = [edge \in E |-> f[edge]] /\ g = [edge \in E |-> g[edge]]
      OBVIOUS
    <3> HIDE DEF f, g
    <3> QED
      BY <3>1, <3>2, FinitelyMany
  <2>2. IsFiniteSet({edge[1] : edge \in E}) /\ IsFiniteSet({edge[2] : edge \in E})
    BY <2>0, <2>1
  <2> QED
    BY <2>1, <2>2 DEF Publishers, DocumentsOf
<1>2. \A e \in E : e = <<e[1], e[2]>> /\ e[1] \in Int /\ e[2] \in Int
  BY DEF IsGraph
<1>3. \A e \in E : e[1] \in Publishers(E) /\ e[2] \in DocumentsOf(E)
  BY DEF Publishers, DocumentsOf
<1>4. Publishers(E) \in SUBSET Int /\ DocumentsOf(E) \in SUBSET Int
  BY <1>2 DEF Publishers, DocumentsOf
<1>5. \A p, d : <<p, d>> \in E => p \in Publishers(E) /\ d \in Neighbours(E, p)
  <2> SUFFICES ASSUME NEW p, NEW d, <<p, d>> \in E
               PROVE  p \in Publishers(E) /\ d \in Neighbours(E, p)
    OBVIOUS
  <2>1. <<p, d>>[1] = p /\ <<p, d>>[2] = d
    OBVIOUS
  <2>2. p \in Publishers(E) /\ d \in DocumentsOf(E)
    BY <1>3, <2>1
  <2> QED
    BY <2>2 DEF Neighbours
<1> QED
  BY <1>1, <1>2, <1>3, <1>4, <1>5 DEF IsGraph

LEMMA LevelType ==
    ASSUME NEW E, IsGraph(E)
    PROVE  /\ \A s \in Searches(E) : Level(E, s) \in Nat /\ Level(E, s) <= Cardinality(DocumentsOf(E))
           /\ Cardinality(DocumentsOf(E)) \in Nat
<1>1. IsFiniteSet(DocumentsOf(E)) /\ Cardinality(DocumentsOf(E)) \in Nat
  BY GraphIsFinite, FS_CardinalityType
<1> SUFFICES ASSUME NEW s \in Searches(E)
             PROVE  Level(E, s) \in Nat /\ Level(E, s) <= Cardinality(DocumentsOf(E))
  BY <1>1
<1>2. DocumentsOf(E) \ s.seen \in SUBSET DocumentsOf(E)
  OBVIOUS
<1>3. /\ IsFiniteSet(DocumentsOf(E) \ s.seen)
      /\ Cardinality(DocumentsOf(E) \ s.seen) <= Cardinality(DocumentsOf(E))
  BY <1>1, <1>2, FS_Subset
<1>4. Cardinality(DocumentsOf(E) \ s.seen) \in Nat
  BY <1>3, FS_CardinalityType
<1> QED
  BY <1>3, <1>4 DEF Level

\* Whoever has seen more has less left to see.
LEMMA LevelFalls ==
    ASSUME NEW E, IsGraph(E), NEW s \in Searches(E), NEW t \in Searches(E),
           NEW d \in DocumentsOf(E), d \notin s.seen, d \in t.seen, s.seen \subseteq t.seen
    PROVE  Level(E, t) < Level(E, s)
<1>1. IsFiniteSet(DocumentsOf(E) \ s.seen)
  <2>1. IsFiniteSet(DocumentsOf(E)) /\ DocumentsOf(E) \ s.seen \in SUBSET DocumentsOf(E)
    BY GraphIsFinite
  <2> QED
    BY <2>1, FS_Subset
<1>2. DocumentsOf(E) \ t.seen \in SUBSET (DocumentsOf(E) \ s.seen)
  OBVIOUS
<1>3. DocumentsOf(E) \ t.seen # DocumentsOf(E) \ s.seen
  OBVIOUS
<1>4. /\ Cardinality(DocumentsOf(E) \ t.seen) <= Cardinality(DocumentsOf(E) \ s.seen)
      /\ Cardinality(DocumentsOf(E) \ s.seen) # Cardinality(DocumentsOf(E) \ t.seen)
  BY <1>1, <1>2, <1>3, FS_Subset
<1>5. Level(E, s) \in Nat /\ Level(E, t) \in Nat
  BY LevelType
<1> QED
  BY <1>4, <1>5 DEF Level

\* Of the searches with some quality, one has the least left to see.
LEMMA LeastSearch ==
    ASSUME NEW E, IsGraph(E), NEW B \in SUBSET Searches(E), B # {}
    PROVE  \E s \in B : \A t \in Searches(E) : Level(E, t) < Level(E, s) => t \notin B
<1> DEFINE levels == {Level(E, s) : s \in B}
<1>1. levels \in SUBSET Nat /\ levels # {}
  BY LevelType
<1>2. PICK n \in levels : \A m \in levels : n <= m
  BY <1>1, LeastNumber
<1>3. PICK s \in B : Level(E, s) = n
  BY <1>2
<1>4. \A t \in B : Level(E, s) <= Level(E, t) /\ Level(E, s) \in Nat /\ Level(E, t) \in Nat
  BY <1>2, <1>3, LevelType
<1> QED
  BY <1>4

LEMMA FirstIs ==
    ASSUME NEW E, IsGraph(E), NEW s \in Searches(E), Neighbours(E, s.publisher) \ s.seen # {}
    PROVE  /\ First(E, s) \in DocumentsOf(E) /\ First(E, s) \notin s.seen
           /\ <<s.publisher, First(E, s)>> \in E
<1>1. Neighbours(E, s.publisher) \ s.seen \in SUBSET DocumentsOf(E)
  BY DEF Neighbours
<1>2. IsFiniteSet(DocumentsOf(E)) /\ DocumentsOf(E) \in SUBSET Int
  BY GraphIsFinite
<1>3. IsFiniteSet(Neighbours(E, s.publisher) \ s.seen) /\ Neighbours(E, s.publisher) \ s.seen \in SUBSET Int
  BY <1>1, <1>2, FS_Subset
<1>4. First(E, s) \in Neighbours(E, s.publisher) \ s.seen
  BY <1>3, LeastMember DEF First
<1> QED
  BY <1>4 DEF Neighbours

LEMMA SearchFields ==
    ASSUME NEW E, NEW s \in Searches(E)
    PROVE  /\ s.publisher \in Publishers(E) /\ s.seen \in SUBSET DocumentsOf(E)
           /\ s.holder \in Holders(E)
           /\ s = [publisher |-> s.publisher, seen |-> s.seen, holder |-> s.holder]
BY DEF Searches

LEMMA GoesDeeper ==
    ASSUME NEW E, IsGraph(E), NEW s \in Searches(E), Neighbours(E, s.publisher) \ s.seen # {},
           s.holder[First(E, s)] # None
    PROVE  Deeper(E, s) \in Searches(E) /\ Level(E, Deeper(E, s)) < Level(E, s)
<1>1. /\ First(E, s) \in DocumentsOf(E) /\ First(E, s) \notin s.seen
      /\ s.holder \in Holders(E) /\ s.seen \in SUBSET DocumentsOf(E)
  BY FirstIs, SearchFields
<1>2. s.holder[First(E, s)] \in Publishers(E)
  BY <1>1 DEF Holders
<1>3. Deeper(E, s) \in Searches(E) /\ Deeper(E, s).seen = s.seen \cup {First(E, s)}
  BY <1>1, <1>2 DEF Deeper, Searches
<1> QED
  BY <1>1, <1>3, LevelFalls

LEMMA GoesOn ==
    ASSUME NEW E, IsGraph(E), NEW f, NEW s \in Searches(E), Neighbours(E, s.publisher) \ s.seen # {},
           Inner(E, f, s).seen \in SUBSET DocumentsOf(E),
           s.seen \cup {First(E, s)} \subseteq Inner(E, f, s).seen
    PROVE  /\ Onward(E, f, s) = [publisher |-> s.publisher, seen |-> Inner(E, f, s).seen,
                                 holder |-> s.holder]
           /\ Onward(E, f, s) \in Searches(E) /\ Level(E, Onward(E, f, s)) < Level(E, s)
<1>1. /\ First(E, s) \in DocumentsOf(E) /\ First(E, s) \notin s.seen
  BY FirstIs
<1>2. Onward(E, f, s) = [publisher |-> s.publisher, seen |-> Inner(E, f, s).seen, holder |-> s.holder]
  BY SearchFields DEF Onward
<1>3. Onward(E, f, s) \in Searches(E) /\ Onward(E, f, s).seen = Inner(E, f, s).seen
  BY <1>2, SearchFields DEF Searches
<1> QED
  BY <1>1, <1>2, <1>3, LevelFalls

-----------------------------------------------------------------------------
(* There is a search.                                                        *)

\* What one step of a search does: it fails at once, or looks at d, and takes it, or
\* goes on when it is not to be had.
Steps(E, f, s, p, d, i, on, r) ==
    \/ /\ Neighbours(E, p) \subseteq s.seen
       /\ r = [found |-> FALSE, seen |-> s.seen, holder |-> s.holder]
    \/ /\ d \in DocumentsOf(E) /\ d \notin s.seen /\ <<p, d>> \in E
       /\ i \in Results(E) /\ s.seen \cup {d} \subseteq i.seen
       /\ \/ /\ s.holder[d] = None
             /\ i = [found |-> TRUE, seen |-> s.seen \cup {d}, holder |-> s.holder]
          \/ /\ s.holder[d] # None /\ i = f[Deeper(E, s)]
             /\ Deeper(E, s) = [publisher |-> s.holder[d], seen |-> s.seen \cup {d}, holder |-> s.holder]
             /\ Deeper(E, s) \in Searches(E) /\ Level(E, Deeper(E, s)) < Level(E, s)
       /\ \/ /\ i.found
             /\ r = [found |-> TRUE, seen |-> i.seen, holder |-> [i.holder EXCEPT ![d] = p]]
          \/ /\ ~ i.found /\ s.holder[d] # None /\ r = f[on]
             /\ on = [publisher |-> p, seen |-> i.seen, holder |-> s.holder]
             /\ on \in Searches(E) /\ Level(E, on) < Level(E, s)

LEMMA TriedIs ==
    ASSUME NEW E, IsGraph(E), NEW f, NEW s \in Searches(E),
           \A t \in Searches(E) : Level(E, t) < Level(E, s) =>
               f[t] \in Results(E) /\ t.seen \subseteq f[t].seen
    PROVE  Steps(E, f, s, s.publisher, First(E, s), Inner(E, f, s), Onward(E, f, s), Tried(E, f, s))
<1> DEFINE p == s.publisher
           d == First(E, s)
           i == Inner(E, f, s)
           on == Onward(E, f, s)
           r == Tried(E, f, s)
<1>0. /\ p \in Publishers(E) /\ s.seen \in SUBSET DocumentsOf(E) /\ s.holder \in Holders(E)
  BY SearchFields
<1>1. CASE Neighbours(E, p) \ s.seen = {}
  <2>1. r = [found |-> FALSE, seen |-> s.seen, holder |-> s.holder]
    BY <1>1 DEF Tried
  <2>2. Neighbours(E, p) \subseteq s.seen
    BY <1>1
  <2> QED
    BY <2>1, <2>2 DEF Steps
<1>2. CASE Neighbours(E, p) \ s.seen # {}
  <2>1. d \in DocumentsOf(E) /\ d \notin s.seen /\ <<p, d>> \in E
    BY <1>2, FirstIs
  <2>2. CASE s.holder[d] = None
    <3>1. i = [found |-> TRUE, seen |-> s.seen \cup {d}, holder |-> s.holder]
      BY <2>2 DEF Inner
    <3>2. i \in Results(E) /\ s.seen \cup {d} \subseteq i.seen /\ i.found
      BY <3>1, <2>1, <1>0 DEF Results
    <3>3. r = [i EXCEPT !.holder[d] = p]
      BY <1>2, <3>2 DEF Tried
    <3>4. r = [found |-> TRUE, seen |-> i.seen, holder |-> [i.holder EXCEPT ![d] = p]]
      <4> HIDE DEF i, r, d, p
      <4> QED
        BY <3>1, <3>3
    <3> HIDE DEF i, r, d, p, on
    <3>5. Steps(E, f, s, p, d, i, on, r)
      BY <2>1, <2>2, <3>1, <3>2, <3>4 DEF Steps
    <3> QED
      BY <3>5 DEF i, r, d, p, on
  <2>3. CASE s.holder[d] # None
    <3>1. Deeper(E, s) \in Searches(E) /\ Level(E, Deeper(E, s)) < Level(E, s)
      BY <1>2, <2>3, GoesDeeper
    <3>2. i = f[Deeper(E, s)]
      BY <2>3 DEF Inner
    <3>3. Deeper(E, s) = [publisher |-> s.holder[d], seen |-> s.seen \cup {d}, holder |-> s.holder]
      BY DEF Deeper
    <3>4. i \in Results(E) /\ s.seen \cup {d} \subseteq i.seen
      BY <3>1, <3>2, <3>3
    <3>5. i.seen \in SUBSET DocumentsOf(E) /\ i = [found |-> i.found, seen |-> i.seen, holder |-> i.holder]
      BY <3>4 DEF Results
    <3>6. CASE i.found
      <4>1. r = [i EXCEPT !.holder[d] = p]
        BY <1>2, <3>6 DEF Tried
      <4>2. i.found = TRUE
        BY <3>4, <3>6 DEF Results
      <4>3. r = [found |-> TRUE, seen |-> i.seen, holder |-> [i.holder EXCEPT ![d] = p]]
        <5> HIDE DEF i, r, d, p
        <5> QED
          BY <4>1, <4>2, <3>5
      <4> HIDE DEF i, r, d, p, on
      <4>4. Steps(E, f, s, p, d, i, on, r)
        BY <2>1, <2>3, <3>1, <3>2, <3>3, <3>4, <3>6, <4>3 DEF Steps
      <4> QED
        BY <4>4 DEF i, r, d, p, on
    <3>7. CASE ~ i.found
      <4>1. r = f[on]
        BY <1>2, <3>7 DEF Tried
      <4>2. /\ on = [publisher |-> p, seen |-> i.seen, holder |-> s.holder]
            /\ on \in Searches(E) /\ Level(E, on) < Level(E, s)
        BY <1>2, <3>4, <3>5, GoesOn
      <4> HIDE DEF i, r, d, p, on
      <4>3. Steps(E, f, s, p, d, i, on, r)
        BY <2>1, <2>3, <3>1, <3>2, <3>3, <3>4, <3>7, <4>1, <4>2 DEF Steps
      <4> QED
        BY <4>3 DEF i, r, d, p, on
    <3> QED
      BY <3>6, <3>7
  <2> QED
    BY <2>2, <2>3
<1> QED
  BY <1>1, <1>2

\* What a search has seen stays seen.
Grown(E, f, s) == f[s] \in Results(E) /\ s.seen \subseteq f[s].seen

LEMMA StepGrows ==
    ASSUME NEW E, IsGraph(E), NEW f, NEW s \in Searches(E),
           \A t \in Searches(E) : Level(E, t) < Level(E, s) => Grown(E, f, t)
    PROVE  Tried(E, f, s) \in Results(E) /\ s.seen \subseteq Tried(E, f, s).seen
<1> DEFINE p == s.publisher
           d == First(E, s)
           i == Inner(E, f, s)
           on == Onward(E, f, s)
           r == Tried(E, f, s)
<1>0. /\ p \in Publishers(E) /\ s.seen \in SUBSET DocumentsOf(E) /\ s.holder \in Holders(E)
  BY SearchFields
<1>1. \/ r = [found |-> FALSE, seen |-> s.seen, holder |-> s.holder]
      \/ /\ i \in Results(E) /\ s.seen \subseteq i.seen /\ d \in DocumentsOf(E)
         /\ \/ r = [found |-> TRUE, seen |-> i.seen, holder |-> [i.holder EXCEPT ![d] = p]]
            \/ /\ r = f[on] /\ on.seen = i.seen
               /\ on \in Searches(E) /\ Level(E, on) < Level(E, s)
  <2>1. \A t \in Searches(E) : Level(E, t) < Level(E, s) =>
               f[t] \in Results(E) /\ t.seen \subseteq f[t].seen
    BY DEF Grown
  <2>2. Steps(E, f, s, p, d, i, on, r)
    BY <2>1, TriedIs
  <2> HIDE DEF p, d, i, on, r
  <2> QED
    BY <2>2 DEF Steps
<1> HIDE DEF p, d, i, on, r
<1>2. CASE r = [found |-> FALSE, seen |-> s.seen, holder |-> s.holder]
  <2>1. r \in Results(E) /\ s.seen \subseteq r.seen
    BY <1>0, <1>2 DEF Results
  <2> QED
    BY <2>1 DEF r
<1>3. CASE /\ i \in Results(E) /\ s.seen \subseteq i.seen /\ d \in DocumentsOf(E)
           /\ r = [found |-> TRUE, seen |-> i.seen, holder |-> [i.holder EXCEPT ![d] = p]]
  <2>1. i.seen \in SUBSET DocumentsOf(E) /\ i.holder \in Holders(E)
    BY <1>3 DEF Results
  <2>2. [i.holder EXCEPT ![d] = p] \in Holders(E)
    BY <2>1, <1>0 DEF Holders
  <2>3. r \in Results(E) /\ s.seen \subseteq r.seen
    BY <1>3, <2>1, <2>2 DEF Results
  <2> QED
    BY <2>3 DEF r
<1>4. CASE /\ i \in Results(E) /\ s.seen \subseteq i.seen /\ r = f[on] /\ on.seen = i.seen
           /\ on \in Searches(E) /\ Level(E, on) < Level(E, s)
  <2>1. r \in Results(E) /\ s.seen \subseteq r.seen
    BY <1>4 DEF Grown
  <2> QED
    BY <2>1 DEF r
<1> QED
  BY <1>1, <1>2, <1>3, <1>4

LEMMA SolutionGrows ==
    ASSUME NEW E, IsGraph(E), NEW f, NEW n \in Nat, Solves(E, f, n)
    PROVE  \A s \in Searches(E) : Level(E, s) < n => Grown(E, f, s)
<1> DEFINE B == {s \in Searches(E) : Level(E, s) < n /\ ~ Grown(E, f, s)}
<1> SUFFICES ASSUME B # {} PROVE FALSE
  OBVIOUS
<1>1. PICK s \in B : \A t \in Searches(E) : Level(E, t) < Level(E, s) => t \notin B
  <2>1. B \in SUBSET Searches(E)
    OBVIOUS
  <2> HIDE DEF B
  <2> QED
    BY <2>1, LeastSearch
<1>2. s \in Searches(E) /\ Level(E, s) < n /\ ~ Grown(E, f, s)
  OBVIOUS
<1>3. \A t \in Searches(E) : Level(E, t) < Level(E, s) => Grown(E, f, t)
  <2> SUFFICES ASSUME NEW t \in Searches(E), Level(E, t) < Level(E, s) PROVE Grown(E, f, t)
    OBVIOUS
  <2>1. t \notin B
    BY <1>1
  <2>2. Level(E, t) \in Nat /\ Level(E, s) \in Nat
    BY <1>2, LevelType
  <2> QED
    BY <1>2, <2>1, <2>2
<1> HIDE DEF B
<1>4. Tried(E, f, s) \in Results(E) /\ s.seen \subseteq Tried(E, f, s).seen
  BY <1>2, <1>3, StepGrows
<1>5. f[s] = Tried(E, f, s)
  BY <1>2 DEF Solves
<1> QED
  BY <1>2, <1>4, <1>5 DEF Grown

LEMMA StepsAgree ==
    ASSUME NEW E, IsGraph(E), NEW f, NEW g, NEW s \in Searches(E),
           \A t \in Searches(E) : Level(E, t) < Level(E, s) => Grown(E, f, t) /\ f[t] = g[t]
    PROVE  Tried(E, f, s) = Tried(E, g, s)
<1>1. CASE Neighbours(E, s.publisher) \ s.seen = {}
  BY <1>1 DEF Tried
<1>2. CASE Neighbours(E, s.publisher) \ s.seen # {}
  <2>1. Steps(E, f, s, s.publisher, First(E, s), Inner(E, f, s), Onward(E, f, s), Tried(E, f, s))
    BY TriedIs DEF Grown
  <2>2. First(E, s) \notin s.seen /\ <<s.publisher, First(E, s)>> \in E
    BY <1>2, FirstIs
  <2>3. Inner(E, f, s) = Inner(E, g, s)
    <3>1. CASE s.holder[First(E, s)] = None
      BY <3>1 DEF Inner
    <3>2. CASE s.holder[First(E, s)] # None
      <4>1. Deeper(E, s) \in Searches(E) /\ Level(E, Deeper(E, s)) < Level(E, s)
        BY <1>2, <3>2, GoesDeeper
      <4> QED
        BY <3>2, <4>1 DEF Inner
    <3> QED
      BY <3>1, <3>2
  <2>4. Onward(E, f, s) = Onward(E, g, s)
    BY <2>3 DEF Onward
  <2>5. CASE Inner(E, f, s).found
    BY <1>2, <2>3, <2>5 DEF Tried
  <2>6. CASE ~ Inner(E, f, s).found
    <3>1. Onward(E, f, s) \in Searches(E) /\ Level(E, Onward(E, f, s)) < Level(E, s)
      <4>1. Neighbours(E, s.publisher) \subseteq s.seen => FALSE
        BY <1>2
      <4> QED
        BY <2>1, <2>6, <4>1 DEF Steps
    <3>2. f[Onward(E, f, s)] = g[Onward(E, g, s)]
      BY <2>4, <3>1
    <3> QED
      BY <1>2, <2>3, <2>6, <3>2 DEF Tried
  <2> QED
    BY <2>5, <2>6
<1> QED
  BY <1>1, <1>2

LEMMA SolutionsGrow ==
    ASSUME NEW E, IsGraph(E), NEW f, NEW n \in Nat, Solves(E, f, n)
    PROVE  \E g : Solves(E, g, n + 1)
<1> DEFINE g == [s \in Searches(E) |-> IF Level(E, s) < n THEN f[s] ELSE Tried(E, f, s)]
<1> SUFFICES ASSUME NEW s \in Searches(E), Level(E, s) < n + 1
             PROVE  g[s] = Tried(E, g, s)
  BY DEF Solves
<1>1. \A t \in Searches(E) : Level(E, t) \in Nat
  BY LevelType
<1>2. \A t \in Searches(E) : Level(E, t) < n => Grown(E, f, t) /\ g[t] = f[t]
  BY SolutionGrows
<1>3. Tried(E, f, s) = Tried(E, g, s)
  <2>1. \A t \in Searches(E) : Level(E, t) < Level(E, s) => Grown(E, f, t) /\ f[t] = g[t]
    BY <1>1, <1>2
  <2> HIDE DEF g
  <2> QED
    BY <2>1, StepsAgree
<1>4. g[s] = Tried(E, f, s)
  BY DEF Solves
<1> QED
  BY <1>3, <1>4

LEMMA SearchExists ==
    ASSUME NEW E, IsGraph(E)
    PROVE  \E f : IsSearch(E, f)
<1> DEFINE Bad == {n \in Nat : ~ \E f : Solves(E, f, n)}
<1>1. Bad = {}
  <2> SUFFICES ASSUME Bad # {} PROVE FALSE
    OBVIOUS
  <2>1. PICK n \in Bad : \A m \in Bad : n <= m
    <3>1. Bad \in SUBSET Nat
      OBVIOUS
    <3> HIDE DEF Bad
    <3> QED
      BY <3>1, LeastNumber
  <2>2. n \in Nat /\ ~ \E f : Solves(E, f, n)
    OBVIOUS
  <2>3. n # 0
    <3>1. \A f : Solves(E, f, 0)
      BY LevelType DEF Solves
    <3> QED
      BY <2>2, <3>1
  <2>4. n - 1 \in Nat /\ n - 1 \notin Bad /\ (n - 1) + 1 = n
    <3> HIDE DEF Bad
    <3> QED
      BY <2>1, <2>2, <2>3
  <2>5. PICK f : Solves(E, f, n - 1)
    BY <2>4
  <2>6. \E g : Solves(E, g, (n - 1) + 1)
    BY <2>4, <2>5, SolutionsGrow
  <2> QED
    BY <2>2, <2>4, <2>6
<1> DEFINE n == Cardinality(DocumentsOf(E)) + 1
<1>2. n \in Nat
  BY LevelType
<1>3. PICK f : Solves(E, f, n)
  BY <1>1, <1>2
<1> DEFINE g == [s \in Searches(E) |-> Tried(E, f, s)]
<1>4. \A s \in Searches(E) : Level(E, s) < n
  BY LevelType
<1>5. \A s \in Searches(E) : Grown(E, f, s) /\ f[s] = g[s]
  BY <1>2, <1>3, <1>4, SolutionGrows DEF Solves
<1>6. \A s \in Searches(E) : Tried(E, f, s) = Tried(E, g, s)
  <2> HIDE DEF g
  <2> QED
    BY <1>5, StepsAgree
<1>7. g = [s \in Searches(E) |-> Tried(E, g, s)]
  BY <1>6
<1> QED
  BY <1>7 DEF IsSearch

\* The search of Augmented, a solution without bound.
LEMMA AugmentedSearch ==
    ASSUME NEW E, IsGraph(E)
    PROVE  \E f : /\ \A s \in Searches(E) : f[s] = Tried(E, f, s) /\ Grown(E, f, s)
                  /\ \A p, h : Augmented(E, p, h) = f[[publisher |-> p, seen |-> {}, holder |-> h]]
<1> DEFINE f == CHOOSE g : IsSearch(E, g)
<1>1. IsSearch(E, f)
  BY SearchExists
<1>2. \A p, h : Augmented(E, p, h) = f[[publisher |-> p, seen |-> {}, holder |-> h]]
  BY AugmentedIs
<1> HIDE DEF f
<1>3. \A s \in Searches(E) : f[s] = Tried(E, f, s)
  BY <1>1 DEF IsSearch
<1>4. \A s \in Searches(E) : Grown(E, f, s)
  <2> DEFINE n == Cardinality(DocumentsOf(E)) + 1
  <2>1. n \in Nat /\ \A s \in Searches(E) : Level(E, s) < n
    BY LevelType
  <2>2. Solves(E, f, n)
    BY <1>3 DEF Solves
  <2> HIDE DEF n
  <2> QED
    BY <2>1, <2>2, SolutionGrows
<1> QED
  BY <1>2, <1>3, <1>4

-----------------------------------------------------------------------------
(* What a search returns.                                                    *)

IsSolution(E, f) == \A s \in Searches(E) : f[s] = Tried(E, f, s) /\ Grown(E, f, s)

\* Who holds a document carries it.
Legal(E, h) == \A d \in DocumentsOf(E) : h[d] # None => <<h[d], d>> \in E

\* Nobody holds two documents of U.
Single(h, U) == \A d, e \in U : h[d] = h[e] /\ h[d] # None => d = e

\* The documents of D are all held, by publishers who carry no other document.
Shut(E, h, D) == \A d \in D : h[d] # None /\ Neighbours(E, h[d]) \subseteq D

\* A search that fails has seen a part of the graph that nothing leads out of.
FailsWell(E, s, r) ==
    ~ r.found =>
        /\ r.holder = s.holder /\ Neighbours(E, s.publisher) \subseteq r.seen
        /\ \A d \in r.seen \ s.seen : s.holder[d] # None /\ Neighbours(E, s.holder[d]) \subseteq r.seen

\* A search keeps out of such a part.
Spares(E, s, r) ==
    \A D \in SUBSET DocumentsOf(E) : Shut(E, s.holder, D) =>
        /\ Neighbours(E, s.publisher) \subseteq D => ~ r.found
        /\ r.found => \A d \in D : r.holder[d] = s.holder[d]

\* A search that succeeds gives its publisher a document and takes none away from
\* the others.
Prepared(E, s) ==
    /\ Legal(E, s.holder) /\ Single(s.holder, DocumentsOf(E) \ s.seen)
    /\ \A d \in DocumentsOf(E) \ s.seen : s.holder[d] # s.publisher

Augments(E, s, r) ==
    r.found =>
        /\ \A d \in s.seen : r.holder[d] = s.holder[d]
        /\ Legal(E, r.holder) /\ Single(r.holder, DocumentsOf(E) \ s.seen)
        /\ \A q \in Publishers(E) :
              (\E d \in DocumentsOf(E) \ s.seen : r.holder[d] = q)
                <=> (q = s.publisher \/ \E d \in DocumentsOf(E) \ s.seen : s.holder[d] = q)

LEMMA SolutionSteps ==
    ASSUME NEW E, IsGraph(E), NEW f, IsSolution(E, f), NEW s \in Searches(E)
    PROVE  /\ Steps(E, f, s, s.publisher, First(E, s), Inner(E, f, s), Onward(E, f, s), f[s])
           /\ f[s] \in Results(E) /\ s.seen \subseteq f[s].seen
           /\ s.publisher \in Publishers(E) /\ s.seen \in SUBSET DocumentsOf(E) /\ s.holder \in Holders(E)
<1>1. \A t \in Searches(E) : f[t] \in Results(E) /\ t.seen \subseteq f[t].seen
  BY DEF IsSolution, Grown
<1>2. f[s] = Tried(E, f, s)
  BY DEF IsSolution
<1>3. Steps(E, f, s, s.publisher, First(E, s), Inner(E, f, s), Onward(E, f, s), Tried(E, f, s))
  BY <1>1, TriedIs
<1> QED
  BY <1>1, <1>2, <1>3, SearchFields

LEMMA SearchFailsWell ==
    ASSUME NEW E, IsGraph(E), NEW f, IsSolution(E, f)
    PROVE  \A s \in Searches(E) : FailsWell(E, s, f[s])
<1> DEFINE B == {s \in Searches(E) : ~ FailsWell(E, s, f[s])}
<1> SUFFICES ASSUME B # {} PROVE FALSE
  OBVIOUS
<1>1. PICK s \in B : \A t \in Searches(E) : Level(E, t) < Level(E, s) => t \notin B
  <2>1. B \in SUBSET Searches(E)
    OBVIOUS
  <2> HIDE DEF B
  <2> QED
    BY <2>1, LeastSearch
<1>2. s \in Searches(E) /\ ~ FailsWell(E, s, f[s])
  OBVIOUS
<1>3. \A t \in Searches(E) : Level(E, t) < Level(E, s) => FailsWell(E, t, f[t])
  BY <1>1
<1> HIDE DEF B
<1> DEFINE p == s.publisher
           d == First(E, s)
           i == Inner(E, f, s)
           on == Onward(E, f, s)
           r == f[s]
<1>4. Steps(E, f, s, p, d, i, on, r) /\ r \in Results(E) /\ s.seen \subseteq r.seen
  BY <1>2, SolutionSteps
<1>5. FailsWell(E, Deeper(E, s), f[Deeper(E, s)]) \/ ~ (Deeper(E, s) \in Searches(E) /\ Level(E, Deeper(E, s)) < Level(E, s))
  BY <1>3
<1>6. on \in Searches(E) /\ Level(E, on) < Level(E, s) =>
        FailsWell(E, on, f[on]) /\ on.seen \subseteq f[on].seen
  BY <1>3, SolutionSteps
<1> SUFFICES FailsWell(E, s, r)
  BY <1>2
<1> HIDE DEF p, d, i, on, r
<1> SUFFICES ASSUME ~ r.found PROVE /\ r.holder = s.holder /\ Neighbours(E, p) \subseteq r.seen
        /\ \A e \in r.seen \ s.seen : s.holder[e] # None /\ Neighbours(E, s.holder[e]) \subseteq r.seen
  BY DEF FailsWell, p
<1>7. CASE Neighbours(E, p) \subseteq s.seen /\ r = [found |-> FALSE, seen |-> s.seen, holder |-> s.holder]
  BY <1>7
<1>8. CASE ~ (Neighbours(E, p) \subseteq s.seen /\ r = [found |-> FALSE, seen |-> s.seen, holder |-> s.holder])
  <2>1. /\ s.seen \cup {d} \subseteq i.seen /\ ~ i.found
        /\ s.holder[d] # None /\ i = f[Deeper(E, s)]
        /\ Deeper(E, s) = [publisher |-> s.holder[d], seen |-> s.seen \cup {d}, holder |-> s.holder]
        /\ Deeper(E, s) \in Searches(E) /\ Level(E, Deeper(E, s)) < Level(E, s)
        /\ r = f[on] /\ on = [publisher |-> p, seen |-> i.seen, holder |-> s.holder]
        /\ on \in Searches(E) /\ Level(E, on) < Level(E, s)
    BY <1>4, <1>8 DEF Steps
  <2>2. /\ FailsWell(E, Deeper(E, s), i) /\ Deeper(E, s).publisher = s.holder[d]
        /\ Deeper(E, s).seen = s.seen \cup {d} /\ Deeper(E, s).holder = s.holder
    BY <1>5, <2>1
  <2>3. FailsWell(E, on, r) /\ i.seen \subseteq r.seen
    BY <1>6, <2>1
  <2>4. /\ Neighbours(E, s.holder[d]) \subseteq i.seen
        /\ \A e \in i.seen \ (s.seen \cup {d}) : s.holder[e] # None /\ Neighbours(E, s.holder[e]) \subseteq i.seen
    BY <2>1, <2>2 DEF FailsWell
  <2>5. /\ r.holder = s.holder /\ Neighbours(E, p) \subseteq r.seen
        /\ \A e \in r.seen \ i.seen : s.holder[e] # None /\ Neighbours(E, s.holder[e]) \subseteq r.seen
    BY <2>1, <2>3 DEF FailsWell
  <2>6. ASSUME NEW e \in r.seen \ s.seen
        PROVE  s.holder[e] # None /\ Neighbours(E, s.holder[e]) \subseteq r.seen
    <3>1. CASE e = d
      BY <3>1, <2>1, <2>3, <2>4
    <3>2. CASE e # d /\ e \in i.seen
      BY <3>2, <2>3, <2>4
    <3>3. CASE e \notin i.seen
      BY <3>3, <2>5
    <3> QED
      BY <3>1, <3>2, <3>3
  <2> QED
    BY <2>5, <2>6
<1> QED
  BY <1>7, <1>8

LEMMA SearchSpares ==
    ASSUME NEW E, IsGraph(E), NEW f, IsSolution(E, f)
    PROVE  \A s \in Searches(E) : Spares(E, s, f[s])
<1> DEFINE B == {s \in Searches(E) : ~ Spares(E, s, f[s])}
<1> SUFFICES ASSUME B # {} PROVE FALSE
  OBVIOUS
<1>1. PICK s \in B : \A t \in Searches(E) : Level(E, t) < Level(E, s) => t \notin B
  <2>1. B \in SUBSET Searches(E)
    OBVIOUS
  <2> HIDE DEF B
  <2> QED
    BY <2>1, LeastSearch
<1>2. s \in Searches(E) /\ ~ Spares(E, s, f[s])
  OBVIOUS
<1>3. \A t \in Searches(E) : Level(E, t) < Level(E, s) => Spares(E, t, f[t])
  BY <1>1
<1> HIDE DEF B
<1> DEFINE p == s.publisher
           d == First(E, s)
           i == Inner(E, f, s)
           on == Onward(E, f, s)
           r == f[s]
<1>4. /\ Steps(E, f, s, p, d, i, on, r) /\ r \in Results(E)
      /\ p \in Publishers(E) /\ s.seen \in SUBSET DocumentsOf(E) /\ s.holder \in Holders(E)
  BY <1>2, SolutionSteps
<1>5. Deeper(E, s) \in Searches(E) /\ Level(E, Deeper(E, s)) < Level(E, s) =>
        Spares(E, Deeper(E, s), f[Deeper(E, s)])
  BY <1>3
<1>6. on \in Searches(E) /\ Level(E, on) < Level(E, s) => Spares(E, on, f[on])
  BY <1>3
<1> SUFFICES Spares(E, s, r)
  BY <1>2
<1> HIDE DEF p, d, i, on, r
<1> SUFFICES ASSUME NEW D \in SUBSET DocumentsOf(E), Shut(E, s.holder, D)
             PROVE  /\ Neighbours(E, p) \subseteq D => ~ r.found
                    /\ r.found => \A e \in D : r.holder[e] = s.holder[e]
  BY DEF Spares, p
<1>7. CASE r = [found |-> FALSE, seen |-> s.seen, holder |-> s.holder]
  BY <1>7
<1>8. CASE r # [found |-> FALSE, seen |-> s.seen, holder |-> s.holder]
  <2>1. /\ d \in DocumentsOf(E) /\ <<p, d>> \in E /\ i \in Results(E)
        /\ \/ /\ s.holder[d] = None
              /\ i = [found |-> TRUE, seen |-> s.seen \cup {d}, holder |-> s.holder]
           \/ /\ s.holder[d] # None /\ i = f[Deeper(E, s)]
              /\ Deeper(E, s) = [publisher |-> s.holder[d], seen |-> s.seen \cup {d}, holder |-> s.holder]
              /\ Deeper(E, s) \in Searches(E) /\ Level(E, Deeper(E, s)) < Level(E, s)
        /\ \/ /\ i.found
              /\ r = [found |-> TRUE, seen |-> i.seen, holder |-> [i.holder EXCEPT ![d] = p]]
           \/ /\ ~ i.found /\ r = f[on]
              /\ on = [publisher |-> p, seen |-> i.seen, holder |-> s.holder]
              /\ on \in Searches(E) /\ Level(E, on) < Level(E, s)
    BY <1>4, <1>8 DEF Steps
  <2>2. d \in Neighbours(E, p)
    BY <2>1 DEF Neighbours
  <2>3. d \in D => ~ i.found
    <3> SUFFICES ASSUME d \in D PROVE ~ i.found
      OBVIOUS
    <3>1. s.holder[d] # None /\ Neighbours(E, s.holder[d]) \subseteq D
      BY DEF Shut
    <3>2. Spares(E, Deeper(E, s), i) /\ Deeper(E, s).publisher = s.holder[d] /\ Deeper(E, s).holder = s.holder
      BY <2>1, <3>1, <1>5
    <3> QED
      BY <3>1, <3>2 DEF Spares
  <2>4. i.found => \A e \in D : i.holder[e] = s.holder[e]
    <3>1. CASE s.holder[d] = None
      BY <3>1, <2>1
    <3>2. CASE s.holder[d] # None
      <4>1. Spares(E, Deeper(E, s), i) /\ Deeper(E, s).holder = s.holder
        BY <2>1, <3>2, <1>5
      <4> QED
        BY <4>1 DEF Spares
    <3> QED
      BY <3>1, <3>2
  <2>5. CASE i.found /\ r = [found |-> TRUE, seen |-> i.seen, holder |-> [i.holder EXCEPT ![d] = p]]
    <3>1. d \notin D
      BY <2>3, <2>5
    <3>2. ~ (Neighbours(E, p) \subseteq D)
      BY <2>2, <3>1
    <3>3. i.holder \in Holders(E)
      BY <2>1 DEF Results
    <3>4. \A e \in D : r.holder[e] = s.holder[e]
      BY <2>4, <2>5, <3>1, <3>3 DEF Holders
    <3> QED
      BY <3>2, <3>4
  <2>6. CASE r = f[on] /\ on = [publisher |-> p, seen |-> i.seen, holder |-> s.holder]
              /\ on \in Searches(E) /\ Level(E, on) < Level(E, s)
    <3>1. Spares(E, on, r) /\ on.publisher = p /\ on.holder = s.holder
      BY <2>6, <1>6
    <3> QED
      BY <3>1 DEF Spares
  <2> QED
    BY <2>1, <2>5, <2>6
<1> QED
  BY <1>7, <1>8

LEMMA SearchAugments ==
    ASSUME NEW E, IsGraph(E), NEW f, IsSolution(E, f)
    PROVE  \A s \in Searches(E) : Prepared(E, s) => Augments(E, s, f[s])
<1> DEFINE B == {s \in Searches(E) : Prepared(E, s) /\ ~ Augments(E, s, f[s])}
<1> SUFFICES ASSUME B # {} PROVE FALSE
  OBVIOUS
<1>1. PICK s \in B : \A t \in Searches(E) : Level(E, t) < Level(E, s) => t \notin B
  <2>1. B \in SUBSET Searches(E)
    OBVIOUS
  <2> HIDE DEF B
  <2> QED
    BY <2>1, LeastSearch
<1>2. s \in Searches(E) /\ Prepared(E, s) /\ ~ Augments(E, s, f[s])
  OBVIOUS
<1>3. \A t \in Searches(E) : Level(E, t) < Level(E, s) /\ Prepared(E, t) => Augments(E, t, f[t])
  BY <1>1
<1> HIDE DEF B
<1> DEFINE p == s.publisher
           d == First(E, s)
           i == Inner(E, f, s)
           on == Onward(E, f, s)
           r == f[s]
           U == DocumentsOf(E) \ s.seen
           h == s.holder
<1>4. /\ Steps(E, f, s, p, d, i, on, r) /\ r \in Results(E) /\ None \notin Publishers(E)
      /\ p \in Publishers(E) /\ s.seen \in SUBSET DocumentsOf(E) /\ h \in Holders(E)
  BY <1>2, SolutionSteps, GraphIsFinite
<1>5. Deeper(E, s) \in Searches(E) /\ Level(E, Deeper(E, s)) < Level(E, s) /\ Prepared(E, Deeper(E, s)) =>
        Augments(E, Deeper(E, s), f[Deeper(E, s)])
  BY <1>3
<1>6. on \in Searches(E) /\ Level(E, on) < Level(E, s) /\ Prepared(E, on) => Augments(E, on, f[on])
  BY <1>3
<1>7. Legal(E, h) /\ Single(h, U) /\ \A e \in U : h[e] # p
  BY <1>2 DEF Prepared
<1> SUFFICES Augments(E, s, r)
  BY <1>2
<1> DEFINE Goal(x) ==
        /\ \A e \in s.seen : x[e] = h[e]
        /\ Legal(E, x) /\ Single(x, U)
        /\ \A q \in Publishers(E) : (\E e \in U : x[e] = q) <=> (q = p \/ \E e \in U : h[e] = q)
<1>8. SUFFICES ASSUME r.found PROVE Goal(r.holder)
  BY <1>8 DEF Augments
<1> HIDE DEF p, d, i, on, r, U, h, Goal
<1>9. /\ d \in DocumentsOf(E) /\ d \notin s.seen /\ <<p, d>> \in E
      /\ i \in Results(E) /\ s.seen \cup {d} \subseteq i.seen
      /\ \/ /\ h[d] = None
            /\ i = [found |-> TRUE, seen |-> s.seen \cup {d}, holder |-> h]
         \/ /\ h[d] # None /\ i = f[Deeper(E, s)]
            /\ Deeper(E, s) = [publisher |-> h[d], seen |-> s.seen \cup {d}, holder |-> h]
            /\ Deeper(E, s) \in Searches(E) /\ Level(E, Deeper(E, s)) < Level(E, s)
      /\ \/ /\ i.found
            /\ r = [found |-> TRUE, seen |-> i.seen, holder |-> [i.holder EXCEPT ![d] = p]]
         \/ /\ ~ i.found /\ r = f[on]
            /\ on = [publisher |-> p, seen |-> i.seen, holder |-> h]
            /\ on \in Searches(E) /\ Level(E, on) < Level(E, s)
  <2>1. r # [found |-> FALSE, seen |-> s.seen, holder |-> s.holder]
    BY <1>8
  <2> QED
    BY <1>4, <2>1 DEF Steps, h
<1>10. d \in U
  BY <1>9 DEF U
<1>11. CASE i.found /\ r = [found |-> TRUE, seen |-> i.seen, holder |-> [i.holder EXCEPT ![d] = p]]
  <2> DEFINE x == i.holder
             y == [x EXCEPT ![d] = p]
             q == h[d]
             V == U \ {d}
  <2>1. x \in Holders(E) /\ h \in Holders(E) /\ d \in DOMAIN x
    BY <1>4, <1>9 DEF Results, Holders
  <2>2. /\ \A e \in s.seen : x[e] = h[e]
        /\ Legal(E, x) /\ Single(x, V)
        /\ \A k \in Publishers(E) : (\E e \in V : x[e] = k) <=> ((q # None /\ k = q) \/ \E e \in V : h[e] = k)
    <3>1. CASE h[d] = None
      <4>1. x = h
        BY <3>1, <1>9
      <4>2. Single(h, V)
        BY <1>7 DEF Single
      <4> QED
        BY <3>1, <4>1, <4>2, <1>7
    <3>2. CASE h[d] # None
      <4>1. /\ Deeper(E, s) \in Searches(E) /\ Level(E, Deeper(E, s)) < Level(E, s) /\ i = f[Deeper(E, s)]
            /\ Deeper(E, s).publisher = q /\ Deeper(E, s).seen = s.seen \cup {d} /\ Deeper(E, s).holder = h
        BY <3>2, <1>9
      <4>2. DocumentsOf(E) \ (s.seen \cup {d}) = V
        BY DEF U
      <4>3. Single(h, V) /\ \A e \in V : h[e] # q
        BY <3>2, <1>7, <1>10 DEF Single
      <4>4. Prepared(E, Deeper(E, s))
        BY <4>1, <4>2, <4>3, <1>7 DEF Prepared
      <4>5. Augments(E, Deeper(E, s), i)
        BY <4>1, <4>4, <1>5
      <4> HIDE DEF x, y, q, V
      <4>6. /\ \A e \in s.seen \cup {d} : x[e] = h[e]
            /\ Legal(E, x) /\ Single(x, V)
            /\ \A k \in Publishers(E) : (\E e \in V : x[e] = k) <=> (k = q \/ \E e \in V : h[e] = k)
        BY <1>11, <4>1, <4>2, <4>5 DEF Augments, x
      <4> QED
        BY <3>2, <4>6 DEF q
    <3> QED
      BY <3>1, <3>2
  <2>3. q # None => q \in Publishers(E)
    BY <2>1, <1>9 DEF Holders
  <2>4. \A e \in V : h[e] # p
    BY <1>7
  <2>5. \A e \in V : h[e] = h[d] => h[d] = None
    BY <1>7, <1>10 DEF Single
  <2> HIDE DEF q, V
  <2>6. q # p
    BY <1>7, <1>10 DEF q
  <2>7. \A e \in V : x[e] # p
    BY <1>4, <2>2, <2>4, <2>6
  <2> HIDE DEF x
  <2>8. y[d] = p /\ \A e \in DocumentsOf(E) : e # d => y[e] = x[e]
    BY <2>1 DEF Holders
  <2> HIDE DEF y
  <2>9. U = V \cup {d} /\ d \notin V /\ U \subseteq DocumentsOf(E)
    BY <1>10 DEF U, V
  <2>10. \A e \in s.seen : y[e] = h[e]
    BY <1>4, <1>9, <2>2, <2>8
  <2>11. Legal(E, y)
    BY <1>9, <2>2, <2>8 DEF Legal
  <2>12. Single(y, U)
    <3> SUFFICES ASSUME NEW e \in U, NEW j \in U, y[e] = y[j], y[e] # None PROVE e = j
      BY DEF Single
    <3>1. CASE e \in V /\ j \in V
      BY <3>1, <2>2, <2>8, <2>9 DEF Single
    <3>2. CASE e = d /\ j \in V
      BY <3>2, <2>7, <2>8, <2>9
    <3>3. CASE e \in V /\ j = d
      BY <3>3, <2>7, <2>8, <2>9
    <3> QED
      BY <2>9, <3>1, <3>2, <3>3
  <2>13. ASSUME NEW k \in Publishers(E)
         PROVE  (\E e \in U : y[e] = k) <=> (k = p \/ \E e \in U : h[e] = k)
    <3>1. (\E e \in U : y[e] = k) <=> (k = p \/ \E e \in V : x[e] = k)
      BY <2>8, <2>9
    <3>2. (\E e \in U : h[e] = k) <=> (k = q \/ \E e \in V : h[e] = k)
      BY <2>9 DEF q
    <3>3. k = q => q # None
      BY <1>4
    <3> QED
      BY <2>2, <3>1, <3>2, <3>3
  <2>14. Goal(y)
    BY <2>10, <2>11, <2>12, <2>13 DEF Goal
  <2> QED
    BY <1>11, <2>14 DEF y, x
<1>12. CASE ~ i.found /\ r = f[on] /\ on = [publisher |-> p, seen |-> i.seen, holder |-> h]
            /\ on \in Searches(E) /\ Level(E, on) < Level(E, s)
  <2> DEFINE x == r.holder
             V == DocumentsOf(E) \ i.seen
  <2>1. i.seen \in SUBSET DocumentsOf(E) /\ s.seen \subseteq i.seen /\ x \in Holders(E)
    BY <1>4, <1>9 DEF Results
  <2>2. V \subseteq U /\ U \subseteq DocumentsOf(E) /\ \A e \in U : e \in V \/ e \in i.seen
    BY <2>1 DEF U
  <2>3. on.publisher = p /\ on.seen = i.seen /\ on.holder = h
    BY <1>12
  <2>4. Single(h, V) /\ \A e \in V : h[e] # p
    BY <1>7, <2>2 DEF Single
  <2>5. Prepared(E, on)
    BY <1>7, <2>3, <2>4 DEF Prepared
  <2>6. Augments(E, on, r)
    BY <1>6, <1>12, <2>5
  <2>7. /\ \A e \in i.seen : x[e] = h[e]
        /\ Legal(E, x) /\ Single(x, V)
        /\ \A q \in Publishers(E) : (\E e \in V : x[e] = q) <=> (q = p \/ \E e \in V : h[e] = q)
    BY <1>8, <2>3, <2>6 DEF Augments
  <2> HIDE DEF x, V
  <2>8. ASSUME NEW e \in U, NEW j \in U, x[e] = x[j], x[e] # None, e \in i.seen, j \in V
        PROVE  FALSE
    <3>1. x[e] \in Publishers(E)
      BY <2>1, <2>2, <2>8 DEF Holders
    <3>2. x[e] = p \/ \E k \in V : h[k] = x[e]
      BY <2>7, <2>8, <3>1
    <3>3. h[e] = x[e] /\ h[e] # p
      BY <1>7, <2>7, <2>8
    <3>4. PICK k \in V : h[k] = h[e]
      BY <3>2, <3>3
    <3>5. k = e
      BY <1>7, <2>2, <2>8, <3>3, <3>4 DEF Single
    <3> QED
      BY <2>8, <3>5, <3>4 DEF V
  <2>9. Single(x, U)
    <3> SUFFICES ASSUME NEW e \in U, NEW j \in U, x[e] = x[j], x[e] # None PROVE e = j
      BY DEF Single
    <3>1. CASE e \in V /\ j \in V
      BY <3>1, <2>7 DEF Single
    <3>2. CASE e \in i.seen /\ j \in i.seen
      BY <3>2, <1>7, <2>7 DEF Single
    <3>3. CASE e \in i.seen /\ j \in V
      BY <3>3, <2>8
    <3>4. CASE e \in V /\ j \in i.seen
      BY <3>4, <2>8
    <3> QED
      BY <2>2, <3>1, <3>2, <3>3, <3>4
  <2>10. ASSUME NEW q \in Publishers(E)
         PROVE  (\E e \in U : x[e] = q) <=> (q = p \/ \E e \in U : h[e] = q)
    <3>1. (\E e \in U : x[e] = q) <=> ((\E e \in V : x[e] = q) \/ \E e \in U : e \in i.seen /\ x[e] = q)
      BY <2>2
    <3>2. (\E e \in U : h[e] = q) <=> ((\E e \in V : h[e] = q) \/ \E e \in U : e \in i.seen /\ h[e] = q)
      BY <2>2
    <3> QED
      BY <2>7, <3>1, <3>2
  <2>11. \A e \in s.seen : x[e] = h[e]
    BY <2>1, <2>7
  <2>12. Goal(x)
    BY <2>7, <2>9, <2>10, <2>11 DEF Goal
  <2> QED
    BY <2>12 DEF x
<1> QED
  BY <1>9, <1>11, <1>12

\* What Augmented does: it keeps the matching and shows why, or it adds its publisher
\* to those matched and leaves every closed part of the graph alone.
LEMMA AugmentedIsRight ==
    ASSUME NEW E, IsGraph(E), NEW h \in Holders(E), NEW p \in Publishers(E),
           Legal(E, h), Single(h, DocumentsOf(E)), \A d \in DocumentsOf(E) : h[d] # p
    PROVE  LET r == Augmented(E, p, h)
           IN  /\ r.holder \in Holders(E)
               /\ ~ r.found => /\ r.holder = h
                               /\ \E D \in SUBSET DocumentsOf(E) : Shut(E, h, D) /\ Neighbours(E, p) \subseteq D
               /\ r.found => /\ Legal(E, r.holder) /\ Single(r.holder, DocumentsOf(E))
                             /\ \A q \in Publishers(E) :
                                   (\E d \in DocumentsOf(E) : r.holder[d] = q)
                                     <=> (q = p \/ \E d \in DocumentsOf(E) : h[d] = q)
                             /\ \A D \in SUBSET DocumentsOf(E) : Shut(E, h, D) => Shut(E, r.holder, D)
<1>1. PICK f : /\ \A s \in Searches(E) : f[s] = Tried(E, f, s) /\ Grown(E, f, s)
               /\ \A q, k : Augmented(E, q, k) = f[[publisher |-> q, seen |-> {}, holder |-> k]]
  BY AugmentedSearch
<1>2. IsSolution(E, f)
  BY <1>1 DEF IsSolution
<1> DEFINE s == [publisher |-> p, seen |-> {}, holder |-> h]
           r == f[s]
<1>3. s \in Searches(E) /\ s.publisher = p /\ s.seen = {} /\ s.holder = h
  BY DEF Searches
<1>4. Augmented(E, p, h) = r
  BY <1>1
<1> HIDE DEF s
<1>5. r \in Results(E)
  BY <1>2, <1>3, SolutionSteps
<1>6. FailsWell(E, s, r) /\ Spares(E, s, r)
  BY <1>2, <1>3, SearchFailsWell, SearchSpares
<1>7. DocumentsOf(E) \ s.seen = DocumentsOf(E)
  BY <1>3
<1>8. Prepared(E, s)
  BY <1>3, <1>7 DEF Prepared
<1>9. Augments(E, s, r)
  BY <1>2, <1>3, <1>8, SearchAugments
<1> HIDE DEF r
<1>10. r.holder \in Holders(E) /\ r.seen \in SUBSET DocumentsOf(E)
  BY <1>5 DEF Results
<1>11. ~ r.found => /\ r.holder = h
                    /\ \E D \in SUBSET DocumentsOf(E) : Shut(E, h, D) /\ Neighbours(E, p) \subseteq D
  <2> SUFFICES ASSUME ~ r.found
               PROVE  r.holder = h /\ Shut(E, h, r.seen) /\ Neighbours(E, p) \subseteq r.seen
    BY <1>10
  <2>1. /\ r.holder = h /\ Neighbours(E, p) \subseteq r.seen
        /\ \A d \in r.seen : h[d] # None /\ Neighbours(E, h[d]) \subseteq r.seen
    BY <1>3, <1>6 DEF FailsWell
  <2> QED
    BY <2>1 DEF Shut
<1>12. r.found => /\ Legal(E, r.holder) /\ Single(r.holder, DocumentsOf(E))
                  /\ \A q \in Publishers(E) :
                        (\E d \in DocumentsOf(E) : r.holder[d] = q)
                          <=> (q = p \/ \E d \in DocumentsOf(E) : h[d] = q)
  BY <1>3, <1>7, <1>9 DEF Augments
<1>13. ASSUME r.found, NEW D \in SUBSET DocumentsOf(E), Shut(E, h, D)
       PROVE  Shut(E, r.holder, D)
  <2>1. \A d \in D : r.holder[d] = h[d]
    BY <1>3, <1>6, <1>13 DEF Spares
  <2> QED
    BY <1>13, <2>1 DEF Shut
<1> QED
  BY <1>4, <1>10, <1>11, <1>12, <1>13

-----------------------------------------------------------------------------
(* The matching, publisher by publisher.                                     *)

MatchedBy(E, f, P) ==
    LET last == Max(P)
        before == f[P \ {last}]
        after == Augmented(E, last, before.holder)
    IN  IF P = {} THEN [size |-> 0, holder |-> [d \in DocumentsOf(E) |-> None]]
        ELSE [size |-> before.size + (IF after.found THEN 1 ELSE 0), holder |-> after.holder]

IsMatching(E, f) == f = [P \in SUBSET Publishers(E) |-> MatchedBy(E, f, P)]

LEMMA MatchingIs ==
    ASSUME NEW E
    PROVE  MaximumMatching(E) = (CHOOSE f : IsMatching(E, f))[Publishers(E)].size
BY DEF MaximumMatching, IsMatching, MatchedBy

LEMMA PublishersLeft ==
    ASSUME NEW E, IsGraph(E), NEW P \in SUBSET Publishers(E)
    PROVE  /\ IsFiniteSet(P) /\ Cardinality(P) \in Nat /\ Cardinality(P) <= Cardinality(Publishers(E))
           /\ P # {} => /\ Max(P) \in P /\ P \ {Max(P)} \in SUBSET Publishers(E)
                        /\ Cardinality(P \ {Max(P)}) = Cardinality(P) - 1
<1>1. IsFiniteSet(Publishers(E)) /\ Publishers(E) \in SUBSET Int
  BY GraphIsFinite
<1>2. IsFiniteSet(P) /\ Cardinality(P) <= Cardinality(Publishers(E))
  BY <1>1, FS_Subset
<1>3. Cardinality(P) \in Nat
  BY <1>2, FS_CardinalityType
<1>4. ASSUME P # {}
      PROVE  /\ Max(P) \in P /\ P \ {Max(P)} \in SUBSET Publishers(E)
             /\ Cardinality(P \ {Max(P)}) = Cardinality(P) - 1
  <2>1. Max(P) \in P
    BY <1>1, <1>2, <1>4, LeastMember
  <2>2. Cardinality(P \ {Max(P)}) = Cardinality(P) - 1
    BY <1>2, <2>1, FS_RemoveElement
  <2> QED
    BY <2>1, <2>2
<1> QED
  BY <1>2, <1>3, <1>4

MatchesBelow(E, f, n) ==
    \A P \in SUBSET Publishers(E) : Cardinality(P) < n => f[P] = MatchedBy(E, f, P)

LEMMA MatchingExists ==
    ASSUME NEW E, IsGraph(E)
    PROVE  \E f : IsMatching(E, f)
<1> DEFINE Bad == {n \in Nat : ~ \E f : MatchesBelow(E, f, n)}
<1>1. Bad = {}
  <2> SUFFICES ASSUME Bad # {} PROVE FALSE
    OBVIOUS
  <2>1. PICK n \in Bad : \A m \in Bad : n <= m
    <3>1. Bad \in SUBSET Nat
      OBVIOUS
    <3> HIDE DEF Bad
    <3> QED
      BY <3>1, LeastNumber
  <2>2. n \in Nat /\ ~ \E f : MatchesBelow(E, f, n)
    OBVIOUS
  <2>3. n # 0
    <3>1. \A P \in SUBSET Publishers(E) : Cardinality(P) \in Nat
      BY PublishersLeft
    <3>2. \A P \in SUBSET Publishers(E) : ~ (Cardinality(P) < 0)
      BY <3>1
    <3>3. \A f : MatchesBelow(E, f, 0)
      BY <3>2 DEF MatchesBelow
    <3> QED
      BY <2>2, <3>3
  <2>4. n - 1 \in Nat /\ n - 1 \notin Bad
    <3> HIDE DEF Bad
    <3> QED
      BY <2>1, <2>2, <2>3
  <2>5. PICK f : MatchesBelow(E, f, n - 1)
    BY <2>4
  <2> HIDE DEF Bad
  <2> DEFINE g == [P \in SUBSET Publishers(E) |-> IF Cardinality(P) < n - 1 THEN f[P] ELSE MatchedBy(E, f, P)]
  <2>6. MatchesBelow(E, g, n)
    <3> SUFFICES ASSUME NEW P \in SUBSET Publishers(E), Cardinality(P) < n
                 PROVE  g[P] = MatchedBy(E, g, P)
      BY DEF MatchesBelow
    <3>1. g[P] = MatchedBy(E, f, P)
      BY <2>5 DEF MatchesBelow
    <3>2. MatchedBy(E, f, P) = MatchedBy(E, g, P)
      <4>1. CASE P = {}
        BY <4>1 DEF MatchedBy
      <4>2. CASE P # {}
        <5>1. P \ {Max(P)} \in SUBSET Publishers(E) /\ Cardinality(P \ {Max(P)}) < n - 1
          BY <4>2, <2>2, PublishersLeft
        <5>2. g[P \ {Max(P)}] = f[P \ {Max(P)}]
          BY <5>1
        <5> HIDE DEF g
        <5> QED
          BY <5>2 DEF MatchedBy
      <4> QED
        BY <4>1, <4>2
    <3> QED
      BY <3>1, <3>2
  <2> QED
    BY <2>2, <2>6
<1> DEFINE n == Cardinality(Publishers(E)) + 1
<1>2. n \in Nat /\ \A P \in SUBSET Publishers(E) : Cardinality(P) < n
  <2>1. Publishers(E) \in SUBSET Publishers(E)
    OBVIOUS
  <2>2. \A P \in SUBSET Publishers(E) : Cardinality(P) \in Nat /\ Cardinality(P) <= Cardinality(Publishers(E))
    BY PublishersLeft
  <2>3. Cardinality(Publishers(E)) \in Nat
    BY <2>1, <2>2
  <2> QED
    BY <2>2, <2>3
<1>3. PICK f : MatchesBelow(E, f, n)
  BY <1>1, <1>2
<1> HIDE DEF Bad, n
<1> DEFINE g == [P \in SUBSET Publishers(E) |-> f[P]]
<1>4. ASSUME NEW P \in SUBSET Publishers(E)
      PROVE  g[P] = MatchedBy(E, g, P)
  <2>1. g[P] = MatchedBy(E, f, P)
    BY <1>2, <1>3 DEF MatchesBelow
  <2>2. MatchedBy(E, f, P) = MatchedBy(E, g, P)
    <3>1. CASE P = {}
      BY <3>1 DEF MatchedBy
    <3>2. CASE P # {}
      <4>1. P \ {Max(P)} \in SUBSET Publishers(E)
        OBVIOUS
      <4>2. g[P \ {Max(P)}] = f[P \ {Max(P)}]
        BY <4>1
      <4> HIDE DEF g
      <4> QED
        BY <4>2 DEF MatchedBy
    <3> QED
      BY <3>1, <3>2
  <2> QED
    BY <2>1, <2>2
<1>5. g = [P \in SUBSET Publishers(E) |-> MatchedBy(E, g, P)]
  <2>1. [P \in SUBSET Publishers(E) |-> g[P]] = [P \in SUBSET Publishers(E) |-> MatchedBy(E, g, P)]
    <3> HIDE DEF g
    <3> QED
      BY <1>4
  <2>2. g = [P \in SUBSET Publishers(E) |-> g[P]]
    OBVIOUS
  <2> HIDE DEF g
  <2> QED
    BY <2>1, <2>2
<1> QED
  BY <1>5 DEF IsMatching

-----------------------------------------------------------------------------
(* The matching is largest.                                                  *)

Held(E, h) == {p \in Publishers(E) : \E d \in DocumentsOf(E) : h[d] = p}

\* A matching of publishers of P, and a closed part of the graph that explains
\* everyone left out.
GoodMatching(E, P, m) ==
    /\ m.holder \in Holders(E) /\ Legal(E, m.holder) /\ Single(m.holder, DocumentsOf(E))
    /\ m.size = Cardinality(Held(E, m.holder))
    /\ Held(E, m.holder) \subseteq P
    /\ \E D \in SUBSET DocumentsOf(E) :
          /\ Shut(E, m.holder, D)
          /\ \A p \in P \ Held(E, m.holder) : Neighbours(E, p) \subseteq D

LEMMA FirstMatching ==
    ASSUME NEW E, IsGraph(E)
    PROVE  GoodMatching(E, {}, [size |-> 0, holder |-> [d \in DocumentsOf(E) |-> None]])
<1> DEFINE h == [d \in DocumentsOf(E) |-> None]
<1>1. h \in Holders(E) /\ \A d \in DocumentsOf(E) : h[d] = None
  BY DEF Holders
<1>2. None \notin Publishers(E)
  BY GraphIsFinite
<1> HIDE DEF h
<1>3. Legal(E, h) /\ Single(h, DocumentsOf(E))
  BY <1>1 DEF Legal, Single
<1>4. Held(E, h) = {}
  BY <1>1, <1>2 DEF Held
<1>5. Cardinality(Held(E, h)) = 0
  BY <1>4, FS_EmptySet
<1>6. {} \in SUBSET DocumentsOf(E) /\ Shut(E, h, {})
  BY DEF Shut
<1>7. GoodMatching(E, {}, [size |-> 0, holder |-> h])
  BY <1>1, <1>3, <1>4, <1>5, <1>6 DEF GoodMatching
<1> QED
  BY <1>7 DEF h

LEMMA NextMatching ==
    ASSUME NEW E, IsGraph(E), NEW P \in SUBSET Publishers(E), NEW p \in P,
           NEW m, GoodMatching(E, P \ {p}, m)
    PROVE  LET r == Augmented(E, p, m.holder)
           IN  GoodMatching(E, P, [size |-> m.size + (IF r.found THEN 1 ELSE 0), holder |-> r.holder])
<1> DEFINE h == m.holder
           r == Augmented(E, p, h)
           H == Held(E, h)
<1>1. /\ h \in Holders(E) /\ Legal(E, h) /\ Single(h, DocumentsOf(E))
      /\ m.size = Cardinality(H) /\ H \subseteq P \ {p}
  BY DEF GoodMatching
<1>2. PICK D \in SUBSET DocumentsOf(E) :
          /\ Shut(E, h, D) /\ \A q \in (P \ {p}) \ H : Neighbours(E, q) \subseteq D
  BY DEF GoodMatching
<1>3. p \in Publishers(E) /\ \A d \in DocumentsOf(E) : h[d] # p
  BY <1>1 DEF Held
<1>4. /\ r.holder \in Holders(E)
      /\ ~ r.found => /\ r.holder = h
                      /\ \E C \in SUBSET DocumentsOf(E) : Shut(E, h, C) /\ Neighbours(E, p) \subseteq C
      /\ r.found => /\ Legal(E, r.holder) /\ Single(r.holder, DocumentsOf(E))
                    /\ \A q \in Publishers(E) :
                          (\E d \in DocumentsOf(E) : r.holder[d] = q)
                            <=> (q = p \/ \E d \in DocumentsOf(E) : h[d] = q)
                    /\ \A C \in SUBSET DocumentsOf(E) : Shut(E, h, C) => Shut(E, r.holder, C)
  BY <1>1, <1>3, AugmentedIsRight
<1>5. IsFiniteSet(H) /\ Cardinality(H) \in Nat /\ p \notin H
  <2>1. H \in SUBSET Publishers(E)
    BY DEF Held
  <2>2. IsFiniteSet(Publishers(E))
    BY GraphIsFinite
  <2> HIDE DEF H
  <2> QED
    BY <1>1, <2>1, <2>2, FS_Subset, FS_CardinalityType
<1> DEFINE x == r.holder
           new == [size |-> m.size + (IF r.found THEN 1 ELSE 0), holder |-> x]
<1> SUFFICES GoodMatching(E, P, new)
  OBVIOUS
<1> HIDE DEF h, r
<1>6. CASE r.found
  <2>1. new.size = Cardinality(H) + 1 /\ new.holder = x
    BY <1>1, <1>6
  <2>2. Held(E, x) = H \cup {p}
    BY <1>3, <1>4, <1>6 DEF Held
  <2> HIDE DEF H, new
  <2>3. Cardinality(Held(E, x)) = Cardinality(H) + 1
    BY <1>5, <2>2, FS_AddElement
  <2>4. Shut(E, x, D)
    BY <1>2, <1>4, <1>6
  <2> HIDE DEF x
  <2>5. \A q \in P \ Held(E, x) : Neighbours(E, q) \subseteq D
    BY <1>2, <2>2
  <2>6. x \in Holders(E) /\ Legal(E, x) /\ Single(x, DocumentsOf(E)) /\ Held(E, x) \subseteq P
    BY <1>1, <1>4, <1>6, <2>2 DEF x
  <2> QED
    BY <2>1, <2>3, <2>4, <2>5, <2>6 DEF GoodMatching
<1>7. CASE ~ r.found
  <2>1. new.size = Cardinality(H) /\ new.holder = h
    BY <1>1, <1>4, <1>5, <1>7
  <2>2. PICK C \in SUBSET DocumentsOf(E) : Shut(E, h, C) /\ Neighbours(E, p) \subseteq C
    BY <1>4, <1>7
  <2>3. Shut(E, h, D \cup C)
    BY <1>2, <2>2 DEF Shut
  <2>4. \A q \in P \ H : Neighbours(E, q) \subseteq D \cup C
    BY <1>2, <2>2
  <2>5. D \cup C \in SUBSET DocumentsOf(E) /\ H \subseteq P
    BY <1>1
  <2> HIDE DEF new
  <2> QED
    BY <1>1, <2>1, <2>3, <2>4, <2>5 DEF GoodMatching
<1> QED
  BY <1>6, <1>7

LEMMA EveryMatchingIsGood ==
    ASSUME NEW E, IsGraph(E), NEW f, IsMatching(E, f)
    PROVE  GoodMatching(E, Publishers(E), f[Publishers(E)])
<1> DEFINE B == {P \in SUBSET Publishers(E) : ~ GoodMatching(E, P, f[P])}
           levels == {Cardinality(P) : P \in B}
<1>1. \A P \in SUBSET Publishers(E) : f[P] = MatchedBy(E, f, P)
  BY DEF IsMatching
<1> SUFFICES ASSUME B # {} PROVE FALSE
  OBVIOUS
<1>2. levels \in SUBSET Nat /\ levels # {}
  BY PublishersLeft
<1>3. PICK n \in levels : \A k \in levels : n <= k
  BY <1>2, LeastNumber
<1>4. PICK P \in B : Cardinality(P) = n
  BY <1>3
<1>5. P \in SUBSET Publishers(E) /\ ~ GoodMatching(E, P, f[P])
  OBVIOUS
<1>6. P # {}
  <2> SUFFICES ASSUME P = {} PROVE FALSE
    OBVIOUS
  <2>1. f[P] = [size |-> 0, holder |-> [d \in DocumentsOf(E) |-> None]]
    BY <1>1, <1>5 DEF MatchedBy
  <2> QED
    BY <1>5, <2>1, FirstMatching
<1> DEFINE p == Max(P)
           m == f[P \ {p}]
<1>7. /\ p \in P /\ P \ {p} \in SUBSET Publishers(E) /\ Cardinality(P \ {p}) = n - 1 /\ n \in Nat
  BY <1>4, <1>5, <1>6, PublishersLeft
<1>8. GoodMatching(E, P \ {p}, m)
  <2>1. P \ {p} \notin B
    <3>1. n - 1 \notin levels
      BY <1>3, <1>7
    <3> HIDE DEF p, B
    <3> QED
      BY <1>7, <3>1
  <2> QED
    BY <1>7, <2>1
<1>9. f[P] = [size |-> m.size + (IF Augmented(E, p, m.holder).found THEN 1 ELSE 0),
              holder |-> Augmented(E, p, m.holder).holder]
  BY <1>1, <1>5, <1>6 DEF MatchedBy
<1>10. GoodMatching(E, P, [size |-> m.size + (IF Augmented(E, p, m.holder).found THEN 1 ELSE 0),
                           holder |-> Augmented(E, p, m.holder).holder])
  <2> HIDE DEF m, p
  <2> QED
    BY <1>5, <1>7, <1>8, NextMatching
<1> QED
  BY <1>5, <1>9, <1>10

\* Independent edges are no more than the matched publishers: give each the
\* publisher that holds its document, where the document is in the closed part,
\* and its own publisher elsewhere.
LEMMA NoneIsLarger ==
    ASSUME NEW E, IsGraph(E), NEW m, GoodMatching(E, Publishers(E), m),
           NEW T \in SUBSET E, Independent(T)
    PROVE  IsFiniteSet(T) /\ Cardinality(T) <= m.size
<1> DEFINE h == m.holder
           H == Held(E, h)
<1>1. h \in Holders(E) /\ Legal(E, h) /\ Single(h, DocumentsOf(E)) /\ m.size = Cardinality(H)
  BY DEF GoodMatching
<1>2. PICK D \in SUBSET DocumentsOf(E) :
          /\ Shut(E, h, D) /\ \A q \in Publishers(E) \ H : Neighbours(E, q) \subseteq D
  BY DEF GoodMatching
<1> HIDE DEF h
<1> DEFINE g == [t \in T |-> IF t[2] \in D THEN h[t[2]] ELSE t[1]]
<1>3. \A t \in T : t[1] \in Publishers(E) /\ t[2] \in Neighbours(E, t[1])
  BY GraphIsFinite
<1>4. \A t \in T : t[2] \in D => h[t[2]] # None /\ Neighbours(E, h[t[2]]) \subseteq D
  BY <1>2 DEF Shut
<1>5. \A d \in DocumentsOf(E) : h[d] # None => h[d] \in H
  BY <1>1 DEF Held, Holders
<1>6. ASSUME NEW t \in T PROVE g[t] \in H
  <2>1. CASE t[2] \in D
    BY <1>4, <1>5, <2>1
  <2>2. CASE t[2] \notin D
    <3>1. ~ (Neighbours(E, t[1]) \subseteq D)
      BY <1>3, <2>2
    <3> QED
      BY <1>2, <1>3, <2>2, <3>1
  <2> QED
    BY <2>1, <2>2
<1>7. ASSUME NEW t \in T, NEW u \in T, t # u PROVE g[t] # g[u]
  <2>1. t[1] # u[1] /\ t[2] # u[2]
    BY <1>7 DEF Independent
  <2>2. CASE t[2] \in D /\ u[2] \in D
    <3>1. h[t[2]] # h[u[2]]
      BY <1>1, <1>4, <2>1, <2>2 DEF Single
    <3> QED
      BY <2>2, <3>1
  <2>3. CASE t[2] \in D /\ u[2] \notin D
    <3>1. h[t[2]] # u[1]
      BY <1>3, <1>4, <2>3
    <3> QED
      BY <2>3, <3>1
  <2>4. CASE t[2] \notin D /\ u[2] \in D
    <3>1. h[u[2]] # t[1]
      BY <1>3, <1>4, <2>4
    <3> QED
      BY <2>4, <3>1
  <2>5. CASE t[2] \notin D /\ u[2] \notin D
    BY <2>1, <2>5
  <2> QED
    BY <2>2, <2>3, <2>4, <2>5
<1>8. g \in [T -> H]
  BY <1>6
<1> HIDE DEF g
<1>9. g \in Injection(T, H)
  BY <1>7, <1>8 DEF Injection, IsInjective
<1>10. IsFiniteSet(H)
  <2>1. H \in SUBSET Publishers(E) /\ IsFiniteSet(Publishers(E))
    BY GraphIsFinite DEF Held
  <2> HIDE DEF H
  <2> QED
    BY <2>1, FS_Subset
<1> HIDE DEF H
<1> QED
  BY <1>1, <1>9, <1>10, FS_Injection

\* The matching itself is that large.
LEMMA OneIsAsLarge ==
    ASSUME NEW E, IsGraph(E), NEW m, GoodMatching(E, Publishers(E), m)
    PROVE  \E T \in SUBSET E : Independent(T) /\ Cardinality(T) = m.size
<1> DEFINE h == m.holder
           H == Held(E, h)
           docs == {d \in DocumentsOf(E) : h[d] # None}
           T == {<<h[d], d>> : d \in docs}
<1>1. h \in Holders(E) /\ Legal(E, h) /\ Single(h, DocumentsOf(E)) /\ m.size = Cardinality(H)
  BY DEF GoodMatching
<1> HIDE DEF h
<1>2. T \in SUBSET E
  BY <1>1 DEF Legal
<1>3. \A t \in T : t[2] \in docs /\ t[1] = h[t[2]] /\ t = <<t[1], t[2]>>
  OBVIOUS
<1>4. Independent(T)
  <2> HIDE DEF T
  <2> QED
    BY <1>1, <1>3 DEF Independent, Single
<1>5. IsFiniteSet(T) /\ Cardinality(T) <= m.size
  <2> HIDE DEF T
  <2> QED
    BY <1>2, <1>4, NoneIsLarger
<1> DEFINE g == [t \in T |-> t[1]]
<1>6. None \notin Publishers(E)
  BY GraphIsFinite
<1>7. g \in [T -> H]
  <2>1. \A t \in T : t[1] \in H
    BY <1>1, <1>3 DEF Held, Holders
  <2> QED
    BY <2>1
<1>8. \A q \in H : \E t \in T : g[t] = q
  <2> SUFFICES ASSUME NEW q \in H PROVE \E t \in T : g[t] = q
    OBVIOUS
  <2>1. PICK d \in DocumentsOf(E) : h[d] = q
    BY DEF Held
  <2>2. d \in docs
    BY <1>6, <2>1 DEF Held
  <2>3. <<h[d], d>> \in T
    BY <2>2
  <2>4. g[<<h[d], d>>] = q
    BY <2>1, <2>3
  <2> QED
    BY <2>3, <2>4
<1> HIDE DEF g, T, H
<1>9. g \in Surjection(T, H)
  BY <1>7, <1>8 DEF Surjection
<1>10. IsFiniteSet(H) /\ Cardinality(H) <= Cardinality(T)
  BY <1>5, <1>9, FS_Surjection
<1>11. Cardinality(H) \in Nat /\ Cardinality(T) \in Nat
  BY <1>5, <1>10, FS_CardinalityType
<1>12. Cardinality(T) = m.size
  BY <1>1, <1>5, <1>10, <1>11
<1> QED
  BY <1>2, <1>4, <1>12

\* Kuhn's algorithm finds as many independent voices as there are.
LEMMA MatchingIsLargest ==
    ASSUME NEW E, IsGraph(E)
    PROVE  MaximumMatching(E) = LargestIndependent(E)
<1> DEFINE f == CHOOSE g : IsMatching(E, g)
           m == f[Publishers(E)]
           sizes == {Cardinality(S) : S \in {T \in SUBSET E : Independent(T)}}
<1>1. IsMatching(E, f)
  BY MatchingExists
<1>2. MaximumMatching(E) = m.size
  BY MatchingIs
<1> HIDE DEF f
<1>3. GoodMatching(E, Publishers(E), m)
  BY <1>1, EveryMatchingIsGood
<1> HIDE DEF m
<1>4. \A n \in sizes : n <= m.size /\ n \in Nat
  BY <1>3, NoneIsLarger, FS_CardinalityType
<1>5. m.size \in sizes
  BY <1>3, OneIsAsLarge
<1>6. LargestIndependent(E) = Max(sizes)
  BY DEF LargestIndependent
<1> HIDE DEF sizes
<1>7. \A n \in sizes : m.size >= n
  BY <1>4, <1>5
<1>8. Max(sizes) \in sizes /\ \A n \in sizes : Max(sizes) >= n
  BY <1>5, <1>7, Zenon DEF Max
<1>9. Max(sizes) = m.size
  BY <1>4, <1>5, <1>7, <1>8
<1> QED
  BY <1>2, <1>6, <1>9

-----------------------------------------------------------------------------
(***************************************************************************)
(* Voices.                                                                 *)
(***************************************************************************)

\* Evidence is read in a body that a source answered with.
WellSourced(e) == e.source \in Sources /\ e.body \in DOMAIN Document

RowsSourced(tables) ==
    /\ \A l \in tables.links : WellSourced(l.evidence)
    /\ \A c \in tables.candidates : WellSourced(c.evidence)

AttemptSourced(t) ==
    /\ RowsSourced(t.own)
    /\ \A g \in ToSet(t.got) : g.source \in Sources
    /\ \A f \in t.observed : WellSourced(f.evidence)

SourcesInv == RowsSourced(db) /\ \A a \in Attempts : AttemptSourced(txn[a])

LEMMA SourcesOwn ==
    ASSUME TrailInv, SourcesInv, NEW a \in Attempts, NEW t, Set(a, t), db' = db, AttemptSourced(t)
    PROVE  SourcesInv'
<1>1. txn'[a] = t /\ \A b \in Attempts : b # a => txn'[b] = txn[b]
  BY DEF Set, TrailInv, Shapes
<1>2. \A b \in Attempts : AttemptSourced(txn'[b])
  BY <1>1 DEF SourcesInv
<1>3. RowsSourced(db')
  BY DEF SourcesInv
<1> QED
  BY <1>2, <1>3 DEF SourcesInv, AttemptSourced, RowsSourced, WellSourced

LEMMA NothingSourced ==
    ASSUME NEW t, t.own = NoRows, t.got = <<>>, t.observed = {}
    PROVE  AttemptSourced(t)
<1>1. NoRows.links = {} /\ NoRows.candidates = {} /\ ToSet(t.got) = {}
  BY DEF NoRows, ToSet
<1> QED
  BY <1>1 DEF AttemptSourced, RowsSourced

LEMMA SourcesInit == Init => SourcesInv
<1> SUFFICES ASSUME Init PROVE SourcesInv
  OBVIOUS
<1>1. Idle.own = NoRows /\ Idle.got = <<>> /\ Idle.observed = {}
  BY DEF Idle
<1>2. \A a \in Attempts : txn[a] = Idle
  BY DEF Init
<1>3. db.links = {} /\ db.candidates = {}
  BY DEF Init, NoRows
<1> QED
  BY <1>1, <1>2, <1>3, NothingSourced DEF SourcesInv, RowsSourced

LEMMA SourcesEnded ==
    ASSUME TrailInv, SourcesInv, NEW a \in Attempts, NEW outcome, Set(a, Ended(a, outcome)), db' = db
    PROVE  SourcesInv'
<1>1. /\ Ended(a, outcome).own = NoRows /\ Ended(a, outcome).got = <<>>
      /\ Ended(a, outcome).observed = {}
  BY DEF Ended, Idle
<1> QED
  BY <1>1, NothingSourced, SourcesOwn

LEMMA SourcesBegin ==
    ASSUME TrailInv, SourcesInv, NEW a \in Attempts, Begin(a)
    PROVE  SourcesInv'
<1> DEFINE t == [Idle EXCEPT !.stage = "fetching", !.at = clock + 1, !.version = version,
                             !.plan = Plan[a],
                             !.todo = [i \in DOMAIN Plan[a] |-> SourceRow(Plan[a][i])]]
<1>1. t.own = NoRows /\ t.got = <<>> /\ t.observed = {}
  BY DEF Idle
<1>2. Set(a, t) /\ db' = db
  BY DEF Begin
<1> HIDE DEF t
<1> QED
  BY <1>1, <1>2, NothingSourced, SourcesOwn

LEMMA SourcesFetch ==
    ASSUME TrailInv, SourcesInv, NEW a \in Attempts, Fetch(a)
    PROVE  SourcesInv'
<1> DEFINE old == txn[a]
           s == Head(old.plan)
           g == [source |-> s, body |-> Answer(s)[2]]
           got == IF Outcome(a, s) = "OK" THEN <<g>> ELSE <<>>
           todo == [i \in DOMAIN got |-> BodyRow(got[i])]
                   \o (IF Redirects(s) THEN <<SourceRow(Answering(s))>> ELSE <<>>)
           failed == old.failed \/ Answer(s)[1] # "body"
           own == [old.own EXCEPT !.fetches = @ \cup {Fetched(a, s)}, !.edges = @ \cup RedirectEdges(a, s)]
           t == [old EXCEPT !.plan = Tail(@), !.todo = todo, !.got = @ \o got, !.failed = failed,
                            !.own = own]
<1>1. Set(a, t) /\ db' = db /\ old.plan # <<>>
  BY DEF Fetch
<1>2. Shaped(old) /\ AttemptSourced(old)
  BY DEF TrailInv, Shapes, SourcesInv
<1>3. s \in Sources
  <2>1. old.plan \in Seq(Sources)
    BY <1>2 DEF Shaped
  <2> HIDE DEF old
  <2> QED
    BY <1>1, <2>1
<1> HIDE DEF s, g, todo, failed, old
<1>4. got \in Seq({g}) /\ ToSet(got) \subseteq {g} /\ g.source = s
  <2>1. CASE Outcome(a, s) = "OK"
    <3>1. got = <<g>> /\ DOMAIN got = {1} /\ got[1] = g
      BY <2>1
    <3> HIDE DEF got
    <3> QED
      BY <3>1 DEF ToSet, g
  <2>2. CASE Outcome(a, s) # "OK"
    <3>1. got = <<>>
      BY <2>2
    <3> HIDE DEF got
    <3> QED
      BY <3>1 DEF ToSet, g
  <2> QED
    BY <2>1, <2>2
<1> HIDE DEF got
<1>5. own.links = old.own.links /\ own.candidates = old.own.candidates
  <2>1. old.own = [table \in Tables |-> old.own[table]]
    BY <1>2 DEF Shaped
  <2> QED
    BY <2>1 DEF Tables
<1> HIDE DEF own
<1>6. t.own = own /\ t.got = old.got \o got /\ t.observed = old.observed
  BY <1>2 DEF Shaped, Fields
<1> HIDE DEF t
<1>7. ToSet(old.got \o got) = ToSet(old.got) \cup ToSet(got)
  <2> DEFINE G == ToSet(old.got) \cup {g}
  <2>1. old.got \in Seq(G) /\ got \in Seq(G)
    BY <1>2, <1>4 DEF Shaped
  <2> HIDE DEF G
  <2> QED
    BY <2>1, BothParts
<1>8. AttemptSourced(t)
  BY <1>2, <1>3, <1>4, <1>5, <1>6, <1>7 DEF AttemptSourced, RowsSourced
<1> QED
  BY <1>1, <1>8, SourcesOwn

\* What an attempt keeps of its tables, of what it got and of what it observed.
LEMMA SourcesKept ==
    ASSUME TrailInv, SourcesInv, NEW a \in Attempts, NEW t, Set(a, t), db' = db,
           t.own.links = txn[a].own.links, t.own.candidates = txn[a].own.candidates,
           t.got = txn[a].got, t.observed = txn[a].observed
    PROVE  SourcesInv'
<1>1. AttemptSourced(t)
  BY DEF SourcesInv, AttemptSourced, RowsSourced
<1> QED
  BY <1>1, SourcesOwn

LEMMA SourcesEndFetching ==
    ASSUME TrailInv, SourcesInv, NEW a \in Attempts, EndFetching(a)
    PROVE  SourcesInv'
<1> DEFINE got == txn[a].got
           todo == FlattenSeq([i \in DOMAIN got |-> RowsToRead(a, got[i])])
                   \o FlattenSeq([i \in DOMAIN got |-> DeclaredRows(got[i])])
           t == [txn[a] EXCEPT !.stage = "extracting", !.plan = <<>>, !.todo = todo]
<1>1. Set(a, t) /\ db' = db
  BY DEF EndFetching
<1> HIDE DEF todo
<1>2. t.own = txn[a].own /\ t.got = txn[a].got /\ t.observed = txn[a].observed
  BY DEF TrailInv, Shapes, Shaped, Fields
<1> HIDE DEF t, got
<1> QED
  BY <1>1, <1>2, SourcesKept

\* A reading is cited for a body the attempt got, and what cannot be asserted is
\* a candidate with that evidence.
LEMMA SourcesCited ==
    ASSUME TrailInv, SourcesInv, NEW a \in Attempts, txn[a].todo # <<>>, NEW row,
           row = Head(txn[a].todo), row.key[1] = "extraction", NEW said, NEW t,
           t.own.links = txn[a].own.links, t.got = txn[a].got,
           t.observed = txn[a].observed \cup (IF MustWait(row.extractor) THEN {} ELSE Found(a, row, said)),
           t.own.candidates = txn[a].own.candidates
               \cup (IF MustWait(row.extractor) THEN Found(a, row, said) ELSE {}),
           Set(a, t), db' = db
    PROVE  SourcesInv'
<1> DEFINE old == txn[a]
           found == Found(a, row, said)
<1>1. Shaped(old) /\ Working(a, old, Whole(db, old.own)) /\ AttemptSourced(old)
  BY DEF TrailInv, Shapes, AttemptsOK, AttemptOK, SourcesInv
<1>2. PICK g \in ToSet(old.got) : row.got = g
  <2>1. old.todo \in Seq(ToSet(old.todo))
    BY <1>1 DEF Shaped
  <2>2. Asked(row, old)
    BY <1>1, <2>1, NextAndRest DEF Working
  <2> QED
    BY <2>2 DEF Asked, Asks
<1>3. g.source \in Sources /\ g.body \in DOMAIN Document
  BY <1>1 DEF AttemptSourced, Working, Got
<1>4. \A o : WellSourced(Item(a, row, o))
  BY <1>2, <1>3 DEF WellSourced, Item
<1>5. \A f \in found : WellSourced(f.evidence)
  <2> SUFFICES ASSUME NEW f \in found PROVE WellSourced(f.evidence)
    OBVIOUS
  <2>1. PICK o \in said : f = [says |-> o, evidence |-> Item(a, row, o)]
    BY DEF Found
  <2>2. f.evidence = Item(a, row, o)
    BY <2>1
  <2> QED
    BY <1>4, <2>2
<1> HIDE DEF found
<1>6. AttemptSourced(t)
  <2>1. \A c \in t.own.candidates : c \in old.own.candidates \/ c \in found
    BY DEF found
  <2>2. \A f \in t.observed : f \in old.observed \/ f \in found
    BY DEF found
  <2> HIDE DEF old
  <2> QED
    BY <1>1, <1>5, <2>1, <2>2 DEF AttemptSourced, RowsSourced, old
<1> QED
  BY <1>6, SourcesOwn

LEMMA SourcesExtract ==
    ASSUME TrailInv, SourcesInv, NEW a \in Attempts, txn[a].todo # <<>>, NEW row,
           row = Head(txn[a].todo), row.key[1] = "extraction", Extract(a, row), db' = db
    PROVE  SourcesInv'
<1> DEFINE id == row.key[2]
           reused == Cite(a, row, Stored(a, id).says, "REUSED")
           says == Reading(row.extractor, TextRead(a, row.got.body))
           created == Cite(a, row, says, "CREATED")
           own == [created.own EXCEPT !.rows = @ \cup {row.key},
                                      !.extractions = @ \cup {[id |-> id, says |-> says]}]
           made == [created EXCEPT !.own = own]
<1>1. Shaped(txn[a])
  BY DEF TrailInv, Shapes
<1>2. CASE Set(a, Ended(a, "integrity")) \/ Set(a, Ended(a, "raised"))
  BY <1>2, SourcesEnded
<1>3. CASE Set(a, reused)
  <2>1. CitedAs(a, reused, row, Stored(a, id).says)
    BY <1>1, CiteIs
  <2> DEFINE said == Stored(a, id).says
  <2> HIDE DEF reused, said
  <2>2. /\ reused.own.links = txn[a].own.links /\ reused.got = txn[a].got
        /\ reused.observed = txn[a].observed
               \cup (IF MustWait(row.extractor) THEN {} ELSE Found(a, row, said))
        /\ reused.own.candidates = txn[a].own.candidates
               \cup (IF MustWait(row.extractor) THEN Found(a, row, said) ELSE {})
    BY <2>1 DEF CitedAs, said
  <2> QED
    BY <1>3, <2>2, SourcesCited
<1>4. CASE Set(a, made)
  <2>1. CitedAs(a, created, row, says)
    BY <1>1, CiteIs
  <2> HIDE DEF created, says
  <2>2. own.links = created.own.links /\ own.candidates = created.own.candidates
    BY <2>1 DEF CitedAs, Tables
  <2> HIDE DEF own
  <2>3. made.own = own /\ made.got = created.got /\ made.observed = created.observed
    BY <2>1 DEF CitedAs, Fields
  <2> HIDE DEF made
  <2>4. /\ made.own.links = txn[a].own.links /\ made.got = txn[a].got
        /\ made.observed = txn[a].observed
               \cup (IF MustWait(row.extractor) THEN {} ELSE Found(a, row, says))
        /\ made.own.candidates = txn[a].own.candidates
               \cup (IF MustWait(row.extractor) THEN Found(a, row, says) ELSE {})
    BY <2>1, <2>2, <2>3 DEF CitedAs
  <2> QED
    BY <1>4, <2>4, SourcesCited
<1>5. \/ Set(a, Ended(a, "integrity")) \/ Set(a, Ended(a, "raised")) \/ Set(a, reused)
      \/ Set(a, made)
  BY Zenon DEF Extract
<1> QED
  BY <1>2, <1>3, <1>4, <1>5

LEMMA SourcesInsert ==
    ASSUME TrailInv, SourcesInv, NEW a \in Attempts, Insert(a)
    PROVE  SourcesInv'
<1> DEFINE row == Head(txn[a].todo)
<1>1. txn[a].todo # <<>> /\ db' = db
  BY DEF Insert
<1>2. \/ Set(a, [txn[a] EXCEPT !.waiting = TRUE])
      \/ row.key[1] = "extraction" /\ Extract(a, row)
      \/ Share(a, row)
  BY DEF Insert
<1>3. Shaped(txn[a])
  BY DEF TrailInv, Shapes
<1>4. CASE Set(a, [txn[a] EXCEPT !.waiting = TRUE])
  <2> DEFINE t == [txn[a] EXCEPT !.waiting = TRUE]
  <2>1. t.own = txn[a].own /\ t.got = txn[a].got /\ t.observed = txn[a].observed
    BY <1>3 DEF Shaped, Fields
  <2>2. Set(a, t)
    BY <1>4
  <2> HIDE DEF t
  <2> QED
    BY <1>1, <2>1, <2>2, SourcesKept
<1>5. CASE row.key[1] = "extraction" /\ Extract(a, row)
  <2> HIDE DEF row
  <2> QED
    BY <1>1, <1>5, SourcesExtract DEF row
<1>6. CASE Share(a, row)
  <2> DEFINE stored == IF row.key[1] = "body" /\ row.key \notin Seen(a, "rows")
                       THEN {[body |-> row.got.body, at |-> txn[a].at]} ELSE {}
             emptied == IF row.key[1] = "artifact" /\ <<"text", row.got.body>> \in pruned
                        THEN {row.got.body} ELSE {}
             own == [txn[a].own EXCEPT !.rows = @ \cup ({row.key} \ db.rows), !.bodies = @ \cup stored]
             t == [txn[a] EXCEPT !.todo = Tail(@), !.waiting = FALSE, !.own = own, !.blank = @ \cup emptied]
  <2>1. Set(a, t)
    BY <1>6 DEF Share
  <2> HIDE DEF stored, emptied, row
  <2>2. own.links = txn[a].own.links /\ own.candidates = txn[a].own.candidates
    BY <1>3 DEF Shaped, Tables
  <2> HIDE DEF own
  <2>3. t.own = own /\ t.got = txn[a].got /\ t.observed = txn[a].observed
    BY <1>3 DEF Shaped, Fields
  <2> HIDE DEF t
  <2> QED
    BY <1>1, <2>1, <2>2, <2>3, SourcesKept
<1> QED
  BY <1>2, <1>4, <1>5, <1>6

\* Whatever evidence is asserted ends up linked, and nothing else does.
LEMMA AssertingKeepsSources ==
    ASSUME NEW S, S = [table \in Tables |-> S[table]], RowsSourced(S), NEW A,
           \A s \in A : \A e \in s.evidence : WellSourced(e), NEW T, T = AfterAsserting(S, A)
    PROVE  RowsSourced(T) /\ T = [table \in Tables |-> T[table]]
<1> DEFINE known == {c.id : c \in S.claims}
           new == {s \in A : s.id \notin known}
           created == {[id |-> s.id,
                        confidence |-> Derived(s.id.fact, s.evidence, s.id.rule # None)] : s \in new}
           linked == UNION {{[claim |-> s.id, evidence |-> e] : e \in s.evidence} : s \in A}
<1>1. T = [S EXCEPT !.claims = @ \cup created, !.links = @ \cup linked]
  BY DEF AfterAsserting
<1>2. \A l \in linked : WellSourced(l.evidence)
  <2> SUFFICES ASSUME NEW s \in A, NEW e \in s.evidence
               PROVE  WellSourced([claim |-> s.id, evidence |-> e].evidence)
    OBVIOUS
  <2>1. [claim |-> s.id, evidence |-> e].evidence = e
    OBVIOUS
  <2> QED
    BY <2>1
<1> HIDE DEF created, linked
<1>3. /\ T = [table \in Tables |-> T[table]] /\ T.links = S.links \cup linked
      /\ T.candidates = S.candidates
  BY <1>1 DEF Tables
<1> QED
  BY <1>2, <1>3 DEF RowsSourced

LEMMA SourcesAssert ==
    ASSUME TrailInv, SourcesInv, NEW a \in Attempts, AssertClaims(a)
    PROVE  SourcesInv'
<1> DEFINE old == txn[a]
           W == Together(a)
           assertions == Assertions(Company[a], old.observed)
           asserted == AfterAsserting(W, assertions)
           inference == Inferred(Company[a], asserted)
           inferred == AfterAsserting(asserted, inference)
           own == [old.own EXCEPT !.edges = @ \cup DeclaredEdges(a) \cup MirrorEdges(a),
                                  !.claims = inferred.claims \ db.claims,
                                  !.links = inferred.links \ db.links]
           t == [old EXCEPT !.stage = "asserted", !.own = own]
<1>0. db' = db /\ (Set(a, Ended(a, "divergence")) \/ Set(a, t))
  BY DEF AssertClaims
<1>1. Shaped(old) /\ AttemptSourced(old) /\ RowsSourced(db)
  BY DEF TrailInv, Shapes, SourcesInv
<1>2. W = [table \in Tables |-> W[table]] /\ RowsSourced(W)
  <2>1. W = Whole(db, old.own)
    BY TogetherIs
  <2>2. W = [table \in Tables |-> W[table]]
    BY <2>1 DEF Whole
  <2>3. W.links = db.links \cup old.own.links /\ W.candidates = db.candidates \cup old.own.candidates
    BY <2>1, WholeIs DEF Tables
  <2> HIDE DEF W
  <2> QED
    BY <1>1, <2>2, <2>3 DEF AttemptSourced, RowsSourced
<1>3. \A s \in assertions : \A e \in s.evidence : WellSourced(e)
  <2>1. \A f \in old.observed : WellSourced(f.evidence)
    BY <1>1 DEF AttemptSourced
  <2> DEFINE group(f) == {g \in old.observed : /\ g.says.key = f.says.key
                                               /\ g.says.value = f.says.value
                                               /\ g.says.unit = f.says.unit
                                               /\ g.says.fact = f.says.fact
                                               /\ Origin(g.evidence) = Origin(f.evidence)}
             of(f) == {g.evidence : g \in group(f)}
  <2>2. \A s \in assertions : \A e \in s.evidence : \E f \in old.observed : e = f.evidence
    <3> SUFFICES ASSUME NEW s \in assertions, NEW e \in s.evidence
                 PROVE  \E f \in old.observed : e = f.evidence
      OBVIOUS
    <3>1. PICK f \in old.observed :
              s = [id |-> Fingerprint(Company[a], f.says, of(f), None), evidence |-> of(f)]
      BY DEF Assertions
    <3>2. \A d \in of(f) : \E g \in old.observed : d = g.evidence
      OBVIOUS
    <3> HIDE DEF of, group, old
    <3> QED
      BY <3>1, <3>2
  <2> HIDE DEF assertions
  <2> QED
    BY <2>1, <2>2
<1> HIDE DEF W, assertions
<1>4. RowsSourced(asserted) /\ asserted = [table \in Tables |-> asserted[table]]
  BY <1>2, <1>3, AssertingKeepsSources
<1>5. \A s \in inference : \A e \in s.evidence : WellSourced(e)
  <2>1. \A s \in inference : \A e \in s.evidence : \E l \in asserted.links : e = l.evidence
    <3> HIDE DEF asserted
    <3> QED
      BY DEF Inferred, LinkedTo
  <2>2. \A l \in asserted.links : WellSourced(l.evidence)
    BY <1>4 DEF RowsSourced
  <2> HIDE DEF inference, asserted
  <2> QED
    BY <2>1, <2>2
<1> HIDE DEF asserted, inference
<1>6. RowsSourced(inferred)
  BY <1>4, <1>5, AssertingKeepsSources
<1> HIDE DEF inferred
<1>7. own.links = inferred.links \ db.links /\ own.candidates = old.own.candidates
  BY <1>1 DEF Shaped, Tables
<1> HIDE DEF own
<1>8. t.own = own /\ t.got = old.got /\ t.observed = old.observed
  BY <1>1 DEF Shaped, Fields
<1> HIDE DEF t
<1>9. AttemptSourced(t)
  BY <1>1, <1>6, <1>7, <1>8 DEF AttemptSourced, RowsSourced
<1> HIDE DEF old
<1> QED
  BY <1>0, <1>9, SourcesEnded, SourcesOwn

LEMMA SourcesCommit ==
    ASSUME TrailInv, SourcesInv, NEW a \in Attempts, Commit(a)
    PROVE  SourcesInv'
<1> DEFINE W == Whole(db, txn[a].own)
           outcome == IF txn[a].failed THEN "partial" ELSE "completed"
           t == Ended(a, outcome)
<1>1. db' = W /\ Set(a, t)
  BY TogetherIs DEF Commit
<1>2. /\ W.links = db.links \cup txn[a].own.links
      /\ W.candidates = db.candidates \cup txn[a].own.candidates
  BY WholeIs DEF Tables
<1> HIDE DEF W, outcome
<1>3. t.own = NoRows /\ t.got = <<>> /\ t.observed = {}
  BY DEF Ended, Idle
<1> HIDE DEF t
<1>4. AttemptSourced(t)
  BY <1>3, NothingSourced
<1>5. txn'[a] = t /\ \A b \in Attempts : b # a => txn'[b] = txn[b]
  BY <1>1 DEF Set, TrailInv, Shapes
<1>6. \A b \in Attempts : AttemptSourced(txn'[b])
  BY <1>4, <1>5 DEF SourcesInv
<1>7. RowsSourced(db')
  BY <1>1, <1>2 DEF SourcesInv, AttemptSourced, RowsSourced
<1> QED
  BY <1>6, <1>7 DEF SourcesInv, AttemptSourced, RowsSourced, WellSourced

LEMMA SourcesConfirm ==
    ASSUME TrailInv, SourcesInv, NEW c \in db.candidates, Confirm(c)
    PROVE  SourcesInv'
<1> DEFINE evidence == [c.evidence EXCEPT !.extraction = HumanId(c)]
           company == Company[c.evidence.attempt]
           assertion == [id |-> Fingerprint(company, c.says, {evidence}, None), evidence |-> {evidence}]
           reading == [id |-> HumanId(c), says |-> {c.says}]
           D == [db EXCEPT !.extractions = @ \cup {reading}, !.evidence = @ \cup {evidence}]
<1>1. db' = AfterAsserting(D, {assertion}) /\ txn' = txn
  BY DEF Confirm
<1>2. db = [table \in Tables |-> db[table]] /\ Proposed(c, db) /\ RowsSourced(db)
  BY DEF TrailInv, Shapes, CommittedOK, Sound, SourcesInv
<1>3. WellSourced(evidence)
  <2>1. evidence.source = c.evidence.source /\ evidence.body = c.evidence.body
    BY <1>2 DEF Proposed
  <2> HIDE DEF evidence
  <2> QED
    BY <1>2, <2>1 DEF RowsSourced, WellSourced
<1> HIDE DEF evidence, reading, company
<1>4. assertion.evidence = {evidence}
  OBVIOUS
<1> HIDE DEF assertion
<1>5. /\ D = [table \in Tables |-> D[table]] /\ D.links = db.links /\ D.candidates = db.candidates
  BY <1>2 DEF Tables
<1> HIDE DEF D
<1>6. RowsSourced(D)
  BY <1>2, <1>5 DEF RowsSourced
<1>7. RowsSourced(db')
  <2>1. \A s \in {assertion} : \A e \in s.evidence : WellSourced(e)
    BY <1>3, <1>4
  <2> QED
    BY <1>1, <1>5, <1>6, <2>1, AssertingKeepsSources
<1> QED
  BY <1>1, <1>7 DEF SourcesInv, AttemptSourced, RowsSourced, WellSourced

LEMMA SourcesStay ==
    ASSUME SourcesInv, db' = db, txn' = txn
    PROVE  SourcesInv'
BY DEF SourcesInv, AttemptSourced, RowsSourced, WellSourced

LEMMA SourcesStep ==
    ASSUME TrailInv, SourcesInv, [Next]_vars
    PROVE  SourcesInv'
<1>1. ASSUME NEW a \in Attempts, Begin(a) PROVE SourcesInv'
  BY <1>1, SourcesBegin
<1>2. ASSUME NEW a \in Attempts, Step(a) PROVE SourcesInv'
  <2>1. CASE DeadlockVictim(a)
    BY <2>1, SourcesEnded DEF DeadlockVictim, Abort
  <2> QED
    BY <1>2, <2>1, SourcesFetch, SourcesEndFetching, SourcesInsert, SourcesAssert, SourcesCommit DEF Step
<1>3. ASSUME NEW a \in Attempts, Crash(a) PROVE SourcesInv'
  BY <1>3, SourcesEnded DEF Crash, Abort
<1>4. ASSUME NEW c \in db.candidates, Confirm(c) PROVE SourcesInv'
  BY <1>4, SourcesConfirm
<1>5. ASSUME NEW asOf \in PruneDates, Prune(asOf) PROVE SourcesInv'
  BY <1>5, SourcesStay DEF Prune
<1>6. ASSUME NEW s \in Sources, PageChanges(s) PROVE SourcesInv'
  BY <1>6, SourcesStay DEF PageChanges
<1>7. CASE Deploy
  BY <1>7, SourcesStay DEF Deploy
<1>8. CASE UNCHANGED vars
  BY <1>8, SourcesStay DEF vars
<1> QED
  BY <1>1, <1>2, <1>3, <1>4, <1>5, <1>6, <1>7, <1>8 DEF Next

LEMMA SourcesAlways == Spec => []SourcesInv
<1>1. Init => SourcesInv
  BY SourcesInit
<1>2. TrailInv /\ SourcesInv /\ [Next]_vars => SourcesInv'
  BY SourcesStep
<1> QED
  BY <1>1, <1>2, TrailAlways, PTL DEF Spec

\* Evidence read from known sources speaks with finitely many numbered voices.
LEMMA VoicesAreGraph ==
    ASSUME NEW evidence, \A e \in evidence : WellSourced(e)
    PROVE  IsGraph({Voice(e) : e \in evidence})
<1> DEFINE voices == {Voice(e) : e \in evidence}
           publishers == [s \in Sources |-> Publisher[s]]
           artifacts == [b \in DOMAIN Document |-> Document[b].artifact]
           P == {publishers[s] : s \in Sources}
           D == {artifacts[b] : b \in DOMAIN Document}
<1>1. IsFiniteSet(P) /\ IsFiniteSet(D)
  <2>1. DOMAIN publishers = Sources /\ publishers = [s \in Sources |-> publishers[s]]
    OBVIOUS
  <2>2. DOMAIN artifacts = DOMAIN Document /\ artifacts = [b \in DOMAIN Document |-> artifacts[b]]
    OBVIOUS
  <2>3. IsFiniteSet(Sources) /\ IsFiniteSet(DOMAIN Document)
    BY TrailAssumption
  <2> HIDE DEF publishers, artifacts
  <2> QED
    BY <2>1, <2>2, <2>3, FinitelyMany
<1>2. \A e \in evidence : Voice(e) \in P \X D /\ Voice(e) \in Int \X Int
  <2> SUFFICES ASSUME NEW e \in evidence PROVE Voice(e) \in P \X D /\ Voice(e) \in Int \X Int
    OBVIOUS
  <2>1. e.source \in Sources /\ e.body \in DOMAIN Document
    BY DEF WellSourced
  <2>2. Publisher[e.source] \in P /\ Document[e.body].artifact \in D
    BY <2>1
  <2>3. Publisher[e.source] \in Int /\ Document[e.body].artifact \in Int
    BY <2>1, TrailAssumption
  <2> HIDE DEF P, D
  <2> QED
    BY <2>2, <2>3 DEF Voice
<1> HIDE DEF P, D
<1>3. voices \in SUBSET (P \X D) /\ voices \in SUBSET (Int \X Int)
  BY <1>2
<1>4. IsFiniteSet(voices)
  BY <1>1, <1>3, FS_Product, FS_Subset
<1>5. None \notin Int
  BY TrailAssumption
<1> HIDE DEF voices
<1>6. IsGraph(voices)
  BY <1>3, <1>4, <1>5 DEF IsGraph
<1> QED
  BY <1>6 DEF voices

\* The count of voices behind what is known of an attribute is the size of the
\* largest set of evidence in which no publisher and no document occurs twice:
\* Kuhn's search finds it, for whatever evidence there is and in whatever order
\* publishers and documents are sorted (independent_publisher_count).
THEOREM VoicesWitness == Spec => []VoicesAreWitnesses
<1>1. SourcesInv => VoicesAreWitnesses
  <2> SUFFICES ASSUME SourcesInv, NEW company, NEW key
               PROVE  LET edges == {Voice(e) : e \in EvidenceFor(company, key)}
                      IN  MaximumMatching(edges) = LargestIndependent(edges)
    BY Zenon DEF VoicesAreWitnesses
  <2>1. \A e \in EvidenceFor(company, key) : WellSourced(e)
    BY DEF EvidenceFor, LinkedTo, SourcesInv, RowsSourced
  <2>2. IsGraph({Voice(e) : e \in EvidenceFor(company, key)})
    BY <2>1, VoicesAreGraph
  <2> QED
    BY <2>2, MatchingIsLargest
<1> QED
  BY <1>1, SourcesAlways, PTL
=============================================================================
