------------------------- MODULE DiscoveryRunProofs -------------------------
(***************************************************************************)
(* Proofs about DiscoveryRun: type correctness, that what is stored of a   *)
(* record is all of it, that a completed run leaves nothing it saw         *)
(* undecided or unclaimed, that a rebuild that meets no other is refused   *)
(* for one of two reasons only, and that one that commits attributes every *)
(* claim to the company its entity is resolved to.                         *)
(***************************************************************************)
EXTENDS DiscoveryRun, FiniteSetTheorems, WellFoundedInduction, TLAPS

(***************************************************************************)
(* The inductive invariant, a part per idea.                               *)
(***************************************************************************)

\* The fields of a run and of a rebuild.
RunFields == {"at", "left", "next", "mine", "wrote", "versions", "plan", "decided", "cached",
              "claimed", "past"}
RebuildFields == {"at", "target", "dropped", "found", "gone", "locked", "heads", "rows", "alone"}

RunShape(x) == x = [f \in RunFields |-> x[f]]
RebuildShape(x) == x = [f \in RebuildFields |-> x[f]]

Shapes ==
    /\ run = [r \in Runs |-> run[r]]
    /\ rebuild = [b \in Rebuilds |-> rebuild[b]]
    /\ \A r \in Runs : RunShape(run[r])
    /\ \A b \in Rebuilds : RebuildShape(rebuild[b])

\* What a run has by the time it runs a statement.
Resolving == {"resolve", "write", "claim"}

PhaseOf(r) ==
    LET x == run[r] IN
    /\ x.at \in {"idle", "search", "ingest"} \cup Resolving \cup Over
    /\ x.at \in {"idle", "search"} \cup Over => x.wrote = {} /\ x.mine = {}
    /\ x.at \notin Resolving =>
          x.decided = {} /\ x.cached = {} /\ x.claimed = {} /\ x.versions = {}
    /\ x.at \in {"idle", "search"} => x.next = 1
    /\ x.at \in Resolving => x.mine = {} /\ x.versions \subseteq RunVersions(r)
    /\ x.at \in {"write", "claim"} => x.versions # {} /\ x.plan.entity = Version(r).entity

PhaseOK == \A r \in Runs : PhaseOf(r)

\* Decisions and rows of the projection as the constraints of their tables and
\* the types of the columns have them.
Decides(d) ==
    /\ d.kind \in Kinds /\ d.n \in Nat \ {0}
    /\ d.company \in Companies \cup {None}
    /\ d.company = None <=> d.kind \in {"AMBIGUOUS", "REJECTED"}

Projected(p) ==
    /\ p.by \in Rebuilds
    /\ p.row.company \in Companies
    /\ p.row.table \in Tables[1] \cup Tables[2]

RowsOK ==
    /\ \A d \in decisions : Decides(d)
    /\ \A p \in projection : Projected(p)
    /\ \A r \in Runs :
          /\ \A d \in run[r].decided : Decides(d)
          /\ run[r].at = "write" => Decides(run[r].plan)
    /\ \A b \in Rebuilds : \A p \in rebuild[b].rows : Projected(p)
    /\ reviews \in 0..MaxReviews
    /\ situation \in Situations

\* The decisions about an entity are numbered 1, 2, ..., m.
On(S, entity) == {d \in S : d.entity = entity}

InOrder(S) ==
    /\ \E m \in Nat : {d.n : d \in S} = 1..m
    /\ \A d, e \in S : d.n = e.n => d = e

Decided(r) == decisions \cup run[r].decided

\* The decision about to be written is the next one, or one that somebody has
\* committed since; the latter only while the run has none of its own on the
\* entity, which would keep others from it.
Planned(r) ==
    LET d == run[r].plan IN
    /\ d.n = 1 \/ \E e \in On(Decided(r), d.entity) : e.n = d.n - 1
    /\ On(run[r].decided, d.entity) # {} =>
          \A e \in On(Decided(r), d.entity) : e.n < d.n

NumbersOf(r) ==
    /\ IsFiniteSet(run[r].decided)
    /\ \A entity : InOrder(On(Decided(r), entity))
    /\ \A d \in run[r].decided : d.entity \in run[r].cached /\ d \notin decisions
    /\ run[r].at = "write" => Planned(r)

NumbersOK ==
    /\ IsFiniteSet(decisions)
    /\ \A entity : InOrder(On(decisions, entity))
    /\ \A r \in Runs : NumbersOf(r)

\* The stages of a rebuild before it has selected the heads, and after it has
\* inserted their rows.
Deleting ==
    {"delete profiles", "await profiles", "delete others", "await others", "heads", "lock"}
Inserting == {"load", "insert", "inserted"}

\* A head row is held by one transaction.  While a rebuild holds one, what it
\* selected is the head to everybody.
HeadsOf(b) ==
    LET x == rebuild[b] IN
    /\ \A entity \in x.locked : \A r \in Runs : entity \notin run[r].cached
    /\ \A d \in x.heads : d.entity \in x.locked =>
          d \in decisions /\ \A e \in On(decisions, d.entity) : e.n <= d.n
    /\ x.at \in Deleting => x.heads = {}
    /\ x.at \in Inserting => \A d \in x.heads : d.entity \in x.locked

HeadsOK ==
    /\ \A r, s \in Runs : r # s => run[r].cached \cap run[s].cached = {}
    /\ \A b \in Rebuilds : HeadsOf(b)

\* Claims, committed or not, have ids of their own.
AllBatches == batches \cup UNION {run[r].claimed : r \in Runs}

ClaimsOK ==
    /\ \A b, c \in AllBatches : b.id = c.id => b = c
    /\ \A b \in AllBatches : b.id \in BatchIds /\ b.version.entity.provider \in DOMAIN Providers

\* Rows of records that are whole.
StoredIn(S, table, k) == {l \in S : l.table = table /\ l.entity = k.entity /\ l.content = k.content}

Whole(S) ==
    \A k \in S :
        /\ k.table \in {"entity", "version", "body", "sighting", "normalization"}
        /\ k.entity.provider \in DOMAIN Providers
        /\ k.table # "entity" => StoredIn(S, "version", k) # {}
        /\ k.table = "version" =>
              \A table \in {"body", "sighting", "normalization"} : StoredIn(S, table, k) # {}
        /\ \E l \in S : l.table = "version" /\ l.entity = k.entity
        /\ Key("entity", k.entity, None, None) \in S

\* What a run has inserted of the record at hand.
Begun(r) ==
    LET rows == RowsOf(r, Head(run[r].left)) IN
    /\ run[r].next \in 1..5
    /\ run[r].mine \subseteq {rows[i] : i \in 1..5}
    /\ \A i \in 1..5 : i < run[r].next => rows[i] \in Visible(r)

RecordsOf(r) ==
    /\ Whole(evidence \cup run[r].wrote)
    /\ run[r].at = "ingest" => IF run[r].left = <<>> THEN run[r].mine = {} ELSE Begun(r)
    /\ \A b \in run[r].claimed :
          StoredIn(evidence \cup run[r].wrote, "normalization", b.version) # {}

RecordsOK ==
    /\ Whole(evidence)
    /\ \A b \in batches : StoredIn(evidence, "normalization", b.version) # {}
    /\ \A r \in Runs : RecordsOf(r)

\* A version the run is through with: unresolved, or claimed under a decision
\* that was in force when the run began, or later.
Handled(r, v) ==
    \E d \in Decided(r) \ run[r].past :
        /\ d.entity = v.entity
        /\ d.company = None \/ \E b \in batches \cup run[r].claimed : b.version = v /\ b.n = d.n

SightingsOf(r) ==
    /\ \A k \in run[r].wrote \cup run[r].mine : k.table = "sighting" => k.of = r
    /\ \A d \in run[r].past : d \in decisions /\ \E e \in On(decisions, d.entity) : e.n > d.n
    /\ run[r].at = "claim" => run[r].plan \in Decided(r) \ run[r].past
    /\ run[r].at \in Resolving => \A v \in RunVersions(r) \ run[r].versions : Handled(r, v)

SightingsOK ==
    /\ \A k \in evidence : k.table = "sighting" => k.of \in Runs /\ run[k.of].at = "done"
    /\ \A r \in Runs : SightingsOf(r)
    /\ NothingIsStranded

\* Rows that a rebuild derived: they keep out of one another's way, and each
\* claim they come from is of an entity resolved to their company.
Derived(b) ==
    /\ \A p, q \in rebuild[b].rows : p # q => ~Collide(p.row, q.row)
    /\ \A p \in rebuild[b].rows : \A id \in p.row.from :
          \E c \in batches :
              /\ c.id = id
              /\ \A d \in rebuild[b].heads : d.entity = c.version.entity => d.company = p.row.company

\* What a rebuild that met no other has emptied, and found of the head rows.
Of(tables) == {p \in projection : p.row.table \in tables}

Emptied(b) ==
    LET x == rebuild[b] IN
    /\ x.at = "await profiles" => x.target = Of(Tables[1])
    /\ x.at \in {"delete others", "await others"} => Of(Tables[1]) \subseteq x.dropped
    /\ x.at = "await others" => x.target = Of(Tables[2])
    /\ x.at \in {"heads", "lock", "reinsert"} \cup Inserting => projection \subseteq x.dropped
    /\ x.gone = {}
    /\ x.at = "reinsert" => x.found \subseteq x.locked

RebuildOf(b) ==
    /\ rebuild[b].at \in {"insert", "inserted"} => Derived(b)
    /\ rebuild[b].alone /\ IsOpen(rebuild[b]) =>
          /\ \A c \in Rebuilds : IsOpen(rebuild[c]) => c = b
          /\ Emptied(b)

RebuildsOK == LoneRefusalIsExplained /\ \A b \in Rebuilds : RebuildOf(b)

DiscoveryInv == /\ Shapes /\ PhaseOK /\ RowsOK /\ NumbersOK /\ HeadsOK /\ ClaimsOK
                /\ RecordsOK /\ SightingsOK /\ RebuildsOK

-----------------------------------------------------------------------------
(***************************************************************************)
(* Numbers.                                                                *)
(***************************************************************************)

\* A set of numbers has a least one.
LEMMA LeastNumber ==
    ASSUME NEW S \in SUBSET Nat, S # {}
    PROVE  \E x \in S : \A y \in S : x <= y
<1> DEFINE R == {ss \in Nat \X Nat : ss[1] < ss[2]}
<1>1. IsWellFoundedOn(R, Nat)
  BY NatLessThanWellFounded DEF OpToRel
<1> HIDE DEF R
<1>2. PICK x \in S : \A y \in S : ~ (<<y, x>> \in R)
  BY <1>1, WFMin
<1>3. \A y \in S : ~ (y < x)
  BY <1>2 DEF R
<1> QED
  BY <1>3

\* A bounded one has a greatest one.
LEMMA GreatestNumber ==
    ASSUME NEW S \in SUBSET Nat, S # {}, NEW b \in Nat, \A x \in S : x <= b
    PROVE  \E x \in S : \A y \in S : y <= x
<1> DEFINE T == {b - x : x \in S}
<1>0. ASSUME NEW x \in S PROVE b - x \in Nat
  <2>1. x \in Nat /\ x <= b
    OBVIOUS
  <2> QED
    BY <2>1
<1>1. T \in SUBSET Nat /\ T # {}
  BY <1>0
<1>2. PICK t \in T : \A u \in T : t <= u
  BY <1>1, LeastNumber
<1>3. PICK x \in S : t = b - x
  BY <1>2
<1>4. ASSUME NEW y \in S PROVE y <= x
  <2>1. t <= b - y
    BY <1>2
  <2> QED
    BY <2>1, <1>3
<1> QED
  BY <1>4

-----------------------------------------------------------------------------
(***************************************************************************)
(* Precedence.                                                             *)
(***************************************************************************)

\* The claims the stages of discovery write can be ranked.
Ranked(c) == c.fact \in {"FACT", "ESTIMATE", "INFERENCE"} /\ c.tier \in 0..1000 /\ c.id \in Nat

LEMMA KeyOfClaim ==
    ASSUME NEW c, Ranked(c)
    PROVE  /\ PrecedenceKey(c) = <<PrecedenceKey(c)[1], PrecedenceKey(c)[2], PrecedenceKey(c)[3]>>
           /\ PrecedenceKey(c)[1] \in 0..1000
           /\ PrecedenceKey(c)[2] \in 0..1000
           /\ PrecedenceKey(c)[3] \in 0..1000
<1>1. FactRank[c.fact] \in 0..1000
  BY DEF Ranked, FactRank
<1>2. (IF c.human THEN 1 ELSE 0) \in 0..1000
  OBVIOUS
<1> QED
  BY <1>1, <1>2 DEF Ranked, PrecedenceKey

LEMMA PartOfKey ==
    ASSUME NEW c, Ranked(c), NEW i \in 1..3
    PROVE  PrecedenceKey(c)[i] \in Nat /\ PrecedenceKey(c)[i] <= 1000
<1>1. PrecedenceKey(c)[i] \in 0..1000
  <2>1. i = 1 \/ i = 2 \/ i = 3
    OBVIOUS
  <2> QED
    BY <2>1, KeyOfClaim
<1>2. PICK x \in 0..1000 : PrecedenceKey(c)[i] = x
  BY <1>1
<1>3. x \in Nat /\ x <= 1000
  OBVIOUS
<1> QED
  BY <1>2, <1>3

\* The claims of a group whose part i of the key is the greatest.
Strongest(group, i) ==
    {w \in group : \A d \in group : PrecedenceKey(d)[i] <= PrecedenceKey(w)[i]}

LEMMA SomeAreStrongest ==
    ASSUME NEW group, group # {}, \A c \in group : Ranked(c), NEW i \in 1..3
    PROVE  Strongest(group, i) # {} /\ Strongest(group, i) \subseteq group
<1> DEFINE S == {PrecedenceKey(c)[i] : c \in group}
<1>2. \A x \in S : x \in Nat /\ x <= 1000
  BY PartOfKey
<1>3. S # {} /\ \A c \in group : PrecedenceKey(c)[i] \in S
  OBVIOUS
<1>4. \A x \in S : \E c \in group : x = PrecedenceKey(c)[i]
  OBVIOUS
<1> HIDE DEF S
<1>5. PICK x \in S : \A y \in S : y <= x
  <2>1. PICK b \in Nat : b = 1000
    OBVIOUS
  <2>2. S \in SUBSET Nat /\ S # {} /\ \A x \in S : x <= b
    BY <1>2, <1>3, <2>1
  <2> QED
    BY <2>2, GreatestNumber
<1>6. PICK w \in group : x = PrecedenceKey(w)[i]
  BY <1>4, <1>5
<1> QED
  BY <1>3, <1>5, <1>6 DEF Strongest

\* One claim of a group wins, whatever the others say.
LEMMA WinnerIsOne ==
    ASSUME NEW group, group # {}, \A c \in group : Ranked(c),
           \A c, d \in group : c.id = d.id => c = d
    PROVE  Winner(group) \in group
<1> DEFINE K(c) == PrecedenceKey(c)
<1> DEFINE A == Strongest(group, 1)
<1> DEFINE B == Strongest(A, 2)
<1> DEFINE C == Strongest(B, 3)
<1>1. A # {} /\ A \subseteq group
  BY SomeAreStrongest
<1> HIDE DEF A
<1>2. B # {} /\ B \subseteq A
  BY <1>1, SomeAreStrongest
<1> HIDE DEF B
<1>3. C # {} /\ C \subseteq B
  BY <1>1, <1>2, SomeAreStrongest
<1> HIDE DEF C
<1> DEFINE I == {c.id : c \in C}
<1>4. I \in SUBSET Nat /\ I # {}
  BY <1>1, <1>2, <1>3 DEF Ranked
<1>5. PICK least \in I : \A j \in I : least <= j
  BY <1>4, LeastNumber
<1>6. PICK w \in C : w.id = least
  BY <1>5
<1>7. ASSUME NEW d \in group, d # w
      PROVE  Outranks(w, d) \/ (K(w) = K(d) /\ w.id < d.id)
  <2>1. /\ w \in group /\ Ranked(w) /\ Ranked(d)
    BY <1>1, <1>2, <1>3
  <2>0. ASSUME NEW i \in 1..3 PROVE K(w)[i] \in Nat /\ K(d)[i] \in Nat
    BY <2>1, PartOfKey
  <2>2. CASE K(d)[1] # K(w)[1]
    <3>1. K(w)[1] > K(d)[1]
      <4>1. w \in A
        BY <1>2, <1>3
      <4>2. K(d)[1] <= K(w)[1]
        BY <4>1 DEF A, Strongest
      <4> QED
        BY <2>0, <2>2, <4>2
    <3> QED
      BY <3>1 DEF Outranks
  <2>3. CASE K(d)[1] = K(w)[1] /\ K(d)[2] # K(w)[2]
    <3>1. w \in A /\ w \in B
      BY <1>2, <1>3
    <3>2. d \in A
      BY <2>3, <3>1 DEF A, Strongest
    <3>3. K(d)[2] <= K(w)[2]
      BY <3>1, <3>2 DEF B, Strongest
    <3>4. K(w)[2] > K(d)[2]
      BY <2>0, <2>3, <3>3
    <3>5. \A j \in 1..(2 - 1) : K(w)[j] = K(d)[j]
      BY <2>3
    <3> QED
      BY <3>4, <3>5 DEF Outranks
  <2>4. CASE K(d)[1] = K(w)[1] /\ K(d)[2] = K(w)[2] /\ K(d)[3] # K(w)[3]
    <3>1. w \in A /\ w \in B /\ w \in C
      BY <1>2, <1>3
    <3>2. d \in A
      BY <2>4, <3>1 DEF A, Strongest
    <3>3. d \in B
      BY <2>4, <3>1, <3>2 DEF B, Strongest
    <3>4. K(d)[3] <= K(w)[3]
      BY <3>1, <3>3 DEF C, Strongest
    <3>5. K(w)[3] > K(d)[3]
      BY <2>0, <2>4, <3>4
    <3>6. \A j \in 1..(3 - 1) : K(w)[j] = K(d)[j]
      <4>1. \A j \in 1..2 : j = 1 \/ j = 2
        OBVIOUS
      <4> QED
        BY <2>4, <4>1
    <3> QED
      BY <3>5, <3>6 DEF Outranks
  <2>5. CASE K(d)[1] = K(w)[1] /\ K(d)[2] = K(w)[2] /\ K(d)[3] = K(w)[3]
    <3>1. K(d) = K(w)
      BY <2>1, <2>5, KeyOfClaim
    <3>2. d \in C
      <4>1. w \in A /\ w \in B
        BY <1>2, <1>3
      <4>2. d \in A
        BY <2>5, <4>1 DEF A, Strongest
      <4>3. d \in B
        BY <2>5, <4>1, <4>2 DEF B, Strongest
      <4> QED
        BY <2>5, <4>3 DEF C, Strongest
    <3>3. w.id <= d.id /\ w.id # d.id
      BY <1>5, <1>6, <1>7, <2>1, <3>2
    <3> QED
      BY <2>1, <3>1, <3>3 DEF Ranked
  <2> QED
    BY <2>2, <2>3, <2>4, <2>5
<1>8. w \in group
  BY <1>1, <1>2, <1>3
<1>9. \E c \in group : \A d \in group \ {c} :
          Outranks(c, d) \/ (PrecedenceKey(c) = PrecedenceKey(d) /\ c.id < d.id)
  BY <1>7, <1>8
<1> QED
  BY <1>9 DEF Winner

-----------------------------------------------------------------------------
(***************************************************************************)
(* The rows of the projection.                                             *)
(***************************************************************************)

\* Claims that are written together have an id, and one a key.
Claims(claims) ==
    /\ \A c \in claims : Ranked(c) /\ c.company \in Companies
    /\ \A c, d \in claims : c.id = d.id /\ c.key = d.key => c = d

OwnClaims(claims, company) == {c \in claims : c.company = company}

CompanyRows(claims, company) ==
    {ProfileRow(company, OwnClaims(claims, company))}
        \cup NameRows(company, OwnClaims(claims, company))
        \cup DomainRows(claims, company)
        \cup PresenceRows(company, OwnClaims(claims, company))

LEMMA RowsByCompany ==
    ASSUME NEW claims, NEW row \in Projection(claims)
    PROVE  \E company \in {c.company : c \in claims} : row \in CompanyRows(claims, company)
BY DEF Projection, CompanyRows, OwnClaims

\* A row is of its company and comes from claims about it.
LEMMA RowComesFrom ==
    ASSUME NEW claims, Claims(claims), NEW company, NEW row \in CompanyRows(claims, company)
    PROVE  /\ row.company = company
           /\ row.table \in {"profile", "name", "domain", "presence"}
           /\ \A id \in row.from : \E c \in claims : c.id = id /\ c.company = company
<1> DEFINE own == OwnClaims(claims, company)
<1>1. \A c \in own : c \in claims /\ c.company = company /\ Ranked(c)
  BY DEF OwnClaims, Claims
<1>2. ASSUME NEW key, NEW S \in SUBSET About(own, key), S # {}
      PROVE  \E c \in own : c.id = Winner(S).id
  <2>1. \A c \in S : Ranked(c) /\ c.key = key /\ c \in claims /\ c \in own
    BY <1>1 DEF About
  <2>2. \A c, d \in S : c.id = d.id => c = d
    BY <2>1 DEF Claims
  <2>3. Winner(S) \in S
    BY <1>2, <2>1, <2>2, WinnerIsOne
  <2> QED
    BY <2>1, <2>3
<1>3. CASE row = ProfileRow(company, own)
  <2> DEFINE names == About(own, "legal_name")
  <2> DEFINE staff == About(own, "employee_count")
  <2> DEFINE homes == {c \in About(own, "domain") : c.value.role = "IDENTITY"}
  <2>1. row.company = company /\ row.table = "profile"
        /\ row.from = (IF names = {} THEN {} ELSE {Winner(names).id})
                          \cup (IF homes = {} THEN {} ELSE {Winner(homes).id}) \cup Ids(staff)
    BY <1>3 DEF ProfileRow, Row
  <2>2. names # {} => \E c \in own : c.id = Winner(names).id
    BY <1>2
  <2>3. homes # {} => \E c \in own : c.id = Winner(homes).id
    <3>1. homes \in SUBSET About(own, "domain")
      OBVIOUS
    <3> HIDE DEF homes
    <3> QED
      BY <1>2, <3>1
  <2>4. \A id \in Ids(staff) : \E c \in own : c.id = id
    BY DEF Ids, About
  <2> HIDE DEF names, staff, homes
  <2>5. ASSUME NEW id \in row.from PROVE \E c \in own : c.id = id
    BY <2>1, <2>2, <2>3, <2>4
  <2> QED
    BY <1>1, <2>1, <2>5
<1>4. CASE row \in NameRows(company, own)
  <2>1. PICK n : row = Row("name", company, n,
             Ids({c \in About(own, "legal_name") : c.value.name = n}), [type |-> "LEGAL"])
    BY <1>4 DEF NameRows
  <2> QED
    BY <1>1, <2>1 DEF Row, Ids, About
<1>5. CASE row \in DomainRows(claims, company)
  <2> DEFINE mine == {c \in About(claims, "domain") : c.company = company}
  <2>1. PICK d : row = Row("domain", company, d, Ids({c \in mine : c.value.domain = d}),
                           [role |-> DomainRole(claims, company, d)])
    BY <1>5 DEF DomainRows
  <2> QED
    BY <2>1 DEF Row, Ids, About
<1>6. CASE row \in PresenceRows(company, own)
  <2>1. PICK m : row = Row("presence", company, m,
             Ids({c \in About(own, "market_presence") : c.value.market = m}), [type |-> "OPERATES"])
    BY <1>6 DEF PresenceRows
  <2> QED
    BY <1>1, <2>1 DEF Row, Ids, About
<1> QED
  BY <1>3, <1>4, <1>5, <1>6 DEF CompanyRows

\* What a row of a company says follows from its table and key.
RowOf(claims, company, table, key) ==
    LET own == OwnClaims(claims, company) IN
    IF table = "profile" THEN ProfileRow(company, own)
    ELSE IF table = "name"
    THEN Row("name", company, key,
             Ids({c \in About(own, "legal_name") : c.value.name = key}), [type |-> "LEGAL"])
    ELSE IF table = "domain"
    THEN Row("domain", company, key,
             Ids({c \in {o \in About(claims, "domain") : o.company = company} : c.value.domain = key}),
             [role |-> DomainRole(claims, company, key)])
    ELSE Row("presence", company, key,
             Ids({c \in About(own, "market_presence") : c.value.market = key}),
             [type |-> "OPERATES"])

LEMMA RowByKey ==
    ASSUME NEW claims, NEW company, NEW row \in CompanyRows(claims, company)
    PROVE  row = RowOf(claims, company, row.table, row.key)
<1> DEFINE own == OwnClaims(claims, company)
<1>1. CASE row = ProfileRow(company, own)
  <2>1. row.table = "profile"
    BY <1>1 DEF ProfileRow, Row
  <2> QED
    BY <1>1, <2>1 DEF RowOf
<1>2. CASE row \in NameRows(company, own)
  <2>1. PICK n : row = Row("name", company, n,
             Ids({c \in About(own, "legal_name") : c.value.name = n}), [type |-> "LEGAL"])
    BY <1>2 DEF NameRows
  <2>2. row.table = "name" /\ row.key = n
    BY <2>1 DEF Row
  <2> QED
    BY <2>1, <2>2 DEF RowOf
<1>3. CASE row \in DomainRows(claims, company)
  <2>1. PICK d : row = Row("domain", company, d,
             Ids({c \in {o \in About(claims, "domain") : o.company = company} : c.value.domain = d}),
             [role |-> DomainRole(claims, company, d)])
    BY <1>3 DEF DomainRows
  <2>2. row.table = "domain" /\ row.key = d
    BY <2>1 DEF Row
  <2> QED
    BY <2>1, <2>2 DEF RowOf
<1>4. CASE row \in PresenceRows(company, own)
  <2>1. PICK m : row = Row("presence", company, m,
             Ids({c \in About(own, "market_presence") : c.value.market = m}), [type |-> "OPERATES"])
    BY <1>4 DEF PresenceRows
  <2>2. row.table = "presence" /\ row.key = m
    BY <2>1 DEF Row
  <2> QED
    BY <2>1, <2>2 DEF RowOf
<1> QED
  BY <1>1, <1>2, <1>3, <1>4 DEF CompanyRows

\* No two rows of a projection are in each other's way: of the companies that
\* claim a domain as their identity one keeps it.
LEMMA RowsKeepApart ==
    ASSUME NEW claims, Claims(claims),
           NEW p \in Projection(claims), NEW q \in Projection(claims), Collide(p, q)
    PROVE  p = q
<1>1. PICK x \in {c.company : c \in claims} : p \in CompanyRows(claims, x)
  BY RowsByCompany
<1>2. PICK y \in {c.company : c \in claims} : q \in CompanyRows(claims, y)
  BY RowsByCompany
<1>3. p.company = x /\ q.company = y
  BY <1>1, <1>2, RowComesFrom
<1>4. p = RowOf(claims, x, p.table, p.key) /\ q = RowOf(claims, y, q.table, q.key)
  BY <1>1, <1>2, RowByKey
<1>5. CASE PrimaryKey(p) = PrimaryKey(q)
  <2>1. p.table = q.table /\ p.company = q.company /\ p.key = q.key
    BY <1>5 DEF PrimaryKey
  <2> QED
    BY <1>3, <1>4, <2>1
<1>6. CASE /\ p.table = "domain" /\ q.table = "domain" /\ p.key = q.key
           /\ p.says.role = "IDENTITY" /\ q.says.role = "IDENTITY"
  <2>1. /\ p.says.role = DomainRole(claims, x, p.key)
        /\ q.says.role = DomainRole(claims, y, p.key)
    BY <1>4, <1>6 DEF RowOf, Row
  <2>2. /\ ClaimsIdentity(claims, x, p.key) /\ ClaimsIdentity(claims, y, p.key)
        /\ \A c \in claims : c.company < x => ~ClaimsIdentity(claims, c.company, p.key)
        /\ \A c \in claims : c.company < y => ~ClaimsIdentity(claims, c.company, p.key)
    BY <1>6, <2>1 DEF DomainRole
  <2>3. x \in Nat /\ y \in Nat
    <3>1. \A c \in claims : c.company \in Nat
      BY DiscoveryAssumption DEF Claims
    <3> QED
      BY <3>1
  <2>4. ~(x < y) /\ ~(y < x)
    BY <2>2
  <2>5. x = y
    BY <2>3, <2>4
  <2> QED
    BY <1>4, <1>6, <2>5
<1> QED
  BY <1>5, <1>6 DEF Collide

-----------------------------------------------------------------------------
(***************************************************************************)
(* Heads.                                                                  *)
(***************************************************************************)

LEMMA HeadIsGreatest ==
    ASSUME NEW rows, NEW entity, InOrder(On(rows, entity))
    PROVE  LET head == HeadOf(rows, entity) IN
           /\ On(rows, entity) = {} => head = Undecided
           /\ On(rows, entity) # {} => head \in On(rows, entity)
           /\ head.n \in Nat
           /\ {d.n : d \in On(rows, entity)} = 1 .. head.n
           /\ \A d \in On(rows, entity) : d.n \in Nat /\ d.n <= head.n
<1> DEFINE own == On(rows, entity)
<1> DEFINE head == HeadOf(rows, entity)
<1>1. PICK m \in Nat : {d.n : d \in own} = 1 .. m
  BY DEF InOrder
<1>2. \A d \in own : d.n \in 1 .. m
  BY <1>1
<1>3. CASE own = {}
  <2>1. head = Undecided
    BY <1>3 DEF HeadOf, On
  <2>2. head.n = 0 /\ 1 .. 0 = {}
    BY <2>1 DEF Undecided
  <2> QED
    BY <1>3, <2>1, <2>2
<1>4. CASE own # {}
  <2>1. m \in 1 .. m
    BY <1>2, <1>4
  <2>2. PICK g \in own : g.n = m
    BY <1>1, <2>1
  <2>3. \A e \in own : e.n <= g.n
    BY <1>2, <2>2
  <2>4. head = CHOOSE d \in own : \A e \in own : e.n <= d.n
    BY <1>4 DEF HeadOf, On
  <2>5. head \in own /\ \A e \in own : e.n <= head.n
    <3> HIDE DEF own, head
    <3> QED
      BY <2>2, <2>3, <2>4
  <2>6. head.n = m
    BY <1>2, <2>2, <2>5
  <2> QED
    BY <1>1, <1>2, <1>4, <2>5, <2>6
<1> QED
  BY <1>3, <1>4

\* The head is whichever row has the greatest number.
LEMMA OneGreatest ==
    ASSUME NEW rows, NEW entity, InOrder(On(rows, entity)),
           NEW d \in On(rows, entity), \A e \in On(rows, entity) : e.n <= d.n
    PROVE  d = HeadOf(rows, entity)
<1>1. HeadOf(rows, entity) \in On(rows, entity)
  BY HeadIsGreatest
<1>2. d.n <= HeadOf(rows, entity).n /\ HeadOf(rows, entity).n <= d.n
  BY <1>1, HeadIsGreatest
<1>3. d.n \in Nat /\ HeadOf(rows, entity).n \in Nat
  BY HeadIsGreatest
<1>4. d.n = HeadOf(rows, entity).n
  BY <1>2, <1>3
<1> QED
  BY <1>1, <1>4 DEF InOrder

\* A row that has the next number keeps the order.
LEMMA NextInOrder ==
    ASSUME NEW S, InOrder(S), NEW d, d.n \in Nat \ {0}, \A e \in S : e.n # d.n,
           d.n = 1 \/ \E e \in S : e.n = d.n - 1
    PROVE  InOrder(S \cup {d})
<1>1. PICK m \in Nat : {e.n : e \in S} = 1 .. m
  BY DEF InOrder
<1>2. d.n \notin 1 .. m
  BY <1>1
<1>3. d.n = 1 \/ d.n - 1 \in 1 .. m
  BY <1>1
<1>4. d.n = m + 1
  BY <1>2, <1>3
<1>5. {e.n : e \in S \cup {d}} = 1 .. (m + 1)
  <2>1. {e.n : e \in S \cup {d}} = {e.n : e \in S} \cup {d.n}
    OBVIOUS
  <2>2. 1 .. (m + 1) = (1 .. m) \cup {m + 1}
    OBVIOUS
  <2> QED
    BY <1>1, <1>4, <2>1, <2>2
<1> QED
  BY <1>5 DEF InOrder

\* There are as many rows as the greatest number says.
LEMMA NumbersAreFew ==
    ASSUME NEW D, IsFiniteSet(D), NEW S \in SUBSET D, InOrder(S)
    PROVE  \A d \in S : d.n \in 1 .. Cardinality(D)
<1>1. PICK m \in Nat : {d.n : d \in S} = 1 .. m
  BY DEF InOrder
<1> DEFINE f == [n \in 1 .. m |-> CHOOSE d \in S : d.n = n]
<1>2. \A n \in 1 .. m : \E d \in S : d.n = n
  BY <1>1
<1>3. \A n \in 1 .. m : f[n] \in S /\ f[n].n = n
  BY <1>2
<1>4. f \in [1 .. m -> D]
  BY <1>3
<1> HIDE DEF f
<1>5. f \in Injection(1 .. m, D)
  BY <1>3, <1>4 DEF Injection, IsInjective
<1>6. Cardinality(1 .. m) <= Cardinality(D)
  BY <1>5, FS_Injection
<1>7. Cardinality(1 .. m) = m
  <2>1. m \in Int /\ 1 \in Int
    OBVIOUS
  <2>2. Cardinality(1 .. m) = IF 1 > m THEN 0 ELSE m - 1 + 1
    BY <2>1, FS_Interval
  <2> QED
    BY <2>2
<1>8. Cardinality(D) \in Nat
  BY FS_CardinalityType
<1>9. \A d \in S : d.n \in 1 .. m
  BY <1>1
<1> QED
  BY <1>6, <1>7, <1>8, <1>9

-----------------------------------------------------------------------------
(***************************************************************************)
(* What the statements of a run do.                                        *)
(***************************************************************************)

\* The tables, and the fields of a run, that many statements leave alone.
KeepsTables == UNCHANGED <<evidence, decisions, batches>>
KeepsRecord(r) ==
    /\ run'[r].left = run[r].left /\ run'[r].next = run[r].next
    /\ run'[r].mine = run[r].mine /\ run'[r].wrote = run[r].wrote
KeepsDecisions(r) == run'[r].decided = run[r].decided /\ run'[r].cached = run[r].cached
KeepsClaims(r) == run'[r].claimed = run[r].claimed

\* Only this run moves.
Mover(r) ==
    /\ \A s \in Runs \ {r} : run'[s] = run[s]
    /\ UNCHANGED <<situation, projection, rebuild, reviews>>
    /\ Shapes'

LEMMA RunMoves ==
    ASSUME Shapes, NEW r \in Runs, NEW x, RunShape(x), Set(r, x),
           UNCHANGED <<situation, projection, rebuild, reviews>>
    PROVE  Mover(r) /\ run'[r] = x
<1>1. run = [s \in Runs |-> run[s]]
  BY DEF Shapes
<1>2. run' = [s \in Runs |-> IF s = r THEN x ELSE run[s]]
  BY <1>1 DEF Set
<1>3. run'[r] = x /\ \A s \in Runs \ {r} : run'[s] = run[s]
  BY <1>2
<1>4. run' = [s \in Runs |-> run'[s]]
  BY <1>2
<1>5. \A s \in Runs : RunShape(run'[s])
  BY <1>3 DEF Shapes
<1>6. Shapes'
  BY <1>4, <1>5 DEF Shapes, RebuildShape
<1> QED
  BY <1>3, <1>6 DEF Mover

\* The ways in which a run ends with nothing, and in which it loses a record.
Fails(r) ==
    /\ IsOpen(run[r])
    /\ \E why \in {"refused", "crashed"} : RollBack(r, why)
    /\ UNCHANGED <<situation, evidence, decisions, batches, projection, rebuild, reviews>>

Skips(r) ==
    /\ run[r].at = "ingest" /\ run[r].left # <<>>
    /\ Set(r, SkipRecord(r))
    /\ UNCHANGED <<situation, evidence, decisions, batches, projection, rebuild, reviews>>

\* The statements that have two outcomes, one by one.
GoesOn(r) == SearchFails(r) /\ Ask(r).allow_partial

InsertsRow(r) == Insert(r) /\ run[r].next < Len(RowsOf(r, Head(run[r].left)))
InsertsLast(r) == Insert(r) /\ ~(run[r].next < Len(RowsOf(r, Head(run[r].left))))

SeesHead(r) == SeenHead(r, Version(r).entity)

Concludes(r) ==
    Conclusions(r, Version(r).entity, Candidate(Version(r).content, Ask(r).normalizer))

Keeps(r) ==
    /\ run[r].at = "resolve" /\ run[r].versions # {}
    /\ SeesHead(r).kind # "UNDECIDED"
    /\ Set(r, [run[r] EXCEPT !.at = "claim", !.plan = SeesHead(r)])
    /\ UNCHANGED <<situation, evidence, decisions, batches, projection, rebuild, reviews>>

Plans(r) ==
    /\ run[r].at = "resolve" /\ run[r].versions # {}
    /\ \E conclusion \in Concludes(r) :
          Set(r, [run[r] EXCEPT !.at = "write",
                                !.plan = Successor(Version(r).entity, SeesHead(r), conclusion)])
    /\ UNCHANGED <<situation, evidence, decisions, batches, projection, rebuild, reviews>>

Passes(r) ==
    /\ run[r].at = "claim"
    /\ \/ run[r].plan.company = None
       \/ IsClaimed(batches \cup run[r].claimed, Version(r), run[r].plan)
    /\ Set(r, NextVersion(r))
    /\ UNCHANGED <<situation, evidence, decisions, batches, projection, rebuild, reviews>>

Claimed(r) ==
    /\ run[r].at = "claim"
    /\ \E id \in BatchIds :
          /\ \A b \in AllBatches : b.id # id
          /\ Set(r, [NextVersion(r) EXCEPT !.claimed = @ \cup {Batch(r, id, Version(r), run[r].plan)}])
    /\ UNCHANGED <<situation, evidence, decisions, batches, projection, rebuild, reviews>>

\* A conclusion names a company unless it leaves the entity unresolved.
LEMMA ConclusionIsSound ==
    ASSUME RowsOK, NEW r \in Runs, NEW entity, NEW candidate,
           NEW conclusion \in Conclusions(r, entity, candidate)
    PROVE  /\ conclusion[1] \in {"AMBIGUOUS", "MATCHED", "CREATED_NEW"}
           /\ conclusion[2] \in Companies \cup {None}
           /\ conclusion[2] = None <=> conclusion[1] = "AMBIGUOUS"
<1>1. \A d : ByDomain(d) \subseteq Companies
  BY DEF RowsOK, Projected, ByDomain
<1>2. None \notin Companies
  BY DiscoveryAssumption
<1>3. \/ conclusion = <<"AMBIGUOUS", None>>
      \/ conclusion \in {"MATCHED"} \X Companies
      \/ conclusion \in {"CREATED_NEW"} \X Companies
  BY <1>1 DEF Conclusions, Namesake
<1>4. ASSUME NEW kind, conclusion \in {kind} \X Companies
      PROVE  conclusion[1] = kind /\ conclusion[2] \in Companies
  BY <1>4
<1>5. CASE conclusion = <<"AMBIGUOUS", None>>
  BY <1>5
<1>6. CASE conclusion \in {"MATCHED"} \X Companies
  BY <1>2, <1>4, <1>6
<1>7. CASE conclusion \in {"CREATED_NEW"} \X Companies
  BY <1>2, <1>4, <1>7
<1> QED
  BY <1>3, <1>5, <1>6, <1>7

\* Each statement of a run is one of these.
RunDoes(r) ==
    \/ Begin(r) \/ Search(r) \/ GoesOn(r) \/ Fails(r) \/ Skips(r)
    \/ InsertsRow(r) \/ InsertsLast(r) \/ Fetched(r)
    \/ Keeps(r) \/ Plans(r) \/ Write(r) \/ Passes(r) \/ Claimed(r) \/ Commit(r)

\* A process in a deadlock waits for another one.
LEMMA DeadlockedWaits ==
    ASSUME NEW p, IsDeadlocked(p)
    PROVE  WaitsFor(p) # {}
<1>1. {} \in SUBSET Processes
  OBVIOUS
<1> QED
  BY <1>1 DEF IsDeadlocked

LEMMA RunStepDoes ==
    ASSUME RowsOK, NEW r \in Runs, RunStep(r)
    PROVE  RunDoes(r)
<1>1. CASE SearchFails(r)
  BY <1>1 DEF SearchFails, RunDoes, GoesOn, Fails, IsOpen, Over
<1>2. CASE Refuse(r)
  BY <1>2 DEF Refuse, RunDoes, Skips
<1>3. CASE Insert(r)
  BY <1>3 DEF RunDoes, InsertsRow, InsertsLast
<1>4. CASE Resolve(r)
  <2>1. CASE IsSettled(SeesHead(r))
    BY <1>4, <2>1 DEF Resolve, SeesHead, RunDoes, Keeps, IsSettled
  <2>2. CASE ~IsSettled(SeesHead(r))
    <3>1. PICK conclusion \in Concludes(r) :
             IF conclusion = <<SeesHead(r).kind, SeesHead(r).company>>
               THEN Set(r, [run[r] EXCEPT !.at = "claim", !.plan = SeesHead(r)])
               ELSE Set(r, [run[r] EXCEPT !.at = "write",
                               !.plan = Successor(Version(r).entity, SeesHead(r), conclusion)])
      BY <1>4, <2>2 DEF Resolve, SeesHead, Concludes
    <3>2. CASE conclusion = <<SeesHead(r).kind, SeesHead(r).company>>
      <4>1. conclusion[1] # "UNDECIDED"
        BY <3>1, ConclusionIsSound DEF Concludes
      <4>2. SeesHead(r).kind # "UNDECIDED"
        BY <3>2, <4>1
      <4>3. Keeps(r)
        BY <1>4, <3>1, <3>2, <4>2 DEF Resolve, Keeps
      <4> QED
        BY <4>3 DEF RunDoes
    <3>3. CASE conclusion # <<SeesHead(r).kind, SeesHead(r).company>>
      <4>1. Plans(r)
        BY <1>4, <3>1, <3>3 DEF Resolve, Plans
      <4> QED
        BY <4>1 DEF RunDoes
    <3> QED
      BY <3>2, <3>3
  <2> QED
    BY <2>1, <2>2
<1>5. CASE Claim(r)
  <2>1. CASE \/ run[r].plan.company = None
             \/ IsClaimed(batches \cup run[r].claimed, Version(r), run[r].plan)
    <3>1. Passes(r)
      BY <1>5, <2>1 DEF Claim, Passes
    <3> QED
      BY <3>1 DEF RunDoes
  <2>2. CASE /\ run[r].plan.company # None
             /\ ~IsClaimed(batches \cup run[r].claimed, Version(r), run[r].plan)
    <3>1. CASE ~Validates(Candidate(Version(r).content, Ask(r).normalizer).staff)
      <4>1. Fails(r)
        BY <1>5, <2>2, <3>1 DEF Claim, Fails, IsOpen, Over
      <4> QED
        BY <4>1 DEF RunDoes
    <3>2. CASE Validates(Candidate(Version(r).content, Ask(r).normalizer).staff)
      <4>1. PICK id \in BatchIds \ ({b.id : b \in batches}
                              \cup UNION {{b.id : b \in run[s].claimed} : s \in Runs}) :
               Set(r, [NextVersion(r) EXCEPT !.claimed = @ \cup {Batch(r, id, Version(r), run[r].plan)}])
        BY <1>5, <2>2, <3>2 DEF Claim
      <4>2. ASSUME NEW b \in AllBatches PROVE b.id # id
        BY <4>1 DEF AllBatches
      <4>3. Claimed(r)
        BY <1>5, <4>1, <4>2 DEF Claim, Claimed
      <4> QED
        BY <4>3 DEF RunDoes
    <3> QED
      BY <3>1, <3>2
  <2> QED
    BY <2>1, <2>2
<1>6. CASE DeadlockVictim(r)
  <2>1. WaitsFor(r) # {} /\ r \notin Rebuilds
    BY <1>6, DeadlockedWaits, DiscoveryAssumption DEF DeadlockVictim
  <2>2. IsIngesting(r) \/ run[r].at = "write"
    BY <2>1 DEF WaitsFor
  <2>3. CASE run[r].at = "ingest"
    <3>1. Skips(r)
      BY <1>6, <2>2, <2>3 DEF DeadlockVictim, IsIngesting, Skips
    <3> QED
      BY <3>1 DEF RunDoes
  <2>4. CASE run[r].at # "ingest"
    <3>1. Fails(r)
      BY <1>6, <2>2, <2>4 DEF DeadlockVictim, IsIngesting, Fails, IsOpen, Over
    <3> QED
      BY <3>1 DEF RunDoes
  <2> QED
    BY <2>3, <2>4
<1>7. CASE Crash(r)
  BY <1>7 DEF Crash, RunDoes, Fails
<1> QED
  BY <1>1, <1>2, <1>3, <1>4, <1>5, <1>6, <1>7 DEF RunStep, RunDoes

LEMMA BeginDoes ==
    ASSUME Shapes, NEW r \in Runs, Begin(r)
    PROVE  /\ Mover(r)
           /\ KeepsTables /\ KeepsRecord(r) /\ KeepsDecisions(r) /\ KeepsClaims(r)
           /\ run[r].at = "idle" /\ run'[r].at = "search"
           /\ run'[r].versions = run[r].versions
           /\ run'[r].past = {d \in decisions : \E e \in decisions : e.entity = d.entity /\ e.n > d.n}
<1> DEFINE x == [run[r] EXCEPT !.at = "search",
                  !.past = {d \in decisions : \E e \in decisions : e.entity = d.entity /\ e.n > d.n}]
<1>1. Set(r, x) /\ UNCHANGED <<situation, evidence, decisions, batches, projection, rebuild, reviews>>
  BY DEF Begin
<1>2. RunShape(run[r])
  BY DEF Shapes
<1>3. RunShape(x)
  BY <1>2 DEF RunShape, RunFields
<1>4. Mover(r) /\ run'[r] = x
  BY <1>1, <1>3, RunMoves
<1> QED
  BY <1>1, <1>2, <1>4 DEF Begin, RunShape, RunFields, KeepsTables, KeepsRecord, KeepsDecisions, KeepsClaims

LEMMA SearchDoes ==
    ASSUME Shapes, NEW r \in Runs, Search(r)
    PROVE  /\ Mover(r)
           /\ KeepsTables /\ KeepsDecisions(r) /\ KeepsClaims(r)
           /\ run[r].at = "search" /\ run'[r].at = "ingest"
           /\ run'[r].next = run[r].next /\ run'[r].mine = run[r].mine /\ run'[r].wrote = run[r].wrote
           /\ run'[r].versions = run[r].versions /\ run'[r].past = run[r].past
<1> DEFINE x == [run[r] EXCEPT !.at = "ingest",
                  !.left = SubSeq(Ask(r).offers, 1, IF Len(Ask(r).offers) > PageSize
                                                      THEN PageSize ELSE Len(Ask(r).offers))]
<1>1. Set(r, x) /\ UNCHANGED <<situation, evidence, decisions, batches, projection, rebuild, reviews>>
  BY DEF Search
<1>2. RunShape(run[r])
  BY DEF Shapes
<1>3. RunShape(x)
  BY <1>2 DEF RunShape, RunFields
<1>4. Mover(r) /\ run'[r] = x
  BY <1>1, <1>3, RunMoves
<1> QED
  BY <1>1, <1>2, <1>4 DEF Search, RunShape, RunFields, KeepsTables, KeepsRecord, KeepsDecisions, KeepsClaims

LEMMA GoesOnDoes ==
    ASSUME Shapes, NEW r \in Runs, GoesOn(r)
    PROVE  /\ Mover(r)
           /\ KeepsTables /\ KeepsRecord(r) /\ KeepsDecisions(r) /\ KeepsClaims(r)
           /\ run[r].at = "search" /\ run'[r].at = "resolve"
           /\ run'[r].versions = run[r].versions /\ run'[r].past = run[r].past
<1> DEFINE x == [run[r] EXCEPT !.at = "resolve"]
<1>1. Set(r, x) /\ UNCHANGED <<situation, evidence, decisions, batches, projection, rebuild, reviews>>
  BY DEF GoesOn, SearchFails
<1>2. RunShape(run[r])
  BY DEF Shapes
<1>3. RunShape(x)
  BY <1>2 DEF RunShape, RunFields
<1>4. Mover(r) /\ run'[r] = x
  BY <1>1, <1>3, RunMoves
<1> QED
  BY <1>1, <1>2, <1>4 DEF GoesOn, SearchFails, RunShape, RunFields, KeepsTables, KeepsRecord, KeepsDecisions, KeepsClaims

LEMMA SkipsDoes ==
    ASSUME Shapes, NEW r \in Runs, Skips(r)
    PROVE  /\ Mover(r)
           /\ KeepsTables /\ KeepsDecisions(r) /\ KeepsClaims(r)
           /\ run[r].at = "ingest" /\ run'[r].at = "ingest"
           /\ run'[r].next = 1 /\ run'[r].mine = {} /\ run'[r].wrote = run[r].wrote
           /\ run'[r].versions = run[r].versions /\ run'[r].past = run[r].past
<1> DEFINE x == SkipRecord(r)
<1>1. Set(r, x) /\ UNCHANGED <<situation, evidence, decisions, batches, projection, rebuild, reviews>>
  BY DEF Skips, SkipRecord
<1>2. RunShape(run[r])
  BY DEF Shapes
<1>3. RunShape(x)
  BY <1>2 DEF RunShape, RunFields, SkipRecord
<1>4. Mover(r) /\ run'[r] = x
  BY <1>1, <1>3, RunMoves
<1> QED
  BY <1>1, <1>2, <1>4 DEF Skips, SkipRecord, RunShape, RunFields, KeepsTables, KeepsRecord, KeepsDecisions, KeepsClaims

LEMMA InsertsRowDoes ==
    ASSUME Shapes, NEW r \in Runs, InsertsRow(r)
    PROVE  /\ Mover(r)
           /\ KeepsTables /\ KeepsDecisions(r) /\ KeepsClaims(r)
           /\ run[r].at = "ingest" /\ run'[r].at = "ingest" /\ run[r].left # <<>>
           /\ run[r].next < Len(RowsOf(r, Head(run[r].left)))
           /\ run'[r].left = run[r].left /\ run'[r].next = run[r].next + 1
           /\ run'[r].mine = run[r].mine \cup ({NextRow(r)} \ Visible(r))
           /\ run'[r].wrote = run[r].wrote
           /\ run'[r].versions = run[r].versions /\ run'[r].past = run[r].past
<1> DEFINE x == [run[r] EXCEPT !.next = @ + 1,
                              !.mine = run[r].mine \cup ({NextRow(r)} \ Visible(r))]
<1>1. Set(r, x) /\ UNCHANGED <<situation, evidence, decisions, batches, projection, rebuild, reviews>>
  BY DEF InsertsRow, Insert, IsIngesting
<1>2. RunShape(run[r])
  BY DEF Shapes
<1>3. RunShape(x)
  BY <1>2 DEF RunShape, RunFields
<1>4. Mover(r) /\ run'[r] = x
  BY <1>1, <1>3, RunMoves
<1> QED
  BY <1>1, <1>2, <1>4 DEF InsertsRow, Insert, IsIngesting, RunShape, RunFields, KeepsTables, KeepsRecord, KeepsDecisions, KeepsClaims

LEMMA InsertsLastDoes ==
    ASSUME Shapes, NEW r \in Runs, InsertsLast(r)
    PROVE  /\ Mover(r)
           /\ KeepsTables /\ KeepsDecisions(r) /\ KeepsClaims(r)
           /\ run[r].at = "ingest" /\ run'[r].at = "ingest" /\ run[r].left # <<>>
           /\ ~(run[r].next < Len(RowsOf(r, Head(run[r].left))))
           /\ run'[r].next = 1 /\ run'[r].mine = {}
           /\ run'[r].wrote = run[r].wrote \cup (run[r].mine \cup ({NextRow(r)} \ Visible(r)))
           /\ run'[r].versions = run[r].versions /\ run'[r].past = run[r].past
<1> DEFINE x == [run[r] EXCEPT !.next = 1, !.left = Tail(@), !.mine = {},
                              !.wrote = @ \cup (run[r].mine \cup ({NextRow(r)} \ Visible(r)))]
<1>1. Set(r, x) /\ UNCHANGED <<situation, evidence, decisions, batches, projection, rebuild, reviews>>
  BY DEF InsertsLast, Insert, IsIngesting
<1>2. RunShape(run[r])
  BY DEF Shapes
<1>3. RunShape(x)
  BY <1>2 DEF RunShape, RunFields
<1>4. Mover(r) /\ run'[r] = x
  BY <1>1, <1>3, RunMoves
<1> QED
  BY <1>1, <1>2, <1>4 DEF InsertsLast, Insert, IsIngesting, RunShape, RunFields, KeepsTables, KeepsRecord, KeepsDecisions, KeepsClaims

LEMMA FetchedDoes ==
    ASSUME Shapes, NEW r \in Runs, Fetched(r)
    PROVE  /\ Mover(r)
           /\ KeepsTables /\ KeepsRecord(r) /\ KeepsDecisions(r) /\ KeepsClaims(r)
           /\ run[r].at = "ingest" /\ run[r].left = <<>> /\ run'[r].at = "resolve"
           /\ run'[r].versions = RunVersions(r) /\ run'[r].past = run[r].past
<1> DEFINE x == [run[r] EXCEPT !.at = "resolve", !.versions = RunVersions(r)]
<1>1. Set(r, x) /\ UNCHANGED <<situation, evidence, decisions, batches, projection, rebuild, reviews>>
  BY DEF Fetched
<1>2. RunShape(run[r])
  BY DEF Shapes
<1>3. RunShape(x)
  BY <1>2 DEF RunShape, RunFields
<1>4. Mover(r) /\ run'[r] = x
  BY <1>1, <1>3, RunMoves
<1> QED
  BY <1>1, <1>2, <1>4 DEF Fetched, RunShape, RunFields, KeepsTables, KeepsRecord, KeepsDecisions, KeepsClaims

LEMMA KeepsDoes ==
    ASSUME Shapes, NEW r \in Runs, Keeps(r)
    PROVE  /\ Mover(r)
           /\ KeepsTables /\ KeepsRecord(r) /\ KeepsDecisions(r) /\ KeepsClaims(r)
           /\ run[r].at = "resolve" /\ run'[r].at = "claim" /\ run[r].versions # {}
           /\ run'[r].plan = SeesHead(r) /\ SeesHead(r).kind # "UNDECIDED"
           /\ run'[r].versions = run[r].versions /\ run'[r].past = run[r].past
<1> DEFINE x == [run[r] EXCEPT !.at = "claim", !.plan = SeesHead(r)]
<1>1. Set(r, x) /\ UNCHANGED <<situation, evidence, decisions, batches, projection, rebuild, reviews>>
  BY DEF Keeps
<1>2. RunShape(run[r])
  BY DEF Shapes
<1>3. RunShape(x)
  BY <1>2 DEF RunShape, RunFields
<1>4. Mover(r) /\ run'[r] = x
  BY <1>1, <1>3, RunMoves
<1> QED
  BY <1>1, <1>2, <1>4 DEF Keeps, RunShape, RunFields, KeepsTables, KeepsRecord, KeepsDecisions, KeepsClaims

LEMMA PassesDoes ==
    ASSUME Shapes, NEW r \in Runs, Passes(r)
    PROVE  /\ Mover(r)
           /\ KeepsTables /\ KeepsRecord(r) /\ KeepsDecisions(r) /\ KeepsClaims(r)
           /\ run[r].at = "claim" /\ run'[r].at = "resolve"
           /\ \/ run[r].plan.company = None
              \/ IsClaimed(batches \cup run[r].claimed, Version(r), run[r].plan)
           /\ run'[r].versions = run[r].versions \ {Version(r)} /\ run'[r].past = run[r].past
<1> DEFINE x == NextVersion(r)
<1>1. Set(r, x) /\ UNCHANGED <<situation, evidence, decisions, batches, projection, rebuild, reviews>>
  BY DEF Passes, NextVersion
<1>2. RunShape(run[r])
  BY DEF Shapes
<1>3. RunShape(x)
  BY <1>2 DEF RunShape, RunFields, NextVersion
<1>4. Mover(r) /\ run'[r] = x
  BY <1>1, <1>3, RunMoves
<1> QED
  BY <1>1, <1>2, <1>4 DEF Passes, NextVersion, RunShape, RunFields, KeepsTables, KeepsRecord, KeepsDecisions, KeepsClaims

LEMMA PlansDoes ==
    ASSUME Shapes, NEW r \in Runs, Plans(r)
    PROVE  /\ Mover(r)
           /\ KeepsTables /\ KeepsRecord(r) /\ KeepsDecisions(r) /\ KeepsClaims(r)
           /\ run[r].at = "resolve" /\ run'[r].at = "write" /\ run[r].versions # {}
           /\ \E conclusion \in Concludes(r) :
                 run'[r].plan = Successor(Version(r).entity, SeesHead(r), conclusion)
           /\ run'[r].versions = run[r].versions /\ run'[r].past = run[r].past
<1>1. PICK conclusion \in Concludes(r) :
         Set(r, [run[r] EXCEPT !.at = "write",
                               !.plan = Successor(Version(r).entity, SeesHead(r), conclusion)])
  BY DEF Plans
<1> DEFINE x == [run[r] EXCEPT !.at = "write",
                               !.plan = Successor(Version(r).entity, SeesHead(r), conclusion)]
<1>2. UNCHANGED <<situation, evidence, decisions, batches, projection, rebuild, reviews>>
      /\ run[r].at = "resolve" /\ run[r].versions # {}
  BY DEF Plans
<1>3. RunShape(run[r])
  BY DEF Shapes
<1>4. RunShape(x)
  BY <1>3 DEF RunShape, RunFields
<1>5. Mover(r) /\ run'[r] = x
  BY <1>1, <1>2, <1>4, RunMoves
<1> QED
  BY <1>2, <1>3, <1>5 DEF RunShape, RunFields, KeepsTables, KeepsRecord, KeepsDecisions, KeepsClaims

\* What a run writes: its plan, or nothing when another decision has the place.
Outcome(r) ==
    IF \E d \in decisions : d.entity = run[r].plan.entity /\ d.n = run[r].plan.n
      THEN HeadOf(decisions, run[r].plan.entity) ELSE run[r].plan

LEMMA WriteDoes ==
    ASSUME Shapes, NEW r \in Runs, Write(r)
    PROVE  /\ Mover(r)
           /\ KeepsTables /\ KeepsRecord(r) /\ KeepsClaims(r)
           /\ run[r].at = "write" /\ run'[r].at = "claim"
           /\ HeadHolders(run[r].plan.entity) \ {r} = {}
           /\ run'[r].plan = Outcome(r)
           /\ run'[r].decided = run[r].decided \cup ({Outcome(r)} \ decisions)
           /\ run'[r].cached = run[r].cached \cup {run[r].plan.entity}
           /\ run'[r].versions = run[r].versions /\ run'[r].past = run[r].past
<1> DEFINE x == [run[r] EXCEPT !.at = "claim", !.plan = Outcome(r),
                               !.decided = @ \cup ({Outcome(r)} \ decisions),
                               !.cached = @ \cup {run[r].plan.entity}]
<1>1. Set(r, x) /\ UNCHANGED <<situation, evidence, decisions, batches, projection, rebuild, reviews>>
  BY DEF Write, Outcome
<1>2. RunShape(run[r])
  BY DEF Shapes
<1>3. RunShape(x)
  BY <1>2 DEF RunShape, RunFields
<1>4. Mover(r) /\ run'[r] = x
  BY <1>1, <1>3, RunMoves
<1>5. run[r].at = "write" /\ HeadHolders(run[r].plan.entity) \ {r} = {}
  BY DEF Write
<1> QED
  BY <1>1, <1>2, <1>4, <1>5 DEF RunShape, RunFields, KeepsTables, KeepsRecord, KeepsClaims

LEMMA ClaimedDoes ==
    ASSUME Shapes, NEW r \in Runs, Claimed(r)
    PROVE  /\ Mover(r)
           /\ KeepsTables /\ KeepsRecord(r) /\ KeepsDecisions(r)
           /\ run[r].at = "claim" /\ run'[r].at = "resolve"
           /\ \E id \in BatchIds :
                 /\ \A b \in AllBatches : b.id # id
                 /\ run'[r].claimed = run[r].claimed \cup {Batch(r, id, Version(r), run[r].plan)}
           /\ run'[r].versions = run[r].versions \ {Version(r)} /\ run'[r].past = run[r].past
<1>1. PICK id \in BatchIds :
          /\ \A b \in AllBatches : b.id # id
          /\ Set(r, [NextVersion(r) EXCEPT !.claimed = @ \cup {Batch(r, id, Version(r), run[r].plan)}])
  BY DEF Claimed
<1> DEFINE x == [NextVersion(r) EXCEPT !.claimed = @ \cup {Batch(r, id, Version(r), run[r].plan)}]
<1>2. run[r].at = "claim"
      /\ UNCHANGED <<situation, evidence, decisions, batches, projection, rebuild, reviews>>
  BY DEF Claimed
<1>3. RunShape(run[r])
  BY DEF Shapes
<1>4. RunShape(x)
  BY <1>3 DEF RunShape, RunFields, NextVersion
<1>5. Mover(r) /\ run'[r] = x
  BY <1>1, <1>2, <1>4, RunMoves
<1>6. /\ x.at = "resolve" /\ x.claimed = run[r].claimed \cup {Batch(r, id, Version(r), run[r].plan)}
      /\ x.versions = run[r].versions \ {Version(r)} /\ x.past = run[r].past
      /\ x.left = run[r].left /\ x.next = run[r].next /\ x.mine = run[r].mine
      /\ x.wrote = run[r].wrote /\ x.decided = run[r].decided /\ x.cached = run[r].cached
  BY <1>3 DEF RunShape, RunFields, NextVersion
<1> HIDE DEF x
<1> QED
  BY <1>1, <1>2, <1>5, <1>6 DEF KeepsTables, KeepsRecord, KeepsDecisions

\* A run that has ended has nothing.
Nothing(x) ==
    /\ x.mine = {} /\ x.wrote = {} /\ x.versions = {} /\ x.decided = {}
    /\ x.cached = {} /\ x.claimed = {}

LEMMA CommitDoes ==
    ASSUME Shapes, NEW r \in Runs, Commit(r)
    PROVE  /\ Mover(r)
           /\ run[r].at = "resolve" /\ run[r].versions = {}
           /\ run'[r].at = "done" /\ Nothing(run'[r]) /\ run'[r].past = run[r].past
           /\ evidence' = evidence \cup run[r].wrote
           /\ decisions' = decisions \cup run[r].decided
           /\ batches' = batches \cup run[r].claimed
<1> DEFINE x == [NoRun EXCEPT !.at = "done", !.past = run[r].past]
<1>1. Set(r, x) /\ UNCHANGED <<situation, projection, rebuild, reviews>>
  BY DEF Commit
<1>2. RunShape(x)
  BY DEF RunShape, RunFields, NoRun
<1>3. Mover(r) /\ run'[r] = x
  BY <1>1, <1>2, RunMoves
<1>4. x.at = "done" /\ Nothing(x) /\ x.past = run[r].past
  BY DEF NoRun, Nothing
<1> HIDE DEF x
<1> QED
  BY <1>3, <1>4 DEF Commit

LEMMA FailsDoes ==
    ASSUME Shapes, NEW r \in Runs, Fails(r)
    PROVE  /\ Mover(r) /\ KeepsTables
           /\ IsOpen(run[r]) /\ run'[r].at \in {"refused", "crashed"}
           /\ Nothing(run'[r]) /\ run'[r].past = {}
<1>1. PICK why \in {"refused", "crashed"} : RollBack(r, why)
  BY DEF Fails
<1> DEFINE x == [NoRun EXCEPT !.at = why]
<1>2. Set(r, x) /\ UNCHANGED <<situation, evidence, decisions, batches, projection, rebuild, reviews>>
  BY <1>1 DEF Fails, RollBack
<1>3. RunShape(x)
  BY DEF RunShape, RunFields, NoRun
<1>4. Mover(r) /\ run'[r] = x
  BY <1>2, <1>3, RunMoves
<1>5. x.at = why /\ Nothing(x) /\ x.past = {}
  BY DEF NoRun, Nothing
<1> HIDE DEF x
<1> QED
  BY <1>2, <1>4, <1>5 DEF Fails, KeepsTables

-----------------------------------------------------------------------------
(***************************************************************************)
(* What the statements of a rebuild do.                                    *)
(***************************************************************************)

\* A rebuild may learn from the commit of another one which head rows are gone.
KeepsRebuild(c) ==
    /\ rebuild'[c].at = rebuild[c].at
    /\ rebuild'[c].target = rebuild[c].target /\ rebuild'[c].dropped = rebuild[c].dropped
    /\ rebuild'[c].found = rebuild[c].found /\ rebuild'[c].locked = rebuild[c].locked
    /\ rebuild'[c].heads = rebuild[c].heads /\ rebuild'[c].rows = rebuild[c].rows
    /\ rebuild'[c].alone = rebuild[c].alone

\* Only this rebuild moves.
RebuildMover(b) ==
    /\ \A c \in Rebuilds \ {b} : KeepsRebuild(c)
    /\ UNCHANGED <<situation, evidence, decisions, batches, run, reviews>>
    /\ Shapes'

LEMMA RebuildMoves ==
    ASSUME Shapes, NEW b \in Rebuilds, NEW x, RebuildShape(x), Put(b, x),
           UNCHANGED <<situation, evidence, decisions, batches, run, reviews>>
    PROVE  RebuildMover(b) /\ rebuild'[b] = x
<1>1. rebuild = [c \in Rebuilds |-> rebuild[c]]
  BY DEF Shapes
<1>2. rebuild' = [c \in Rebuilds |-> IF c = b THEN x ELSE rebuild[c]]
  BY <1>1 DEF Put
<1>3. rebuild'[b] = x /\ \A c \in Rebuilds \ {b} : rebuild'[c] = rebuild[c]
  BY <1>2
<1>4. rebuild' = [c \in Rebuilds |-> rebuild'[c]]
  BY <1>2
<1>5. \A c \in Rebuilds : RebuildShape(rebuild'[c])
  BY <1>3 DEF Shapes
<1>6. Shapes'
  BY <1>4, <1>5 DEF Shapes, RunShape
<1> QED
  BY <1>3, <1>6 DEF RebuildMover, KeepsRebuild

LEMMA BeginRebuildDoes ==
    ASSUME Shapes, NEW b \in Rebuilds, BeginRebuild(b)
    PROVE  /\ UNCHANGED <<situation, evidence, decisions, batches, projection, run, reviews>>
           /\ Shapes'
           /\ rebuild[b].at = "idle" /\ rebuild'[b].at = "delete profiles"
           /\ rebuild'[b].target = {} /\ rebuild'[b].dropped = {}
           /\ rebuild'[b].gone = {} /\ rebuild'[b].locked = {}
           /\ rebuild'[b].heads = {} /\ rebuild'[b].rows = {}
           /\ rebuild'[b].alone <=> \A c \in Rebuilds \ {b} : ~IsOpen(rebuild[c])
           /\ \A c \in Rebuilds \ {b} :
                 /\ rebuild'[c].at = rebuild[c].at /\ rebuild'[c].target = rebuild[c].target
                 /\ rebuild'[c].dropped = rebuild[c].dropped
                 /\ rebuild'[c].found = rebuild[c].found /\ rebuild'[c].locked = rebuild[c].locked
                 /\ rebuild'[c].heads = rebuild[c].heads /\ rebuild'[c].rows = rebuild[c].rows
                 /\ IF IsOpen(rebuild[c]) THEN rebuild'[c].alone = FALSE
                    ELSE rebuild'[c].alone = rebuild[c].alone
<1> DEFINE others == {c \in Rebuilds \ {b} : IsOpen(rebuild[c])}
<1> DEFINE x == [NoRebuild EXCEPT !.at = "delete profiles", !.alone = others = {}]
<1>1. /\ rebuild[b].at = "idle"
      /\ rebuild' = [c \in Rebuilds |-> IF c = b THEN x
                        ELSE IF c \in others THEN [rebuild[c] EXCEPT !.alone = FALSE]
                        ELSE rebuild[c]]
      /\ UNCHANGED <<situation, evidence, decisions, batches, projection, run, reviews>>
  BY DEF BeginRebuild
<1>2. /\ RebuildShape(x) /\ x.at = "delete profiles" /\ x.target = {} /\ x.dropped = {}
      /\ x.gone = {} /\ x.locked = {} /\ x.heads = {} /\ x.rows = {} /\ x.alone = (others = {})
  BY DEF NoRebuild, RebuildShape, RebuildFields
<1> HIDE DEF x
<1>3. rebuild'[b] = x
  BY <1>1
<1>4. ASSUME NEW c \in Rebuilds \ {b}
      PROVE  /\ RebuildShape(rebuild'[c])
             /\ rebuild'[c].at = rebuild[c].at /\ rebuild'[c].target = rebuild[c].target
             /\ rebuild'[c].dropped = rebuild[c].dropped
             /\ rebuild'[c].found = rebuild[c].found /\ rebuild'[c].locked = rebuild[c].locked
             /\ rebuild'[c].heads = rebuild[c].heads /\ rebuild'[c].rows = rebuild[c].rows
             /\ IF IsOpen(rebuild[c]) THEN rebuild'[c].alone = FALSE
                ELSE rebuild'[c].alone = rebuild[c].alone
  <2>1. RebuildShape(rebuild[c])
    BY DEF Shapes
  <2>2. CASE IsOpen(rebuild[c])
    <3>1. rebuild'[c] = [rebuild[c] EXCEPT !.alone = FALSE]
      BY <1>1, <2>2
    <3> QED
      BY <2>1, <2>2, <3>1 DEF RebuildShape, RebuildFields
  <2>3. CASE ~IsOpen(rebuild[c])
    <3>1. rebuild'[c] = rebuild[c]
      BY <1>1, <2>3
    <3> QED
      BY <2>1, <2>3, <3>1
  <2> QED
    BY <2>2, <2>3
<1>5. rebuild' = [c \in Rebuilds |-> rebuild'[c]]
  BY <1>1
<1>6. Shapes'
  BY <1>1, <1>2, <1>3, <1>4, <1>5 DEF Shapes, RunShape
<1> QED
  BY <1>1, <1>2, <1>3, <1>4, <1>6

\* A constraint of the tables refuses a row.
Refused(b) ==
    \/ Clash(rebuild[b].rows, (projection \ rebuild[b].dropped) \cup rebuild[b].rows)
    \/ \E p \in rebuild[b].rows : ~IsEnvelope(p.row)

LEMMA StartDeleteDoes ==
    ASSUME Shapes, NEW b \in Rebuilds, StartDelete(b)
    PROVE  /\ RebuildMover(b)
           /\ UNCHANGED projection
           /\ rebuild[b].at \in {"delete profiles", "delete others"}
           /\ rebuild'[b].at = IF rebuild[b].at = "delete profiles" THEN "await profiles" ELSE "await others"
           /\ rebuild'[b].target = Of(Tables[IF rebuild[b].at = "delete profiles" THEN 1 ELSE 2])
           /\ rebuild'[b].gone = rebuild[b].gone /\ rebuild'[b].locked = rebuild[b].locked
           /\ rebuild'[b].dropped = rebuild[b].dropped /\ rebuild'[b].heads = rebuild[b].heads
           /\ rebuild'[b].rows = rebuild[b].rows /\ rebuild'[b].alone = rebuild[b].alone
<1> DEFINE x == [rebuild[b] EXCEPT
                 !.at = IF rebuild[b].at = "delete profiles" THEN "await profiles" ELSE "await others",
                 !.target = Of(Tables[IF rebuild[b].at = "delete profiles" THEN 1 ELSE 2])]
<1>1. Put(b, x) /\ UNCHANGED <<situation, evidence, decisions, batches, run, reviews>>
  BY DEF StartDelete, Of
<1>2. RebuildShape(rebuild[b])
  BY DEF Shapes
<1>3. RebuildShape(x)
  BY <1>2 DEF RebuildShape, RebuildFields
<1>4. RebuildMover(b) /\ rebuild'[b] = x
  BY <1>1, <1>3, RebuildMoves
<1> QED
  BY <1>1, <1>2, <1>4 DEF StartDelete, Of, RebuildShape, RebuildFields

LEMMA FinishDeleteDoes ==
    ASSUME Shapes, NEW b \in Rebuilds, FinishDelete(b)
    PROVE  /\ RebuildMover(b)
           /\ UNCHANGED projection
           /\ rebuild[b].at \in {"await profiles", "await others"}
           /\ rebuild'[b].at = IF rebuild[b].at = "await profiles" THEN "delete others" ELSE "heads"
           /\ rebuild'[b].dropped = rebuild[b].dropped \cup (rebuild[b].target \cap projection)
           /\ rebuild'[b].gone = rebuild[b].gone /\ rebuild'[b].locked = rebuild[b].locked
           /\ rebuild'[b].heads = rebuild[b].heads
           /\ rebuild'[b].rows = rebuild[b].rows /\ rebuild'[b].alone = rebuild[b].alone
<1> DEFINE x == [rebuild[b] EXCEPT
                 !.at = IF @ = "await profiles" THEN "delete others" ELSE "heads",
                 !.dropped = @ \cup (rebuild[b].target \cap projection),
                 !.target = {}]
<1>1. Put(b, x) /\ UNCHANGED <<situation, evidence, decisions, batches, run, reviews>>
  BY DEF FinishDelete
<1>2. RebuildShape(rebuild[b])
  BY DEF Shapes
<1>3. RebuildShape(x)
  BY <1>2 DEF RebuildShape, RebuildFields
<1>4. RebuildMover(b) /\ rebuild'[b] = x
  BY <1>1, <1>3, RebuildMoves
<1> QED
  BY <1>1, <1>2, <1>4 DEF FinishDelete, RebuildShape, RebuildFields

LEMMA FindHeadsDoes ==
    ASSUME Shapes, NEW b \in Rebuilds, FindHeads(b)
    PROVE  /\ RebuildMover(b)
           /\ UNCHANGED projection
           /\ rebuild[b].at = "heads" /\ rebuild'[b].at = "lock"
           /\ rebuild'[b].locked = rebuild[b].locked /\ rebuild'[b].heads = rebuild[b].heads
           /\ rebuild'[b].dropped = rebuild[b].dropped /\ rebuild'[b].gone = rebuild[b].gone
           /\ rebuild'[b].rows = rebuild[b].rows /\ rebuild'[b].alone = rebuild[b].alone
<1> DEFINE x == [rebuild[b] EXCEPT !.at = "lock", !.found = Entities]
<1>1. Put(b, x) /\ UNCHANGED <<situation, evidence, decisions, batches, run, reviews>>
  BY DEF FindHeads
<1>2. RebuildShape(rebuild[b])
  BY DEF Shapes
<1>3. RebuildShape(x)
  BY <1>2 DEF RebuildShape, RebuildFields
<1>4. RebuildMover(b) /\ rebuild'[b] = x
  BY <1>1, <1>3, RebuildMoves
<1> QED
  BY <1>1, <1>2, <1>4 DEF FindHeads, RebuildShape, RebuildFields

LEMMA LockHeadDoes ==
    ASSUME Shapes, NEW b \in Rebuilds, LockHead(b)
    PROVE  /\ RebuildMover(b)
           /\ UNCHANGED projection
           /\ rebuild[b].at = "lock" /\ rebuild'[b].at = "lock"
           /\ \E entity \in Wanted(b) :
                 HeadHolders(entity) = {} /\ rebuild'[b].locked = rebuild[b].locked \cup {entity}
           /\ rebuild'[b].heads = rebuild[b].heads
           /\ rebuild'[b].dropped = rebuild[b].dropped /\ rebuild'[b].gone = rebuild[b].gone
           /\ rebuild'[b].rows = rebuild[b].rows /\ rebuild'[b].alone = rebuild[b].alone
<1>1. PICK entity \in Wanted(b) :
         /\ HeadHolders(entity) = {}
         /\ Put(b, [rebuild[b] EXCEPT !.locked = @ \cup {entity}])
  BY DEF LockHead
<1> DEFINE x == [rebuild[b] EXCEPT !.locked = @ \cup {entity}]
<1>2. RebuildShape(rebuild[b])
  BY DEF Shapes
<1>3. RebuildShape(x)
  BY <1>2 DEF RebuildShape, RebuildFields
<1>4. RebuildMover(b) /\ rebuild'[b] = x
  BY <1>1, <1>3, RebuildMoves DEF LockHead
<1> QED
  BY <1>1, <1>2, <1>4 DEF LockHead, RebuildShape, RebuildFields

LEMMA SelectHeadsDoes ==
    ASSUME Shapes, NEW b \in Rebuilds, SelectHeads(b)
    PROVE  /\ RebuildMover(b)
           /\ UNCHANGED projection
           /\ rebuild[b].at = "lock" /\ Wanted(b) = {}
           /\ rebuild'[b].at = IF Entities \subseteq rebuild[b].locked THEN "load" ELSE "reinsert"
           /\ rebuild'[b].heads = {HeadOf(decisions, e) : e \in Entities}
           /\ rebuild'[b].found = rebuild[b].found /\ rebuild'[b].locked = rebuild[b].locked
           /\ rebuild'[b].dropped = rebuild[b].dropped /\ rebuild'[b].gone = rebuild[b].gone
           /\ rebuild'[b].rows = rebuild[b].rows /\ rebuild'[b].alone = rebuild[b].alone
<1> DEFINE x == [rebuild[b] EXCEPT
                 !.at = IF Entities \subseteq rebuild[b].locked THEN "load" ELSE "reinsert",
                 !.heads = {HeadOf(decisions, e) : e \in Entities}]
<1>1. Put(b, x) /\ UNCHANGED <<situation, evidence, decisions, batches, run, reviews>>
  BY DEF SelectHeads
<1>2. RebuildShape(rebuild[b])
  BY DEF Shapes
<1>3. RebuildShape(x)
  BY <1>2 DEF RebuildShape, RebuildFields
<1>4. RebuildMover(b) /\ rebuild'[b] = x
  BY <1>1, <1>3, RebuildMoves
<1> QED
  BY <1>1, <1>2, <1>4 DEF SelectHeads, RebuildShape, RebuildFields

LEMMA HeadsClashDoes ==
    ASSUME Shapes, NEW b \in Rebuilds, HeadsClash(b)
    PROVE  /\ RebuildMover(b)
           /\ UNCHANGED projection
           /\ rebuild[b].at = "reinsert" /\ rebuild'[b].at = "refused"
           /\ \E entity \in Wanted(b) : HeadHolders(entity) = {}
           /\ rebuild'[b].found = rebuild[b].found /\ rebuild'[b].heads = rebuild[b].heads
           /\ rebuild'[b].locked = {} /\ rebuild'[b].rows = {}
           /\ rebuild'[b].alone = rebuild[b].alone
<1> DEFINE x == [NoRebuild EXCEPT !.at = "refused", !.alone = rebuild[b].alone,
                     !.found = rebuild[b].found, !.heads = rebuild[b].heads]
<1>1. Put(b, x) /\ UNCHANGED <<situation, evidence, decisions, batches, run, reviews>>
  BY DEF HeadsClash
<1>2. RebuildShape(rebuild[b])
  BY DEF Shapes
<1>3. RebuildShape(x)
  BY <1>2 DEF RebuildShape, RebuildFields, NoRebuild
<1>4. RebuildMover(b) /\ rebuild'[b] = x
  BY <1>1, <1>3, RebuildMoves
<1> QED
  BY <1>1, <1>2, <1>4 DEF HeadsClash, RebuildShape, RebuildFields, NoRebuild

LEMMA LoadDoes ==
    ASSUME Shapes, NEW b \in Rebuilds, Load(b)
    PROVE  /\ RebuildMover(b)
           /\ UNCHANGED projection
           /\ rebuild[b].at = "load" /\ rebuild'[b].at = "insert"
           /\ rebuild'[b].gone = rebuild[b].gone /\ rebuild'[b].locked = rebuild[b].locked
           /\ rebuild'[b].rows = {[by |-> b, row |-> row] : row \in Projection(EffectiveClaims(b))}
           /\ rebuild'[b].dropped = rebuild[b].dropped /\ rebuild'[b].target = rebuild[b].target
           /\ rebuild'[b].heads = rebuild[b].heads /\ rebuild'[b].alone = rebuild[b].alone
<1> DEFINE x == [rebuild[b] EXCEPT !.at = "insert",
                     !.rows = {[by |-> b, row |-> row] : row \in Projection(EffectiveClaims(b))}]
<1>1. Put(b, x) /\ UNCHANGED <<situation, evidence, decisions, batches, run, reviews>>
  BY DEF Load
<1>2. RebuildShape(rebuild[b])
  BY DEF Shapes
<1>3. RebuildShape(x)
  BY <1>2 DEF RebuildShape, RebuildFields
<1>4. RebuildMover(b) /\ rebuild'[b] = x
  BY <1>1, <1>3, RebuildMoves
<1> QED
  BY <1>1, <1>2, <1>4 DEF Load, RebuildShape, RebuildFields

LEMMA RefusedDoes ==
    ASSUME Shapes, NEW b \in Rebuilds, InsertRows(b), Refused(b)
    PROVE  /\ RebuildMover(b)
           /\ UNCHANGED projection
           /\ rebuild[b].at = "insert" /\ rebuild'[b].at = "refused"
           /\ rebuild'[b].locked = {} /\ rebuild'[b].heads = {} /\ rebuild'[b].dropped = {}
           /\ rebuild'[b].rows = rebuild[b].rows /\ rebuild'[b].alone = rebuild[b].alone
<1> DEFINE x == [NoRebuild EXCEPT !.at = "refused", !.alone = rebuild[b].alone, !.rows = rebuild[b].rows]
<1>1. Put(b, x) /\ UNCHANGED <<situation, evidence, decisions, batches, run, reviews>>
  BY DEF InsertRows, Refused
<1>2. RebuildShape(rebuild[b])
  BY DEF Shapes
<1>3. RebuildShape(x)
  BY <1>2 DEF RebuildShape, RebuildFields, NoRebuild
<1>4. RebuildMover(b) /\ rebuild'[b] = x
  BY <1>1, <1>3, RebuildMoves
<1> QED
  BY <1>1, <1>2, <1>4 DEF InsertRows, Refused, RebuildShape, RebuildFields, NoRebuild

LEMMA InsertedDoes ==
    ASSUME Shapes, NEW b \in Rebuilds, InsertRows(b), ~Refused(b)
    PROVE  /\ RebuildMover(b)
           /\ UNCHANGED projection
           /\ rebuild[b].at = "insert" /\ rebuild'[b].at = "inserted"
           /\ rebuild'[b].gone = rebuild[b].gone /\ rebuild'[b].locked = rebuild[b].locked
           /\ rebuild'[b].dropped = rebuild[b].dropped /\ rebuild'[b].target = rebuild[b].target
           /\ rebuild'[b].heads = rebuild[b].heads /\ rebuild'[b].rows = rebuild[b].rows
           /\ rebuild'[b].alone = rebuild[b].alone
<1> DEFINE x == [rebuild[b] EXCEPT !.at = "inserted"]
<1>1. Put(b, x) /\ UNCHANGED <<situation, evidence, decisions, batches, run, reviews>>
  BY DEF InsertRows, Refused
<1>2. RebuildShape(rebuild[b])
  BY DEF Shapes
<1>3. RebuildShape(x)
  BY <1>2 DEF RebuildShape, RebuildFields
<1>4. RebuildMover(b) /\ rebuild'[b] = x
  BY <1>1, <1>3, RebuildMoves
<1> QED
  BY <1>1, <1>2, <1>4 DEF InsertRows, Refused, RebuildShape, RebuildFields

LEMMA CommitRebuildDoes ==
    ASSUME Shapes, NEW b \in Rebuilds, CommitRebuild(b)
    PROVE  /\ RebuildMover(b)
           /\ projection' = (projection \ rebuild[b].dropped) \cup rebuild[b].rows
           /\ rebuild[b].at = "inserted" /\ rebuild'[b].at = "done"
           /\ rebuild'[b].locked = {} /\ rebuild'[b].heads = {} /\ rebuild'[b].rows = {}
           /\ rebuild'[b].alone = rebuild[b].alone
<1> DEFINE x == Ended(b, "done")
           y(c) == IF rebuild[c].at = "lock"
                     THEN [rebuild[c] EXCEPT !.gone = @ \cup rebuild[b].locked] ELSE rebuild[c]
<1>1. /\ rebuild[b].at = "inserted"
      /\ rebuild' = [c \in Rebuilds |-> IF c = b THEN x ELSE y(c)]
      /\ projection' = (projection \ rebuild[b].dropped) \cup rebuild[b].rows
      /\ UNCHANGED <<situation, evidence, decisions, batches, run, reviews>>
  BY DEF CommitRebuild
<1>2. /\ RebuildShape(x) /\ x.at = "done" /\ x.locked = {} /\ x.heads = {} /\ x.rows = {}
      /\ x.alone = rebuild[b].alone
  BY DEF Ended, NoRebuild, RebuildShape, RebuildFields
<1>3. rebuild'[b] = x
  BY <1>1
<1>4. ASSUME NEW c \in Rebuilds \ {b} PROVE RebuildShape(rebuild'[c]) /\ KeepsRebuild(c)
  <2>1. rebuild'[c] = y(c)
    BY <1>1
  <2>2. RebuildShape(rebuild[c])
    BY DEF Shapes
  <2> QED
    BY <2>1, <2>2 DEF KeepsRebuild, RebuildShape, RebuildFields
<1>5. rebuild' = [c \in Rebuilds |-> rebuild'[c]]
  BY <1>1
<1> HIDE DEF x
<1>6. Shapes'
  BY <1>1, <1>2, <1>3, <1>4, <1>5 DEF Shapes, RunShape
<1> QED
  BY <1>1, <1>2, <1>3, <1>4, <1>6 DEF RebuildMover

\* A rebuild ends with nothing.
GivesUp(b) ==
    /\ IsOpen(rebuild[b])
    /\ \E why \in {"deadlocked", "crashed"} : Put(b, Ended(b, why))
    /\ UNCHANGED <<situation, evidence, decisions, batches, projection, run, reviews>>

LEMMA GivesUpDoes ==
    ASSUME Shapes, NEW b \in Rebuilds, GivesUp(b)
    PROVE  /\ RebuildMover(b)
           /\ UNCHANGED projection
           /\ IsOpen(rebuild[b]) /\ rebuild'[b].at \in {"deadlocked", "crashed"}
           /\ rebuild'[b].locked = {} /\ rebuild'[b].heads = {} /\ rebuild'[b].rows = {}
           /\ rebuild'[b].alone = rebuild[b].alone
<1>1. PICK why \in {"deadlocked", "crashed"} : Put(b, Ended(b, why))
  BY DEF GivesUp
<1> DEFINE x == Ended(b, why)
<1>2. /\ RebuildShape(x) /\ x.at = why /\ x.locked = {} /\ x.heads = {} /\ x.rows = {}
      /\ x.alone = rebuild[b].alone
  BY DEF Ended, NoRebuild, RebuildShape, RebuildFields
<1> HIDE DEF x
<1>3. RebuildMover(b) /\ rebuild'[b] = x
  BY <1>1, <1>2, RebuildMoves DEF GivesUp, x
<1> QED
  BY <1>2, <1>3 DEF GivesUp

\* Each statement of a rebuild is one of these.
RebuildDoes(b) ==
    \/ BeginRebuild(b) \/ StartDelete(b) \/ FinishDelete(b)
    \/ FindHeads(b) \/ LockHead(b) \/ SelectHeads(b) \/ HeadsClash(b)
    \/ Load(b) \/ InsertRows(b) \/ CommitRebuild(b) \/ GivesUp(b)

LEMMA RebuildStepDoes ==
    ASSUME NEW b \in Rebuilds, RebuildStep(b)
    PROVE  RebuildDoes(b)
<1>1. CASE RebuildVictim(b)
  <2>1. WaitsFor(b) # {}
    BY <1>1, DeadlockedWaits DEF RebuildVictim
  <2>2. Wanted(b) # {}
    BY <2>1 DEF WaitsFor
  <2>3. IsOpen(rebuild[b])
    BY <2>2 DEF Wanted, IsOpen, Over
  <2>4. GivesUp(b)
    BY <1>1, <2>3 DEF RebuildVictim, GivesUp
  <2> QED
    BY <2>4 DEF RebuildDoes
<1>2. CASE CrashRebuild(b)
  BY <1>2 DEF CrashRebuild, GivesUp, RebuildDoes
<1> QED
  BY <1>1, <1>2 DEF RebuildStep, RebuildDoes

\* What every statement of a rebuild leaves alone.
LEMMA RebuildLeaves ==
    ASSUME Shapes, NEW b \in Rebuilds, RebuildStep(b)
    PROVE  UNCHANGED <<situation, evidence, decisions, batches, run, reviews>> /\ Shapes'
<1>1. CASE BeginRebuild(b)
  BY <1>1, BeginRebuildDoes
<1>2. CASE RebuildMover(b)
  BY <1>2 DEF RebuildMover
<1> QED
  BY <1>1, <1>2, RebuildStepDoes, StartDeleteDoes, FinishDeleteDoes, FindHeadsDoes, LockHeadDoes,
     SelectHeadsDoes, HeadsClashDoes, LoadDoes, RefusedDoes, InsertedDoes, CommitRebuildDoes,
     GivesUpDoes DEF RebuildDoes

\* A decision of a reviewer.
Posted(key, d, kind) ==
    /\ key \in evidence /\ key.table = "entity" /\ HeadHolders(key.entity) = {}
    /\ d.entity = key.entity /\ d.n = HeadOf(decisions, key.entity).n + 1
    /\ d.kind = kind
    /\ \/ kind = "REJECTED" /\ d.company = None
       \/ kind = "MATCHED" /\ d.company \in {e.company : e \in decisions} \ {None}
    /\ decisions' = decisions \cup {d}

LEMMA ReviewDoes ==
    ASSUME Shapes, Review
    PROVE  /\ reviews < MaxReviews /\ reviews' = reviews + 1
           /\ UNCHANGED <<situation, evidence, batches, projection, run, rebuild>>
           /\ Shapes'
           /\ \E key, d, kind : Posted(key, d, kind)
<1>1. PICK key \in {k \in evidence : k.table = "entity"},
           verdict \in {<<"REJECTED", None>>}
               \cup ({"MATCHED"} \X ({d.company : d \in decisions} \ {None})) :
              /\ HeadHolders(key.entity) = {}
              /\ decisions' = decisions \cup
                    {[Successor(key.entity, HeadOf(decisions, key.entity), verdict)
                         EXCEPT !.human = TRUE]}
  BY DEF Review
<1> DEFINE d == [Successor(key.entity, HeadOf(decisions, key.entity), verdict) EXCEPT !.human = TRUE]
<1>2. /\ d.entity = key.entity /\ d.n = HeadOf(decisions, key.entity).n + 1
      /\ d.kind = verdict[1] /\ d.company = verdict[2]
  BY DEF Successor
<1>3. decisions' = decisions \cup {d}
  BY <1>1
<1> HIDE DEF d
<1>4. CASE verdict = <<"REJECTED", None>>
  <2>1. Posted(key, d, "REJECTED")
    BY <1>1, <1>2, <1>3, <1>4 DEF Posted
  <2> QED
    BY <2>1 DEF Review, Shapes, RunShape, RebuildShape
<1>5. CASE verdict \in {"MATCHED"} \X ({e.company : e \in decisions} \ {None})
  <2>1. verdict[1] = "MATCHED" /\ verdict[2] \in {e.company : e \in decisions} \ {None}
    BY <1>5
  <2>2. Posted(key, d, "MATCHED")
    BY <1>1, <1>2, <1>3, <2>1 DEF Posted
  <2> QED
    BY <2>2 DEF Review, Shapes, RunShape, RebuildShape
<1> QED
  BY <1>1, <1>4, <1>5

-----------------------------------------------------------------------------
(***************************************************************************)
(* Phases.                                                                 *)
(***************************************************************************)

\* The version at hand is a matter of the versions left.
LEMMA SameVersion ==
    ASSUME NEW r \in Runs, run'[r].versions = run[r].versions
    PROVE  Version(r)' = Version(r)
BY DEF Version

LEMMA SameSightings ==
    ASSUME NEW r \in Runs, run'[r].wrote = run[r].wrote
    PROVE  RunVersions(r)' = RunVersions(r)
BY DEF RunVersions

LEMMA PhaseByOthers ==
    ASSUME NEW s \in Runs, run'[s] = run[s], PhaseOf(s)
    PROVE  PhaseOf(s)'
BY SameVersion, SameSightings DEF PhaseOf

LEMMA PhaseOfEnded ==
    ASSUME NEW r \in Runs, Nothing(run'[r]), run'[r].at \in Over
    PROVE  PhaseOf(r)'
BY DEF PhaseOf, Nothing, Over, Resolving

\* A head that was seen is on the entity it was looked up for.
LEMMA SeenIsDecided ==
    ASSUME NumbersOK, NEW r \in Runs, SeesHead(r).kind # "UNDECIDED"
    PROVE  /\ SeesHead(r) \in Decided(r) /\ SeesHead(r).entity = Version(r).entity
           /\ \A e \in On(Decided(r), Version(r).entity) : e.n <= SeesHead(r).n
<1>1. InOrder(On(Decided(r), Version(r).entity))
  BY DEF NumbersOK, NumbersOf
<1>2. SeesHead(r) = HeadOf(Decided(r), Version(r).entity)
  BY DEF SeesHead, SeenHead, Decided
<1>3. SeesHead(r) \in On(Decided(r), Version(r).entity)
  BY <1>1, <1>2, HeadIsGreatest DEF Undecided
<1> QED
  BY <1>1, <1>2, <1>3, HeadIsGreatest DEF On

\* Another decision that has the place of the planned one is adopted.
LEMMA OutcomeIs ==
    ASSUME NumbersOK, NEW r \in Runs
    PROVE  /\ Outcome(r).entity = run[r].plan.entity
           /\ \/ /\ Outcome(r) \in decisions
                 /\ \A e \in On(decisions, run[r].plan.entity) : e.n <= Outcome(r).n
              \/ /\ Outcome(r) = run[r].plan
                 /\ \A e \in On(decisions, run[r].plan.entity) : e.n # run[r].plan.n
<1>1. InOrder(On(decisions, run[r].plan.entity))
  BY DEF NumbersOK
<1>2. CASE \E d \in decisions : d.entity = run[r].plan.entity /\ d.n = run[r].plan.n
  <2>1. On(decisions, run[r].plan.entity) # {}
    BY <1>2 DEF On
  <2>2. Outcome(r) = HeadOf(decisions, run[r].plan.entity)
    BY <1>2 DEF Outcome
  <2>3. Outcome(r) \in On(decisions, run[r].plan.entity)
    BY <1>1, <2>1, <2>2, HeadIsGreatest
  <2> QED
    BY <1>1, <2>2, <2>3, HeadIsGreatest DEF On
<1>3. CASE ~ \E d \in decisions : d.entity = run[r].plan.entity /\ d.n = run[r].plan.n
  BY <1>3 DEF Outcome, On
<1> QED
  BY <1>2, <1>3

LEMMA PhaseByRun ==
    ASSUME Shapes, PhaseOK, RowsOK, NumbersOK, RecordsOK, NEW r \in Runs, RunDoes(r)
    PROVE  PhaseOK' /\ Shapes'
<1>0. PhaseOf(r)
  BY DEF PhaseOK
<1>1. CASE Begin(r)
  <2>1. PhaseOf(r)'
    BY <1>0, <1>1, BeginDoes DEF PhaseOf, KeepsRecord, KeepsDecisions, KeepsClaims, Resolving, Over
  <2> QED
    BY <1>1, <2>1, BeginDoes, PhaseByOthers DEF Mover, PhaseOK
<1>2. CASE Search(r)
  <2>1. PhaseOf(r)'
    BY <1>0, <1>2, SearchDoes DEF PhaseOf, KeepsDecisions, KeepsClaims, Resolving, Over
  <2> QED
    BY <1>2, <2>1, SearchDoes, PhaseByOthers DEF Mover, PhaseOK
<1>3. CASE GoesOn(r)
  <2>1. PhaseOf(r)'
    BY <1>0, <1>3, GoesOnDoes DEF PhaseOf, KeepsRecord, KeepsDecisions, KeepsClaims, Resolving, Over
  <2> QED
    BY <1>3, <2>1, GoesOnDoes, PhaseByOthers DEF Mover, PhaseOK
<1>4. CASE Fails(r)
  <2>1. PhaseOf(r)'
    BY <1>4, FailsDoes, PhaseOfEnded DEF Over
  <2> QED
    BY <1>4, <2>1, FailsDoes, PhaseByOthers DEF Mover, PhaseOK
<1>5. CASE Skips(r)
  <2>1. PhaseOf(r)'
    BY <1>0, <1>5, SkipsDoes DEF PhaseOf, KeepsDecisions, KeepsClaims, Resolving, Over
  <2> QED
    BY <1>5, <2>1, SkipsDoes, PhaseByOthers DEF Mover, PhaseOK
<1>6. CASE InsertsRow(r)
  <2>1. PhaseOf(r)'
    BY <1>0, <1>6, InsertsRowDoes DEF PhaseOf, KeepsDecisions, KeepsClaims, Resolving, Over
  <2> QED
    BY <1>6, <2>1, InsertsRowDoes, PhaseByOthers DEF Mover, PhaseOK
<1>7. CASE InsertsLast(r)
  <2>1. PhaseOf(r)'
    BY <1>0, <1>7, InsertsLastDoes DEF PhaseOf, KeepsDecisions, KeepsClaims, Resolving, Over
  <2> QED
    BY <1>7, <2>1, InsertsLastDoes, PhaseByOthers DEF Mover, PhaseOK
<1>8. CASE Fetched(r)
  <2>1. RunVersions(r)' = RunVersions(r)
    BY <1>8, FetchedDoes, SameSightings DEF KeepsRecord
  <2>2. run[r].mine = {}
    BY <1>8, FetchedDoes DEF RecordsOK, RecordsOf
  <2>3. PhaseOf(r)'
    BY <1>0, <1>8, <2>1, <2>2, FetchedDoes DEF PhaseOf, KeepsRecord, KeepsDecisions, KeepsClaims, Resolving, Over
  <2> QED
    BY <1>8, <2>3, FetchedDoes, PhaseByOthers DEF Mover, PhaseOK
<1>9. CASE Keeps(r)
  <2>1. RunVersions(r)' = RunVersions(r) /\ Version(r)' = Version(r)
    BY <1>9, KeepsDoes, SameSightings, SameVersion DEF KeepsRecord
  <2>2. run'[r].plan.entity = Version(r)'.entity
    BY <1>9, <2>1, KeepsDoes, SeenIsDecided
  <2>3. PhaseOf(r)'
    BY <1>0, <1>9, <2>1, <2>2, KeepsDoes DEF PhaseOf, KeepsRecord, Resolving, Over
  <2> QED
    BY <1>9, <2>3, KeepsDoes, PhaseByOthers DEF Mover, PhaseOK
<1>10. CASE Plans(r)
  <2>1. RunVersions(r)' = RunVersions(r) /\ Version(r)' = Version(r)
    BY <1>10, PlansDoes, SameSightings, SameVersion DEF KeepsRecord
  <2>2. PICK conclusion : run'[r].plan = Successor(Version(r).entity, SeesHead(r), conclusion)
    BY <1>10, PlansDoes
  <2>3. run'[r].plan.entity = Version(r)'.entity
    BY <2>1, <2>2 DEF Successor
  <2>4. PhaseOf(r)'
    BY <1>0, <1>10, <2>1, <2>3, PlansDoes DEF PhaseOf, KeepsRecord, Resolving, Over
  <2> QED
    BY <1>10, <2>4, PlansDoes, PhaseByOthers DEF Mover, PhaseOK
<1>11. CASE Write(r)
  <2>1. RunVersions(r)' = RunVersions(r) /\ Version(r)' = Version(r)
    BY <1>11, WriteDoes, SameSightings, SameVersion DEF KeepsRecord
  <2>2. run'[r].plan.entity = Version(r)'.entity
    BY <1>0, <1>11, <2>1, WriteDoes, OutcomeIs DEF PhaseOf
  <2>3. PhaseOf(r)'
    BY <1>0, <1>11, <2>1, <2>2, WriteDoes DEF PhaseOf, KeepsRecord, Resolving, Over
  <2> QED
    BY <1>11, <2>3, WriteDoes, PhaseByOthers DEF Mover, PhaseOK
<1>12. CASE Passes(r)
  <2>1. RunVersions(r)' = RunVersions(r)
    BY <1>12, PassesDoes, SameSightings DEF KeepsRecord
  <2>2. PhaseOf(r)'
    BY <1>0, <1>12, <2>1, PassesDoes DEF PhaseOf, KeepsRecord, Resolving, Over
  <2> QED
    BY <1>12, <2>2, PassesDoes, PhaseByOthers DEF Mover, PhaseOK
<1>13. CASE Claimed(r)
  <2>1. RunVersions(r)' = RunVersions(r)
    BY <1>13, ClaimedDoes, SameSightings DEF KeepsRecord
  <2>2. PhaseOf(r)'
    BY <1>0, <1>13, <2>1, ClaimedDoes DEF PhaseOf, KeepsRecord, Resolving, Over
  <2> QED
    BY <1>13, <2>2, ClaimedDoes, PhaseByOthers DEF Mover, PhaseOK
<1>14. CASE Commit(r)
  <2>1. PhaseOf(r)'
    BY <1>14, CommitDoes, PhaseOfEnded DEF Over
  <2> QED
    BY <1>14, <2>1, CommitDoes, PhaseByOthers DEF Mover, PhaseOK
<1> QED
  BY <1>1, <1>2, <1>3, <1>4, <1>5, <1>6, <1>7, <1>8, <1>9, <1>10, <1>11, <1>12, <1>13, <1>14
     DEF RunDoes

LEMMA PhaseStep ==
    ASSUME DiscoveryInv, [Next]_vars
    PROVE  Shapes' /\ PhaseOK'
<1>0. Shapes /\ PhaseOK /\ RowsOK /\ NumbersOK /\ RecordsOK
  BY DEF DiscoveryInv
<1>1. ASSUME NEW r \in Runs, RunStep(r) PROVE Shapes' /\ PhaseOK'
  BY <1>0, <1>1, RunStepDoes, PhaseByRun
<1>2. ASSUME UNCHANGED run PROVE PhaseOK'
  BY <1>0, <1>2, PhaseByOthers DEF PhaseOK
<1>3. ASSUME NEW b \in Rebuilds, RebuildStep(b) PROVE Shapes' /\ PhaseOK'
  BY <1>0, <1>2, <1>3, RebuildLeaves
<1>4. CASE Review
  BY <1>0, <1>2, <1>4, ReviewDoes
<1>5. CASE UNCHANGED vars
  BY <1>0, <1>2, <1>5 DEF vars, Shapes, RunShape, RebuildShape
<1> QED
  BY <1>1, <1>3, <1>4, <1>5 DEF Next

-----------------------------------------------------------------------------
(***************************************************************************)
(* Statements by what they leave alone.                                    *)
(***************************************************************************)

\* A statement that decides nothing, and one that claims nothing.
DecidesNothing(r) ==
    /\ Mover(r) /\ UNCHANGED <<decisions, batches>>
    /\ KeepsDecisions(r) /\ run'[r].at # "write"

LEMMA DecisionsBy ==
    ASSUME Shapes, NEW r \in Runs, RunDoes(r)
    PROVE  DecidesNothing(r) \/ Fails(r) \/ Plans(r) \/ Write(r) \/ Commit(r)
<1>1. CASE Begin(r)
  BY <1>1, BeginDoes DEF DecidesNothing, KeepsTables
<1>2. CASE Search(r)
  BY <1>2, SearchDoes DEF DecidesNothing, KeepsTables
<1>3. CASE GoesOn(r)
  BY <1>3, GoesOnDoes DEF DecidesNothing, KeepsTables
<1>4. CASE Skips(r)
  BY <1>4, SkipsDoes DEF DecidesNothing, KeepsTables
<1>5. CASE InsertsRow(r)
  BY <1>5, InsertsRowDoes DEF DecidesNothing, KeepsTables
<1>6. CASE InsertsLast(r)
  BY <1>6, InsertsLastDoes DEF DecidesNothing, KeepsTables
<1>7. CASE Fetched(r)
  BY <1>7, FetchedDoes DEF DecidesNothing, KeepsTables
<1>8. CASE Keeps(r)
  BY <1>8, KeepsDoes DEF DecidesNothing, KeepsTables
<1>9. CASE Passes(r)
  BY <1>9, PassesDoes DEF DecidesNothing, KeepsTables
<1>10. CASE Claimed(r)
  BY <1>10, ClaimedDoes DEF DecidesNothing, KeepsTables
<1> QED
  BY <1>1, <1>2, <1>3, <1>4, <1>5, <1>6, <1>7, <1>8, <1>9, <1>10 DEF RunDoes

ClaimsNothing(r) == Mover(r) /\ UNCHANGED batches /\ KeepsClaims(r)

LEMMA ClaimsBy ==
    ASSUME Shapes, NEW r \in Runs, RunDoes(r)
    PROVE  ClaimsNothing(r) \/ Fails(r) \/ Claimed(r) \/ Commit(r)
<1>1. CASE Begin(r)
  BY <1>1, BeginDoes DEF ClaimsNothing, KeepsTables
<1>2. CASE Search(r)
  BY <1>2, SearchDoes DEF ClaimsNothing, KeepsTables
<1>3. CASE GoesOn(r)
  BY <1>3, GoesOnDoes DEF ClaimsNothing, KeepsTables
<1>4. CASE Skips(r)
  BY <1>4, SkipsDoes DEF ClaimsNothing, KeepsTables
<1>5. CASE InsertsRow(r)
  BY <1>5, InsertsRowDoes DEF ClaimsNothing, KeepsTables
<1>6. CASE InsertsLast(r)
  BY <1>6, InsertsLastDoes DEF ClaimsNothing, KeepsTables
<1>7. CASE Fetched(r)
  BY <1>7, FetchedDoes DEF ClaimsNothing, KeepsTables
<1>8. CASE Keeps(r)
  BY <1>8, KeepsDoes DEF ClaimsNothing, KeepsTables
<1>9. CASE Plans(r)
  BY <1>9, PlansDoes DEF ClaimsNothing, KeepsTables
<1>10. CASE Write(r)
  BY <1>10, WriteDoes DEF ClaimsNothing, KeepsTables
<1>11. CASE Passes(r)
  BY <1>11, PassesDoes DEF ClaimsNothing, KeepsTables
<1> QED
  BY <1>1, <1>2, <1>3, <1>4, <1>5, <1>6, <1>7, <1>8, <1>9, <1>10, <1>11 DEF RunDoes

-----------------------------------------------------------------------------
(***************************************************************************)
(* The claims a rebuild loads.                                             *)
(***************************************************************************)

\* A record says one thing under a key, and says it as one kind of fact.
LEMMA StatementsAreFew ==
    ASSUME NEW candidate, NEW market,
           NEW s \in Statements(candidate, market), NEW t \in Statements(candidate, market)
    PROVE  /\ s.fact \in {"FACT", "ESTIMATE", "INFERENCE"}
           /\ s.key = t.key => s = t
<1> DEFINE A == {Said("legal_name", [name |-> n], "FACT") : n \in {candidate.name} \ {None}}
           B == {Said("domain", [domain |-> d, role |-> Role(d)], "FACT") :
                    d \in {candidate.domain} \ {None}}
           C == {Said("employee_count", x, "ESTIMATE") : x \in {candidate.staff} \ {None}}
           D == {Said("market_presence", [market |-> m], "INFERENCE") : m \in {market} \ {None}}
<1>1. s \in A \cup B \cup C \cup D /\ t \in A \cup B \cup C \cup D
  BY DEF Statements
<1>2. ASSUME NEW x, x \in A
      PROVE  x = Said("legal_name", [name |-> candidate.name], "FACT")
  BY <1>2
<1>3. ASSUME NEW x, x \in B
      PROVE  x = Said("domain", [domain |-> candidate.domain, role |-> Role(candidate.domain)], "FACT")
  BY <1>3
<1>4. ASSUME NEW x, x \in C
      PROVE  x = Said("employee_count", candidate.staff, "ESTIMATE")
  BY <1>4
<1>5. ASSUME NEW x, x \in D
      PROVE  x = Said("market_presence", [market |-> market], "INFERENCE")
  BY <1>5
<1> HIDE DEF A, B, C, D
<1>6. ASSUME NEW x \in A \cup B \cup C \cup D
      PROVE  \/ x.key = "legal_name" /\ x \in A /\ x.fact = "FACT"
             \/ x.key = "domain" /\ x \in B /\ x.fact = "FACT"
             \/ x.key = "employee_count" /\ x \in C /\ x.fact = "ESTIMATE"
             \/ x.key = "market_presence" /\ x \in D /\ x.fact = "INFERENCE"
  BY <1>2, <1>3, <1>4, <1>5 DEF Said
<1>7. s.fact \in {"FACT", "ESTIMATE", "INFERENCE"}
  BY <1>1, <1>6
<1>8. ASSUME s.key = t.key PROVE s = t
  <2>1. (s \in A /\ t \in A) \/ (s \in B /\ t \in B) \/ (s \in C /\ t \in C) \/ (s \in D /\ t \in D)
    BY <1>1, <1>6, <1>8
  <2> QED
    BY <2>1, <1>2, <1>3, <1>4, <1>5
<1> QED
  BY <1>7, <1>8

\* An entity is attributed by one head, the decision in force.
LEMMA AttributedOnce ==
    ASSUME RowsOK, NumbersOK, HeadsOK, NEW b \in Rebuilds, rebuild[b].at \in Inserting,
           NEW d \in Attribution(b)
    PROVE  /\ d \in decisions /\ d.company \in Companies
           /\ \A e \in Attribution(b) : e.entity = d.entity => e = d
           /\ \A e \in rebuild[b].heads : e.entity = d.entity => e = d
<1> DEFINE found == {e.entity : e \in rebuild[b].heads}
<1>1. ASSUME NEW e \in rebuild[b].heads PROVE e \in decisions /\ e = HeadOf(decisions, e.entity)
  <2>1. e \in On(decisions, e.entity) /\ \A f \in On(decisions, e.entity) : f.n <= e.n
    BY DEF HeadsOK, HeadsOf, On
  <2>2. InOrder(On(decisions, e.entity))
    BY DEF NumbersOK
  <2>3. e = HeadOf(decisions, e.entity)
    BY <2>1, <2>2, OneGreatest
  <2> QED
    BY <2>1, <2>3 DEF On
<1>2. ASSUME NEW entity \in Entities
      PROVE  HeadOf(decisions, entity) \in decisions /\ HeadOf(decisions, entity).entity = entity
  <2>1. On(decisions, entity) # {} /\ InOrder(On(decisions, entity))
    BY DEF Entities, On, NumbersOK
  <2> QED
    BY <2>1, HeadIsGreatest DEF On
<1>3. ASSUME NEW e \in rebuild[b].heads \cup {HeadOf(decisions, x) : x \in Entities \ found}
      PROVE  e \in decisions /\ e = HeadOf(decisions, e.entity)
  BY <1>1, <1>2
<1>4. \A e \in Attribution(b) :
         /\ e \in rebuild[b].heads \cup {HeadOf(decisions, x) : x \in Entities \ found}
         /\ e.company # None
  BY DEF Attribution
<1>5. d \in decisions /\ d.company \in Companies
  BY <1>3, <1>4 DEF RowsOK, Decides
<1> HIDE DEF found
<1> QED
  BY <1>1, <1>3, <1>4, <1>5

LEMMA EffectiveAreClaims ==
    ASSUME RowsOK, NumbersOK, HeadsOK, ClaimsOK, NEW b \in Rebuilds, rebuild[b].at \in Inserting
    PROVE  /\ Claims(EffectiveClaims(b))
           /\ \A c \in EffectiveClaims(b) :
                 \E batch \in batches, d \in Attribution(b) :
                     batch.id = c.id /\ d.entity = batch.version.entity /\ d.company = c.company
<1>1. ASSUME NEW c \in EffectiveClaims(b)
      PROVE  \E batch \in batches, d \in Attribution(b) :
                 d.entity = batch.version.entity /\ c \in ClaimsOf(batch, d.company)
  BY <1>1 DEF EffectiveClaims
<1>2. ASSUME NEW batch \in batches, NEW company, NEW c \in ClaimsOf(batch, company)
      PROVE  \E s \in Statements(Candidate(batch.version.content, batch.normalizer), batch.market) :
                c = [id |-> batch.id, key |-> s.key, value |-> s.value, fact |-> s.fact,
                     human |-> batch.human, tier |-> Providers[batch.version.entity.provider].tier,
                     company |-> company]
  BY <1>2 DEF ClaimsOf
<1>3. ASSUME NEW c \in EffectiveClaims(b)
      PROVE  /\ Ranked(c) /\ c.company \in Companies
             /\ \E batch \in batches, d \in Attribution(b) :
                    batch.id = c.id /\ d.entity = batch.version.entity /\ d.company = c.company
  <2>1. PICK batch \in batches, d \in Attribution(b) :
           d.entity = batch.version.entity /\ c \in ClaimsOf(batch, d.company)
    BY <1>1, <1>3
  <2>2. PICK s \in Statements(Candidate(batch.version.content, batch.normalizer), batch.market) :
           c = [id |-> batch.id, key |-> s.key, value |-> s.value, fact |-> s.fact,
                human |-> batch.human, tier |-> Providers[batch.version.entity.provider].tier,
                company |-> d.company]
    BY <1>2, <2>1
  <2>3. c.id = batch.id /\ c.fact = s.fact /\ c.company = d.company
        /\ c.tier = Providers[batch.version.entity.provider].tier
    BY <2>2
  <2>4. batch \in AllBatches
    BY DEF AllBatches
  <2>5. batch.id \in Nat /\ Providers[batch.version.entity.provider].tier \in 0..1000
    <3>1. batch.id \in BatchIds /\ batch.version.entity.provider \in DOMAIN Providers
      BY <2>4, Zenon DEF ClaimsOK
    <3>2. BatchIds \subseteq Nat /\ \A p \in DOMAIN Providers : Providers[p].tier \in 0..1000
      BY DiscoveryAssumption, Zenon
    <3>3. batch.id \in Nat
      BY <3>1, <3>2, Zenon
    <3>4. Providers[batch.version.entity.provider].tier \in 0..1000
      BY <3>1, <3>2, Zenon
    <3> QED
      BY <3>3, <3>4, Zenon
  <2>6. s.fact \in {"FACT", "ESTIMATE", "INFERENCE"}
    BY <2>2, StatementsAreFew
  <2>7. d.company \in Companies
    BY <2>1, AttributedOnce
  <2>8. Ranked(c)
    BY <2>3, <2>5, <2>6, Zenon DEF Ranked
  <2>9. c.company \in Companies
    BY <2>3, <2>7
  <2> QED
    BY <2>1, <2>3, <2>8, <2>9, Zenon
<1>4. ASSUME NEW c \in EffectiveClaims(b), NEW e \in EffectiveClaims(b), c.id = e.id, c.key = e.key
      PROVE  c = e
  <2>1. PICK batch \in batches, d \in Attribution(b) :
           d.entity = batch.version.entity /\ c \in ClaimsOf(batch, d.company)
    BY <1>1, <1>4
  <2>2. PICK other \in batches, f \in Attribution(b) :
           f.entity = other.version.entity /\ e \in ClaimsOf(other, f.company)
    BY <1>1, <1>4
  <2>3. PICK s \in Statements(Candidate(batch.version.content, batch.normalizer), batch.market) :
           c = [id |-> batch.id, key |-> s.key, value |-> s.value, fact |-> s.fact,
                human |-> batch.human, tier |-> Providers[batch.version.entity.provider].tier,
                company |-> d.company]
    BY <1>2, <2>1
  <2>4. PICK t \in Statements(Candidate(other.version.content, other.normalizer), other.market) :
           e = [id |-> other.id, key |-> t.key, value |-> t.value, fact |-> t.fact,
                human |-> other.human, tier |-> Providers[other.version.entity.provider].tier,
                company |-> f.company]
    BY <1>2, <2>2
  <2>5. c.id = batch.id /\ e.id = other.id /\ c.key = s.key /\ e.key = t.key
    BY <2>3, <2>4
  <2>6. batch = other
    <3>1. batch \in AllBatches /\ other \in AllBatches
      BY DEF AllBatches
    <3> QED
      BY <1>4, <2>5, <3>1 DEF ClaimsOK
  <2>7. d = f
    BY <2>1, <2>2, <2>6, AttributedOnce
  <2>8. s.key = t.key
    BY <1>4, <2>5
  <2>9. s = t
    BY <2>3, <2>4, <2>6, <2>8, StatementsAreFew
  <2> QED
    BY <2>3, <2>4, <2>6, <2>7, <2>9
<1> QED
  BY <1>3, <1>4 DEF Claims

-----------------------------------------------------------------------------
(***************************************************************************)
(* Decisions and rows.                                                     *)
(***************************************************************************)

\* What runs decide and plan, when one of them moves.
LEMMA RowsByMover ==
    ASSUME RowsOK, NEW r \in Runs, Mover(r),
           \A d \in decisions' : Decides(d),
           \A d \in run'[r].decided : Decides(d),
           run'[r].at = "write" => Decides(run'[r].plan)
    PROVE  RowsOK'
<1>1. ASSUME NEW s \in Runs
      PROVE  /\ \A d \in run'[s].decided : Decides(d)
             /\ run'[s].at = "write" => Decides(run'[s].plan)
  <2>1. CASE s = r
    BY <2>1
  <2>2. CASE s # r
    BY <2>2 DEF Mover, RowsOK
  <2> QED
    BY <2>1, <2>2
<1> QED
  BY <1>1 DEF RowsOK, Mover

LEMMA RowsByRun ==
    ASSUME Shapes, PhaseOK, RowsOK, NumbersOK, NEW r \in Runs, RunDoes(r)
    PROVE  RowsOK'
<1>1. CASE DecidesNothing(r)
  BY <1>1, RowsByMover DEF DecidesNothing, KeepsDecisions, RowsOK
<1>2. CASE Fails(r)
  BY <1>2, FailsDoes, RowsByMover DEF KeepsTables, Nothing, RowsOK
<1>3. CASE Plans(r)
  <2>1. PICK conclusion \in Concludes(r) :
           run'[r].plan = Successor(Version(r).entity, SeesHead(r), conclusion)
    BY <1>3, PlansDoes
  <2>2. SeesHead(r).n \in Nat
    <3>1. InOrder(On(decisions \cup run[r].decided, Version(r).entity))
      BY DEF NumbersOK, NumbersOf, Decided
    <3> QED
      BY <3>1, HeadIsGreatest DEF SeesHead, SeenHead
  <2>3. /\ conclusion[1] \in Kinds \ {"REJECTED"}
        /\ conclusion[2] \in Companies \cup {None}
        /\ conclusion[2] = None <=> conclusion[1] = "AMBIGUOUS"
    BY <2>1, ConclusionIsSound DEF Concludes, Kinds
  <2>4. Decides(run'[r].plan)
    BY <2>1, <2>2, <2>3 DEF Decides, Successor
  <2> QED
    BY <1>3, <2>4, PlansDoes, RowsByMover DEF KeepsTables, KeepsDecisions, RowsOK
<1>4. CASE Write(r)
  <2>1. Decides(Outcome(r))
    BY <1>4, WriteDoes, OutcomeIs DEF RowsOK
  <2> QED
    BY <1>4, <2>1, WriteDoes, RowsByMover DEF KeepsTables, RowsOK
<1>5. CASE Commit(r)
  BY <1>5, CommitDoes, RowsByMover DEF Nothing, RowsOK
<1> QED
  BY <1>1, <1>2, <1>3, <1>4, <1>5, DecisionsBy

LEMMA RowsByRebuild ==
    ASSUME Shapes, RowsOK, NumbersOK, HeadsOK, ClaimsOK, NEW b \in Rebuilds, RebuildStep(b)
    PROVE  RowsOK'
<1> DEFINE Rows == \A c \in Rebuilds : \A p \in rebuild'[c].rows : Projected(p)
           Table == \A p \in projection' : Projected(p)
<1>0. UNCHANGED <<situation, decisions, run, reviews>>
  BY RebuildLeaves
<1>1. ASSUME RebuildMover(b), rebuild'[b].rows \in {{}, rebuild[b].rows}
      PROVE  Rows
  <2>1. ASSUME NEW c \in Rebuilds PROVE rebuild'[c].rows \in {{}, rebuild[c].rows}
    <3>1. CASE c = b
      BY <1>1, <3>1
    <3>2. CASE c # b
      BY <1>1, <3>2 DEF RebuildMover, KeepsRebuild
    <3> QED
      BY <3>1, <3>2
  <2> QED
    BY <2>1 DEF RowsOK
<1>2. CASE BeginRebuild(b)
  <2>1. ASSUME NEW c \in Rebuilds PROVE rebuild'[c].rows \in {{}, rebuild[c].rows}
    BY <1>2, BeginRebuildDoes
  <2>2. Rows /\ Table
    BY <1>2, <2>1, BeginRebuildDoes DEF RowsOK
  <2> QED
    BY <1>0, <2>2 DEF RowsOK
<1>3. CASE StartDelete(b)
  <2>1. Rows /\ Table
    BY <1>1, <1>3, StartDeleteDoes DEF RowsOK
  <2> QED
    BY <1>0, <2>1 DEF RowsOK
<1>4. CASE FinishDelete(b)
  <2>1. Rows /\ Table
    BY <1>1, <1>4, FinishDeleteDoes DEF RowsOK
  <2> QED
    BY <1>0, <2>1 DEF RowsOK
<1>5. CASE FindHeads(b) \/ LockHead(b) \/ SelectHeads(b) \/ HeadsClash(b)
  <2>1. Rows /\ Table
    BY <1>1, <1>5, FindHeadsDoes, LockHeadDoes, SelectHeadsDoes, HeadsClashDoes DEF RowsOK
  <2> QED
    BY <1>0, <2>1 DEF RowsOK
<1>6. CASE Load(b)
  <2>1. ASSUME NEW p \in rebuild'[b].rows PROVE Projected(p)
    <3>1. PICK row \in Projection(EffectiveClaims(b)) : p = [by |-> b, row |-> row]
      BY <1>6, LoadDoes
    <3>2. PICK company \in {c.company : c \in EffectiveClaims(b)} :
             row \in CompanyRows(EffectiveClaims(b), company)
      BY RowsByCompany
    <3>3. Claims(EffectiveClaims(b))
      BY <1>6, LoadDoes, EffectiveAreClaims DEF Inserting
    <3>4. row.company = company /\ row.table \in {"profile", "name", "domain", "presence"}
      BY <3>2, <3>3, RowComesFrom
    <3>5. company \in Companies
      BY <3>2, <3>3 DEF Claims
    <3> QED
      BY <3>1, <3>4, <3>5 DEF Projected, Tables
  <2>2. ASSUME NEW c \in Rebuilds, NEW p \in rebuild'[c].rows PROVE Projected(p)
    <3>1. CASE c = b
      BY <2>1, <2>2, <3>1
    <3>2. CASE c # b
      BY <1>6, <2>2, <3>2, LoadDoes DEF RebuildMover, KeepsRebuild, RowsOK
    <3> QED
      BY <3>1, <3>2
  <2>3. Table
    BY <1>6, LoadDoes DEF RowsOK
  <2> QED
    BY <1>0, <2>2, <2>3 DEF RowsOK
<1>7. CASE InsertRows(b)
  <2>1. Rows /\ Table
    BY <1>1, <1>7, RefusedDoes, InsertedDoes DEF RowsOK
  <2> QED
    BY <1>0, <2>1 DEF RowsOK
<1>8. CASE CommitRebuild(b)
  <2>1. Rows
    BY <1>1, <1>8, CommitRebuildDoes
  <2>2. Table
    BY <1>8, CommitRebuildDoes DEF RowsOK
  <2> QED
    BY <1>0, <2>1, <2>2 DEF RowsOK
<1>9. CASE GivesUp(b)
  <2>1. Rows /\ Table
    BY <1>1, <1>9, GivesUpDoes DEF RowsOK
  <2> QED
    BY <1>0, <2>1 DEF RowsOK
<1> QED
  BY <1>2, <1>3, <1>4, <1>5, <1>6, <1>7, <1>8, <1>9, RebuildStepDoes DEF RebuildDoes

\* What a reviewer decides has the next number.
LEMMA PostedIsNext ==
    ASSUME NumbersOK, NEW key, NEW d, NEW kind, Posted(key, d, kind)
    PROVE  /\ d.n \in Nat \ {0}
           /\ \A e \in On(decisions, d.entity) : e.n < d.n
           /\ d.n = 1 \/ \E e \in On(decisions, d.entity) : e.n = d.n - 1
<1> DEFINE head == HeadOf(decisions, d.entity)
<1>1. /\ head.n \in Nat /\ {e.n : e \in On(decisions, d.entity)} = 1 .. head.n
      /\ \A e \in On(decisions, d.entity) : e.n \in Nat /\ e.n <= head.n
  BY HeadIsGreatest DEF NumbersOK
<1>2. d.n = head.n + 1
  BY DEF Posted
<1> HIDE DEF head
<1>3. CASE head.n = 0
  BY <1>1, <1>2, <1>3
<1>4. CASE head.n # 0
  <2>1. head.n \in {e.n : e \in On(decisions, d.entity)}
    BY <1>1, <1>4
  <2> QED
    BY <1>1, <1>2, <2>1
<1> QED
  BY <1>3, <1>4

LEMMA RowsStep ==
    ASSUME DiscoveryInv, [Next]_vars
    PROVE  RowsOK'
<1>0. Shapes /\ PhaseOK /\ RowsOK /\ NumbersOK /\ HeadsOK /\ ClaimsOK
  BY DEF DiscoveryInv
<1>1. ASSUME NEW r \in Runs, RunStep(r) PROVE RowsOK'
  BY <1>0, <1>1, RunStepDoes, RowsByRun
<1>2. ASSUME NEW b \in Rebuilds, RebuildStep(b) PROVE RowsOK'
  BY <1>0, <1>2, RowsByRebuild
<1>3. CASE Review
  <2>1. PICK key, d, kind : Posted(key, d, kind)
    BY <1>0, <1>3, ReviewDoes
  <2>2. d.n \in Nat \ {0}
    BY <1>0, <2>1, PostedIsNext
  <2>3. Decides(d)
    BY <1>0, <2>1, <2>2, DiscoveryAssumption DEF Posted, Decides, RowsOK, Kinds
  <2>4. \A e \in decisions' : Decides(e)
    BY <1>0, <2>1, <2>3 DEF Posted, RowsOK
  <2>5. /\ reviews < MaxReviews /\ reviews' = reviews + 1
        /\ UNCHANGED <<situation, projection, run, rebuild>>
    BY <1>0, <1>3, ReviewDoes
  <2>6. reviews' \in 0..MaxReviews
    BY <1>0, <2>5, DiscoveryAssumption DEF RowsOK
  <2> QED
    BY <1>0, <2>4, <2>5, <2>6 DEF RowsOK
<1>4. CASE UNCHANGED vars
  BY <1>0, <1>4 DEF vars, RowsOK
<1> QED
  BY <1>1, <1>2, <1>3, <1>4 DEF Next

-----------------------------------------------------------------------------
(***************************************************************************)
(* Numbers of decisions.                                                   *)
(***************************************************************************)

\* Nobody else decides about an entity whose head a run holds.
LEMMA NumbersByOthers ==
    ASSUME NEW s \in Runs, NumbersOf(s), run'[s] = run[s], NEW D, decisions' = decisions \cup D,
           \A d \in D : d.entity \notin run[s].cached,
           \A entity : InOrder(On(decisions', entity))
    PROVE  NumbersOf(s)'
<1>1. Decided(s)' = Decided(s) \cup D /\ run'[s].decided = run[s].decided
  BY DEF Decided
<1>2. ASSUME NEW entity, On(run[s].decided, entity) # {}
      PROVE  On(Decided(s)', entity) = On(Decided(s), entity)
  <2>1. entity \in run[s].cached
    BY <1>2 DEF On, NumbersOf
  <2> QED
    BY <1>1, <2>1 DEF On
<1>3. ASSUME NEW entity PROVE InOrder(On(Decided(s)', entity))
  <2>1. CASE On(run[s].decided, entity) # {}
    BY <1>2, <2>1 DEF NumbersOf
  <2>2. CASE On(run[s].decided, entity) = {}
    <3>1. On(Decided(s)', entity) = On(decisions', entity)
      BY <2>2 DEF On, Decided
    <3> QED
      BY <3>1
  <2> QED
    BY <2>1, <2>2
<1>4. ASSUME NEW d \in run[s].decided PROVE d.entity \in run[s].cached /\ d \notin decisions'
  BY DEF NumbersOf
<1>5. ASSUME run[s].at = "write" PROVE Planned(s)'
  <2>1. Planned(s)
    BY <1>5 DEF NumbersOf
  <2>2. run[s].plan.n = 1 \/ \E e \in On(Decided(s)', run[s].plan.entity) : e.n = run[s].plan.n - 1
    BY <1>1, <2>1 DEF Planned, On
  <2>3. On(run[s].decided, run[s].plan.entity) # {} =>
           \A e \in On(Decided(s)', run[s].plan.entity) : e.n < run[s].plan.n
    BY <1>2, <2>1 DEF Planned
  <2> QED
    BY <2>2, <2>3 DEF Planned
<1> QED
  BY <1>3, <1>4, <1>5 DEF NumbersOf

\* What a run has decided stays in order while nothing is decided.
LEMMA NumbersUnchanged ==
    ASSUME NEW s \in Runs, NumbersOf(s), UNCHANGED decisions,
           run'[s].decided = run[s].decided, run[s].cached \subseteq run'[s].cached,
           run'[s].at = "write" => Planned(s)'
    PROVE  NumbersOf(s)'
<1>1. Decided(s)' = Decided(s)
  BY DEF Decided
<1> QED
  BY <1>1 DEF NumbersOf

LEMMA NumbersByMover ==
    ASSUME NumbersOK, NEW r \in Runs, Mover(r), UNCHANGED decisions, NumbersOf(r)'
    PROVE  NumbersOK'
<1>1. ASSUME NEW s \in Runs, s # r PROVE NumbersOf(s)'
  <2>1. run'[s] = run[s] /\ NumbersOf(s)
    BY <1>1 DEF Mover, NumbersOK
  <2>2. Planned(s)' <=> Planned(s)
    BY <2>1 DEF Planned, Decided
  <2> QED
    BY <2>1, <2>2, NumbersUnchanged DEF NumbersOf
<1> QED
  BY <1>1 DEF NumbersOK

LEMMA PlannedByPlans ==
    ASSUME Shapes, PhaseOK, NumbersOK, NEW r \in Runs, Plans(r)
    PROVE  Planned(r)'
<1> DEFINE v == Version(r).entity
           head == HeadOf(Decided(r), v)
<1>1. PICK conclusion : run'[r].plan = Successor(v, head, conclusion)
  BY PlansDoes DEF SeesHead, SeenHead, Decided
<1>2. run'[r].plan.entity = v /\ run'[r].plan.n = head.n + 1
  BY <1>1 DEF Successor
<1>3. /\ head.n \in Nat /\ {d.n : d \in On(Decided(r), v)} = 1 .. head.n
      /\ \A d \in On(Decided(r), v) : d.n \in Nat /\ d.n <= head.n
  BY HeadIsGreatest DEF NumbersOK, NumbersOf
<1>4. Decided(r)' = Decided(r)
  BY PlansDoes DEF Decided, KeepsTables, KeepsDecisions
<1> HIDE DEF head, v
<1>5. run'[r].plan.n = 1 \/ \E e \in On(Decided(r)', v) : e.n = run'[r].plan.n - 1
  <2>1. CASE head.n = 0
    BY <1>2, <2>1
  <2>2. CASE head.n # 0
    <3>1. head.n \in {d.n : d \in On(Decided(r), v)}
      BY <1>3, <2>2
    <3> QED
      BY <1>2, <1>3, <1>4, <3>1
  <2> QED
    BY <2>1, <2>2
<1>6. \A e \in On(Decided(r)', v) : e.n < run'[r].plan.n
  BY <1>2, <1>3, <1>4
<1> QED
  BY <1>2, <1>5, <1>6 DEF Planned

LEMMA NumbersByWrite ==
    ASSUME Shapes, PhaseOK, RowsOK, NumbersOK, NEW r \in Runs, Write(r)
    PROVE  NumbersOf(r)'
<1> DEFINE plan == run[r].plan
<1>0. /\ run[r].at = "write" /\ run'[r].at = "claim" /\ UNCHANGED decisions
      /\ run'[r].decided = run[r].decided \cup ({Outcome(r)} \ decisions)
      /\ run'[r].cached = run[r].cached \cup {plan.entity}
  BY WriteDoes DEF KeepsTables
<1>1. NumbersOf(r) /\ Planned(r) /\ plan.n \in Nat \ {0}
  BY <1>0 DEF NumbersOK, NumbersOf, RowsOK, Decides
<1>2. CASE Outcome(r) \in decisions
  BY <1>0, <1>1, <1>2, NumbersUnchanged
<1>3. CASE Outcome(r) \notin decisions
  <2>1. Outcome(r) = plan /\ \A e \in On(decisions, plan.entity) : e.n # plan.n
    BY <1>3, OutcomeIs
  <2>2. run'[r].decided = run[r].decided \cup {plan} /\ Decided(r)' = Decided(r) \cup {plan}
    BY <1>0, <1>3, <2>1 DEF Decided
  <2>3. InOrder(On(Decided(r), plan.entity))
    BY <1>1 DEF NumbersOf
  <2>4. \A e \in On(Decided(r), plan.entity) : e.n # plan.n
    <3>1. CASE On(run[r].decided, plan.entity) = {}
      BY <2>1, <3>1 DEF On, Decided
    <3>2. CASE On(run[r].decided, plan.entity) # {}
      <4>1. ASSUME NEW e \in On(Decided(r), plan.entity) PROVE e.n # plan.n
        <5>1. e.n < plan.n
          BY <1>1, <3>2 DEF Planned
        <5>2. e.n \in Nat
          BY <2>3, HeadIsGreatest
        <5> QED
          BY <1>1, <5>1, <5>2
      <4> QED
        BY <4>1
    <3> QED
      BY <3>1, <3>2
  <2>5. plan.n = 1 \/ \E e \in On(Decided(r), plan.entity) : e.n = plan.n - 1
    BY <1>1 DEF Planned
  <2>6. ASSUME NEW entity PROVE InOrder(On(Decided(r)', entity))
    <3>1. CASE entity = plan.entity
      <4>1. On(Decided(r)', entity) = On(Decided(r), plan.entity) \cup {plan}
        BY <2>2, <3>1 DEF On
      <4>2. InOrder(On(Decided(r), plan.entity) \cup {plan})
        BY <1>1, <2>3, <2>4, <2>5, NextInOrder
      <4> QED
        BY <4>1, <4>2
    <3>2. CASE entity # plan.entity
      <4>1. On(Decided(r)', entity) = On(Decided(r), entity)
        BY <2>2, <3>2 DEF On
      <4> QED
        BY <1>1, <4>1 DEF NumbersOf
    <3> QED
      BY <3>1, <3>2
  <2>7. IsFiniteSet(run'[r].decided)
    BY <1>1, <2>2, FS_AddElement DEF NumbersOf
  <2>8. \A d \in run'[r].decided : d.entity \in run'[r].cached /\ d \notin decisions'
    BY <1>0, <1>1, <1>3, <2>1, <2>2 DEF NumbersOf
  <2> QED
    BY <1>0, <2>6, <2>7, <2>8 DEF NumbersOf
<1> QED
  BY <1>2, <1>3

LEMMA NumbersByCommit ==
    ASSUME Shapes, NumbersOK, HeadsOK, NEW r \in Runs, Commit(r)
    PROVE  NumbersOK'
<1>0. /\ Mover(r) /\ run'[r].at = "done" /\ Nothing(run'[r]) /\ decisions' = Decided(r)
  BY CommitDoes DEF Decided
<1>1. NumbersOf(r)
  BY DEF NumbersOK
<1>2. \A entity : InOrder(On(decisions', entity))
  BY <1>0, <1>1 DEF NumbersOf
<1>3. IsFiniteSet(decisions')
  BY <1>0, <1>1, FS_Union DEF NumbersOK, NumbersOf, Decided
<1>4. NumbersOf(r)'
  <2>1. run'[r].decided = {} /\ Decided(r)' = decisions'
    BY <1>0 DEF Nothing, Decided
  <2> QED
    BY <1>0, <1>2, <2>1, FS_EmptySet DEF NumbersOf
<1>5. ASSUME NEW s \in Runs, s # r PROVE NumbersOf(s)'
  <2>1. \A d \in run[r].decided : d.entity \notin run[s].cached
    BY <1>1, <1>5 DEF NumbersOf, HeadsOK
  <2>2. NumbersOf(s) /\ run'[s] = run[s] /\ decisions' = decisions \cup run[r].decided
    BY <1>0, <1>5 DEF NumbersOK, Mover, Decided
  <2> QED
    BY <1>2, <2>1, <2>2, NumbersByOthers
<1> QED
  BY <1>2, <1>3, <1>4, <1>5 DEF NumbersOK

LEMMA NumbersByReview ==
    ASSUME Shapes, NumbersOK, Review
    PROVE  NumbersOK'
<1>0. PICK key, d, kind : Posted(key, d, kind)
  BY ReviewDoes
<1>1. decisions' = decisions \cup {d} /\ HeadHolders(d.entity) = {} /\ UNCHANGED run
  BY <1>0, ReviewDoes DEF Posted
<1>2. /\ d.n \in Nat \ {0}
      /\ \A e \in On(decisions, d.entity) : e.n < d.n
      /\ d.n = 1 \/ \E e \in On(decisions, d.entity) : e.n = d.n - 1
  BY <1>0, PostedIsNext
<1>3. ASSUME NEW entity PROVE InOrder(On(decisions', entity))
  <2>1. CASE entity = d.entity
    <3>1. On(decisions', entity) = On(decisions, entity) \cup {d}
      BY <1>1, <2>1 DEF On
    <3>2. InOrder(On(decisions, entity))
      BY DEF NumbersOK
    <3>3. \A e \in On(decisions, entity) : e.n # d.n
      BY <1>2, <2>1, <3>2, HeadIsGreatest
    <3> QED
      BY <1>2, <2>1, <3>1, <3>2, <3>3, NextInOrder
  <2>2. CASE entity # d.entity
    <3>1. On(decisions', entity) = On(decisions, entity)
      BY <1>1, <2>2 DEF On
    <3> QED
      BY <3>1 DEF NumbersOK
  <2> QED
    BY <2>1, <2>2
<1>4. ASSUME NEW s \in Runs PROVE NumbersOf(s)'
  <2>1. d.entity \notin run[s].cached
    BY <1>1 DEF HeadHolders
  <2>2. NumbersOf(s) /\ run'[s] = run[s]
    BY <1>1 DEF NumbersOK
  <2> QED
    BY <1>1, <1>3, <2>1, <2>2, NumbersByOthers
<1>5. IsFiniteSet(decisions')
  BY <1>1, FS_AddElement DEF NumbersOK
<1> QED
  BY <1>3, <1>4, <1>5 DEF NumbersOK

LEMMA NumbersStep ==
    ASSUME DiscoveryInv, [Next]_vars
    PROVE  NumbersOK'
<1>0. Shapes /\ PhaseOK /\ RowsOK /\ NumbersOK /\ HeadsOK
  BY DEF DiscoveryInv
<1>1. ASSUME NEW r \in Runs, RunStep(r) PROVE NumbersOK'
  <2>0. RunDoes(r) /\ NumbersOf(r)
    BY <1>0, <1>1, RunStepDoes DEF NumbersOK
  <2>1. CASE DecidesNothing(r)
    <3>1. NumbersOf(r)'
      BY <2>0, <2>1, NumbersUnchanged DEF DecidesNothing, KeepsDecisions
    <3> QED
      BY <1>0, <2>1, <3>1, NumbersByMover DEF DecidesNothing
  <2>2. CASE Fails(r)
    <3>1. Mover(r) /\ UNCHANGED decisions /\ run'[r].decided = {} /\ run'[r].at # "write"
      BY <1>0, <2>2, FailsDoes DEF Nothing, KeepsTables
    <3>2. Decided(r)' = decisions
      BY <3>1 DEF Decided
    <3>3. NumbersOf(r)'
      BY <1>0, <3>1, <3>2, FS_EmptySet DEF NumbersOK, NumbersOf
    <3> QED
      BY <1>0, <3>1, <3>3, NumbersByMover
  <2>3. CASE Plans(r)
    <3>1. NumbersOf(r)'
      BY <1>0, <2>0, <2>3, PlansDoes, PlannedByPlans, NumbersUnchanged DEF KeepsTables, KeepsDecisions
    <3> QED
      BY <1>0, <2>3, <3>1, PlansDoes, NumbersByMover DEF KeepsTables
  <2>4. CASE Write(r)
    BY <1>0, <2>4, WriteDoes, NumbersByWrite, NumbersByMover DEF KeepsTables
  <2>5. CASE Commit(r)
    BY <1>0, <2>5, NumbersByCommit
  <2> QED
    BY <1>0, <2>0, <2>1, <2>2, <2>3, <2>4, <2>5, DecisionsBy
<1>2. ASSUME UNCHANGED <<decisions, run>> PROVE NumbersOK'
  <2>1. ASSUME NEW s \in Runs PROVE Planned(s)' <=> Planned(s)
    BY <1>2 DEF Planned, Decided
  <2>2. ASSUME NEW s \in Runs PROVE NumbersOf(s)'
    BY <1>0, <1>2, <2>1, NumbersUnchanged DEF NumbersOK, NumbersOf
  <2> QED
    BY <1>0, <1>2, <2>2 DEF NumbersOK
<1>3. ASSUME NEW b \in Rebuilds, RebuildStep(b) PROVE NumbersOK'
  BY <1>0, <1>2, <1>3, RebuildLeaves
<1>4. CASE Review
  BY <1>0, <1>4, NumbersByReview
<1>5. CASE UNCHANGED vars
  BY <1>2, <1>5 DEF vars
<1> QED
  BY <1>1, <1>3, <1>4, <1>5 DEF Next

-----------------------------------------------------------------------------
(***************************************************************************)
(* Head rows.                                                              *)
(***************************************************************************)

\* What a run decides is on entities whose heads no rebuild holds.
LEMMA HeadsByMover ==
    ASSUME HeadsOK, NEW r \in Runs, Mover(r), run'[r].cached \subseteq run[r].cached,
           decisions \subseteq decisions',
           \A d \in decisions' : d \in decisions \/ d.entity \in run[r].cached
    PROVE  HeadsOK'
<1>1. ASSUME NEW s \in Runs PROVE run'[s].cached \subseteq run[s].cached
  BY DEF Mover
<1>2. \A s, t \in Runs : s # t => run'[s].cached \cap run'[t].cached = {}
  BY <1>1 DEF HeadsOK
<1>3. ASSUME NEW b \in Rebuilds PROVE HeadsOf(b)'
  <2>0. HeadsOf(b) /\ rebuild' = rebuild
    BY DEF HeadsOK, Mover
  <2>1. ASSUME NEW d \in rebuild[b].heads, d.entity \in rebuild[b].locked
        PROVE  d \in decisions' /\ \A e \in On(decisions', d.entity) : e.n <= d.n
    <3>1. d \in decisions /\ \A e \in On(decisions, d.entity) : e.n <= d.n
      BY <2>0, <2>1 DEF HeadsOf
    <3>2. d.entity \notin run[r].cached
      BY <2>0, <2>1 DEF HeadsOf
    <3>3. On(decisions', d.entity) = On(decisions, d.entity)
      BY <3>2 DEF On
    <3> QED
      BY <3>1, <3>3
  <2> QED
    BY <1>1, <2>0, <2>1 DEF HeadsOf
<1> QED
  BY <1>2, <1>3 DEF HeadsOK

LEMMA HeadsByRun ==
    ASSUME Shapes, NumbersOK, HeadsOK, NEW r \in Runs, RunDoes(r)
    PROVE  HeadsOK'
<1>1. CASE DecidesNothing(r)
  BY <1>1, HeadsByMover DEF DecidesNothing, KeepsDecisions
<1>2. CASE Fails(r)
  BY <1>2, FailsDoes, HeadsByMover DEF KeepsTables, Nothing
<1>3. CASE Plans(r)
  BY <1>3, PlansDoes, HeadsByMover DEF KeepsTables, KeepsDecisions
<1>4. CASE Write(r)
  <2>0. /\ Mover(r) /\ UNCHANGED decisions
        /\ run'[r].cached = run[r].cached \cup {run[r].plan.entity}
        /\ HeadHolders(run[r].plan.entity) \ {r} = {}
    BY <1>4, WriteDoes DEF KeepsTables
  <2>1. \A s \in Runs \ {r} : run[r].plan.entity \notin run[s].cached
    BY <2>0 DEF HeadHolders
  <2>2. \A b \in Rebuilds : run[r].plan.entity \notin rebuild[b].locked
    <3>1. \A b \in Rebuilds : b # r
      BY DiscoveryAssumption
    <3> QED
      BY <2>0, <3>1 DEF HeadHolders
  <2>3. ASSUME NEW s \in Runs, NEW t \in Runs, s # t
        PROVE  run'[s].cached \cap run'[t].cached = {}
    <3>1. CASE s = r
      BY <2>0, <2>1, <2>3, <3>1 DEF Mover, HeadsOK
    <3>2. CASE t = r
      BY <2>0, <2>1, <2>3, <3>2 DEF Mover, HeadsOK
    <3>3. CASE s # r /\ t # r
      BY <2>0, <2>3, <3>3 DEF Mover, HeadsOK
    <3> QED
      BY <3>1, <3>2, <3>3
  <2>4. ASSUME NEW b \in Rebuilds PROVE HeadsOf(b)'
    <3>0. HeadsOf(b) /\ rebuild' = rebuild
      BY <2>0 DEF HeadsOK, Mover
    <3>1. ASSUME NEW entity \in rebuild[b].locked, NEW s \in Runs PROVE entity \notin run'[s].cached
      <4>1. entity \notin run[s].cached /\ entity # run[r].plan.entity
        BY <2>2, <3>0, <3>1 DEF HeadsOf
      <4>2. CASE s = r
        BY <2>0, <4>1, <4>2
      <4>3. CASE s # r
        BY <2>0, <4>1, <4>3 DEF Mover
      <4> QED
        BY <4>2, <4>3
    <3> QED
      BY <2>0, <3>0, <3>1 DEF HeadsOf
  <2> QED
    BY <2>3, <2>4 DEF HeadsOK
<1>5. CASE Commit(r)
  BY <1>5, CommitDoes, HeadsByMover DEF Nothing, NumbersOK, NumbersOf
<1> QED
  BY <1>1, <1>2, <1>3, <1>4, <1>5, DecisionsBy

\* Statements that select no heads and lock no head row.
SelectsNothing(c) ==
    /\ rebuild'[c].heads \in {{}, rebuild[c].heads} /\ rebuild'[c].locked \in {{}, rebuild[c].locked}
    /\ rebuild'[c].at \in Deleting => rebuild'[c].heads = {} \/ rebuild[c].at \in Deleting
    /\ rebuild'[c].at \in Inserting =>
          rebuild[c].at \in Inserting /\ rebuild'[c].locked = rebuild[c].locked

LEMMA HeadsKept ==
    ASSUME UNCHANGED <<decisions, run>>, NEW c \in Rebuilds, HeadsOf(c), SelectsNothing(c)
    PROVE  HeadsOf(c)'
BY DEF HeadsOf, SelectsNothing

LEMMA HeadsByStatement ==
    ASSUME Shapes, NEW b \in Rebuilds, RebuildDoes(b), ~LockHead(b), ~SelectHeads(b)
    PROVE  SelectsNothing(b)
<1>1. CASE BeginRebuild(b)
  BY <1>1, BeginRebuildDoes DEF SelectsNothing, Inserting
<1>2. CASE StartDelete(b)
  BY <1>2, StartDeleteDoes DEF SelectsNothing, Deleting, Inserting
<1>3. CASE FinishDelete(b)
  BY <1>3, FinishDeleteDoes DEF SelectsNothing, Deleting, Inserting
<1>4. CASE FindHeads(b)
  BY <1>4, FindHeadsDoes DEF SelectsNothing, Deleting, Inserting
<1>5. CASE HeadsClash(b)
  BY <1>5, HeadsClashDoes DEF SelectsNothing, Deleting, Inserting
<1>6. CASE Load(b)
  BY <1>6, LoadDoes DEF SelectsNothing, Deleting, Inserting
<1>7. CASE InsertRows(b)
  BY <1>7, RefusedDoes, InsertedDoes DEF SelectsNothing, Deleting, Inserting
<1>8. CASE CommitRebuild(b)
  BY <1>8, CommitRebuildDoes DEF SelectsNothing, Deleting, Inserting
<1>9. CASE GivesUp(b)
  BY <1>9, GivesUpDoes DEF SelectsNothing, Deleting, Inserting
<1> QED
  BY <1>1, <1>2, <1>3, <1>4, <1>5, <1>6, <1>7, <1>8, <1>9 DEF RebuildDoes

LEMMA HeadsByLock ==
    ASSUME Shapes, HeadsOK, NEW b \in Rebuilds, LockHead(b)
    PROVE  HeadsOf(b)'
<1>1. /\ UNCHANGED <<decisions, run>>
      /\ rebuild[b].at = "lock" /\ rebuild'[b].at = "lock" /\ rebuild'[b].heads = rebuild[b].heads
  BY LockHeadDoes DEF RebuildMover
<1>2. PICK entity : HeadHolders(entity) = {} /\ rebuild'[b].locked = rebuild[b].locked \cup {entity}
  BY LockHeadDoes
<1>3. HeadsOf(b)
  BY DEF HeadsOK
<1>4. rebuild[b].heads = {}
  BY <1>1, <1>3 DEF HeadsOf, Deleting
<1>5. \A r \in Runs : entity \notin run[r].cached
  BY <1>2 DEF HeadHolders
<1> QED
  BY <1>1, <1>2, <1>3, <1>4, <1>5 DEF HeadsOf, Inserting

LEMMA HeadsBySelect ==
    ASSUME Shapes, NumbersOK, HeadsOK, NEW b \in Rebuilds, SelectHeads(b)
    PROVE  HeadsOf(b)'
<1>1. /\ UNCHANGED <<decisions, run>>
      /\ rebuild'[b].at = IF Entities \subseteq rebuild[b].locked THEN "load" ELSE "reinsert"
      /\ rebuild'[b].heads = {HeadOf(decisions, e) : e \in Entities}
      /\ rebuild'[b].locked = rebuild[b].locked
  BY SelectHeadsDoes DEF RebuildMover
<1>2. HeadsOf(b)
  BY DEF HeadsOK
<1>3. ASSUME NEW d \in rebuild'[b].heads
      PROVE  d.entity \in Entities /\ d \in decisions /\ \A e \in On(decisions, d.entity) : e.n <= d.n
  <2>1. PICK entity \in Entities : d = HeadOf(decisions, entity)
    BY <1>1, <1>3
  <2>2. On(decisions, entity) # {} /\ InOrder(On(decisions, entity))
    BY DEF Entities, On, NumbersOK
  <2>3. d \in On(decisions, entity) /\ \A e \in On(decisions, entity) : e.n <= d.n
    BY <2>1, <2>2, HeadIsGreatest
  <2>4. d \in decisions /\ d.entity = entity
    BY <2>3 DEF On
  <2> QED
    BY <2>3, <2>4
<1>4. rebuild'[b].at \in Inserting => \A d \in rebuild'[b].heads : d.entity \in rebuild'[b].locked
  BY <1>1, <1>3 DEF Inserting
<1>5. rebuild'[b].at \notin Deleting
  BY <1>1 DEF Deleting
<1> QED
  BY <1>1, <1>2, <1>3, <1>4, <1>5 DEF HeadsOf

LEMMA HeadsByRebuild ==
    ASSUME Shapes, NumbersOK, HeadsOK, NEW b \in Rebuilds, RebuildStep(b)
    PROVE  HeadsOK'
<1>0. UNCHANGED <<decisions, run>> /\ RebuildDoes(b)
  BY RebuildLeaves, RebuildStepDoes
<1>1. HeadsOf(b)'
  <2>1. CASE ~LockHead(b) /\ ~SelectHeads(b)
    BY <1>0, <2>1, HeadsByStatement, HeadsKept DEF HeadsOK
  <2> QED
    BY <2>1, HeadsByLock, HeadsBySelect
<1>2. ASSUME NEW c \in Rebuilds, c # b PROVE HeadsOf(c)'
  <2>1. /\ rebuild'[c].at = rebuild[c].at /\ rebuild'[c].heads = rebuild[c].heads
        /\ rebuild'[c].locked = rebuild[c].locked
    <3>1. CASE BeginRebuild(b)
      BY <1>2, <3>1, BeginRebuildDoes
    <3>2. CASE RebuildMover(b)
      BY <1>2, <3>2 DEF RebuildMover, KeepsRebuild
    <3> QED
      BY <1>0, <3>1, <3>2, StartDeleteDoes, FinishDeleteDoes, FindHeadsDoes, LockHeadDoes,
         SelectHeadsDoes, HeadsClashDoes, LoadDoes, RefusedDoes, InsertedDoes, CommitRebuildDoes,
         GivesUpDoes DEF RebuildDoes
  <2>2. SelectsNothing(c)
    BY <2>1 DEF SelectsNothing
  <2> QED
    BY <1>0, <2>2, HeadsKept DEF HeadsOK
<1> QED
  BY <1>0, <1>1, <1>2 DEF HeadsOK

LEMMA HeadsStep ==
    ASSUME DiscoveryInv, [Next]_vars
    PROVE  HeadsOK'
<1>0. Shapes /\ PhaseOK /\ RowsOK /\ NumbersOK /\ HeadsOK
  BY DEF DiscoveryInv
<1>1. ASSUME NEW r \in Runs, RunStep(r) PROVE HeadsOK'
  BY <1>0, <1>1, RunStepDoes, HeadsByRun
<1>2. ASSUME NEW b \in Rebuilds, RebuildStep(b) PROVE HeadsOK'
  BY <1>0, <1>2, HeadsByRebuild
<1>3. CASE Review
  <2>1. PICK key, d, kind : Posted(key, d, kind)
    BY <1>0, <1>3, ReviewDoes
  <2>2. UNCHANGED <<run, rebuild>> /\ decisions' = decisions \cup {d} /\ HeadHolders(d.entity) = {}
    BY <1>0, <1>3, <2>1, ReviewDoes DEF Posted
  <2>3. ASSUME NEW b \in Rebuilds PROVE HeadsOf(b)'
    <3>1. HeadsOf(b)
      BY <1>0 DEF HeadsOK
    <3>2. ASSUME NEW h \in rebuild[b].heads, h.entity \in rebuild[b].locked
          PROVE  h \in decisions' /\ \A e \in On(decisions', h.entity) : e.n <= h.n
      <4>1. h.entity # d.entity
        BY <2>2, <3>2 DEF HeadHolders
      <4>2. On(decisions', h.entity) = On(decisions, h.entity)
        BY <2>2, <4>1 DEF On
      <4> QED
        BY <2>2, <3>1, <3>2, <4>2 DEF HeadsOf
    <3> QED
      BY <2>2, <3>1, <3>2 DEF HeadsOf
  <2> QED
    BY <1>0, <2>2, <2>3 DEF HeadsOK
<1>4. CASE UNCHANGED vars
  BY <1>0, <1>4 DEF vars, HeadsOK, HeadsOf
<1> QED
  BY <1>1, <1>2, <1>3, <1>4 DEF Next

-----------------------------------------------------------------------------
(***************************************************************************)
(* Ids of claims.                                                          *)
(***************************************************************************)

\* One of the versions left comes first.
LEMMA VersionIsOne ==
    ASSUME NEW r \in Runs, run[r].versions # {}
    PROVE  Version(r) \in run[r].versions
<1> DEFINE V == run[r].versions
           I == {i \in 1..Len(Contents) : \E v \in V : Contents[i] = v.content}
<1>1. \E v \in V : \A w \in V : ~Precedes(w, v)
  <2>1. CASE I = {}
    BY <2>1 DEF Precedes
  <2>2. CASE I # {}
    <3>1. I \in SUBSET Nat
      BY DiscoveryAssumption
    <3>2. PICK i \in I : \A j \in I : i <= j
      BY <2>2, <3>1, LeastNumber
    <3>3. PICK v \in V : Contents[i] = v.content
      BY <3>2
    <3>4. ASSUME NEW w \in V, Precedes(w, v) PROVE FALSE
      <4>1. PICK k \in 1..Len(Contents), j \in 1..Len(Contents) :
               Contents[k] = w.content /\ Contents[j] = v.content /\ k < j
        BY <3>4 DEF Precedes
      <4>2. i \in 1..Len(Contents) /\ j = i
        BY <3>2, <3>3, <4>1, DiscoveryAssumption
      <4>3. k \in I
        BY <4>1
      <4>4. i <= k /\ k < i
        BY <3>2, <4>1, <4>2, <4>3
      <4> QED
        BY <4>1, <4>2, <4>4, DiscoveryAssumption
    <3> QED
      BY <3>3, <3>4
  <2> QED
    BY <2>1, <2>2
<1> QED
  BY <1>1 DEF Version

\* It is stored, and so is what the run has read of it.
LEMMA VersionIsStored ==
    ASSUME PhaseOK, RecordsOK, NEW r \in Runs, run[r].at = "claim"
    PROVE  /\ Version(r) \in run[r].versions /\ Version(r) \in RunVersions(r)
           /\ Version(r).entity.provider \in DOMAIN Providers
           /\ StoredIn(evidence \cup run[r].wrote, "normalization", Version(r)) # {}
<1>1. run[r].versions # {} /\ run[r].versions \subseteq RunVersions(r)
  BY DEF PhaseOK, PhaseOf, Resolving
<1>2. Version(r) \in run[r].versions /\ Version(r) \in RunVersions(r)
  BY <1>1, VersionIsOne
<1>3. PICK k \in run[r].wrote : /\ k.table = "sighting"
                                /\ Version(r) = [entity |-> k.entity, content |-> k.content]
  BY <1>2 DEF RunVersions
<1>4. Version(r).entity = k.entity /\ Version(r).content = k.content
  BY <1>3
<1> DEFINE S == evidence \cup run[r].wrote
<1>5. Whole(S) /\ k \in S
  BY DEF RecordsOK, RecordsOf
<1> HIDE DEF S
<1>6. k.entity.provider \in DOMAIN Providers
  BY <1>5 DEF Whole
<1>7. PICK l \in S : l.table = "version" /\ l.entity = k.entity /\ l.content = k.content
  <2>1. StoredIn(S, "version", k) # {}
    BY <1>3, <1>5 DEF Whole
  <2> QED
    BY <2>1 DEF StoredIn
<1>8. StoredIn(S, "normalization", l) # {}
  BY <1>5, <1>7 DEF Whole
<1>9. StoredIn(S, "normalization", Version(r)) # {}
  BY <1>4, <1>7, <1>8 DEF StoredIn
<1> QED
  BY <1>2, <1>4, <1>6, <1>9 DEF S

LEMMA ClaimsStep ==
    ASSUME DiscoveryInv, [Next]_vars
    PROVE  ClaimsOK'
<1>0. Shapes /\ PhaseOK /\ RowsOK /\ ClaimsOK /\ RecordsOK
  BY DEF DiscoveryInv
<1>1. ASSUME AllBatches' \subseteq AllBatches PROVE ClaimsOK'
  BY <1>0, <1>1 DEF ClaimsOK
<1>2. ASSUME NEW r \in Runs, RunStep(r) PROVE ClaimsOK'
  <2>0. RunDoes(r)
    BY <1>0, <1>2, RunStepDoes
  <2>1. CASE ClaimsNothing(r)
    <3>1. \A s \in Runs : run'[s].claimed = run[s].claimed
      BY <2>1 DEF ClaimsNothing, KeepsClaims, Mover
    <3> QED
      BY <1>1, <2>1, <3>1 DEF ClaimsNothing, AllBatches
  <2>2. CASE Fails(r)
    <3>1. \A s \in Runs : run'[s].claimed \subseteq run[s].claimed
      BY <1>0, <2>2, FailsDoes DEF Nothing, Mover
    <3>2. UNCHANGED batches
      BY <1>0, <2>2, FailsDoes DEF KeepsTables
    <3> QED
      BY <1>1, <3>1, <3>2 DEF AllBatches
  <2>3. CASE Claimed(r)
    <3>0. Mover(r) /\ UNCHANGED batches /\ run[r].at = "claim"
      BY <1>0, <2>3, ClaimedDoes DEF KeepsTables
    <3>1. PICK id \in BatchIds :
             /\ \A b \in AllBatches : b.id # id
             /\ run'[r].claimed = run[r].claimed \cup {Batch(r, id, Version(r), run[r].plan)}
      BY <1>0, <2>3, ClaimedDoes
    <3> DEFINE new == Batch(r, id, Version(r), run[r].plan)
    <3>2. new.id = id /\ new.version = Version(r)
      BY DEF Batch
    <3>3. new.version.entity.provider \in DOMAIN Providers
      BY <1>0, <3>0, <3>2, VersionIsStored
    <3> HIDE DEF new
    <3>4. ASSUME NEW b \in AllBatches' PROVE b \in AllBatches \/ b = new
      <4>1. CASE b \in batches
        BY <4>1 DEF AllBatches
      <4>2. CASE b \notin batches
        <5>1. PICK s \in Runs : b \in run'[s].claimed
          BY <3>0, <3>4, <4>2 DEF AllBatches
        <5>2. b \in run[s].claimed \/ b = new
          BY <3>0, <3>1, <5>1 DEF Mover, new
        <5> QED
          BY <5>2 DEF AllBatches
      <4> QED
        BY <4>1, <4>2
    <3> QED
      BY <1>0, <3>1, <3>2, <3>3, <3>4 DEF ClaimsOK
  <2>4. CASE Commit(r)
    <3>1. /\ \A s \in Runs : run'[s].claimed \subseteq run[s].claimed
          /\ batches' = batches \cup run[r].claimed
      BY <1>0, <2>4, CommitDoes DEF Nothing, Mover
    <3> QED
      BY <1>1, <3>1 DEF AllBatches
  <2> QED
    BY <1>0, <2>0, <2>1, <2>2, <2>3, <2>4, ClaimsBy
<1>3. ASSUME UNCHANGED <<batches, run>> PROVE ClaimsOK'
  BY <1>1, <1>3 DEF AllBatches
<1>4. ASSUME NEW b \in Rebuilds, RebuildStep(b) PROVE ClaimsOK'
  BY <1>0, <1>3, <1>4, RebuildLeaves
<1>5. CASE Review
  BY <1>0, <1>3, <1>5, ReviewDoes
<1>6. CASE UNCHANGED vars
  BY <1>3, <1>6 DEF vars
<1> QED
  BY <1>2, <1>4, <1>5, <1>6 DEF Next

-----------------------------------------------------------------------------
(***************************************************************************)
(* Records.                                                                *)
(***************************************************************************)

LEMMA WholeUnion ==
    ASSUME NEW S, NEW T, Whole(S), Whole(T)
    PROVE  Whole(S \cup T)
<1>1. ASSUME NEW table, NEW k
      PROVE  /\ StoredIn(S, table, k) \subseteq StoredIn(S \cup T, table, k)
             /\ StoredIn(T, table, k) \subseteq StoredIn(S \cup T, table, k)
  BY DEF StoredIn
<1>2. ASSUME NEW k \in S \cup T
      PROVE  /\ k.table \in {"entity", "version", "body", "sighting", "normalization"}
             /\ k.entity.provider \in DOMAIN Providers
             /\ k.table # "entity" => StoredIn(S \cup T, "version", k) # {}
             /\ k.table = "version" =>
                   \A table \in {"body", "sighting", "normalization"} : StoredIn(S \cup T, table, k) # {}
             /\ \E l \in S \cup T : l.table = "version" /\ l.entity = k.entity
             /\ Key("entity", k.entity, None, None) \in S \cup T
  <2>1. CASE k \in S
    <3>1. k.table # "entity" => StoredIn(S, "version", k) # {}
      BY <2>1 DEF Whole
    <3>2. k.table = "version" =>
             \A table \in {"body", "sighting", "normalization"} : StoredIn(S, table, k) # {}
      BY <2>1 DEF Whole
    <3>3. /\ k.table \in {"entity", "version", "body", "sighting", "normalization"}
          /\ k.entity.provider \in DOMAIN Providers
          /\ \E l \in S \cup T : l.table = "version" /\ l.entity = k.entity
          /\ Key("entity", k.entity, None, None) \in S \cup T
      BY <2>1 DEF Whole
    <3> QED
      BY <1>1, <3>1, <3>2, <3>3
  <2>2. CASE k \in T
    <3>1. k.table # "entity" => StoredIn(T, "version", k) # {}
      BY <2>2 DEF Whole
    <3>2. k.table = "version" =>
             \A table \in {"body", "sighting", "normalization"} : StoredIn(T, table, k) # {}
      BY <2>2 DEF Whole
    <3>3. /\ k.table \in {"entity", "version", "body", "sighting", "normalization"}
          /\ k.entity.provider \in DOMAIN Providers
          /\ \E l \in S \cup T : l.table = "version" /\ l.entity = k.entity
          /\ Key("entity", k.entity, None, None) \in S \cup T
      BY <2>2 DEF Whole
    <3> QED
      BY <1>1, <3>1, <3>2, <3>3
  <2> QED
    BY <2>1, <2>2
<1> QED
  BY <1>2 DEF Whole

\* The five rows of a record.
LEMMA RowsOfRecord ==
    ASSUME situation \in Situations, NEW r \in Runs, NEW record
    PROVE  LET rows == RowsOf(r, record) IN
           /\ Len(rows) = 5
           /\ \E entity :
                 /\ entity.provider \in DOMAIN Providers
                 /\ rows[1] = Key("entity", entity, None, None)
                 /\ \A i \in 1..5 : rows[i].entity = entity
                 /\ \A i \in 2..5 : rows[i].content = record.content
                 /\ rows[1].table = "entity" /\ rows[2].table = "version"
                 /\ rows[3].table = "body" /\ rows[4].table = "sighting"
                 /\ rows[5].table = "normalization" /\ rows[4].of = r
<1> DEFINE entity == EntityOf(Ask(r).provider, record, Candidate(record.content, Ask(r).normalizer))
           rows == RowsOf(r, record)
<1>1. entity.provider = Ask(r).provider
  BY DEF EntityOf
<1>2. Ask(r).provider \in DOMAIN Providers
  BY DiscoveryAssumption DEF Ask
<1>3. rows = <<Key("entity", entity, None, None),
               Key("version", entity, record.content, None),
               Key("body", entity, record.content, record.bytes),
               Key("sighting", entity, record.content, r),
               Key("normalization", entity, record.content, Ask(r).normalizer)>>
  BY DEF RowsOf
<1> HIDE DEF entity, rows
<1>4. /\ Len(rows) = 5
      /\ rows[1] = Key("entity", entity, None, None)
      /\ rows[2] = Key("version", entity, record.content, None)
      /\ rows[3] = Key("body", entity, record.content, record.bytes)
      /\ rows[4] = Key("sighting", entity, record.content, r)
      /\ rows[5] = Key("normalization", entity, record.content, Ask(r).normalizer)
  BY <1>3
<1>5. \A i \in 1..5 : rows[i].entity = entity
  <2>1. \A i \in 1..5 : i = 1 \/ i = 2 \/ i = 3 \/ i = 4 \/ i = 5
    OBVIOUS
  <2> QED
    BY <1>4, <2>1 DEF Key
<1>6. \A i \in 2..5 : rows[i].content = record.content
  <2>1. \A i \in 2..5 : i = 2 \/ i = 3 \/ i = 4 \/ i = 5
    OBVIOUS
  <2> QED
    BY <1>4, <2>1 DEF Key
<1>7. /\ rows[1].table = "entity" /\ rows[2].table = "version" /\ rows[3].table = "body"
      /\ rows[4].table = "sighting" /\ rows[5].table = "normalization" /\ rows[4].of = r
  BY <1>4 DEF Key
<1>8. entity.provider \in DOMAIN Providers
  BY <1>1, <1>2
<1> QED
  BY <1>4, <1>5, <1>6, <1>7, <1>8 DEF rows

\* With its last row a record is whole.
LEMMA RecordIsWhole ==
    ASSUME situation \in Situations, NEW r \in Runs, NEW record,
           NEW S, Whole(S), NEW N, N \subseteq {RowsOf(r, record)[i] : i \in 1..5},
           \A i \in 1..5 : RowsOf(r, record)[i] \in S \cup N
    PROVE  Whole(S \cup N)
<1> DEFINE rows == RowsOf(r, record)
           T == S \cup N
           R == {rows[i] : i \in 1..5}
<1>1. PICK entity :
         /\ entity.provider \in DOMAIN Providers
         /\ rows[1] = Key("entity", entity, None, None)
         /\ \A i \in 1..5 : rows[i].entity = entity
         /\ \A i \in 2..5 : rows[i].content = record.content
         /\ rows[1].table = "entity" /\ rows[2].table = "version"
         /\ rows[3].table = "body" /\ rows[4].table = "sighting"
         /\ rows[5].table = "normalization"
  BY RowsOfRecord
<1>2. \A i \in 1..5 : rows[i] \in T
  OBVIOUS
<1> HIDE DEF rows
<1>3. Whole(R)
  <2>1. ASSUME NEW k, k.entity = entity, k.content = record.content
        PROVE  /\ StoredIn(R, "version", k) # {}
               /\ \A table \in {"body", "sighting", "normalization"} : StoredIn(R, table, k) # {}
    <3>1. /\ rows[2] \in StoredIn(R, "version", k) /\ rows[3] \in StoredIn(R, "body", k)
          /\ rows[4] \in StoredIn(R, "sighting", k) /\ rows[5] \in StoredIn(R, "normalization", k)
      BY <1>1, <2>1 DEF StoredIn
    <3> QED
      BY <3>1
  <2>2. ASSUME NEW k \in R
        PROVE  /\ k.table \in {"entity", "version", "body", "sighting", "normalization"}
               /\ k.entity = entity
               /\ k.table # "entity" => k.content = record.content
    <3>1. PICK i \in 1..5 : k = rows[i]
      BY <2>2
    <3>2. i = 1 \/ i = 2 \/ i = 3 \/ i = 4 \/ i = 5
      OBVIOUS
    <3> QED
      BY <1>1, <3>1, <3>2
  <2>3. rows[2] \in R /\ rows[2].table = "version" /\ rows[2].entity = entity
        /\ Key("entity", entity, None, None) \in R
    BY <1>1
  <2>4. ASSUME NEW k \in R
        PROVE  /\ k.table \in {"entity", "version", "body", "sighting", "normalization"}
               /\ k.entity.provider \in DOMAIN Providers
               /\ k.table # "entity" => StoredIn(R, "version", k) # {}
               /\ k.table = "version" =>
                     \A table \in {"body", "sighting", "normalization"} : StoredIn(R, table, k) # {}
               /\ \E l \in R : l.table = "version" /\ l.entity = k.entity
               /\ Key("entity", k.entity, None, None) \in R
    <3>1. k.entity = entity /\ (k.table # "entity" => k.content = record.content)
      BY <2>2
    <3>2. k.table # "entity" => StoredIn(R, "version", k) # {}
      BY <2>1, <3>1
    <3>3. k.table = "version" =>
             \A table \in {"body", "sighting", "normalization"} : StoredIn(R, table, k) # {}
      BY <2>1, <3>1
    <3> QED
      BY <1>1, <2>2, <2>3, <3>1, <3>2, <3>3
  <2> HIDE DEF R
  <2> QED
    BY <2>4 DEF Whole
<1>4. S \cup N = S \cup R
  BY <1>2 DEF rows
<1> QED
  BY <1>3, <1>4, WholeUnion

\* What another transaction stores takes nothing from a run.
LEMMA RecordsByOthers ==
    ASSUME NEW s \in Runs, RecordsOf(s), run'[s] = run[s], UNCHANGED situation,
           evidence \subseteq evidence', Whole(evidence')
    PROVE  RecordsOf(s)'
<1>1. evidence' \cup run[s].wrote = evidence' \cup (evidence \cup run[s].wrote)
  OBVIOUS
<1>2. Whole(evidence' \cup run'[s].wrote)
  BY <1>1, WholeUnion DEF RecordsOf
<1>3. ASSUME NEW b \in run[s].claimed
      PROVE  StoredIn(evidence' \cup run'[s].wrote, "normalization", b.version) # {}
  BY DEF RecordsOf, StoredIn
<1>4. ASSUME run[s].at = "ingest", run[s].left # <<>> PROVE Begun(s)'
  <2>1. Begun(s)
    BY <1>4 DEF RecordsOf
  <2>2. RowsOf(s, Head(run[s].left))' = RowsOf(s, Head(run[s].left))
    BY DEF RowsOf, Ask
  <2>3. Visible(s) \subseteq Visible(s)'
    BY DEF Visible
  <2> QED
    BY <2>1, <2>2, <2>3 DEF Begun
<1> QED
  BY <1>2, <1>3, <1>4 DEF RecordsOf

LEMMA RecordsByMover ==
    ASSUME RecordsOK, NEW r \in Runs, Mover(r), UNCHANGED <<evidence, batches>>, RecordsOf(r)'
    PROVE  RecordsOK'
<1>1. ASSUME NEW s \in Runs, s # r PROVE RecordsOf(s)'
  <2>1. RecordsOf(s) /\ run'[s] = run[s] /\ UNCHANGED situation
    BY <1>1 DEF RecordsOK, Mover
  <2> QED
    BY <2>1, RecordsByOthers DEF RecordsOK
<1> QED
  BY <1>1 DEF RecordsOK

\* A statement that does not concern records.
LEMMA RecordsKept ==
    ASSUME RecordsOK, NEW r \in Runs, Mover(r), KeepsTables, KeepsRecord(r), KeepsClaims(r),
           run'[r].at # "ingest"
    PROVE  RecordsOK'
<1>1. RecordsOf(r)'
  BY DEF RecordsOK, RecordsOf, KeepsTables, KeepsRecord, KeepsClaims
<1> QED
  BY <1>1, RecordsByMover DEF KeepsTables

\* A record that is about to be inserted.
LEMMA RecordBegins ==
    ASSUME RecordsOK, NEW r \in Runs, run'[r].next = 1, run'[r].mine = {},
           UNCHANGED evidence, Whole(evidence \cup run'[r].wrote), KeepsClaims(r),
           run[r].wrote \subseteq run'[r].wrote
    PROVE  RecordsOf(r)'
<1>1. Begun(r)'
  BY DEF Begun
<1>2. ASSUME NEW b \in run'[r].claimed
      PROVE  StoredIn(evidence' \cup run'[r].wrote, "normalization", b.version) # {}
  <2>1. StoredIn(evidence \cup run[r].wrote, "normalization", b.version) # {}
    BY DEF RecordsOK, RecordsOf, KeepsClaims
  <2>2. PICK l \in evidence \cup run[r].wrote :
           l.table = "normalization" /\ l.entity = b.version.entity /\ l.content = b.version.content
    BY <2>1 DEF StoredIn
  <2>3. l \in evidence' \cup run'[r].wrote
    BY <2>2
  <2> QED
    BY <2>2, <2>3 DEF StoredIn
<1> QED
  BY <1>1, <1>2 DEF RecordsOf

LEMMA RecordsByInsert ==
    ASSUME Shapes, RowsOK, RecordsOK, NEW r \in Runs, InsertsRow(r) \/ InsertsLast(r)
    PROVE  RecordsOf(r)'
<1> DEFINE rows == RowsOf(r, Head(run[r].left))
           N == run[r].mine \cup ({NextRow(r)} \ Visible(r))
<1>0. /\ Mover(r) /\ UNCHANGED <<evidence, situation>> /\ KeepsClaims(r)
      /\ run[r].at = "ingest" /\ run'[r].at = "ingest" /\ run[r].left # <<>>
  BY InsertsRowDoes, InsertsLastDoes DEF Mover, KeepsTables
<1>1. /\ run[r].next \in 1..5 /\ run[r].mine \subseteq {rows[i] : i \in 1..5}
      /\ \A i \in 1..5 : i < run[r].next => rows[i] \in Visible(r)
  BY <1>0 DEF RecordsOK, RecordsOf, Begun
<1>2. NextRow(r) = rows[run[r].next] /\ Len(rows) = 5
  BY RowsOfRecord DEF NextRow, RowsOK
<1> HIDE DEF rows
<1>3. N \subseteq {rows[i] : i \in 1..5}
  BY <1>1, <1>2
<1>4. \A i \in 1..5 : i < run[r].next + 1 => rows[i] \in (evidence \cup run[r].wrote) \cup N
  <2>1. ASSUME NEW i \in 1..5, i < run[r].next + 1 PROVE rows[i] \in (evidence \cup run[r].wrote) \cup N
    <3>1. CASE i < run[r].next
      BY <1>1, <3>1 DEF Visible
    <3>2. CASE i = run[r].next
      BY <1>2, <3>2 DEF Visible
    <3>3. i < run[r].next \/ i = run[r].next
      BY <1>1, <2>1
    <3> QED
      BY <3>1, <3>2, <3>3
  <2> QED
    BY <2>1
<1>5. Whole(evidence \cup run[r].wrote)
  BY DEF RecordsOK, RecordsOf
<1>6. CASE InsertsRow(r)
  <2>1. /\ run'[r].left = run[r].left /\ run'[r].next = run[r].next + 1 /\ run'[r].mine = N
        /\ run'[r].wrote = run[r].wrote /\ run[r].next < 5
    BY <1>2, <1>6, InsertsRowDoes DEF rows
  <2>2. RowsOf(r, Head(run[r].left))' = rows
    BY <1>0, <2>1 DEF RowsOf, Ask, rows
  <2>3. run'[r].next \in 1..5
    BY <1>1, <2>1
  <2>4. \A i \in 1..5 : i < run'[r].next => rows[i] \in Visible(r)'
    BY <1>0, <1>4, <2>1 DEF Visible
  <2>5. Begun(r)'
    BY <1>3, <2>1, <2>2, <2>3, <2>4 DEF Begun
  <2>6. \A b \in run'[r].claimed :
            StoredIn(evidence' \cup run'[r].wrote, "normalization", b.version) # {}
    BY <1>0, <2>1 DEF RecordsOK, RecordsOf, KeepsClaims
  <2> QED
    BY <1>0, <1>5, <2>1, <2>5, <2>6 DEF RecordsOf
<1>7. CASE InsertsLast(r)
  <2>1. /\ run'[r].next = 1 /\ run'[r].mine = {} /\ run'[r].wrote = run[r].wrote \cup N
        /\ ~(run[r].next < 5)
    BY <1>2, <1>7, InsertsLastDoes DEF rows
  <2>2. \A i \in 1..5 : rows[i] \in (evidence \cup run[r].wrote) \cup N
    <3>1. \A i \in 1..5 : i < run[r].next + 1
      BY <1>1, <2>1
    <3> QED
      BY <1>4, <3>1
  <2>3. Whole((evidence \cup run[r].wrote) \cup N)
    <3> HIDE DEF N
    <3> QED
      BY <1>3, <1>5, <2>2, RecordIsWhole DEF RowsOK, rows
  <2>4. evidence \cup run'[r].wrote = (evidence \cup run[r].wrote) \cup N
    BY <2>1
  <2> QED
    BY <1>0, <2>1, <2>3, <2>4, RecordBegins
<1> QED
  BY <1>6, <1>7

LEMMA RecordsByRun ==
    ASSUME Shapes, PhaseOK, RowsOK, RecordsOK, NEW r \in Runs, RunDoes(r)
    PROVE  RecordsOK'
<1>0. PhaseOf(r) /\ RecordsOf(r)
  BY DEF PhaseOK, RecordsOK
<1>1. CASE Begin(r)
  BY <1>1, BeginDoes, RecordsKept
<1>2. CASE Search(r)
  <2>1. /\ Mover(r) /\ KeepsTables /\ KeepsClaims(r)
        /\ run'[r].wrote = run[r].wrote /\ run'[r].next = 1 /\ run'[r].mine = {}
    BY <1>0, <1>2, SearchDoes DEF PhaseOf
  <2>2. Whole(evidence \cup run'[r].wrote)
    BY <1>0, <2>1 DEF RecordsOf
  <2>3. RecordsOf(r)'
    BY <2>1, <2>2, RecordBegins DEF KeepsTables
  <2> QED
    BY <2>1, <2>3, RecordsByMover DEF KeepsTables
<1>3. CASE GoesOn(r)
  BY <1>3, GoesOnDoes, RecordsKept
<1>4. CASE Fails(r)
  <2>1. /\ Mover(r) /\ KeepsTables /\ run'[r].wrote = {} /\ run'[r].claimed = {}
        /\ run'[r].at # "ingest"
    BY <1>4, FailsDoes DEF Nothing
  <2>2. evidence' \cup run'[r].wrote = evidence
    BY <2>1 DEF KeepsTables
  <2>3. RecordsOf(r)'
    BY <2>1, <2>2 DEF RecordsOf, RecordsOK
  <2> QED
    BY <2>1, <2>3, RecordsByMover DEF KeepsTables
<1>5. CASE Skips(r)
  <2>1. /\ Mover(r) /\ KeepsTables /\ KeepsClaims(r)
        /\ run'[r].wrote = run[r].wrote /\ run'[r].next = 1 /\ run'[r].mine = {}
    BY <1>5, SkipsDoes
  <2>2. Whole(evidence \cup run'[r].wrote)
    BY <1>0, <2>1 DEF RecordsOf
  <2>3. RecordsOf(r)'
    BY <2>1, <2>2, RecordBegins DEF KeepsTables
  <2> QED
    BY <2>1, <2>3, RecordsByMover DEF KeepsTables
<1>6. CASE InsertsRow(r)
  BY <1>6, InsertsRowDoes, RecordsByInsert, RecordsByMover DEF KeepsTables
<1>7. CASE InsertsLast(r)
  BY <1>7, InsertsLastDoes, RecordsByInsert, RecordsByMover DEF KeepsTables
<1>8. CASE Fetched(r)
  BY <1>8, FetchedDoes, RecordsKept
<1>9. CASE Keeps(r)
  BY <1>9, KeepsDoes, RecordsKept
<1>10. CASE Plans(r)
  BY <1>10, PlansDoes, RecordsKept
<1>11. CASE Write(r)
  BY <1>11, WriteDoes, RecordsKept
<1>12. CASE Passes(r)
  BY <1>12, PassesDoes, RecordsKept
<1>13. CASE Claimed(r)
  <2>0. Mover(r) /\ KeepsTables /\ KeepsRecord(r) /\ run[r].at = "claim" /\ run'[r].at = "resolve"
    BY <1>13, ClaimedDoes
  <2>1. PICK id : run'[r].claimed = run[r].claimed \cup {Batch(r, id, Version(r), run[r].plan)}
    BY <1>13, ClaimedDoes
  <2>2. ASSUME NEW b \in run'[r].claimed
        PROVE  StoredIn(evidence \cup run[r].wrote, "normalization", b.version) # {}
    <3>1. CASE b \in run[r].claimed
      BY <1>0, <3>1 DEF RecordsOf
    <3>2. CASE b = Batch(r, id, Version(r), run[r].plan)
      <4>1. b.version = Version(r)
        BY <3>2 DEF Batch
      <4> QED
        BY <2>0, <4>1, VersionIsStored
    <3> QED
      BY <2>1, <2>2, <3>1, <3>2
  <2>3. RecordsOf(r)'
    BY <1>0, <2>0, <2>2 DEF RecordsOf, KeepsTables, KeepsRecord
  <2> QED
    BY <2>0, <2>3, RecordsByMover DEF KeepsTables
<1>14. CASE Commit(r)
  <2>0. /\ Mover(r) /\ run'[r].at = "done" /\ Nothing(run'[r])
        /\ evidence' = evidence \cup run[r].wrote /\ batches' = batches \cup run[r].claimed
    BY <1>14, CommitDoes
  <2>1. Whole(evidence')
    BY <1>0, <2>0 DEF RecordsOf
  <2>2. ASSUME NEW b \in batches' PROVE StoredIn(evidence', "normalization", b.version) # {}
    BY <1>0, <2>0 DEF RecordsOf, RecordsOK, StoredIn
  <2>3. RecordsOf(r)'
    <3>1. evidence' \cup run'[r].wrote = evidence' /\ run'[r].claimed = {}
      BY <2>0 DEF Nothing
    <3> QED
      BY <2>0, <2>1, <3>1 DEF RecordsOf
  <2>4. ASSUME NEW s \in Runs, s # r PROVE RecordsOf(s)'
    BY <2>0, <2>1, <2>4, RecordsByOthers DEF RecordsOK, Mover
  <2> QED
    BY <2>1, <2>2, <2>3, <2>4 DEF RecordsOK
<1> QED
  BY <1>1, <1>2, <1>3, <1>4, <1>5, <1>6, <1>7, <1>8, <1>9, <1>10, <1>11, <1>12, <1>13, <1>14
     DEF RunDoes

LEMMA RecordsStep ==
    ASSUME DiscoveryInv, [Next]_vars
    PROVE  RecordsOK'
<1>0. Shapes /\ PhaseOK /\ RowsOK /\ RecordsOK
  BY DEF DiscoveryInv
<1>1. ASSUME NEW r \in Runs, RunStep(r) PROVE RecordsOK'
  BY <1>0, <1>1, RunStepDoes, RecordsByRun
<1>2. ASSUME UNCHANGED <<situation, evidence, batches, run>> PROVE RecordsOK'
  BY <1>0, <1>2, RecordsByOthers DEF RecordsOK
<1>3. ASSUME NEW b \in Rebuilds, RebuildStep(b) PROVE RecordsOK'
  BY <1>0, <1>2, <1>3, RebuildLeaves
<1>4. CASE Review
  BY <1>0, <1>2, <1>4, ReviewDoes
<1>5. CASE UNCHANGED vars
  BY <1>2, <1>5 DEF vars
<1> QED
  BY <1>1, <1>3, <1>4, <1>5 DEF Next

-----------------------------------------------------------------------------
(***************************************************************************)
(* Sightings.                                                              *)
(***************************************************************************)

LEMMA HandledKept ==
    ASSUME NEW r \in Runs, NEW v, Handled(r, v), run'[r].past = run[r].past,
           decisions \subseteq decisions', batches \subseteq batches',
           run[r].decided \subseteq run'[r].decided, run[r].claimed \subseteq run'[r].claimed
    PROVE  Handled(r, v)'
<1>1. PICK d \in Decided(r) \ run[r].past :
         /\ d.entity = v.entity
         /\ d.company = None \/ \E b \in batches \cup run[r].claimed : b.version = v /\ b.n = d.n
  BY DEF Handled
<1>2. d \in Decided(r)' \ run'[r].past
  BY <1>1 DEF Decided
<1>3. d.company = None \/ \E b \in batches' \cup run'[r].claimed : b.version = v /\ b.n = d.n
  BY <1>1
<1> QED
  BY <1>1, <1>2, <1>3 DEF Handled

LEMMA SightingsByOthers ==
    ASSUME NEW s \in Runs, SightingsOf(s), run'[s] = run[s],
           decisions \subseteq decisions', batches \subseteq batches'
    PROVE  SightingsOf(s)'
<1>1. ASSUME NEW d \in run[s].past
      PROVE  d \in decisions' /\ \E e \in On(decisions', d.entity) : e.n > d.n
  BY DEF SightingsOf, On
<1>2. ASSUME run[s].at = "claim" PROVE run[s].plan \in Decided(s)' \ run'[s].past
  BY <1>2 DEF SightingsOf, Decided
<1>3. ASSUME run[s].at \in Resolving, NEW v \in RunVersions(s) \ run[s].versions
      PROVE  Handled(s, v)'
  BY <1>3, HandledKept DEF SightingsOf
<1>4. RunVersions(s)' = RunVersions(s)
  BY SameSightings
<1> QED
  BY <1>1, <1>2, <1>3, <1>4 DEF SightingsOf

\* What a completed run left settled stays so.
Followed(k) ==
    \E d \in decisions \ run[k.of].past :
        /\ d.entity = k.entity
        /\ \/ d.company = None
           \/ \E b \in batches : b.version.entity = k.entity
                                /\ b.version.content = k.content /\ b.n = d.n

LEMMA FollowedKept ==
    ASSUME NEW k, Followed(k), run'[k.of] = run[k.of],
           decisions \subseteq decisions', batches \subseteq batches'
    PROVE  Followed(k)'
<1>1. PICK d \in decisions \ run[k.of].past :
        /\ d.entity = k.entity
        /\ \/ d.company = None
           \/ \E b \in batches : b.version.entity = k.entity
                                /\ b.version.content = k.content /\ b.n = d.n
  BY DEF Followed
<1>2. d \in decisions' \ run'[k.of].past
  BY <1>1
<1> QED
  BY <1>1, <1>2 DEF Followed

LEMMA SightingsOfAll ==
    ASSUME SightingsOK, \A s \in Runs : run[s].at = "done" => run'[s] = run[s],
           decisions \subseteq decisions', batches \subseteq batches',
           \A k \in evidence' : k.table = "sighting" =>
              \/ k \in evidence
              \/ k.of \in Runs /\ run'[k.of].at = "done" /\ Followed(k)',
           \A s \in Runs : SightingsOf(s)'
    PROVE  SightingsOK'
<1>1. ASSUME NEW k \in evidence', k.table = "sighting"
      PROVE  k.of \in Runs /\ run'[k.of].at = "done" /\ Followed(k)'
  <2>1. CASE k \in evidence
    <3>1. k.of \in Runs /\ run[k.of].at = "done"
      BY <1>1, <2>1 DEF SightingsOK
    <3>2. Followed(k)
      BY <1>1, <2>1, <3>1 DEF SightingsOK, NothingIsStranded, Followed
    <3> QED
      BY <3>1, <3>2, FollowedKept
  <2>2. CASE k \notin evidence
    BY <1>1, <2>2
  <2> QED
    BY <2>1, <2>2
<1>2. NothingIsStranded'
  BY <1>1 DEF NothingIsStranded, Followed
<1> QED
  BY <1>1, <1>2 DEF SightingsOK

LEMMA SightingsByMover ==
    ASSUME SightingsOK, NEW r \in Runs, Mover(r), run[r].at # "done", KeepsTables, SightingsOf(r)'
    PROVE  SightingsOK'
<1>1. ASSUME NEW s \in Runs, s # r PROVE SightingsOf(s)'
  <2>1. SightingsOf(s) /\ run'[s] = run[s]
    BY <1>1 DEF SightingsOK, Mover
  <2> QED
    BY <2>1, SightingsByOthers DEF KeepsTables
<1>2. \A s \in Runs : run[s].at = "done" => run'[s] = run[s]
  BY DEF Mover
<1> QED
  BY <1>1, <1>2, SightingsOfAll DEF KeepsTables

\* Ingestion stores sightings of the run.
LEMMA SightingsIngested ==
    ASSUME SightingsOK, NEW r \in Runs, Mover(r), run[r].at # "done", KeepsTables,
           run'[r].at \notin Resolving, run'[r].past = run[r].past,
           \A k \in run'[r].wrote \cup run'[r].mine :
              \/ k \in run[r].wrote \cup run[r].mine
              \/ k.table = "sighting" => k.of = r
    PROVE  SightingsOK'
<1>1. \A d \in run'[r].past : d \in decisions' /\ \E e \in On(decisions', d.entity) : e.n > d.n
  BY DEF SightingsOK, SightingsOf, KeepsTables
<1>2. SightingsOf(r)'
  BY <1>1 DEF SightingsOK, SightingsOf, Resolving
<1> QED
  BY <1>2, SightingsByMover

LEMMA NextRowIsOwn ==
    ASSUME RowsOK, RecordsOK, NEW r \in Runs, run[r].at = "ingest", run[r].left # <<>>
    PROVE  NextRow(r).table = "sighting" => NextRow(r).of = r
<1> DEFINE rows == RowsOf(r, Head(run[r].left))
<1>1. /\ rows[1].table = "entity" /\ rows[2].table = "version"
      /\ rows[3].table = "body" /\ rows[4].table = "sighting"
      /\ rows[5].table = "normalization" /\ rows[4].of = r
  BY RowsOfRecord DEF RowsOK
<1>2. NextRow(r) = rows[run[r].next]
  BY DEF NextRow
<1>3. run[r].next \in 1..5
  BY DEF RecordsOK, RecordsOf, Begun
<1> HIDE DEF rows
<1>4. run[r].next = 1 \/ run[r].next = 2 \/ run[r].next = 3 \/ run[r].next = 4 \/ run[r].next = 5
  BY <1>3
<1> QED
  BY <1>1, <1>2, <1>4

\* Resolution keeps what was seen, and what is settled of it.
LEMMA SightingsResolved ==
    ASSUME SightingsOK, NEW r \in Runs, Mover(r), run[r].at \in Resolving, KeepsTables,
           run'[r].wrote = run[r].wrote, run'[r].mine = run[r].mine,
           run'[r].past = run[r].past,
           run'[r].at = "claim" => run'[r].plan \in Decided(r)' \ run[r].past,
           run[r].decided \subseteq run'[r].decided, run[r].claimed \subseteq run'[r].claimed,
           \A v \in run[r].versions \ run'[r].versions : Handled(r, v)'
    PROVE  SightingsOK'
<1>0. SightingsOf(r)
  BY DEF SightingsOK
<1>1. \A d \in run'[r].past : d \in decisions' /\ \E e \in On(decisions', d.entity) : e.n > d.n
  BY <1>0 DEF SightingsOf, KeepsTables
<1>2. RunVersions(r)' = RunVersions(r)
  BY SameSightings
<1>3. ASSUME NEW v \in RunVersions(r) \ run'[r].versions PROVE Handled(r, v)'
  <2>1. CASE v \in run[r].versions
    BY <2>1, <1>3
  <2>2. CASE v \notin run[r].versions
    <3>1. Handled(r, v)
      BY <1>0, <1>3, <2>2 DEF SightingsOf
    <3> QED
      BY <3>1, HandledKept DEF KeepsTables
  <2> QED
    BY <2>1, <2>2
<1>4. SightingsOf(r)'
  BY <1>0, <1>1, <1>2, <1>3 DEF SightingsOf
<1> QED
  BY <1>4, SightingsByMover DEF Resolving

\* A head is in force: no run has seen it superseded.
LEMMA HeadIsNotPast ==
    ASSUME SightingsOK, NEW r \in Runs, NEW S, decisions \subseteq S, NEW d \in S,
           InOrder(On(S, d.entity)), \A e \in On(S, d.entity) : e.n <= d.n
    PROVE  d \notin run[r].past
<1> SUFFICES ASSUME d \in run[r].past PROVE FALSE
  OBVIOUS
<1>1. PICK e \in On(decisions, d.entity) : e.n > d.n
  BY DEF SightingsOK, SightingsOf
<1>2. e \in On(S, d.entity) /\ d \in On(S, d.entity)
  BY DEF On
<1>3. e.n \in Nat /\ d.n \in Nat /\ e.n <= d.n
  BY <1>2, HeadIsGreatest
<1> QED
  BY <1>1, <1>3

LEMMA SightingsByCommit ==
    ASSUME Shapes, PhaseOK, RecordsOK, SightingsOK, NEW r \in Runs, Commit(r)
    PROVE  SightingsOK'
<1>0. /\ Mover(r) /\ run[r].at = "resolve" /\ run[r].versions = {}
      /\ run'[r].at = "done" /\ Nothing(run'[r]) /\ run'[r].past = run[r].past
      /\ evidence' = evidence \cup run[r].wrote
      /\ decisions' = Decided(r) /\ batches' = batches \cup run[r].claimed
  BY CommitDoes DEF Decided
<1>1. SightingsOf(r) /\ decisions \subseteq decisions' /\ batches \subseteq batches'
  BY <1>0 DEF SightingsOK, Decided
<1>2. ASSUME NEW k \in run[r].wrote, k.table = "sighting"
      PROVE  k.of = r /\ Followed(k)'
  <2>1. k.of = r
    BY <1>1, <1>2 DEF SightingsOf
  <2> DEFINE v == [entity |-> k.entity, content |-> k.content]
  <2>2. v \in RunVersions(r) \ run[r].versions
    BY <1>0, <1>2 DEF RunVersions
  <2>3. Handled(r, v)
    BY <1>0, <1>1, <2>2 DEF SightingsOf, Resolving
  <2>4. PICK d \in Decided(r) \ run[r].past :
          /\ d.entity = v.entity
          /\ d.company = None \/ \E b \in batches \cup run[r].claimed : b.version = v /\ b.n = d.n
    BY <2>3 DEF Handled
  <2>5. d \in decisions' \ run'[r].past
    BY <1>0, <2>4
  <2>6. d.entity = k.entity
    BY <2>4
  <2>7. d.company = None \/ \E b \in batches' : b.version.entity = k.entity
                                               /\ b.version.content = k.content /\ b.n = d.n
    BY <1>0, <2>4
  <2> QED
    BY <2>1, <2>5, <2>6, <2>7 DEF Followed
<1>3. \A s \in Runs : run[s].at = "done" => run'[s] = run[s]
  BY <1>0 DEF Mover
<1>4. ASSUME NEW s \in Runs PROVE SightingsOf(s)'
  <2>1. CASE s = r
    <3>1. \A d \in run'[r].past : d \in decisions' /\ \E e \in On(decisions', d.entity) : e.n > d.n
      BY <1>0, <1>1 DEF SightingsOf, On
    <3>2. SightingsOf(r)'
      BY <1>0, <3>1 DEF SightingsOf, Nothing, Resolving
    <3> QED
      BY <2>1, <3>2
  <2>2. CASE s # r
    BY <1>0, <1>1, <2>2, SightingsByOthers DEF SightingsOK, Mover
  <2> QED
    BY <2>1, <2>2
<1> QED
  BY <1>0, <1>1, <1>2, <1>3, <1>4, SightingsOfAll

LEMMA SightingsByRun ==
    ASSUME Shapes, PhaseOK, RowsOK, NumbersOK, RecordsOK, SightingsOK, NEW r \in Runs, RunDoes(r)
    PROVE  SightingsOK'
<1>0. PhaseOf(r) /\ SightingsOf(r)
  BY DEF PhaseOK, SightingsOK
<1>1. CASE Begin(r)
  <2>0. /\ Mover(r) /\ KeepsTables /\ KeepsRecord(r) /\ run[r].at = "idle" /\ run'[r].at = "search"
        /\ run'[r].past = {d \in decisions : \E e \in decisions : e.entity = d.entity /\ e.n > d.n}
    BY <1>1, BeginDoes
  <2>1. \A d \in run'[r].past : d \in decisions' /\ \E e \in On(decisions', d.entity) : e.n > d.n
    BY <2>0 DEF On, KeepsTables
  <2>2. SightingsOf(r)'
    BY <1>0, <2>0, <2>1 DEF SightingsOf, Resolving, KeepsRecord
  <2> QED
    BY <2>0, <2>2, SightingsByMover
<1>2. CASE Search(r)
  BY <1>2, SearchDoes, SightingsIngested DEF Resolving
<1>3. CASE GoesOn(r)
  <2>0. /\ Mover(r) /\ KeepsTables /\ KeepsRecord(r) /\ run[r].at = "search" /\ run'[r].at = "resolve"
        /\ run'[r].past = run[r].past /\ run[r].wrote = {}
    BY <1>0, <1>3, GoesOnDoes DEF PhaseOf
  <2>1. RunVersions(r)' = {}
    BY <2>0 DEF RunVersions, KeepsRecord
  <2>2. SightingsOf(r)'
    BY <1>0, <2>0, <2>1 DEF SightingsOf, KeepsRecord, KeepsTables
  <2> QED
    BY <2>0, <2>2, SightingsByMover
<1>4. CASE Fails(r)
  <2>0. /\ Mover(r) /\ KeepsTables /\ IsOpen(run[r]) /\ run'[r].at \in {"refused", "crashed"}
        /\ Nothing(run'[r]) /\ run'[r].past = {}
    BY <1>4, FailsDoes
  <2>1. SightingsOf(r)'
    BY <2>0 DEF SightingsOf, Nothing, Resolving
  <2> QED
    BY <2>0, <2>1, SightingsByMover DEF IsOpen, Over
<1>5. CASE Skips(r)
  BY <1>5, SkipsDoes, SightingsIngested DEF Resolving
<1>6. CASE InsertsRow(r)
  BY <1>6, InsertsRowDoes, NextRowIsOwn, SightingsIngested DEF Resolving
<1>7. CASE InsertsLast(r)
  BY <1>7, InsertsLastDoes, NextRowIsOwn, SightingsIngested DEF Resolving
<1>8. CASE Fetched(r)
  <2>0. /\ Mover(r) /\ KeepsTables /\ KeepsRecord(r) /\ run[r].at = "ingest" /\ run'[r].at = "resolve"
        /\ run'[r].versions = RunVersions(r) /\ run'[r].past = run[r].past
    BY <1>8, FetchedDoes
  <2>1. RunVersions(r)' = run'[r].versions
    BY <2>0, SameSightings DEF KeepsRecord
  <2>2. SightingsOf(r)'
    BY <1>0, <2>0, <2>1 DEF SightingsOf, KeepsRecord, KeepsTables
  <2> QED
    BY <2>0, <2>2, SightingsByMover
<1>9. CASE Keeps(r)
  <2>0. /\ Mover(r) /\ KeepsTables /\ KeepsRecord(r) /\ KeepsDecisions(r) /\ KeepsClaims(r)
        /\ run[r].at = "resolve" /\ run'[r].plan = SeesHead(r) /\ SeesHead(r).kind # "UNDECIDED"
        /\ run'[r].versions = run[r].versions /\ run'[r].past = run[r].past
    BY <1>9, KeepsDoes
  <2>1. /\ SeesHead(r) \in Decided(r)
        /\ \A e \in On(Decided(r), SeesHead(r).entity) : e.n <= SeesHead(r).n
    BY <2>0, SeenIsDecided
  <2>2. SeesHead(r) \notin run[r].past
    <3>1. InOrder(On(Decided(r), SeesHead(r).entity)) /\ decisions \subseteq Decided(r)
      BY DEF NumbersOK, NumbersOf, Decided
    <3> QED
      BY <2>1, <3>1, HeadIsNotPast
  <2>3. Decided(r)' = Decided(r)
    BY <2>0 DEF Decided, KeepsTables, KeepsDecisions
  <2> QED
    BY <2>0, <2>1, <2>2, <2>3, SightingsResolved
       DEF Resolving, KeepsRecord, KeepsDecisions, KeepsClaims
<1>10. CASE Plans(r)
  BY <1>10, PlansDoes, SightingsResolved DEF Resolving, KeepsRecord, KeepsDecisions, KeepsClaims
<1>11. CASE Write(r)
  <2>0. /\ Mover(r) /\ KeepsTables /\ KeepsRecord(r) /\ KeepsClaims(r) /\ run[r].at = "write"
        /\ run'[r].plan = Outcome(r)
        /\ run'[r].decided = run[r].decided \cup ({Outcome(r)} \ decisions)
        /\ run'[r].versions = run[r].versions /\ run'[r].past = run[r].past
    BY <1>11, WriteDoes
  <2>1. Outcome(r) \in Decided(r)'
    BY <2>0 DEF Decided, KeepsTables
  <2>2. Outcome(r) \notin run[r].past
    <3>1. CASE Outcome(r) \in decisions
      <4>1. \A e \in On(decisions, Outcome(r).entity) : e.n <= Outcome(r).n
        BY <3>1, OutcomeIs DEF On
      <4>2. InOrder(On(decisions, Outcome(r).entity))
        BY DEF NumbersOK
      <4> QED
        BY <3>1, <4>1, <4>2, HeadIsNotPast
    <3>2. CASE Outcome(r) \notin decisions
      BY <1>0, <3>2 DEF SightingsOf
    <3> QED
      BY <3>1, <3>2
  <2> QED
    BY <2>0, <2>1, <2>2, SightingsResolved DEF Resolving, KeepsRecord, KeepsClaims
<1>12. CASE Passes(r)
  <2>0. /\ Mover(r) /\ KeepsTables /\ KeepsRecord(r) /\ KeepsDecisions(r) /\ KeepsClaims(r)
        /\ run[r].at = "claim" /\ run'[r].at = "resolve"
        /\ \/ run[r].plan.company = None
           \/ IsClaimed(batches \cup run[r].claimed, Version(r), run[r].plan)
        /\ run'[r].versions = run[r].versions \ {Version(r)} /\ run'[r].past = run[r].past
    BY <1>12, PassesDoes
  <2>1. run[r].plan \in Decided(r) \ run[r].past /\ run[r].plan.entity = Version(r).entity
    BY <1>0, <2>0 DEF SightingsOf, PhaseOf
  <2>2. Handled(r, Version(r))
    BY <2>0, <2>1 DEF Handled, IsClaimed
  <2>3. ASSUME NEW v \in run[r].versions \ run'[r].versions PROVE Handled(r, v)'
    <3>1. v = Version(r)
      BY <2>0, <2>3
    <3> QED
      BY <2>0, <2>2, <3>1, HandledKept DEF KeepsTables, KeepsDecisions, KeepsClaims
  <2> QED
    BY <2>0, <2>3, SightingsResolved DEF Resolving, KeepsRecord, KeepsDecisions, KeepsClaims
<1>13. CASE Claimed(r)
  <2>0. /\ Mover(r) /\ KeepsTables /\ KeepsRecord(r) /\ KeepsDecisions(r)
        /\ run[r].at = "claim" /\ run'[r].at = "resolve"
        /\ run'[r].versions = run[r].versions \ {Version(r)} /\ run'[r].past = run[r].past
    BY <1>13, ClaimedDoes
  <2>1. PICK id : run'[r].claimed = run[r].claimed \cup {Batch(r, id, Version(r), run[r].plan)}
    BY <1>13, ClaimedDoes
  <2> DEFINE new == Batch(r, id, Version(r), run[r].plan)
             v == Version(r)
             d == run[r].plan
  <2>2. new.version = v /\ new.n = d.n /\ new \in run'[r].claimed
    BY <2>1 DEF Batch
  <2>3. d \in Decided(r) \ run[r].past /\ d.entity = v.entity
    BY <1>0, <2>0 DEF SightingsOf, PhaseOf
  <2>4. d \in Decided(r)' \ run'[r].past
    BY <2>0, <2>3 DEF Decided, KeepsTables, KeepsDecisions
  <2>5. \A u : u = v => Handled(r, u)'
    <3> HIDE DEF new, v, d
    <3> QED
      BY <2>2, <2>3, <2>4 DEF Handled
  <2>6. \A u \in run[r].versions \ run'[r].versions : Handled(r, u)'
    BY <2>0, <2>5
  <2> QED
    BY <2>0, <2>1, <2>6, SightingsResolved DEF Resolving, KeepsRecord, KeepsDecisions
<1>14. CASE Commit(r)
  BY <1>14, SightingsByCommit
<1> QED
  BY <1>1, <1>2, <1>3, <1>4, <1>5, <1>6, <1>7, <1>8, <1>9, <1>10, <1>11, <1>12, <1>13, <1>14
     DEF RunDoes

LEMMA SightingsStep ==
    ASSUME DiscoveryInv, [Next]_vars
    PROVE  SightingsOK'
<1>0. Shapes /\ PhaseOK /\ RowsOK /\ NumbersOK /\ RecordsOK /\ SightingsOK
  BY DEF DiscoveryInv
<1>1. ASSUME NEW r \in Runs, RunStep(r) PROVE SightingsOK'
  BY <1>0, <1>1, RunStepDoes, SightingsByRun
<1>2. ASSUME UNCHANGED <<evidence, batches, run>>, decisions \subseteq decisions'
      PROVE  SightingsOK'
  <2>1. \A s \in Runs : SightingsOf(s)'
    BY <1>0, <1>2, SightingsByOthers DEF SightingsOK
  <2> QED
    BY <1>0, <1>2, <2>1, SightingsOfAll
<1>3. ASSUME NEW b \in Rebuilds, RebuildStep(b) PROVE SightingsOK'
  BY <1>0, <1>2, <1>3, RebuildLeaves
<1>4. CASE Review
  BY <1>0, <1>2, <1>4, ReviewDoes DEF Posted
<1>5. CASE UNCHANGED vars
  BY <1>2, <1>5 DEF vars
<1> QED
  BY <1>1, <1>3, <1>4, <1>5 DEF Next

-----------------------------------------------------------------------------
(***************************************************************************)
(* Rebuilds.                                                               *)
(***************************************************************************)

LEMMA DerivedKept ==
    ASSUME NEW b \in Rebuilds, Derived(b), batches \subseteq batches',
           rebuild'[b].rows = rebuild[b].rows, rebuild'[b].heads = rebuild[b].heads
    PROVE  Derived(b)'
<1>1. ASSUME NEW p \in rebuild[b].rows, NEW id \in p.row.from
      PROVE  \E c \in batches' :
                /\ c.id = id
                /\ \A d \in rebuild[b].heads : d.entity = c.version.entity => d.company = p.row.company
  BY DEF Derived
<1>2. \A p, q \in rebuild[b].rows : p # q => ~Collide(p.row, q.row)
  BY DEF Derived
<1> QED
  BY <1>1, <1>2 DEF Derived

\* Runs and reviewers do not get in the way of a rebuild.
LEMMA RebuildsByOthers ==
    ASSUME RebuildsOK, UNCHANGED <<projection, rebuild>>, batches \subseteq batches'
    PROVE  RebuildsOK'
<1>1. LoneRefusalIsExplained'
  BY DEF RebuildsOK, LoneRefusalIsExplained
<1>2. ASSUME NEW b \in Rebuilds PROVE RebuildOf(b)'
  <2>1. rebuild[b].at \in {"insert", "inserted"} => Derived(b)'
    BY DerivedKept DEF RebuildsOK, RebuildOf
  <2>2. Emptied(b)' <=> Emptied(b)
    BY DEF Emptied, Of
  <2> QED
    BY <2>1, <2>2 DEF RebuildsOK, RebuildOf
<1> QED
  BY <1>1, <1>2 DEF RebuildsOK

LEMMA RebuildsByMover ==
    ASSUME RebuildsOK, NEW b \in Rebuilds, RebuildMover(b), IsOpen(rebuild[b]),
           rebuild'[b].alone = rebuild[b].alone,
           rebuild'[b].at \in {"insert", "inserted"} => Derived(b)',
           rebuild[b].alone /\ IsOpen(rebuild'[b]) => Emptied(b)',
           rebuild'[b].at = "refused" /\ rebuild[b].alone =>
              \/ \E p \in rebuild'[b].rows : ~IsEnvelope(p.row)
              \/ \E d \in rebuild'[b].heads : d.entity \notin rebuild'[b].found
    PROVE  RebuildsOK'
<1>1. LoneRefusalIsExplained'
  BY DEF RebuildsOK, LoneRefusalIsExplained, RebuildMover, KeepsRebuild
<1>2. ASSUME NEW c \in Rebuilds, c # b PROVE RebuildOf(c)'
  <2>1. /\ RebuildOf(c) /\ UNCHANGED batches
        /\ rebuild'[c].at = rebuild[c].at /\ rebuild'[c].alone = rebuild[c].alone
        /\ rebuild'[c].rows = rebuild[c].rows /\ rebuild'[c].heads = rebuild[c].heads
    BY <1>2 DEF RebuildsOK, RebuildMover, KeepsRebuild
  <2>2. ~(rebuild'[c].alone /\ IsOpen(rebuild'[c]))
    BY <1>2, <2>1 DEF RebuildOf, IsOpen
  <2>3. rebuild'[c].at \in {"insert", "inserted"} => Derived(c)'
    BY <2>1, DerivedKept DEF RebuildOf
  <2> QED
    BY <2>2, <2>3 DEF RebuildOf
<1>3. RebuildOf(b)'
  <2>1. ASSUME rebuild'[b].alone, IsOpen(rebuild'[b]), NEW c \in Rebuilds, IsOpen(rebuild'[c])
        PROVE  c = b
    <3>1. RebuildOf(b)
      BY DEF RebuildsOK
    <3>2. c # b => IsOpen(rebuild[c])
      BY <2>1 DEF RebuildMover, KeepsRebuild, IsOpen
    <3> QED
      BY <2>1, <3>1, <3>2 DEF RebuildOf
  <2> QED
    BY <2>1 DEF RebuildOf
<1> QED
  BY <1>1, <1>2, <1>3 DEF RebuildsOK

LEMMA RebuildsByBegin ==
    ASSUME Shapes, RebuildsOK, NEW b \in Rebuilds, BeginRebuild(b)
    PROVE  RebuildsOK'
<1>0. /\ UNCHANGED batches
      /\ rebuild[b].at = "idle" /\ rebuild'[b].at = "delete profiles" /\ rebuild'[b].gone = {}
      /\ rebuild'[b].alone <=> \A c \in Rebuilds \ {b} : ~IsOpen(rebuild[c])
      /\ \A c \in Rebuilds \ {b} :
            /\ rebuild'[c].at = rebuild[c].at /\ rebuild'[c].found = rebuild[c].found
            /\ rebuild'[c].heads = rebuild[c].heads /\ rebuild'[c].rows = rebuild[c].rows
            /\ IF IsOpen(rebuild[c]) THEN rebuild'[c].alone = FALSE
               ELSE rebuild'[c].alone = rebuild[c].alone
  BY BeginRebuildDoes
<1>1. ASSUME NEW c \in Rebuilds, c # b
      PROVE  /\ RebuildOf(c)'
             /\ rebuild'[c].at = "refused" /\ rebuild'[c].alone =>
                   \/ \E p \in rebuild'[c].rows : ~IsEnvelope(p.row)
                   \/ \E d \in rebuild'[c].heads : d.entity \notin rebuild'[c].found
  <2>1. IsOpen(rebuild'[c]) <=> IsOpen(rebuild[c])
    BY <1>0, <1>1 DEF IsOpen
  <2>2. rebuild'[c].at \in {"insert", "inserted"} => Derived(c)'
    BY <1>0, <1>1, DerivedKept DEF RebuildsOK, RebuildOf
  <2>3. ~(rebuild'[c].alone /\ IsOpen(rebuild'[c]))
    BY <1>0, <1>1, <2>1
  <2>4. rebuild'[c].at = "refused" => rebuild'[c].alone = rebuild[c].alone
    BY <1>0, <1>1 DEF IsOpen, Over
  <2>5. RebuildOf(c)'
    BY <2>2, <2>3 DEF RebuildOf
  <2> QED
    BY <1>0, <1>1, <2>4, <2>5 DEF RebuildsOK, LoneRefusalIsExplained
<1>2. RebuildOf(b)'
  <2>1. ASSUME rebuild'[b].alone, NEW c \in Rebuilds, IsOpen(rebuild'[c]) PROVE c = b
    BY <1>0, <2>1 DEF IsOpen
  <2>2. Emptied(b)'
    BY <1>0 DEF Emptied, Inserting
  <2> QED
    BY <1>0, <2>1, <2>2 DEF RebuildOf
<1>3. LoneRefusalIsExplained'
  BY <1>0, <1>1 DEF LoneRefusalIsExplained
<1> QED
  BY <1>1, <1>2, <1>3 DEF RebuildsOK

\* What a rebuild loads is derived.
LEMMA LoadDerives ==
    ASSUME Shapes, RowsOK, NumbersOK, HeadsOK, ClaimsOK, NEW b \in Rebuilds, Load(b)
    PROVE  Derived(b)'
<1> DEFINE claims == EffectiveClaims(b)
<1>a. rebuild[b].at \in Inserting
  BY LoadDoes DEF Inserting
<1>0. /\ RebuildMover(b) /\ rebuild'[b].heads = rebuild[b].heads
      /\ rebuild'[b].rows = {[by |-> b, row |-> row] : row \in Projection(claims)}
  BY LoadDoes
<1>1. /\ Claims(claims)
      /\ \A c \in claims :
            \E batch \in batches, d \in Attribution(b) :
                batch.id = c.id /\ d.entity = batch.version.entity /\ d.company = c.company
  BY <1>a, EffectiveAreClaims
<1> HIDE DEF claims
<1>2. ASSUME NEW p \in rebuild'[b].rows
      PROVE  p.row \in Projection(claims) /\ p = [by |-> b, row |-> p.row]
  <2>1. PICK row \in Projection(claims) : p = [by |-> b, row |-> row]
    BY <1>0
  <2> QED
    BY <2>1
<1>3. ASSUME NEW p \in rebuild'[b].rows, NEW q \in rebuild'[b].rows, Collide(p.row, q.row)
      PROVE  p = q
  <2>1. p.row \in Projection(claims) /\ q.row \in Projection(claims)
    BY <1>2
  <2>2. p.row = q.row
    BY <1>1, <1>3, <2>1, RowsKeepApart
  <2>3. p = [by |-> b, row |-> p.row] /\ q = [by |-> b, row |-> q.row]
    BY <1>2
  <2> QED
    BY <2>2, <2>3
<1>4. ASSUME NEW p \in rebuild'[b].rows, NEW id \in p.row.from
      PROVE  \E c \in batches :
                /\ c.id = id
                /\ \A d \in rebuild[b].heads : d.entity = c.version.entity => d.company = p.row.company
  <2>1. p.row \in Projection(claims)
    BY <1>2
  <2>2. PICK company \in {c.company : c \in claims} : p.row \in CompanyRows(claims, company)
    BY <2>1, RowsByCompany
  <2>3. PICK c \in claims : c.id = id /\ c.company = company
    BY <1>1, <2>2, RowComesFrom
  <2>4. p.row.company = company
    BY <1>1, <2>2, RowComesFrom
  <2>5. PICK batch \in batches, d \in Attribution(b) :
           batch.id = c.id /\ d.entity = batch.version.entity /\ d.company = c.company
    BY <1>1, <2>3
  <2>6. \A e \in rebuild[b].heads : e.entity = d.entity => e = d
    BY <1>a, <2>5, AttributedOnce
  <2> QED
    BY <2>3, <2>4, <2>5, <2>6
<1>5. UNCHANGED batches
  BY <1>0 DEF RebuildMover
<1> QED
  BY <1>0, <1>3, <1>4, <1>5 DEF Derived

LEMMA RebuildsByRebuild ==
    ASSUME Shapes, RowsOK, NumbersOK, HeadsOK, ClaimsOK, RebuildsOK,
           NEW b \in Rebuilds, RebuildStep(b)
    PROVE  RebuildsOK'
<1>0. RebuildOf(b)
  BY DEF RebuildsOK
<1>1. CASE BeginRebuild(b)
  BY <1>1, RebuildsByBegin
<1>2. CASE StartDelete(b)
  <2>0. /\ RebuildMover(b) /\ UNCHANGED projection
        /\ rebuild[b].at \in {"delete profiles", "delete others"}
        /\ rebuild'[b].at = IF rebuild[b].at = "delete profiles" THEN "await profiles" ELSE "await others"
        /\ rebuild'[b].target = Of(Tables[IF rebuild[b].at = "delete profiles" THEN 1 ELSE 2])
        /\ rebuild'[b].dropped = rebuild[b].dropped /\ rebuild'[b].alone = rebuild[b].alone
        /\ rebuild'[b].gone = rebuild[b].gone
    BY <1>2, StartDeleteDoes
  <2>1. IsOpen(rebuild[b])
    BY <2>0 DEF IsOpen, Over
  <2>2. ASSUME rebuild[b].alone PROVE Emptied(b)'
    <3>1. Emptied(b)
      BY <1>0, <2>1, <2>2 DEF RebuildOf
    <3>2. Of(Tables[1])' = Of(Tables[1]) /\ Of(Tables[2])' = Of(Tables[2])
      BY <2>0 DEF Of
    <3>3. CASE rebuild[b].at = "delete profiles"
      BY <2>0, <3>1, <3>2, <3>3 DEF Emptied, Inserting
    <3>4. CASE rebuild[b].at = "delete others"
      BY <2>0, <3>1, <3>2, <3>4 DEF Emptied, Inserting
    <3> QED
      BY <2>0, <3>3, <3>4
  <2> QED
    BY <2>0, <2>1, <2>2, RebuildsByMover
<1>3. CASE FinishDelete(b)
  <2>0. /\ RebuildMover(b) /\ UNCHANGED projection
        /\ rebuild[b].at \in {"await profiles", "await others"}
        /\ rebuild'[b].at = IF rebuild[b].at = "await profiles" THEN "delete others" ELSE "heads"
        /\ rebuild'[b].dropped = rebuild[b].dropped \cup (rebuild[b].target \cap projection)
        /\ rebuild'[b].alone = rebuild[b].alone /\ rebuild'[b].gone = rebuild[b].gone
    BY <1>3, FinishDeleteDoes
  <2>1. IsOpen(rebuild[b])
    BY <2>0 DEF IsOpen, Over
  <2>2. ASSUME rebuild[b].alone PROVE Emptied(b)'
    <3>1. Emptied(b)
      BY <1>0, <2>1, <2>2 DEF RebuildOf
    <3>2. /\ Of(Tables[1])' = Of(Tables[1]) /\ Of(Tables[2])' = Of(Tables[2])
          /\ Of(Tables[1]) \subseteq projection /\ Of(Tables[2]) \subseteq projection
      BY <2>0 DEF Of
    <3>3. CASE rebuild[b].at = "await profiles"
      BY <2>0, <3>1, <3>2, <3>3 DEF Emptied, Inserting
    <3>4. CASE rebuild[b].at = "await others"
      <4>1. projection \subseteq Of(Tables[1]) \cup Of(Tables[2])
        BY DEF RowsOK, Projected, Of
      <4>2. projection \subseteq rebuild'[b].dropped
        BY <2>0, <3>1, <3>2, <3>4, <4>1 DEF Emptied
      <4> QED
        BY <2>0, <3>1, <3>4, <4>2 DEF Emptied, Inserting
    <3> QED
      BY <2>0, <3>3, <3>4
  <2> QED
    BY <2>0, <2>1, <2>2, RebuildsByMover
<1>4. CASE FindHeads(b) \/ LockHead(b)
  <2>0. /\ RebuildMover(b) /\ UNCHANGED projection
        /\ rebuild[b].at \in {"heads", "lock"} /\ rebuild'[b].at = "lock"
        /\ rebuild'[b].dropped = rebuild[b].dropped /\ rebuild'[b].gone = rebuild[b].gone
        /\ rebuild'[b].alone = rebuild[b].alone
    BY <1>4, FindHeadsDoes, LockHeadDoes
  <2>1. IsOpen(rebuild[b])
    BY <2>0 DEF IsOpen, Over
  <2>2. ASSUME rebuild[b].alone PROVE Emptied(b)'
    BY <1>0, <2>0, <2>1, <2>2 DEF RebuildOf, Emptied, Inserting
  <2> QED
    BY <2>0, <2>1, <2>2, RebuildsByMover
<1>5. CASE SelectHeads(b)
  <2>0. /\ RebuildMover(b) /\ UNCHANGED projection
        /\ rebuild[b].at = "lock" /\ Wanted(b) = {} /\ rebuild'[b].at \in {"load", "reinsert"}
        /\ rebuild'[b].found = rebuild[b].found /\ rebuild'[b].locked = rebuild[b].locked
        /\ rebuild'[b].dropped = rebuild[b].dropped /\ rebuild'[b].gone = rebuild[b].gone
        /\ rebuild'[b].alone = rebuild[b].alone
    BY <1>5, SelectHeadsDoes
  <2>1. IsOpen(rebuild[b])
    BY <2>0 DEF IsOpen, Over
  <2>2. ASSUME rebuild[b].alone PROVE Emptied(b)'
    <3>1. Emptied(b)
      BY <1>0, <2>1, <2>2 DEF RebuildOf
    <3>2. rebuild[b].found \subseteq rebuild[b].locked
      BY <2>0, <3>1 DEF Wanted, Emptied
    <3> QED
      BY <2>0, <3>1, <3>2 DEF Emptied, Inserting
  <2> QED
    BY <2>0, <2>1, <2>2, RebuildsByMover
<1>10. CASE HeadsClash(b)
  <2>0. /\ RebuildMover(b)
        /\ rebuild[b].at = "reinsert" /\ rebuild'[b].at = "refused"
        /\ rebuild'[b].found = rebuild[b].found /\ rebuild'[b].heads = rebuild[b].heads
        /\ rebuild'[b].alone = rebuild[b].alone
    BY <1>10, HeadsClashDoes
  <2>1. IsOpen(rebuild[b]) /\ ~IsOpen(rebuild'[b])
    BY <2>0 DEF IsOpen, Over
  <2>2. PICK d \in rebuild[b].heads : d.entity \notin rebuild[b].locked
    BY <1>10, <2>0, HeadsClashDoes DEF Wanted
  <2>3. rebuild[b].alone => d.entity \notin rebuild'[b].found
    BY <1>0, <2>0, <2>1, <2>2 DEF RebuildOf, Emptied
  <2> QED
    BY <2>0, <2>1, <2>2, <2>3, RebuildsByMover
<1>11. CASE Load(b)
  <2>0. /\ RebuildMover(b) /\ UNCHANGED projection
        /\ rebuild[b].at = "load" /\ rebuild'[b].at = "insert"
        /\ rebuild'[b].dropped = rebuild[b].dropped /\ rebuild'[b].gone = rebuild[b].gone
        /\ rebuild'[b].alone = rebuild[b].alone
    BY <1>11, LoadDoes
  <2>1. IsOpen(rebuild[b])
    BY <2>0 DEF IsOpen, Over
  <2>2. ASSUME rebuild[b].alone PROVE Emptied(b)'
    BY <1>0, <2>0, <2>1, <2>2 DEF RebuildOf, Emptied, Inserting
  <2>3. Derived(b)'
    BY <1>11, LoadDerives
  <2> QED
    BY <2>0, <2>1, <2>2, <2>3, RebuildsByMover
<1>6. CASE InsertRows(b) /\ Refused(b)
  <2>0. /\ RebuildMover(b) /\ UNCHANGED projection
        /\ rebuild[b].at = "insert" /\ rebuild'[b].at = "refused"
        /\ rebuild'[b].rows = rebuild[b].rows /\ rebuild'[b].alone = rebuild[b].alone
    BY <1>6, RefusedDoes
  <2>1. IsOpen(rebuild[b]) /\ ~IsOpen(rebuild'[b])
    BY <2>0 DEF IsOpen, Over
  <2>2. ASSUME rebuild[b].alone PROVE \E p \in rebuild'[b].rows : ~IsEnvelope(p.row)
    <3>1. projection \subseteq rebuild[b].dropped /\ Derived(b)
      BY <1>0, <2>0, <2>1, <2>2 DEF RebuildOf, Emptied, Inserting
    <3>2. (projection \ rebuild[b].dropped) \cup rebuild[b].rows = rebuild[b].rows
      BY <3>1
    <3>3. ~Clash(rebuild[b].rows, rebuild[b].rows)
      BY <3>1 DEF Clash, Derived
    <3> QED
      BY <1>6, <2>0, <3>2, <3>3 DEF Refused
  <2> QED
    BY <2>0, <2>1, <2>2, RebuildsByMover
<1>7. CASE InsertRows(b) /\ ~Refused(b)
  <2>0. /\ RebuildMover(b) /\ UNCHANGED projection
        /\ rebuild[b].at = "insert" /\ rebuild'[b].at = "inserted"
        /\ rebuild'[b].dropped = rebuild[b].dropped /\ rebuild'[b].heads = rebuild[b].heads
        /\ rebuild'[b].rows = rebuild[b].rows /\ rebuild'[b].alone = rebuild[b].alone
        /\ rebuild'[b].gone = rebuild[b].gone
    BY <1>7, InsertedDoes
  <2>1. IsOpen(rebuild[b])
    BY <2>0 DEF IsOpen, Over
  <2>2. ASSUME rebuild[b].alone PROVE Emptied(b)'
    BY <1>0, <2>0, <2>1, <2>2 DEF RebuildOf, Emptied, Inserting
  <2>3. Derived(b)'
    BY <1>0, <2>0, DerivedKept DEF RebuildOf, RebuildMover
  <2> QED
    BY <2>0, <2>1, <2>2, <2>3, RebuildsByMover
<1>8. CASE CommitRebuild(b)
  <2>0. /\ RebuildMover(b) /\ rebuild[b].at = "inserted" /\ rebuild'[b].at = "done"
        /\ rebuild'[b].alone = rebuild[b].alone
    BY <1>8, CommitRebuildDoes
  <2>1. IsOpen(rebuild[b]) /\ ~IsOpen(rebuild'[b])
    BY <2>0 DEF IsOpen, Over
  <2> QED
    BY <2>0, <2>1, RebuildsByMover
<1>9. CASE GivesUp(b)
  <2>0. /\ RebuildMover(b) /\ IsOpen(rebuild[b]) /\ rebuild'[b].at \in {"deadlocked", "crashed"}
        /\ rebuild'[b].alone = rebuild[b].alone
    BY <1>9, GivesUpDoes
  <2>1. ~IsOpen(rebuild'[b])
    BY <2>0 DEF IsOpen, Over
  <2> QED
    BY <2>0, <2>1, RebuildsByMover
<1> QED
  BY <1>1, <1>2, <1>3, <1>4, <1>5, <1>6, <1>7, <1>8, <1>9, <1>10, <1>11, RebuildStepDoes
     DEF RebuildDoes

LEMMA RebuildsStep ==
    ASSUME DiscoveryInv, [Next]_vars
    PROVE  RebuildsOK'
<1>0. Shapes /\ RowsOK /\ NumbersOK /\ HeadsOK /\ ClaimsOK /\ RebuildsOK
  BY DEF DiscoveryInv
<1>1. ASSUME NEW r \in Runs, RunStep(r) PROVE RebuildsOK'
  <2>1. RunDoes(r)
    BY <1>0, <1>1, RunStepDoes
  <2>2. UNCHANGED <<projection, rebuild>> /\ batches \subseteq batches'
    BY <1>0, <2>1, ClaimsBy, FailsDoes, ClaimedDoes, CommitDoes DEF ClaimsNothing, Mover, KeepsTables
  <2> QED
    BY <1>0, <2>2, RebuildsByOthers
<1>2. ASSUME NEW b \in Rebuilds, RebuildStep(b) PROVE RebuildsOK'
  BY <1>0, <1>2, RebuildsByRebuild
<1>3. CASE Review
  BY <1>0, <1>3, ReviewDoes, RebuildsByOthers
<1>4. CASE UNCHANGED vars
  BY <1>0, <1>4, RebuildsByOthers DEF vars
<1> QED
  BY <1>1, <1>2, <1>3, <1>4 DEF Next

-----------------------------------------------------------------------------
(***************************************************************************)
(* The invariant holds.                                                    *)
(***************************************************************************)

LEMMA DiscoveryInit == Init => DiscoveryInv
<1> SUFFICES ASSUME Init PROVE DiscoveryInv
  OBVIOUS
<1>1. /\ situation \in Situations /\ evidence = {} /\ decisions = {} /\ batches = {}
      /\ projection = {} /\ reviews = 0
      /\ run = [r \in Runs |-> NoRun] /\ rebuild = [b \in Rebuilds |-> NoRebuild]
  BY DEF Init
<1>2. ASSUME NEW r \in Runs
      PROVE  /\ run[r] = NoRun /\ RunShape(run[r]) /\ run[r].at = "idle" /\ run[r].next = 1
             /\ Nothing(run[r]) /\ run[r].past = {}
  <2>1. run[r] = NoRun
    BY <1>1
  <2>2. RunShape(NoRun) /\ NoRun.at = "idle" /\ NoRun.next = 1 /\ Nothing(NoRun) /\ NoRun.past = {}
    BY DEF NoRun, RunShape, RunFields, Nothing
  <2> QED
    BY <2>1, <2>2
<1>3. ASSUME NEW b \in Rebuilds
      PROVE  /\ RebuildShape(rebuild[b]) /\ rebuild[b].at = "idle"
             /\ rebuild[b].locked = {} /\ rebuild[b].heads = {} /\ rebuild[b].rows = {}
  <2>1. rebuild[b] = NoRebuild
    BY <1>1
  <2>2. /\ RebuildShape(NoRebuild) /\ NoRebuild.at = "idle"
        /\ NoRebuild.locked = {} /\ NoRebuild.heads = {} /\ NoRebuild.rows = {}
    BY DEF NoRebuild, RebuildShape, RebuildFields
  <2> QED
    BY <2>1, <2>2
<1>4. Shapes
  <2>1. run = [r \in Runs |-> run[r]] /\ rebuild = [b \in Rebuilds |-> rebuild[b]]
    BY <1>1
  <2> QED
    BY <1>2, <1>3, <2>1 DEF Shapes
<1>5. PhaseOK
  BY <1>2 DEF PhaseOK, PhaseOf, Nothing, Resolving, Over
<1>6. RowsOK
  BY <1>1, <1>2, <1>3, DiscoveryAssumption DEF RowsOK, Nothing
<1>7. NumbersOK
  <2>1. InOrder({})
    <3>1. {d.n : d \in {}} = 1..0
      OBVIOUS
    <3> QED
      BY <3>1 DEF InOrder
  <2>2. \A entity : On({}, entity) = {}
    BY DEF On
  <2>3. ASSUME NEW r \in Runs PROVE Decided(r) = {} /\ run[r].decided = {} /\ run[r].at # "write"
    BY <1>1, <1>2 DEF Decided, Nothing
  <2> QED
    BY <1>1, <2>1, <2>2, <2>3, FS_EmptySet DEF NumbersOK, NumbersOf
<1>8. HeadsOK
  BY <1>2, <1>3 DEF HeadsOK, HeadsOf, Nothing
<1>9. ClaimsOK
  BY <1>1, <1>2 DEF ClaimsOK, AllBatches, Nothing
<1>10. RecordsOK
  <2>1. Whole({})
    BY DEF Whole
  <2>2. ASSUME NEW r \in Runs PROVE RecordsOf(r)
    <3>1. evidence \cup run[r].wrote = {}
      BY <1>1, <1>2 DEF Nothing
    <3> QED
      BY <1>2, <2>1, <3>1 DEF RecordsOf, Nothing
  <2> QED
    BY <1>1, <2>1, <2>2 DEF RecordsOK
<1>11. SightingsOK
  BY <1>1, <1>2 DEF SightingsOK, SightingsOf, NothingIsStranded, Nothing, Resolving
<1>12. RebuildsOK
  BY <1>3 DEF RebuildsOK, RebuildOf, LoneRefusalIsExplained, IsOpen, Over
<1> QED
  BY <1>4, <1>5, <1>6, <1>7, <1>8, <1>9, <1>10, <1>11, <1>12 DEF DiscoveryInv

LEMMA DiscoveryStep == DiscoveryInv /\ [Next]_vars => DiscoveryInv'
  BY PhaseStep, RowsStep, NumbersStep, HeadsStep, ClaimsStep, RecordsStep, SightingsStep, RebuildsStep
     DEF DiscoveryInv

\* Every part of the invariant holds for ever.
LEMMA DiscoveryInvariant == Spec => []DiscoveryInv
  BY DiscoveryInit, DiscoveryStep, PTL DEF Spec

-----------------------------------------------------------------------------
(***************************************************************************)
(* Theorems.                                                               *)
(***************************************************************************)

\* Tables keep the constraints of their columns, and the processes their
\* phases: of the decisions about an entity none has a number beyond how many
\* decisions there are, and one names a company unless it leaves its entity
\* unresolved (resolve, write_decision and record_review).
THEOREM TypeCorrect == Spec => []TypeOK
<1>1. DiscoveryInv => TypeOK
  <2> SUFFICES ASSUME DiscoveryInv PROVE TypeOK
    OBVIOUS
  <2>1. \A k \in evidence : k.table \in {"entity", "version", "body", "sighting", "normalization"}
    BY DEF DiscoveryInv, RecordsOK, Whole
  <2>2. ASSUME NEW d \in decisions PROVE d.n \in 1..Cardinality(decisions)
    <3>1. IsFiniteSet(decisions) /\ InOrder(On(decisions, d.entity))
      BY DEF DiscoveryInv, NumbersOK
    <3>2. On(decisions, d.entity) \in SUBSET decisions /\ d \in On(decisions, d.entity)
      BY DEF On
    <3> QED
      BY <3>1, <3>2, NumbersAreFew
  <2>3. \A d \in decisions : Decides(d)
    BY DEF DiscoveryInv, RowsOK
  <2>4. \A b \in batches : b.id \in BatchIds
    BY DEF DiscoveryInv, ClaimsOK, AllBatches
  <2>5. \A p \in projection : p.by \in Rebuilds /\ p.row.company \in Companies
    BY DEF DiscoveryInv, RowsOK, Projected
  <2>6. \A r \in Runs : run[r].at \in
            {"idle", "search", "ingest", "resolve", "write", "claim"} \cup Over
    BY DEF DiscoveryInv, PhaseOK, PhaseOf, Resolving
  <2>7. situation \in Situations /\ reviews \in 0..MaxReviews
    BY DEF DiscoveryInv, RowsOK
  <2> QED
    BY <2>1, <2>2, <2>3, <2>4, <2>5, <2>6, <2>7 DEF TypeOK, Decides
<1> QED
  BY <1>1, DiscoveryInvariant, PTL

\* What is committed of a record is all of it: a record is stored under one
\* savepoint, and what a run has inserted of it completes what others have.
THEOREM EvidenceStaysWhole == Spec => []EvidenceIsWhole
<1>1. DiscoveryInv => EvidenceIsWhole
  <2> SUFFICES ASSUME DiscoveryInv PROVE EvidenceIsWhole
    OBVIOUS
  <2>1. Whole(evidence) /\ \A b \in batches : StoredIn(evidence, "normalization", b.version) # {}
    BY DEF DiscoveryInv, RecordsOK
  <2>2. \A table, k : Stored(table, k) = StoredIn(evidence, table, k)
    BY DEF Stored, StoredIn
  <2> QED
    BY <2>1, <2>2 DEF EvidenceIsWhole, Whole
<1> QED
  BY <1>1, DiscoveryInvariant, PTL

\* A run that completed leaves nothing it saw undecided or unclaimed, under a
\* decision that was in force when it began, or later.
THEOREM NothingStaysBehind == Spec => []NothingIsStranded
<1>1. DiscoveryInv => NothingIsStranded
  BY DEF DiscoveryInv, SightingsOK
<1> QED
  BY <1>1, DiscoveryInvariant, PTL

\* A constraint refuses a rebuild that meets no other only for an employee range
\* that ends before it begins, or for the head row of an entity that was decided
\* about for the first time between the DELETE of rebuild_heads and its SELECT:
\* the rows of the others it holds, no two rows it derives collide, and of what is
\* stored it has deleted everything.
THEOREM LoneRefusalsExplained == Spec => []LoneRefusalIsExplained
<1>1. DiscoveryInv => LoneRefusalIsExplained
  BY DEF DiscoveryInv, RebuildsOK
<1> QED
  BY <1>1, DiscoveryInvariant, PTL

\* Only the rebuild that inserted its rows commits them.
LEMMA OnlyItCommits ==
    ASSUME DiscoveryInv, [Next]_vars, NEW b \in Rebuilds,
           rebuild[b].at = "inserted", rebuild'[b].at = "done"
    PROVE  CommitRebuild(b)
<1>0. Shapes
  BY DEF DiscoveryInv
<1>1. CASE UNCHANGED rebuild
  BY <1>1
<1>2. ASSUME NEW r \in Runs, RunStep(r) PROVE UNCHANGED rebuild
  <2>1. RunDoes(r)
    BY <1>2, RunStepDoes DEF DiscoveryInv
  <2> QED
    BY <1>0, <2>1, ClaimsBy, FailsDoes, ClaimedDoes, CommitDoes DEF ClaimsNothing, Mover
<1>3. ASSUME NEW c \in Rebuilds, RebuildStep(c), c # b PROVE FALSE
  <2>1. rebuild'[b].at = rebuild[b].at
    <3>1. CASE BeginRebuild(c)
      BY <1>0, <1>3, <3>1, BeginRebuildDoes
    <3>2. CASE RebuildMover(c)
      BY <1>3, <3>2 DEF RebuildMover, KeepsRebuild
    <3> QED
      BY <1>0, <1>3, <3>1, <3>2, RebuildStepDoes, StartDeleteDoes, FinishDeleteDoes, FindHeadsDoes,
         LockHeadDoes, SelectHeadsDoes, HeadsClashDoes, LoadDoes, RefusedDoes, InsertedDoes,
         CommitRebuildDoes, GivesUpDoes DEF RebuildDoes
  <2> QED
    BY <2>1
<1>4. ASSUME RebuildStep(b) PROVE CommitRebuild(b)
  <2>1. /\ ~BeginRebuild(b) /\ ~StartDelete(b) /\ ~FinishDelete(b) /\ ~FindHeads(b) /\ ~LockHead(b)
        /\ ~SelectHeads(b) /\ ~HeadsClash(b) /\ ~Load(b) /\ ~InsertRows(b)
    BY DEF BeginRebuild, StartDelete, FinishDelete, FindHeads, LockHead, SelectHeads, HeadsClash,
           Load, InsertRows
  <2>2. ~GivesUp(b)
    BY <1>0, GivesUpDoes
  <2> QED
    BY <1>4, <2>1, <2>2, RebuildStepDoes DEF RebuildDoes
<1>5. CASE Review
  BY <1>0, <1>1, <1>5, ReviewDoes
<1>6. CASE UNCHANGED vars
  BY <1>1, <1>6 DEF vars
<1> QED
  BY <1>1, <1>2, <1>3, <1>4, <1>5, <1>6 DEF Next

\* When a rebuild that met no other commits, the claims of an entity are rows of
\* the company the entity is resolved to at that moment: nobody decides about
\* an entity whose head the rebuild holds, ids of claims are their own, and no
\* row of an earlier rebuild is left.
THEOREM AttributionStaysCurrent == Spec => AttributionIsCurrent
<1>1. ASSUME DiscoveryInv, [Next]_vars, NEW b \in Rebuilds,
             rebuild[b].at = "inserted", rebuild'[b].at = "done", rebuild[b].alone,
             NEW d \in rebuild[b].heads, NEW p \in projection', NEW c \in batches,
             c.version.entity = d.entity, c.id \in p.row.from
      PROVE  p.row.company = HeadOf(decisions, d.entity).company
  <2>1. projection' = (projection \ rebuild[b].dropped) \cup rebuild[b].rows
    BY <1>1, OnlyItCommits, CommitRebuildDoes DEF DiscoveryInv
  <2>2. Derived(b) /\ projection \subseteq rebuild[b].dropped
    BY <1>1 DEF DiscoveryInv, RebuildsOK, RebuildOf, Emptied, Inserting, IsOpen, Over
  <2>3. p \in rebuild[b].rows
    BY <1>1, <2>1, <2>2
  <2>4. PICK e \in batches :
           /\ e.id = c.id
           /\ \A h \in rebuild[b].heads : h.entity = e.version.entity => h.company = p.row.company
    BY <1>1, <2>2, <2>3 DEF Derived
  <2>5. e = c
    BY <1>1, <2>4 DEF DiscoveryInv, ClaimsOK, AllBatches
  <2>6. d.company = p.row.company
    BY <1>1, <2>4, <2>5
  <2>7. /\ d \in On(decisions, d.entity) /\ InOrder(On(decisions, d.entity))
        /\ \A h \in On(decisions, d.entity) : h.n <= d.n
    BY <1>1 DEF DiscoveryInv, HeadsOK, HeadsOf, Inserting, NumbersOK, On
  <2>8. d = HeadOf(decisions, d.entity)
    BY <2>7, OneGreatest
  <2> QED
    BY <2>6, <2>8
<1>2. DiscoveryInv /\ [Next]_vars =>
         [\A b \in Rebuilds :
             rebuild[b].at = "inserted" /\ rebuild'[b].at = "done" /\ rebuild[b].alone =>
                 \A d \in rebuild[b].heads, p \in projection', c \in batches :
                     c.version.entity = d.entity /\ c.id \in p.row.from
                         => p.row.company = HeadOf(decisions, d.entity).company]_vars
  BY <1>1
<1> QED
  BY <1>2, DiscoveryInvariant, PTL DEF Spec, AttributionIsCurrent
=============================================================================
