----------------------- MODULE ResolutionChainProofs -----------------------
(***************************************************************************)
(* Proofs about ResolutionChain: type correctness; that the decisions      *)
(* about a provider entity always have exactly one head; who supersedes    *)
(* whom, and whose companies stay; and which commits can take the head     *)
(* cache away from the chain.                                              *)
(***************************************************************************)
EXTENDS ResolutionChain, TLAPS

TypeInv == TypeOK /\ LocalOK

\* The decision a transaction is about to insert, built from visible data,
\* is a row of the table.
LEMMA PlannedRowType ==
    ASSUME NEW t \in Txns, NEW x \in Versions \cup Entities, NEW e \in Entities,
           NEW d \in Decision \cup {None}, NEW verdict \in Verdicts,
           NEW company \in Companies \cup {None}
    PROVE  [id |-> <<t, x>>, entity |-> e,
            supersedes |-> IF d = None THEN None ELSE d.id,
            verdict |-> verdict, company |-> company] \in Decision
<1>1. <<t, x>> \in DecisionIds
  BY DEF DecisionIds
<1>2. (IF d = None THEN None ELSE d.id) \in DecisionIds \cup {None}
  BY DEF Decision
<1> QED
  BY <1>1, <1>2 DEF Decision

\* current_head returns a row of the table or nothing.
LEMMA HeadSeenType ==
    ASSUME TypeOK, NEW t, NEW e, NEW h \in HeadsSeenBy(t, e)
    PROVE  h \in Decision \cup {None}
  BY DEF TypeOK, HeadsSeenBy, HeadsIn, Visible

LEMMA RollBackType ==
    ASSUME TypeInv, NEW t \in Txns, RollBack(t)
    PROVE  TypeInv'
<1> USE DEF TypeInv, RollBack
<1>1. TypeOK'
  BY DEF TypeOK, Stages, HeadRow
<1>2. LocalOK'
  BY DEF TypeOK, LocalOK, Stages
<1> QED
  BY <1>1, <1>2

LEMMA CommitType ==
    ASSUME TypeInv, NEW t \in Txns, Commit(t)
    PROVE  TypeInv'
<1>1. TypeOK'
  BY DEF TypeInv, TypeOK, Commit, Stages, HeadRow
<1>2. LocalOK'
  BY DEF TypeInv, TypeOK, LocalOK, Commit, Stages
<1> QED
  BY <1>1, <1>2 DEF TypeInv

LEMMA InsertType ==
    ASSUME TypeInv, NEW t \in Txns, InsertDecision(t)
    PROVE  TypeInv'
<1>1. row[t] \in Decision
  BY DEF TypeInv, LocalOK, InsertDecision
<1>2. TypeOK'
  BY <1>1 DEF TypeInv, TypeOK, InsertDecision, Stages
<1>3. LocalOK'
  BY DEF TypeInv, TypeOK, LocalOK, InsertDecision, Stages
<1> QED
  BY <1>2, <1>3 DEF TypeInv

LEMMA UpsertType ==
    ASSUME TypeInv, NEW t \in Txns, UpsertHead(t)
    PROVE  TypeInv'
<1>1. row[t] \in Decision
  BY DEF TypeInv, LocalOK, UpsertHead
<1>2. row[t].id \in HeadRow
  BY <1>1 DEF Decision, HeadRow
<1>3. staged' \in [Txns -> [Entities -> HeadRow \cup {Untouched}]]
  BY <1>2 DEF TypeInv, TypeOK, UpsertHead, NewHeadRow
<1>4. TypeOK'
  BY <1>3 DEF TypeInv, TypeOK, UpsertHead, Stages
<1>5. LocalOK'
  BY <1>1 DEF TypeInv, TypeOK, LocalOK, UpsertHead, Stages
<1> QED
  BY <1>4, <1>5 DEF TypeInv

LEMMA ResolverType ==
    ASSUME TypeInv, NEW r \in Resolvers,
           BeginRun(r) \/ Resolve(r) \/ AdoptWinner(r) \/ WriteClaims(r)
    PROVE  TypeInv'
<1> USE DEF TypeInv
<1>0. r \in Txns
  BY DEF Txns
<1>1. CASE BeginRun(r)
  <2>1. TypeOK'
    BY <1>0, <1>1 DEF TypeOK, BeginRun, Stages
  <2>2. LocalOK'
    BY <1>0, <1>1, TxnsAssumption DEF TypeOK, LocalOK, BeginRun, Stages
  <2> QED
    BY <2>1, <2>2
<1>2. CASE Resolve(r)
  <2>1. PICK v \in todo[r] :
          /\ at' = [at EXCEPT ![r] = v]
          /\ \E h \in HeadsSeenBy(r, EntityOf[v]) :
                \/ IsSettled(h) /\ KeepHead(r, h)
                \/ /\ ~IsSettled(h)
                   /\ \E c \in Conclusions(r, v) :
                         IF h # None /\ c[1] = "AMBIGUOUS"
                           THEN KeepHead(r, h)
                           ELSE Conclude(r, v, h, c[1], c[2])
    BY <1>2 DEF Resolve
  <2>2. v \in Versions /\ EntityOf[v] \in Entities
    BY <1>0, <2>1, VersionsAssumption DEF LocalOK
  <2>3. PICK h \in HeadsSeenBy(r, EntityOf[v]) :
          \/ h # None /\ KeepHead(r, h)
          \/ \E c \in Conclusions(r, v) : Conclude(r, v, h, c[1], c[2])
    BY <2>1 DEF IsSettled
  <2>4. h \in Decision \cup {None}
    BY HeadSeenType
  <2>5. /\ row'[r] \in Decision
        /\ row' = [row EXCEPT ![r] = row'[r]]
        /\ pc'[r] \in {"insert", "claim"}
        /\ pc' = [pc EXCEPT ![r] = pc'[r]]
        /\ companies' \subseteq Companies
    <3>1. CASE h # None /\ KeepHead(r, h)
      BY <1>0, <2>4, <3>1 DEF TypeOK, KeepHead
    <3>2. CASE \E c \in Conclusions(r, v) : Conclude(r, v, h, c[1], c[2])
      <4>1. PICK c \in Conclusions(r, v) : Conclude(r, v, h, c[1], c[2])
        BY <3>2
      <4>2. CommittedCompanies \subseteq Companies /\ <<r, v>> \in Companies
        BY <2>2 DEF TypeOK, CommittedCompanies, Companies, MintedCompanies
      <4>3. c[1] \in Verdicts /\ c[2] \in Companies \cup {None}
        BY <4>2 DEF Conclusions, Verdicts
      <4>4. c[1] = "CREATED_NEW" => c[2] \in Companies
        BY <4>2 DEF Conclusions
      <4>5. [id |-> <<r, v>>, entity |-> EntityOf[v],
             supersedes |-> IF h = None THEN None ELSE h.id,
             verdict |-> c[1], company |-> c[2]] \in Decision
        BY <1>0, <2>2, <2>4, <4>3, PlannedRowType
      <4> QED
        BY <1>0, <4>1, <4>4, <4>5 DEF TypeOK, Conclude
    <3> QED
      BY <2>3, <3>1, <3>2
  <2>a. UNCHANGED <<rows, head, claims, status, todo, viewed, staged, copy>>
    BY <1>2 DEF Resolve
  <2>b. row' \in [Txns -> Decision \cup {None}]
    BY <1>0, <2>5 DEF TypeOK
  <2>c. pc' \in [Txns -> Stages]
    BY <1>0, <2>5 DEF TypeOK, Stages
  <2>d. at' \in [Txns -> Versions \cup Entities \cup {None}]
    BY <1>0, <2>1, <2>2 DEF TypeOK
  <2>6. TypeOK'
    BY <2>a, <2>b, <2>c, <2>d, <2>5 DEF TypeOK
  <2>7. LocalOK'
    <3>0. r \notin Reviewers
      BY TxnsAssumption
    <3>1. \A s \in Txns : s # r => pc'[s] = pc[s] /\ at'[s] = at[s] /\ row'[s] = row[s]
      BY <2>1, <2>5 DEF TypeOK
    <3>2. at'[r] = v
      BY <1>0, <2>1 DEF TypeOK
    <3> QED
      BY <2>a, <2>2, <2>5, <3>0, <3>1, <3>2 DEF LocalOK, Txns
  <2> QED
    BY <2>6, <2>7
<1>3. CASE AdoptWinner(r)
  <2>1. PICK h \in HeadsSeenBy(r, row[r].entity) :
          h # None /\ row' = [row EXCEPT ![r] = h]
    BY <1>3 DEF AdoptWinner
  <2>2. h \in Decision
    BY <2>1, HeadSeenType
  <2>3. TypeOK'
    BY <1>0, <1>3, <2>1, <2>2 DEF TypeOK, AdoptWinner, WithoutMinted, Stages
  <2>4. LocalOK'
    BY <1>0, <1>3, <2>1, <2>2 DEF TypeOK, LocalOK, AdoptWinner, Stages
  <2> QED
    BY <2>3, <2>4
<1>4. CASE WriteClaims(r)
  <2>1. at[r] \in Versions /\ row[r] \in Decision
    BY <1>0, <1>4 DEF LocalOK, WriteClaims
  <2>2. [version |-> at[r], decision |-> row[r].id, txn |-> r] \in Claim
    BY <2>1 DEF Claim, Decision
  <2>3. TypeOK'
    BY <1>0, <1>4, <2>2 DEF TypeOK, WriteClaims, Stages
  <2>4. LocalOK'
    BY <1>0, <1>4 DEF TypeOK, LocalOK, WriteClaims, Stages
  <2> QED
    BY <2>3, <2>4
<1> QED
  BY <1>1, <1>2, <1>3, <1>4

LEMMA ReviewerType ==
    ASSUME TypeInv, NEW h \in Reviewers, View(h) \/ PostDecision(h)
    PROVE  TypeInv'
<1> USE DEF TypeInv
<1>0. h \in Txns /\ h \notin Resolvers
  BY TxnsAssumption DEF Txns
<1>1. CASE View(h)
  <2>0. PICK e \in Entities :
          /\ at' = [at EXCEPT ![h] = e]
          /\ \E d \in HeadsSeenBy(h, e) : viewed' = [viewed EXCEPT ![h] = d]
    BY <1>1 DEF View
  <2>1. PICK d \in HeadsSeenBy(h, e) : viewed' = [viewed EXCEPT ![h] = d]
    BY <2>0
  <2>2. d \in Decision \cup {None}
    BY HeadSeenType
  <2>3. TypeOK'
    BY <1>0, <1>1, <2>0, <2>1, <2>2 DEF TypeOK, View, Stages
  <2>4. LocalOK'
    BY <1>0, <1>1, <2>0 DEF TypeOK, LocalOK, View, Stages
  <2> QED
    BY <2>3, <2>4
<1>2. CASE PostDecision(h)
  <2>1. PICK d \in HeadsSeenBy(h, at[h]), c \in HumanVerdicts :
          row' = [row EXCEPT ![h] =
                    [id |-> <<h, at[h]>>,
                     entity |-> at[h],
                     supersedes |-> IF d = None THEN None ELSE d.id,
                     verdict |-> c[1],
                     company |-> c[2]]]
    BY <1>2 DEF PostDecision
  <2>2. at[h] \in Entities /\ d \in Decision \cup {None}
    BY <1>2, HeadSeenType DEF LocalOK, PostDecision
  <2>3. c[1] \in Verdicts /\ c[2] \in Companies \cup {None}
    BY DEF TypeOK, HumanVerdicts, Verdicts, CommittedCompanies, Companies
  <2>4. row' = [row EXCEPT ![h] = row'[h]] /\ row'[h] \in Decision
    BY <1>0, <2>1, <2>2, <2>3, PlannedRowType DEF TypeOK
  <2>5. TypeOK'
    BY <1>0, <1>2, <2>4 DEF TypeOK, PostDecision, Stages
  <2>6. LocalOK'
    BY <1>0, <1>2, <2>4 DEF TypeOK, LocalOK, PostDecision, Stages
  <2> QED
    BY <2>5, <2>6
<1> QED
  BY <1>1, <1>2

LEMMA RebuilderType ==
    ASSUME TypeInv, NEW b \in Rebuilders,
           BeginRebuild(b) \/ DeleteHead(b) \/ SelectHeads(b) \/ ReinsertHead(b)
    PROVE  TypeInv'
<1> USE DEF TypeInv
<1>0. b \in Txns /\ b \notin Resolvers /\ b \notin Reviewers
  BY TxnsAssumption DEF Txns
<1>1. CASE BeginRebuild(b)
  BY <1>0, <1>1 DEF TypeOK, LocalOK, BeginRebuild, Stages
<1>2. CASE DeleteHead(b)
  <2>a. PICK e \in todo[b] :
          /\ staged' = [staged EXCEPT ![b][e] = None]
          /\ todo' = [todo EXCEPT ![b] = @ \ {e}]
    BY <1>2 DEF DeleteHead
  <2>b. staged' \in [Txns -> [Entities -> HeadRow \cup {Untouched}]]
    BY <1>0, <2>a DEF TypeOK, HeadRow
  <2>1. TypeOK'
    BY <1>0, <1>2, <2>a, <2>b DEF TypeOK, DeleteHead
  <2>2. LocalOK'
    BY <1>0, <1>2 DEF TypeOK, LocalOK, DeleteHead
  <2> QED
    BY <2>1, <2>2
<1>3. CASE SelectHeads(b)
  <2>1. UNION {HeadsIn(Visible(b), e) : e \in Entities} \subseteq Decision
    BY DEF TypeOK, HeadsIn, Visible
  <2> QED
    BY <1>0, <1>3, <2>1 DEF TypeOK, LocalOK, SelectHeads, Stages
<1>4. CASE ReinsertHead(b)
  <2>1. PICK d \in copy[b] :
          /\ staged' = [staged EXCEPT ![b][d.entity] = d.id]
          /\ copy' = [copy EXCEPT ![b] = @ \ {d}]
    BY <1>4 DEF ReinsertHead
  <2>2. d \in Decision /\ d.id \in HeadRow
    BY <1>0 DEF TypeOK, HeadRow, Decision
  <2>3. staged' \in [Txns -> [Entities -> HeadRow \cup {Untouched}]]
    BY <1>0, <2>1, <2>2 DEF TypeOK
  <2>4. TypeOK'
    BY <1>0, <1>4, <2>1, <2>3 DEF TypeOK, ReinsertHead
  <2>5. LocalOK'
    BY <1>4 DEF LocalOK, ReinsertHead
  <2> QED
    BY <2>4, <2>5
<1> QED
  BY <1>1, <1>2, <1>3, <1>4

LEMMA TypeStep == TypeInv /\ [Next]_vars => TypeInv'
<1> SUFFICES ASSUME TypeInv, [Next]_vars
             PROVE  TypeInv'
  OBVIOUS
<1>1. ASSUME NEW r \in Resolvers, BeginRun(r) \/ ResolverStep(r)
      PROVE  TypeInv'
  BY <1>1, ResolverType, InsertType, UpsertType, CommitType DEF ResolverStep, Txns
<1>2. ASSUME NEW h \in Reviewers, View(h) \/ PostDecision(h) \/ ReviewerStep(h)
      PROVE  TypeInv'
  BY <1>2, ReviewerType, InsertType, UpsertType, CommitType, RollBackType
     DEF ReviewerStep, RefuseReviewer, Txns
<1>3. ASSUME NEW b \in Rebuilders, BeginRebuild(b) \/ RebuilderStep(b)
      PROVE  TypeInv'
  BY <1>3, RebuilderType, CommitType, RollBackType
     DEF RebuilderStep, RefuseRebuild, Txns
<1>4. ASSUME NEW t \in Txns, Crash(t) \/ DeadlockVictim(t)
      PROVE  TypeInv'
  BY <1>4, RollBackType DEF Crash, DeadlockVictim
<1>5. CASE UNCHANGED vars
  BY <1>5 DEF TypeInv, TypeOK, LocalOK, vars
<1> QED
  BY <1>1, <1>2, <1>3, <1>4, <1>5 DEF Next

\* In every reachable state of every instance the tables and the transactions
\* have the shapes of the schema and of the code's local state.
THEOREM TypeCorrect == Spec => []TypeOK
<1>1. Init => TypeInv
  <2> SUFFICES ASSUME Init PROVE TypeOK /\ LocalOK
    BY DEF TypeInv
  <2>1. TypeOK
    BY DEF Init, TypeOK, Stages, HeadRow, Companies
  <2>2. LocalOK
    BY TxnsAssumption DEF Init, LocalOK, Txns
  <2> QED
    BY <2>1, <2>2
<1> QED
  BY <1>1, TypeStep, PTL DEF Spec, TypeInv

-----------------------------------------------------------------------------
(* The chain.  GraphInv is about the rows and who has committed them; it is *)
(* moved only by a transaction beginning, inserting, committing or aborting. *)

GraphInv == RowsOK /\ PendingOK /\ Rooted /\ OneHead

LEMMA WriterType ==
    ASSUME TypeOK, NEW d \in rows
    PROVE  Writer(d) \in Txns /\ d.id # None /\ d.entity \in Entities
  BY NoneAssumption DEF TypeOK, Decision, DecisionIds, Writer

\* Supersession stays inside one entity.
LEMMA SameEntity ==
    ASSUME TypeOK, RowsOK, NEW d \in rows, NEW s \in rows, s.supersedes = d.id
    PROVE  s.entity = d.entity
<1>1. s.supersedes # None
  BY WriterType
<1>2. PICK o \in rows : o.id = s.supersedes /\ o.entity = s.entity
  BY <1>1 DEF RowsOK, Visible
<1> QED
  BY <1>2 DEF RowsOK

\* So the head of an entity depends on the rows of that entity alone.
LEMMA HeadIsLocal ==
    ASSUME TypeOK, RowsOK, NEW S, NEW T, S \subseteq rows, T \subseteq rows, NEW e,
           \A d \in rows : d.entity = e => (d \in S <=> d \in T)
    PROVE  /\ HeadsIn(S, e) = HeadsIn(T, e)
           /\ HasOneHead(S, e) => HasOneHead(T, e)
           /\ HasRoot(S, e) => HasRoot(T, e)
<1>1. \A d, s \in rows : s.supersedes = d.id => s.entity = d.entity
  BY SameEntity
<1>2. HeadsIn(S, e) = HeadsIn(T, e)
  BY <1>1 DEF HeadsIn
<1>3. HasOneHead(S, e) => HasOneHead(T, e)
  BY <1>2 DEF HasOneHead
<1>4. HasRoot(S, e) => HasRoot(T, e)
  BY DEF HasRoot
<1> QED
  BY <1>2, <1>3, <1>4

LEMMA GraphQuiet ==
    ASSUME GraphInv, rows' = rows, status' = status
    PROVE  GraphInv'
<1>1. Committed' = Committed /\ \A t : Visible(t)' = Visible(t)
  BY DEF Committed, Visible
<1>2. \A d : Rivals(d)' = Rivals(d)
  BY DEF Rivals
<1>3. RowsOK'
  BY <1>1, <1>2 DEF GraphInv, RowsOK
<1>4. PendingOK'
  BY <1>1 DEF GraphInv, PendingOK, StandsOnCommitted
<1>5. Rooted' /\ OneHead'
  BY <1>1 DEF GraphInv, Rooted, OneHead
<1> QED
  BY <1>3, <1>4, <1>5 DEF GraphInv

LEMMA GraphBegin ==
    ASSUME TypeOK, GraphInv, NEW t \in Txns, status[t] = "idle",
           rows' = rows, status' = [status EXCEPT ![t] = "active"]
    PROVE  GraphInv'
<1>1. \A d \in rows : Writer(d) # t /\ Writer(d) \in Txns
  BY WriterType DEF GraphInv, RowsOK
<1>2. \A d \in rows : status'[Writer(d)] = status[Writer(d)]
  BY <1>1 DEF TypeOK
<1>3. Committed' = Committed /\ \A s : Visible(s)' = Visible(s)
  BY <1>2 DEF Committed, Visible
<1>4. Visible(t) = Committed
  BY <1>1 DEF Committed, Visible
<1>5. \A d : Rivals(d)' = Rivals(d)
  BY DEF Rivals
<1>6. RowsOK'
  BY <1>2, <1>3, <1>5 DEF GraphInv, RowsOK
<1>7. PendingOK'
  BY <1>2, <1>3 DEF GraphInv, PendingOK, StandsOnCommitted
<1>8. \A s \in Txns : s # t => status'[s] = status[s]
  BY DEF TypeOK
<1>9. Rooted' /\ OneHead'
  BY <1>3, <1>4, <1>8 DEF GraphInv, Rooted, OneHead
<1> QED
  BY <1>6, <1>7, <1>9 DEF GraphInv

LEMMA GraphRollBack ==
    ASSUME TypeOK, GraphInv, NEW t \in Txns, status[t] = "active", RollBack(t)
    PROVE  GraphInv'
<1>1. rows' = {d \in rows : Writer(d) # t} /\ status' = [status EXCEPT ![t] = "aborted"]
  BY DEF RollBack
<1>2. \A d \in rows' : d \in rows /\ Writer(d) # t /\ status'[Writer(d)] = status[Writer(d)]
  BY <1>1, WriterType DEF TypeOK
<1>3. Committed' = Committed
  BY <1>1, <1>2 DEF Committed
<1>4. \A s : s # t => Visible(s)' = Visible(s)
  BY <1>1, <1>2 DEF Visible
<1>5. RowsOK'
  <2>1. \A d, o \in rows' : o \in Rivals(d)' => d = o
    BY <1>2 DEF GraphInv, RowsOK, Rivals
  <2> QED
    BY <1>2, <1>4, <2>1 DEF GraphInv, RowsOK
<1>6. PendingOK'
  BY <1>1, <1>2, <1>3 DEF GraphInv, PendingOK, StandsOnCommitted
<1>7. \A s \in Txns : status'[s] = "active" => s # t /\ status[s] = "active"
  BY <1>1 DEF TypeOK
<1>8. Rooted' /\ OneHead'
  BY <1>3, <1>4, <1>7 DEF GraphInv, Rooted, OneHead
<1> QED
  BY <1>5, <1>6, <1>8 DEF GraphInv

\* t commits: what it saw becomes what everybody sees, and nobody else has
\* decided about an entity it has decided about.
LEMMA GraphCommit ==
    ASSUME TypeOK, GraphInv, NEW t \in Txns, status[t] = "active",
           rows' = rows, status' = [status EXCEPT ![t] = "committed"]
    PROVE  GraphInv'
<1>1. Committed' = Visible(t)
  BY WriterType DEF Committed, Visible, TypeOK
<1>2. \A s : Visible(s)' = Visible(t) \cup Visible(s)
  BY WriterType DEF Visible, TypeOK
<1>3. \A s \in Txns : status'[s] = "active" => s # t /\ status[s] = "active"
  BY DEF TypeOK
<1>4. \A d : Rivals(d)' = Rivals(d)
  BY DEF Rivals
<1>5. RowsOK'
  <2>1. \A d \in rows : status'[Writer(d)] \in {"active", "committed"}
    BY WriterType DEF GraphInv, RowsOK, TypeOK
  <2> QED
    BY <1>2, <1>4, <2>1 DEF GraphInv, RowsOK
<1>6. ASSUME NEW e \in Entities, NEW s \in Txns, s # t, status[s] = "active",
             NEW d \in rows, d.entity = e, Writer(d) = s
      PROVE  \A o \in rows : o.entity = e => (o \in Visible(t) <=> o \in Committed)
  BY <1>6 DEF GraphInv, PendingOK, Visible, Committed
<1>7. PendingOK'
  <2> SUFFICES ASSUME NEW d \in rows, status'[Writer(d)] = "active"
               PROVE  /\ \A o \in rows :
                            o.entity = d.entity /\ status'[Writer(o)] = "active"
                              => Writer(o) = Writer(d)
                      /\ \E f \in rows : /\ f.entity = d.entity /\ Writer(f) = Writer(d)
                                          /\ StandsOnCommitted(f)'
    BY DEF PendingOK
  <2>1. Writer(d) # t /\ status[Writer(d)] = "active" /\ Writer(d) \in Txns /\ d.entity \in Entities
    BY <1>3, WriterType
  <2>2. \A o \in rows : status'[Writer(o)] = "active" => status[Writer(o)] = "active"
    BY <1>3, WriterType
  <2>3. PICK f \in rows : /\ f.entity = d.entity /\ Writer(f) = Writer(d)
                          /\ StandsOnCommitted(f)
    BY <2>1 DEF GraphInv, PendingOK
  <2>4. \A o \in rows : o.entity = d.entity => (o \in Visible(t) <=> o \in Committed)
    BY <1>6, <2>1
  <2>5. HeadsIn(Committed, d.entity) = HeadsIn(Visible(t), d.entity)
    BY <2>4, HeadIsLocal DEF GraphInv, Committed, Visible
  <2>6. StandsOnCommitted(f)'
    BY <1>1, <2>3, <2>4, <2>5 DEF StandsOnCommitted, Committed, Visible
  <2> QED
    BY <2>1, <2>2, <2>3, <2>6 DEF GraphInv, PendingOK
<1>8. ASSUME NEW e \in Entities
      PROVE  /\ HasOneHead(Committed', e) /\ HasRoot(Committed', e)
             /\ \A s \in Txns : status'[s] = "active" =>
                   HasOneHead(Visible(s)', e) /\ HasRoot(Visible(s)', e)
  <2>1. HasOneHead(Visible(t), e) /\ HasRoot(Visible(t), e)
    BY DEF GraphInv, OneHead, Rooted
  <2>2. ASSUME NEW s \in Txns, status'[s] = "active"
        PROVE  HasOneHead(Visible(s)', e) /\ HasRoot(Visible(s)', e)
    <3>1. s # t /\ status[s] = "active" /\ HasOneHead(Visible(s), e) /\ HasRoot(Visible(s), e)
      BY <1>3, <2>2 DEF GraphInv, OneHead, Rooted
    <3>2. Visible(s) \subseteq rows /\ Visible(t) \subseteq rows
      BY DEF Visible
    <3> DEFINE V == Visible(t) \cup Visible(s)
    <3>3. CASE \E d \in rows : d.entity = e /\ Writer(d) = s
      <4>1. \A o \in rows : o.entity = e => (o \in Visible(s) <=> o \in V)
        BY <1>6, <3>1, <3>3 DEF Visible, Committed
      <4>2. HasOneHead(V, e) /\ HasRoot(V, e)
        BY <3>1, <3>2, <4>1, HeadIsLocal DEF GraphInv
      <4> QED
        BY <1>2, <4>2
    <3>4. CASE ~\E d \in rows : d.entity = e /\ Writer(d) = s
      <4>1. \A o \in rows : o.entity = e => (o \in Visible(t) <=> o \in V)
        BY <3>4 DEF Visible
      <4>2. HasOneHead(V, e) /\ HasRoot(V, e)
        BY <2>1, <3>2, <4>1, HeadIsLocal DEF GraphInv
      <4> QED
        BY <1>2, <4>2
    <3> QED
      BY <3>3, <3>4
  <2> QED
    BY <1>1, <2>1, <2>2
<1>9. Rooted' /\ OneHead'
  BY <1>8 DEF Rooted, OneHead
<1> QED
  BY <1>5, <1>7, <1>9 DEF GraphInv

\* t inserts: the key was free, so what it supersedes is still the head of
\* everything t sees, and no other open transaction is on that entity.
LEMMA GraphInsert ==
    ASSUME TypeOK, GraphInv, PlanOK, NEW t \in Txns, row[t] \in Decision,
           InsertDecision(t)
    PROVE  GraphInv'
<1> DEFINE n == row[t]
           e == n.entity
<1>1. /\ status[t] = "active" /\ Rivals(n) = {} /\ status' = status
      /\ rows' = rows \cup {n}
  BY DEF InsertDecision
<1>2. /\ Writer(n) = t /\ n.id # None /\ e \in Entities
      /\ \A d \in rows : d.id # n.id
      /\ n.supersedes # None =>
            \E o \in Visible(t) : o.id = n.supersedes /\ o.entity = e
  BY <1>1, NoneAssumption DEF PlanOK, InsertDecision, Decision
<1>3. \A s \in rows : s.supersedes # n.id
  BY <1>2 DEF GraphInv, RowsOK, Visible
<1>4. n.supersedes # n.id
  BY <1>2 DEF Visible
<1>5. /\ n.supersedes = None => \A d \in rows : d.supersedes = None => d.entity # e
      /\ n.supersedes # None => \A d \in rows : d.supersedes # n.supersedes
  BY <1>1 DEF Rivals
<1>6. n.supersedes = None => \A d \in Visible(t) : d.entity # e
  BY <1>1, <1>2, <1>5 DEF GraphInv, Rooted, HasRoot, Visible
<1>7. ASSUME n.supersedes # None
      PROVE  \E o \in HeadsIn(Visible(t), e) : o.id = n.supersedes
  BY <1>2, <1>5, <1>7 DEF HeadsIn, Visible
<1>8. Committed' = Committed /\ Visible(t)' = Visible(t) \cup {n}
  BY <1>1, <1>2 DEF Committed, Visible
<1>9. \A s : s # t => Visible(s)' = Visible(s)
  BY <1>1, <1>2 DEF Visible
<1>10. RowsOK'
  <2>1. \A d \in rows' : status'[Writer(d)] \in {"active", "committed"}
    BY <1>1, <1>2 DEF GraphInv, RowsOK
  <2>2. \A d, o \in rows' : d.id = o.id => d = o
    BY <1>1, <1>2 DEF GraphInv, RowsOK
  <2>3. \A d, o \in rows' : o \in Rivals(d)' => d = o
    BY <1>1, <1>5 DEF GraphInv, RowsOK, Rivals
  <2>4. \A d \in rows' : d.supersedes # None =>
          \E o \in Visible(Writer(d))' : o.id = d.supersedes /\ o.entity = d.entity
    BY <1>1, <1>2, <1>8, <1>9 DEF GraphInv, RowsOK
  <2> QED
    BY <2>1, <2>2, <2>3, <2>4 DEF RowsOK
<1>11. ASSUME NEW s \in rows, s.entity = e, status[Writer(s)] = "active"
       PROVE  Writer(s) = t
  <2> SUFFICES ASSUME Writer(s) # t PROVE FALSE
    OBVIOUS
  <2>1. PICK f \in rows : /\ f.entity = e /\ Writer(f) = Writer(s)
                          /\ StandsOnCommitted(f)
    BY <1>11 DEF GraphInv, PendingOK
  <2>2. \A d \in rows : d.entity = e /\ d \in Visible(t) => d \in Committed
    BY <1>1, <1>11 DEF GraphInv, PendingOK, Visible, Committed
  <2>3. Committed \subseteq Visible(t)
    BY DEF Committed, Visible
  <2>4. CASE n.supersedes = None
    <3>1. HeadsIn(Committed, e) = {}
      BY <1>6, <2>3, <2>4 DEF HeadsIn
    <3> QED
      BY <1>5, <2>1, <2>4, <3>1 DEF StandsOnCommitted
  <2>5. CASE n.supersedes # None
    <3>1. PICK o \in HeadsIn(Visible(t), e) : o.id = n.supersedes
      BY <1>7, <2>5
    <3>2. o \in Committed /\ o.entity = e /\ o \in HeadsIn(Committed, e)
      BY <2>2, <2>3, <3>1 DEF HeadsIn, Visible
    <3>3. PICK h \in HeadsIn(Committed, e) : h.id = f.supersedes
      BY <2>1, <3>2 DEF StandsOnCommitted
    <3>4. h = o
      BY <1>2, <3>2, <3>3 DEF GraphInv, OneHead, HasOneHead
    <3> QED
      BY <1>5, <2>1, <2>5, <3>1, <3>3, <3>4
  <2> QED
    BY <2>4, <2>5
<1>12. PendingOK'
  <2> SUFFICES ASSUME NEW d \in rows', status'[Writer(d)] = "active"
               PROVE  /\ \A o \in rows' :
                            o.entity = d.entity /\ status'[Writer(o)] = "active"
                              => Writer(o) = Writer(d)
                      /\ \E f \in rows' : /\ f.entity = d.entity /\ Writer(f) = Writer(d)
                                           /\ StandsOnCommitted(f)'
    BY DEF PendingOK
  <2>1. \A f : StandsOnCommitted(f)' <=> StandsOnCommitted(f)
    BY <1>8 DEF StandsOnCommitted
  <2>2. \A o \in rows' : o.entity = d.entity /\ status'[Writer(o)] = "active"
                            => Writer(o) = Writer(d)
    BY <1>1, <1>2, <1>11 DEF GraphInv, PendingOK
  <2>3. CASE d \in rows
    BY <1>1, <2>1, <2>2, <2>3 DEF GraphInv, PendingOK
  <2>4. CASE d = n
    <3>1. CASE \E o \in rows : o.entity = e /\ Writer(o) = t
      BY <1>1, <1>2, <2>1, <2>2, <2>4, <3>1 DEF GraphInv, PendingOK
    <3>2. CASE ~\E o \in rows : o.entity = e /\ Writer(o) = t
      <4>1. \A o \in Visible(t) : o.entity = e => o \in Committed
        BY <3>2 DEF Visible, Committed
      <4>2. Committed \subseteq Visible(t)
        BY DEF Committed, Visible
      <4>3. StandsOnCommitted(n)
        BY <1>6, <1>7, <4>1, <4>2 DEF StandsOnCommitted, HeadsIn
      <4> QED
        BY <1>1, <1>2, <2>1, <2>2, <2>4, <4>3
    <3> QED
      BY <3>1, <3>2
  <2> QED
    BY <1>1, <2>3, <2>4
<1>13. ASSUME NEW k \in Entities
       PROVE  HasOneHead(Visible(t)', k) /\ HasRoot(Visible(t)', k)
  <2>1. HasOneHead(Visible(t), k) /\ HasRoot(Visible(t), k)
    BY <1>1 DEF GraphInv, OneHead, Rooted
  <2>2. HasRoot(Visible(t)', k)
    BY <1>2, <1>8, <2>1 DEF HasRoot
  <2>3. CASE k # e
    <3>1. \A d \in Visible(t) : d.entity = k => n.supersedes # d.id
      BY <1>2, <2>3, WriterType DEF GraphInv, RowsOK, Visible
    <3>2. HeadsIn(Visible(t)', k) = HeadsIn(Visible(t), k)
      BY <1>8, <2>3, <3>1 DEF HeadsIn
    <3> QED
      BY <1>8, <2>1, <2>2, <2>3, <3>2 DEF HasOneHead
  <2>4. CASE k = e
    <3>1. n \in HeadsIn(Visible(t)', e)
      BY <1>3, <1>4, <1>8 DEF HeadsIn, Visible
    <3>2. ASSUME NEW d \in HeadsIn(Visible(t)', e), d # n
          PROVE  FALSE
      <4>1. d \in HeadsIn(Visible(t), e) /\ n.supersedes # d.id
        BY <1>8, <3>2 DEF HeadsIn
      <4>2. n.supersedes # None
        BY <1>6, <4>1 DEF HeadsIn
      <4>3. PICK o \in HeadsIn(Visible(t), e) : o.id = n.supersedes
        BY <1>7, <4>2
      <4> QED
        BY <2>1, <2>4, <4>1, <4>3 DEF HasOneHead, HeadsIn
    <3> QED
      BY <2>2, <2>4, <3>1, <3>2 DEF HasOneHead
  <2> QED
    BY <2>3, <2>4
<1>14. Rooted' /\ OneHead'
  BY <1>1, <1>8, <1>9, <1>13 DEF GraphInv, Rooted, OneHead
<1> QED
  BY <1>10, <1>12, <1>14 DEF GraphInv

-----------------------------------------------------------------------------
(* The plans: what a transaction is about to insert, and what it has left.  *)

\* A plan made by t is untouched by what another transaction does.
LEMMA PlanByOther ==
    ASSUME TypeInv, PlanOK, NEW t \in Txns, NEW s \in Txns, s # t,
           status[t] = "active", pc[t] = "insert", row'[t] = row[t], at'[t] = at[t],
           \A d \in rows' : d \in rows \/ Writer(d) = s,
           Visible(t) \subseteq Visible(t)'
    PROVE  /\ Writer(row'[t]) = t
           /\ t \in Resolvers => row'[t].id[2] = at'[t]
           /\ \A d \in rows' : d.id # row'[t].id
           /\ row'[t].supersedes # None =>
                 \E o \in Visible(t)' : /\ o.id = row'[t].supersedes
                                        /\ o.entity = row'[t].entity
<1>1. /\ Writer(row[t]) = t
      /\ t \in Resolvers => row[t].id[2] = at[t]
      /\ \A d \in rows : d.id # row[t].id
      /\ row[t].supersedes # None =>
            \E o \in Visible(t) : /\ o.id = row[t].supersedes
                                  /\ o.entity = row[t].entity
  BY DEF PlanOK
<1>2. \A d \in rows' : d.id # row[t].id
  BY <1>1 DEF Writer
<1> QED
  BY <1>1, <1>2

\* What a transaction does to its own local state, the rows staying put.
LEMMA LocalStep ==
    ASSUME TypeInv, PlanOK, FreshOK, NEW t \in Txns,
           rows' = rows, status' = status,
           \A s \in Txns : s # t =>
              pc'[s] = pc[s] /\ todo'[s] = todo[s] /\ at'[s] = at[s] /\ row'[s] = row[s],
           status[t] = "active" => pc'[t] # "insert",
           t \in Resolvers /\ status[t] = "active" =>
              \A d \in rows : Writer(d) = t =>
                 /\ pc'[t] = "scan" => d.id[2] \notin todo'[t]
                 /\ d.id[2] \notin todo'[t] \ {at'[t]}
    PROVE  PlanOK' /\ FreshOK'
<1>1. \A s : Visible(s)' = Visible(s)
  BY DEF Visible
<1>2. PlanOK'
  BY <1>1 DEF PlanOK
<1>3. FreshOK'
  BY DEF FreshOK, Txns
<1> QED
  BY <1>2, <1>3

LEMMA PlanBegin ==
    ASSUME TypeInv, RowsOK, PlanOK, FreshOK, NEW t \in Txns, status[t] = "idle",
           rows' = rows, status' = [status EXCEPT ![t] = "active"],
           \A s \in Txns : s # t =>
              pc'[s] = pc[s] /\ todo'[s] = todo[s] /\ at'[s] = at[s] /\ row'[s] = row[s],
           pc'[t] = "insert" =>
              /\ t \notin Resolvers
              /\ Writer(row'[t]) = t
              /\ row'[t].supersedes # None =>
                    \E o \in Visible(t) : /\ o.id = row'[t].supersedes
                                          /\ o.entity = row'[t].entity
    PROVE  PlanOK' /\ FreshOK'
<1>0. TypeOK
  BY DEF TypeInv
<1>1. \A d \in rows : Writer(d) # t /\ Writer(d) \in Txns
  BY <1>0, WriterType DEF RowsOK
<1>2. \A s \in Txns : Visible(s) \subseteq Visible(s)'
  BY <1>0, <1>1 DEF Visible, TypeOK
<1>3. \A s \in Txns : s # t => status'[s] = status[s]
  BY <1>0 DEF TypeOK
<1>4. PlanOK'
  <2> SUFFICES ASSUME NEW s \in Txns, status'[s] = "active", pc'[s] = "insert"
               PROVE  /\ Writer(row'[s]) = s
                      /\ s \in Resolvers => row'[s].id[2] = at'[s]
                      /\ \A d \in rows' : d.id # row'[s].id
                      /\ row'[s].supersedes # None =>
                            \E o \in Visible(s)' : /\ o.id = row'[s].supersedes
                                                   /\ o.entity = row'[s].entity
    BY DEF PlanOK
  <2>1. CASE s # t
    BY <1>2, <1>3, <2>1, PlanByOther
  <2>2. CASE s = t
    BY <1>1, <1>2, <2>2 DEF Writer
  <2> QED
    BY <2>1, <2>2
<1>5. FreshOK'
  BY <1>1, <1>3 DEF FreshOK, Txns
<1> QED
  BY <1>4, <1>5

LEMMA PlanInsert ==
    ASSUME TypeInv, PlanOK, FreshOK, NEW t \in Txns, InsertDecision(t)
    PROVE  PlanOK' /\ FreshOK'
<1>1. /\ status[t] = "active" /\ pc[t] = "insert"
      /\ rows' = rows \cup {row[t]} /\ pc' = [pc EXCEPT ![t] = "upsert"]
      /\ UNCHANGED <<status, todo, at, row>>
  BY DEF InsertDecision
<1>2. Writer(row[t]) = t /\ (t \in Resolvers => row[t].id[2] = at[t])
  BY <1>1 DEF PlanOK
<1>3. pc'[t] = "upsert" /\ \A s \in Txns : s # t => pc'[s] = pc[s]
  BY <1>1 DEF TypeInv, TypeOK
<1>4. \A s : Visible(s) \subseteq Visible(s)'
  BY <1>1 DEF Visible
<1>5. PlanOK'
  <2> SUFFICES ASSUME NEW s \in Txns, status'[s] = "active", pc'[s] = "insert"
               PROVE  /\ Writer(row'[s]) = s
                      /\ s \in Resolvers => row'[s].id[2] = at'[s]
                      /\ \A d \in rows' : d.id # row'[s].id
                      /\ row'[s].supersedes # None =>
                            \E o \in Visible(s)' : /\ o.id = row'[s].supersedes
                                                   /\ o.entity = row'[s].entity
    BY DEF PlanOK
  <2> QED
    BY <1>1, <1>2, <1>3, <1>4, PlanByOther
<1>6. FreshOK'
  BY <1>1, <1>2, <1>3 DEF FreshOK, Txns
<1> QED
  BY <1>5, <1>6

\* t ends, and what it wrote is either everybody's or gone.
LEMMA PlanEnd ==
    ASSUME TypeInv, PlanOK, FreshOK, NEW t \in Txns, Commit(t) \/ RollBack(t),
           status[t] = "active"
    PROVE  PlanOK' /\ FreshOK'
<1>1. /\ rows' \subseteq rows /\ at' = at
      /\ status'[t] # "active" /\ pc'[t] = "done"
      /\ \A s \in Txns : s # t =>
            pc'[s] = pc[s] /\ status'[s] = status[s] /\ todo'[s] = todo[s] /\ row'[s] = row[s]
  BY DEF TypeInv, TypeOK, Commit, RollBack
<1>2. \A s \in Txns : s # t => Visible(s) \subseteq Visible(s)'
  BY WriterType DEF Visible, Commit, RollBack, TypeInv, TypeOK
<1>3. PlanOK'
  <2> SUFFICES ASSUME NEW s \in Txns, status'[s] = "active", pc'[s] = "insert"
               PROVE  /\ Writer(row'[s]) = s
                      /\ s \in Resolvers => row'[s].id[2] = at'[s]
                      /\ \A d \in rows' : d.id # row'[s].id
                      /\ row'[s].supersedes # None =>
                            \E o \in Visible(s)' : /\ o.id = row'[s].supersedes
                                                   /\ o.entity = row'[s].entity
    BY DEF PlanOK
  <2> QED
    BY <1>1, <1>2, PlanByOther
<1>4. FreshOK'
  BY <1>1 DEF FreshOK, Txns
<1> QED
  BY <1>3, <1>4

LEMMA PlanResolve ==
    ASSUME TypeInv, PlanOK, FreshOK, NEW r \in Resolvers, Resolve(r)
    PROVE  PlanOK' /\ FreshOK'
<1>0. r \in Txns
  BY DEF Txns
<1>1. UNCHANGED <<rows, status, todo>> /\ status[r] = "active" /\ pc[r] = "scan"
  BY DEF Resolve
<1>2. PICK v \in todo[r] :
        /\ at' = [at EXCEPT ![r] = v]
        /\ \E h \in HeadsSeenBy(r, EntityOf[v]) :
              \/ KeepHead(r, h)
              \/ \E c \in Conclusions(r, v) : Conclude(r, v, h, c[1], c[2])
  BY DEF Resolve
<1>3. PICK h \in HeadsSeenBy(r, EntityOf[v]) :
        \/ KeepHead(r, h)
        \/ \E c \in Conclusions(r, v) : Conclude(r, v, h, c[1], c[2])
  BY <1>2
<1>4. \A s \in Txns : s # r =>
          pc'[s] = pc[s] /\ at'[s] = at[s] /\ row'[s] = row[s] /\ todo'[s] = todo[s]
  BY <1>1, <1>2, <1>3 DEF TypeInv, TypeOK, KeepHead, Conclude
<1>5. at'[r] = v
  BY <1>0, <1>2 DEF TypeInv, TypeOK
<1>6. \A d \in rows : Writer(d) = r => d.id[2] \notin todo[r]
  BY <1>1 DEF FreshOK
<1>7. FreshOK'
  BY <1>1, <1>4, <1>6 DEF FreshOK, Txns
<1>8. CASE KeepHead(r, h)
  BY <1>0, <1>1, <1>4, <1>6, <1>8, LocalStep DEF KeepHead, TypeInv, TypeOK
<1>9. CASE \E c \in Conclusions(r, v) : Conclude(r, v, h, c[1], c[2])
  <2>1. PICK c \in Conclusions(r, v) : Conclude(r, v, h, c[1], c[2])
    BY <1>9
  <2>2. row'[r] = [id |-> <<r, v>>,
                   entity |-> EntityOf[v],
                   supersedes |-> IF h = None THEN None ELSE h.id,
                   verdict |-> c[1],
                   company |-> c[2]]
    BY <1>0, <2>1 DEF Conclude, TypeInv, TypeOK
  <2>3. h = None \/ (h \in Visible(r) /\ h.entity = EntityOf[v])
    BY DEF HeadsSeenBy, HeadsIn
  <2>4. \A d \in rows : d.id # <<r, v>>
    BY <1>6 DEF Writer
  <2>5. \A s : Visible(s)' = Visible(s)
    BY <1>1 DEF Visible
  <2>6. /\ Writer(row'[r]) = r /\ row'[r].id[2] = at'[r]
        /\ \A d \in rows' : d.id # row'[r].id
        /\ row'[r].supersedes # None =>
              \E o \in Visible(r)' : /\ o.id = row'[r].supersedes
                                     /\ o.entity = row'[r].entity
    BY <1>1, <1>5, <2>2, <2>3, <2>4, <2>5 DEF Writer
  <2>7. PlanOK'
    BY <1>1, <1>4, <2>5, <2>6 DEF PlanOK
  <2> QED
    BY <1>7, <2>7
<1> QED
  BY <1>3, <1>8, <1>9

-----------------------------------------------------------------------------
LEMMA ChainParts == ChainInv <=> TypeInv /\ GraphInv /\ PlanOK /\ FreshOK
  BY DEF ChainInv, TypeInv, GraphInv

LEMMA ChainInsert ==
    ASSUME ChainInv, NEW t \in Txns, InsertDecision(t)
    PROVE  GraphInv' /\ PlanOK' /\ FreshOK'
<1>1. row[t] \in Decision
  BY DEF ChainInv, LocalOK, InsertDecision
<1> QED
  BY <1>1, ChainParts, GraphInsert, PlanInsert DEF ChainInv

LEMMA ChainUpsert ==
    ASSUME ChainInv, NEW t \in Txns, UpsertHead(t)
    PROVE  GraphInv' /\ PlanOK' /\ FreshOK'
<1>1. GraphInv'
  BY ChainParts, GraphQuiet DEF UpsertHead
<1>2. /\ rows' = rows /\ status' = status /\ pc[t] = "upsert"
      /\ pc'[t] \in {"claim", "done"}
      /\ UNCHANGED <<todo, at, row>>
      /\ \A s \in Txns : s # t => pc'[s] = pc[s]
  BY DEF UpsertHead, ChainInv, TypeOK
<1>3. t \in Resolvers /\ status[t] = "active" =>
         \A d \in rows : Writer(d) = t => d.id[2] \notin todo[t] \ {at[t]}
  BY DEF ChainInv, FreshOK
<1>4. PlanOK' /\ FreshOK'
  BY <1>2, <1>3, ChainParts, LocalStep
<1> QED
  BY <1>1, <1>4

LEMMA ChainEnd ==
    ASSUME ChainInv, NEW t \in Txns, status[t] = "active", Commit(t) \/ RollBack(t)
    PROVE  GraphInv' /\ PlanOK' /\ FreshOK'
<1>1. GraphInv'
  BY ChainParts, GraphCommit, GraphRollBack DEF Commit, ChainInv
<1> QED
  BY <1>1, ChainParts, PlanEnd

LEMMA ChainResolver ==
    ASSUME ChainInv, NEW r \in Resolvers,
           BeginRun(r) \/ Resolve(r) \/ AdoptWinner(r) \/ WriteClaims(r)
    PROVE  GraphInv' /\ PlanOK' /\ FreshOK'
<1>0. r \in Txns /\ TypeOK /\ TypeInv /\ GraphInv /\ RowsOK /\ PlanOK /\ FreshOK
  BY ChainParts DEF Txns, ChainInv
<1>1. CASE BeginRun(r)
  <2>1. /\ status[r] = "idle" /\ rows' = rows
        /\ status' = [status EXCEPT ![r] = "active"]
        /\ pc'[r] = "scan"
        /\ \A s \in Txns : s # r =>
              pc'[s] = pc[s] /\ todo'[s] = todo[s] /\ at'[s] = at[s] /\ row'[s] = row[s]
    BY <1>0, <1>1 DEF BeginRun, TypeOK
  <2> QED
    BY <1>0, <2>1, GraphBegin, PlanBegin
<1>2. CASE Resolve(r)
  BY <1>0, <1>2, GraphQuiet, PlanResolve DEF Resolve
<1>3. CASE AdoptWinner(r)
  <2>1. /\ rows' = rows /\ status' = status /\ status[r] = "active"
        /\ pc'[r] = "upsert" /\ UNCHANGED <<todo, at>>
        /\ \A s \in Txns : s # r => pc'[s] = pc[s] /\ row'[s] = row[s]
    BY <1>0, <1>3 DEF AdoptWinner, TypeOK
  <2>2. \A d \in rows : Writer(d) = r => d.id[2] \notin todo[r] \ {at[r]}
    BY <1>0, <2>1 DEF FreshOK
  <2> QED
    BY <1>0, <2>1, <2>2, GraphQuiet, LocalStep
<1>4. CASE WriteClaims(r)
  <2>1. /\ rows' = rows /\ status' = status /\ status[r] = "active"
        /\ todo'[r] = todo[r] \ {at[r]} /\ UNCHANGED <<at, row>>
        /\ pc'[r] \in {"scan", "done"}
        /\ \A s \in Txns : s # r => pc'[s] = pc[s] /\ todo'[s] = todo[s]
    BY <1>0, <1>4 DEF WriteClaims, TypeOK
  <2>2. \A d \in rows : Writer(d) = r => d.id[2] \notin todo[r] \ {at[r]}
    BY <1>0, <2>1 DEF FreshOK
  <2> QED
    BY <1>0, <2>1, <2>2, GraphQuiet, LocalStep
<1> QED
  BY <1>1, <1>2, <1>3, <1>4

LEMMA ChainReviewer ==
    ASSUME ChainInv, NEW h \in Reviewers, View(h) \/ PostDecision(h)
    PROVE  GraphInv' /\ PlanOK' /\ FreshOK'
<1>0. /\ h \in Txns /\ h \notin Resolvers
      /\ TypeOK /\ TypeInv /\ GraphInv /\ RowsOK /\ PlanOK /\ FreshOK
  BY ChainParts, TxnsAssumption DEF Txns, ChainInv
<1>1. CASE View(h)
  <2>1. /\ rows' = rows /\ status' = status /\ status[h] = "idle"
        /\ UNCHANGED <<todo, row>>
        /\ \A s \in Txns : s # h => pc'[s] = pc[s] /\ at'[s] = at[s]
    BY <1>0, <1>1 DEF View, TypeOK
  <2> QED
    BY <1>0, <2>1, GraphQuiet, LocalStep
<1>2. CASE PostDecision(h)
  <2>1. PICK d \in HeadsSeenBy(h, at[h]), c \in HumanVerdicts :
          row' = [row EXCEPT ![h] =
                    [id |-> <<h, at[h]>>,
                     entity |-> at[h],
                     supersedes |-> IF d = None THEN None ELSE d.id,
                     verdict |-> c[1],
                     company |-> c[2]]]
    BY <1>2 DEF PostDecision
  <2>2. d = None \/ (d \in Visible(h) /\ d.entity = at[h])
    BY DEF HeadsSeenBy, HeadsIn
  <2>3. /\ status[h] = "idle" /\ rows' = rows
        /\ status' = [status EXCEPT ![h] = "active"]
        /\ \A s \in Txns : s # h =>
              pc'[s] = pc[s] /\ todo'[s] = todo[s] /\ at'[s] = at[s] /\ row'[s] = row[s]
    BY <1>0, <1>2, <2>1 DEF PostDecision, TypeOK
  <2>4. /\ Writer(row'[h]) = h
        /\ row'[h].supersedes # None =>
              \E o \in Visible(h) : /\ o.id = row'[h].supersedes
                                    /\ o.entity = row'[h].entity
    BY <1>0, <2>1, <2>2 DEF TypeOK, Writer
  <2> QED
    BY <1>0, <2>3, <2>4, GraphBegin, PlanBegin
<1> QED
  BY <1>1, <1>2

LEMMA ChainRebuilder ==
    ASSUME ChainInv, NEW b \in Rebuilders,
           BeginRebuild(b) \/ DeleteHead(b) \/ SelectHeads(b) \/ ReinsertHead(b)
    PROVE  GraphInv' /\ PlanOK' /\ FreshOK'
<1>0. /\ b \in Txns /\ b \notin Resolvers
      /\ TypeOK /\ TypeInv /\ GraphInv /\ RowsOK /\ PlanOK /\ FreshOK
  BY ChainParts, TxnsAssumption DEF Txns, ChainInv
<1>1. CASE BeginRebuild(b)
  <2>1. /\ status[b] = "idle" /\ rows' = rows
        /\ status' = [status EXCEPT ![b] = "active"] /\ pc'[b] = "delete"
        /\ \A s \in Txns : s # b =>
              pc'[s] = pc[s] /\ todo'[s] = todo[s] /\ at'[s] = at[s] /\ row'[s] = row[s]
    BY <1>0, <1>1 DEF BeginRebuild, TypeOK
  <2> QED
    BY <1>0, <2>1, GraphBegin, PlanBegin
<1>2. CASE DeleteHead(b) \/ SelectHeads(b) \/ ReinsertHead(b)
  <2>1. /\ rows' = rows /\ status' = status /\ pc'[b] # "insert"
        /\ UNCHANGED <<at, row>>
        /\ \A s \in Txns : s # b => pc'[s] = pc[s] /\ todo'[s] = todo[s]
    BY <1>0, <1>2 DEF DeleteHead, SelectHeads, ReinsertHead, TypeOK
  <2> QED
    BY <1>0, <2>1, GraphQuiet, LocalStep
<1> QED
  BY <1>1, <1>2

LEMMA ChainStep == ChainInv /\ [Next]_vars => ChainInv'
<1> SUFFICES ASSUME ChainInv, [Next]_vars
             PROVE  GraphInv' /\ PlanOK' /\ FreshOK'
  BY ChainParts, TypeStep DEF ChainInv, TypeInv, GraphInv
<1>1. ASSUME NEW r \in Resolvers, BeginRun(r) \/ ResolverStep(r)
      PROVE  GraphInv' /\ PlanOK' /\ FreshOK'
  BY <1>1, ChainResolver, ChainInsert, ChainUpsert, ChainEnd
     DEF ResolverStep, Txns, Commit, IsDone
<1>2. ASSUME NEW h \in Reviewers, View(h) \/ PostDecision(h) \/ ReviewerStep(h)
      PROVE  GraphInv' /\ PlanOK' /\ FreshOK'
  BY <1>2, ChainReviewer, ChainInsert, ChainUpsert, ChainEnd
     DEF ReviewerStep, RefuseReviewer, Txns, Commit, IsDone
<1>3. ASSUME NEW b \in Rebuilders, BeginRebuild(b) \/ RebuilderStep(b)
      PROVE  GraphInv' /\ PlanOK' /\ FreshOK'
  BY <1>3, ChainRebuilder, ChainEnd
     DEF RebuilderStep, RefuseRebuild, Txns, Commit, IsDone
<1>4. ASSUME NEW t \in Txns, Crash(t) \/ DeadlockVictim(t)
      PROVE  GraphInv' /\ PlanOK' /\ FreshOK'
  BY <1>4, ChainEnd DEF Crash, DeadlockVictim
<1>5. CASE UNCHANGED vars
  <2>1. GraphInv'
    BY <1>5, ChainParts, GraphQuiet DEF vars
  <2>2. PlanOK' /\ FreshOK'
    BY <1>5 DEF vars, ChainInv, PlanOK, FreshOK, Visible
  <2> QED
    BY <2>1, <2>2
<1> QED
  BY <1>1, <1>2, <1>3, <1>4, <1>5 DEF Next

LEMMA ChainInit == Init => ChainInv
<1> SUFFICES ASSUME Init PROVE ChainInv
  OBVIOUS
<1>1. TypeOK
  BY DEF Init, TypeOK, Stages, HeadRow, Companies
<1>2. LocalOK
  BY TxnsAssumption DEF Init, LocalOK, Txns
<1>3. RowsOK /\ PlanOK /\ FreshOK /\ PendingOK
  BY DEF Init, RowsOK, PlanOK, FreshOK, PendingOK, Txns
<1>4. Rooted /\ OneHead
  BY DEF Init, Rooted, OneHead, HasRoot, HasOneHead, Committed, Visible
<1> QED
  BY <1>1, <1>2, <1>3, <1>4 DEF ChainInv

\* However many runs, reviewers and rebuilds interleave, crash or lose races,
\* the decisions about a provider entity have one head: current_head() needs
\* no ordering, and a chain neither forks nor splits.
THEOREM ChainHasOneHead == Spec => []OneHead
<1>1. Spec => []ChainInv
  BY ChainInit, ChainStep, PTL DEF Spec
<1>2. ChainInv => OneHead
  BY DEF ChainInv
<1> QED
  BY <1>1, <1>2, PTL

-----------------------------------------------------------------------------
(* Settled decisions are reopened by people only.                           *)

LEMMA OverrideInsert ==
    ASSUME ChainInv, OverrideInv, NEW t \in Txns, InsertDecision(t)
    PROVE  OverrideInv'
<1> DEFINE n == row[t]
<1>1. /\ status[t] = "active" /\ pc[t] = "insert" /\ rows' = rows \cup {n}
      /\ UNCHANGED <<status, row>>
      /\ \A s \in Txns : pc'[s] = "insert" => s # t /\ pc[s] = "insert"
  BY DEF InsertDecision, ChainInv, TypeOK
<1>2. /\ Writer(n) = t /\ n.id # None
      /\ \A d \in rows : d.id # n.id
      /\ n.supersedes # None => \E o \in rows : o.id = n.supersedes
  BY <1>1, NoneAssumption DEF ChainInv, PlanOK, LocalOK, Decision, Visible
<1>3. \A d \in rows : d.supersedes # n.id
  BY <1>2 DEF ChainInv, RowsOK, Visible
<1>4. \A s \in Txns : status[s] = "active" /\ pc[s] = "insert" => row[s].supersedes # n.id
  BY <1>2 DEF ChainInv, PlanOK, Visible
<1>5. \A d, o \in rows' :
        Writer(d) \in Resolvers /\ d.supersedes = o.id => ~IsSettled(o)
  BY <1>1, <1>2, <1>3 DEF OverrideInv
<1>6. \A r \in Resolvers, o \in rows' :
        status'[r] = "active" /\ pc'[r] = "insert" /\ row'[r].supersedes = o.id
          => ~IsSettled(o)
  BY <1>1, <1>4 DEF OverrideInv, Txns
<1> QED
  BY <1>5, <1>6 DEF OverrideInv

LEMMA OverrideResolve ==
    ASSUME ChainInv, OverrideInv, NEW r \in Resolvers, Resolve(r)
    PROVE  OverrideInv'
<1>0. r \in Txns
  BY DEF Txns
<1>1. UNCHANGED <<rows, status>>
  BY DEF Resolve
<1>2. PICK v \in todo[r] :
        \E h \in HeadsSeenBy(r, EntityOf[v]) :
           \/ KeepHead(r, h)
           \/ /\ ~IsSettled(h)
              /\ \E c \in Conclusions(r, v) : Conclude(r, v, h, c[1], c[2])
  BY DEF Resolve
<1>3. PICK h \in HeadsSeenBy(r, EntityOf[v]) :
        \/ KeepHead(r, h)
        \/ /\ ~IsSettled(h)
           /\ \E c \in Conclusions(r, v) : Conclude(r, v, h, c[1], c[2])
  BY <1>2
<1>4. \A s \in Txns : s # r => pc'[s] = pc[s] /\ row'[s] = row[s]
  BY <1>3 DEF ChainInv, TypeOK, KeepHead, Conclude
<1>5. pc'[r] = "insert" => \A o \in rows : row'[r].supersedes = o.id => ~IsSettled(o)
  <2>1. CASE KeepHead(r, h)
    BY <1>0, <2>1 DEF KeepHead, ChainInv, TypeOK
  <2>2. CASE ~IsSettled(h) /\ \E c \in Conclusions(r, v) : Conclude(r, v, h, c[1], c[2])
    <3>1. row'[r].supersedes = IF h = None THEN None ELSE h.id
      BY <1>0, <2>2 DEF Conclude, ChainInv, TypeOK
    <3>2. h = None \/ h \in rows
      BY DEF HeadsSeenBy, HeadsIn, Visible
    <3>3. \A o \in rows : o.id # None /\ (h \in rows /\ o.id = h.id => o = h)
      BY WriterType DEF ChainInv, RowsOK
    <3> QED
      BY <2>2, <3>1, <3>2, <3>3
  <2> QED
    BY <1>3, <2>1, <2>2
<1> QED
  BY <1>1, <1>4, <1>5 DEF OverrideInv, Txns

LEMMA OverrideStep == ChainInv /\ OverrideInv /\ [Next]_vars => OverrideInv'
<1> SUFFICES ASSUME ChainInv, OverrideInv, [Next]_vars
             PROVE  OverrideInv'
  OBVIOUS
<1> DEFINE Kept(t) == /\ rows' \subseteq rows
                      /\ pc'[t] # "insert" \/ t \notin Resolvers
                      /\ \A s \in Txns : s # t =>
                            pc'[s] = pc[s] /\ status'[s] = status[s] /\ row'[s] = row[s]
<1>1. ASSUME NEW t \in Txns, Kept(t) PROVE OverrideInv'
  BY <1>1 DEF OverrideInv, Txns
<1>2. ASSUME NEW t \in Txns, Commit(t) \/ RollBack(t) \/ UpsertHead(t) PROVE OverrideInv'
  <2>1. Kept(t)
    BY <1>2 DEF Commit, RollBack, UpsertHead, ChainInv, TypeOK
  <2> QED
    BY <1>1, <2>1
<1>3. ASSUME NEW r \in Resolvers, BeginRun(r) \/ ResolverStep(r)
      PROVE  OverrideInv'
  <2>0. r \in Txns
    BY DEF Txns
  <2>1. CASE BeginRun(r) \/ AdoptWinner(r) \/ WriteClaims(r)
    <3>1. Kept(r)
      BY <2>0, <2>1 DEF BeginRun, AdoptWinner, WriteClaims, ChainInv, TypeOK
    <3> QED
      BY <1>1, <2>0, <3>1
  <2> QED
    BY <1>2, <1>3, <2>0, <2>1, OverrideInsert, OverrideResolve DEF ResolverStep
<1>4. ASSUME NEW h \in Reviewers, View(h) \/ PostDecision(h) \/ ReviewerStep(h)
      PROVE  OverrideInv'
  <2>0. h \in Txns /\ h \notin Resolvers
    BY TxnsAssumption DEF Txns
  <2>1. CASE View(h) \/ PostDecision(h)
    <3>1. Kept(h)
      BY <2>0, <2>1 DEF View, PostDecision, ChainInv, TypeOK
    <3> QED
      BY <1>1, <2>0, <3>1
  <2> QED
    BY <1>2, <1>4, <2>0, <2>1, OverrideInsert DEF ReviewerStep, RefuseReviewer
<1>5. ASSUME NEW b \in Rebuilders, BeginRebuild(b) \/ RebuilderStep(b)
      PROVE  OverrideInv'
  <2>0. b \in Txns /\ b \notin Resolvers
    BY TxnsAssumption DEF Txns
  <2>1. CASE BeginRebuild(b) \/ DeleteHead(b) \/ SelectHeads(b) \/ ReinsertHead(b)
    <3>1. Kept(b)
      BY <2>0, <2>1 DEF BeginRebuild, DeleteHead, SelectHeads, ReinsertHead, ChainInv, TypeOK
    <3> QED
      BY <1>1, <2>0, <3>1
  <2> QED
    BY <1>2, <1>5, <2>0, <2>1 DEF RebuilderStep, RefuseRebuild
<1>6. ASSUME NEW t \in Txns, Crash(t) \/ DeadlockVictim(t)
      PROVE  OverrideInv'
  BY <1>2, <1>6 DEF Crash, DeadlockVictim
<1>7. CASE UNCHANGED vars
  BY <1>7 DEF vars, OverrideInv
<1> QED
  BY <1>3, <1>4, <1>5, <1>6, <1>7 DEF Next

\* A decision a resolver commits never supersedes one that settles the entity,
\* whoever wrote that one and however late it was committed.
THEOREM ResolversNeverOverride == Spec => []MachineNeverOverrides
<1>1. Init => OverrideInv
  BY DEF Init, OverrideInv, Txns
<1>2. Spec => []ChainInv
  BY ChainInit, ChainStep, PTL DEF Spec
<1>3. ChainInv /\ OverrideInv => MachineNeverOverrides
  BY NoneAssumption DEF ChainInv, TypeOK, OverrideInv, IsSettled, MachineNeverOverrides,
                        Committed
<1> QED
  BY <1>1, <1>2, <1>3, OverrideStep, PTL DEF Spec

-----------------------------------------------------------------------------
(* Companies minted on the way.                                             *)

\* A minted company is its resolver's.
LEMMA MintedType ==
    ASSUME TypeOK, NEW c \in companies \ KnownCompanies
    PROVE  c \in Resolvers \X Versions /\ c[1] \in Resolvers /\ c[1] \in Txns
           /\ c = <<c[1], c[2]>>
  BY DEF TypeOK, Companies, MintedCompanies, Txns

\* Steps of a transaction that keep its companies and rows, and do not have it
\* leave an insert undone.
LEMMA MintedKept ==
    ASSUME TypeOK, MintedInv, NEW t \in Txns,
           companies' \subseteq companies, rows \subseteq rows',
           status[t] # "active" \/ pc[t] # "insert" \/ t \notin Resolvers,
           \A s \in Txns : s # t => /\ status'[s] = status[s] /\ pc'[s] = pc[s]
                                    /\ row'[s] = row[s] /\ at'[s] = at[s]
    PROVE  MintedInv'
<1> SUFFICES ASSUME NEW c \in companies' \ KnownCompanies
             PROVE  \/ \E d \in rows' : d.company = c /\ Writer(d) = c[1]
                    \/ /\ status'[c[1]] = "active" /\ pc'[c[1]] = "insert"
                       /\ row'[c[1]].company = c /\ c[2] = at'[c[1]]
  BY DEF MintedInv, Writer
<1>1. c \in companies \ KnownCompanies /\ c[1] \in Resolvers /\ c[1] \in Txns
  BY MintedType
<1>2. CASE c[1] = t
  BY <1>1, <1>2 DEF MintedInv
<1>3. CASE c[1] # t
  BY <1>1, <1>3 DEF MintedInv
<1> QED
  BY <1>2, <1>3

LEMMA MintedRollBack ==
    ASSUME TypeOK, MintedInv, NEW t \in Txns, RollBack(t)
    PROVE  MintedInv'
<1> SUFFICES ASSUME NEW c \in companies' \ KnownCompanies
             PROVE  \/ \E d \in rows' : d.company = c /\ Writer(d) = c[1]
                    \/ /\ status'[c[1]] = "active" /\ pc'[c[1]] = "insert"
                       /\ row'[c[1]].company = c /\ c[2] = at'[c[1]]
  BY DEF MintedInv, Writer
<1>1. c \in companies \ KnownCompanies /\ ~(c \in MintedCompanies /\ c[1] = t)
  BY DEF RollBack
<1>2. c[1] \in Txns /\ c[1] # t
  BY <1>1, MintedType DEF MintedCompanies
<1>3. /\ status'[c[1]] = status[c[1]] /\ pc'[c[1]] = pc[c[1]]
      /\ row'[c[1]] = row[c[1]] /\ at'[c[1]] = at[c[1]]
  BY <1>2 DEF RollBack, TypeOK
<1>4. \A d \in rows : Writer(d) = c[1] => d \in rows'
  BY <1>2 DEF RollBack
<1> QED
  BY <1>1, <1>3, <1>4 DEF MintedInv

LEMMA MintedInsert ==
    ASSUME ChainInv, MintedInv, NEW t \in Txns, InsertDecision(t)
    PROVE  MintedInv'
<1> SUFFICES ASSUME NEW c \in companies \ KnownCompanies
             PROVE  \/ \E d \in rows' : d.company = c /\ Writer(d) = c[1]
                    \/ /\ status[c[1]] = "active" /\ pc'[c[1]] = "insert"
                       /\ row[c[1]].company = c /\ c[2] = at[c[1]]
  BY DEF MintedInv, Writer, InsertDecision
<1>1. Writer(row[t]) = t /\ row[t] \in rows' /\ rows \subseteq rows'
  BY DEF ChainInv, PlanOK, InsertDecision
<1>2. c[1] \in Txns
  BY MintedType DEF ChainInv
<1>3. c[1] # t => pc'[c[1]] = pc[c[1]]
  BY <1>2 DEF InsertDecision, ChainInv, TypeOK
<1> QED
  BY <1>1, <1>3 DEF MintedInv

\* The only company Resolve adds is the one of the row it plans.
LEMMA MintedResolve ==
    ASSUME TypeOK, MintedInv, NEW r \in Resolvers, Resolve(r)
    PROVE  MintedInv'
<1>0. r \in Txns /\ pc[r] = "scan" /\ status' = status /\ rows' = rows
  BY DEF Txns, Resolve
<1>a. PICK v \in todo[r] :
         /\ at' = [at EXCEPT ![r] = v]
         /\ \E h \in HeadsSeenBy(r, EntityOf[v]) :
               \/ KeepHead(r, h)
               \/ \E c \in Conclusions(r, v) : Conclude(r, v, h, c[1], c[2])
  BY DEF Resolve
<1>1. PICK h \in HeadsSeenBy(r, EntityOf[v]) :
         \/ KeepHead(r, h)
         \/ \E c \in Conclusions(r, v) : Conclude(r, v, h, c[1], c[2])
  BY <1>a
<1>2. \A s \in Txns : s # r => /\ status'[s] = status[s] /\ pc'[s] = pc[s]
                               /\ row'[s] = row[s] /\ at'[s] = at[s]
  BY <1>0, <1>a, <1>1 DEF KeepHead, Conclude, TypeOK
<1>3. CASE companies' \subseteq companies
  BY <1>0, <1>2, <1>3, MintedKept
<1>4. CASE ~(companies' \subseteq companies)
  <2>1. PICK c \in Conclusions(r, v) :
          Conclude(r, v, h, c[1], c[2]) /\ c[1] = "CREATED_NEW"
    BY <1>1, <1>4 DEF KeepHead, Conclude
  <2>2. c[2] = <<r, v>>
    BY <2>1 DEF Conclusions
  <2>3. /\ companies' = companies \cup {<<r, v>>} /\ pc'[r] = "insert"
        /\ row'[r].company = <<r, v>> /\ at'[r] = v
    BY <1>0, <1>a, <2>1, <2>2 DEF Conclude, TypeOK
  <2> SUFFICES ASSUME NEW m \in companies' \ KnownCompanies
               PROVE  \/ \E d \in rows : d.company = m /\ Writer(d) = m[1]
                      \/ /\ status[m[1]] = "active" /\ pc'[m[1]] = "insert"
                         /\ row'[m[1]].company = m /\ m[2] = at'[m[1]]
    BY <1>0 DEF MintedInv, Writer
  <2>4. CASE m = <<r, v>>
    BY <2>3, <2>4 DEF Resolve
  <2>5. CASE m # <<r, v>>
    <3>1. m \in companies \ KnownCompanies
      BY <2>3, <2>5
    <3>2. m[1] \in Txns
      BY <3>1, MintedType
    <3> QED
      BY <1>0, <1>2, <3>1, <3>2 DEF MintedInv
  <2> QED
    BY <2>4, <2>5
<1> QED
  BY <1>3, <1>4

\* A resolver that lost deletes the only company without a decision it can have.
LEMMA MintedAdopt ==
    ASSUME TypeOK, MintedInv, NEW r \in Resolvers, AdoptWinner(r)
    PROVE  MintedInv'
<1>0. r \in Txns
  BY DEF Txns
<1>1. companies' = companies \ {<<r, at[r]>>} /\ rows' = rows /\ status' = status /\ at' = at
  BY DEF AdoptWinner, WithoutMinted
<1>2. \A s \in Txns : s # r => pc'[s] = pc[s] /\ row'[s] = row[s]
  BY <1>0 DEF AdoptWinner, TypeOK
<1> SUFFICES ASSUME NEW c \in companies' \ KnownCompanies
             PROVE  \/ \E d \in rows : d.company = c /\ Writer(d) = c[1]
                    \/ /\ status[c[1]] = "active" /\ pc'[c[1]] = "insert"
                       /\ row'[c[1]].company = c /\ c[2] = at[c[1]]
  BY <1>1 DEF MintedInv, Writer
<1>3. c \in companies \ KnownCompanies /\ c # <<r, at[r]>>
  BY <1>1
<1>4. c[1] \in Txns /\ c = <<c[1], c[2]>>
  BY <1>3, MintedType
<1> QED
  BY <1>2, <1>3, <1>4 DEF MintedInv

LEMMA MintedStep == ChainInv /\ MintedInv /\ [Next]_vars => MintedInv'
<1> SUFFICES ASSUME ChainInv, MintedInv, [Next]_vars
             PROVE  MintedInv'
  OBVIOUS
<1>0. TypeOK
  BY DEF ChainInv
<1>1. ASSUME NEW t \in Txns, UpsertHead(t) \/ Commit(t) PROVE MintedInv'
  BY <1>0, <1>1, MintedKept DEF UpsertHead, Commit, IsDone, TypeOK
<1>2. ASSUME NEW r \in Resolvers, BeginRun(r) \/ ResolverStep(r)
      PROVE  MintedInv'
  <2>0. r \in Txns
    BY DEF Txns
  <2>1. CASE BeginRun(r)
    BY <1>0, <2>0, <2>1, MintedKept DEF BeginRun, TypeOK
  <2>2. CASE WriteClaims(r)
    BY <1>0, <2>0, <2>2, MintedKept DEF WriteClaims, TypeOK
  <2> QED
    BY <1>0, <1>1, <1>2, <2>0, <2>1, <2>2, MintedInsert, MintedResolve, MintedAdopt
       DEF ResolverStep
<1>3. ASSUME NEW h \in Reviewers, View(h) \/ PostDecision(h) \/ ReviewerStep(h)
      PROVE  MintedInv'
  <2>0. h \in Txns /\ h \notin Resolvers
    BY TxnsAssumption DEF Txns
  <2>1. CASE View(h) \/ PostDecision(h)
    BY <1>0, <2>0, <2>1, MintedKept DEF View, PostDecision, TypeOK
  <2> QED
    BY <1>0, <1>1, <1>3, <2>0, <2>1, MintedInsert, MintedRollBack
       DEF ReviewerStep, RefuseReviewer
<1>4. ASSUME NEW b \in Rebuilders, BeginRebuild(b) \/ RebuilderStep(b)
      PROVE  MintedInv'
  <2>0. b \in Txns /\ b \notin Resolvers
    BY TxnsAssumption DEF Txns
  <2>1. CASE BeginRebuild(b) \/ DeleteHead(b) \/ SelectHeads(b) \/ ReinsertHead(b)
    BY <1>0, <2>0, <2>1, MintedKept
       DEF BeginRebuild, DeleteHead, SelectHeads, ReinsertHead, TypeOK
  <2> QED
    BY <1>0, <1>1, <1>4, <2>0, <2>1, MintedRollBack DEF RebuilderStep, RefuseRebuild
<1>5. ASSUME NEW t \in Txns, Crash(t) \/ DeadlockVictim(t)
      PROVE  MintedInv'
  BY <1>0, <1>5, MintedRollBack DEF Crash, DeadlockVictim
<1>6. CASE UNCHANGED vars
  BY <1>6 DEF vars, MintedInv, Writer
<1> QED
  BY <1>2, <1>3, <1>4, <1>5, <1>6 DEF Next

\* No company is left behind by a run that lost a race: once its resolver has
\* committed, a committed decision of that resolver names it.
THEOREM LosersLeaveNoCompany == Spec => []NoOrphanCompany
<1>1. Init => MintedInv
  BY DEF Init, MintedInv
<1>2. Spec => []ChainInv
  BY ChainInit, ChainStep, PTL DEF Spec
<1>3. ChainInv /\ MintedInv => NoOrphanCompany
  <2> SUFFICES ASSUME ChainInv, MintedInv, NEW c \in CommittedCompanies \ KnownCompanies
               PROVE  \E d \in Committed : d.company = c /\ Writer(d) = c[1]
    BY DEF NoOrphanCompany
  <2>1. c \in companies \ KnownCompanies /\ status[c[1]] = "committed"
    BY DEF CommittedCompanies
  <2> QED
    BY <2>1 DEF MintedInv, Committed
<1> QED
  BY <1>1, <1>2, <1>3, MintedStep, PTL DEF Spec

-----------------------------------------------------------------------------
(* The head cache.  CacheInv is the inductive invariant behind              *)
(* StaleOnlyByAdoption: it says what each open transaction has cached, and  *)
(* why nobody can have moved the chain of an entity under a rebuild.        *)

OwnRows(t, e) == {d \in rows : Writer(d) = t /\ d.entity = e}

\* Only open transactions have written head rows, and each row has one writer.
LocksOK ==
    \A t \in Txns, e \in Entities :
        staged[t][e] # Untouched => status[t] = "active" /\ HoldersOfHead(t, e) = {}

\* What a writer has cached, or is about to, it can see.  On an entity it has
\* decided about, that is the head.
WriterOK(t) ==
    status[t] = "active" =>
        /\ pc[t] = "upsert" => row[t] \in Visible(t) /\ (t \in Reviewers => Writer(row[t]) = t)
        /\ \A e \in Entities : staged[t][e] # Untouched =>
              \E d \in Visible(t) : /\ d.entity = e /\ d.id = staged[t][e]
                                    /\ t \in Reviewers => Writer(d) = t
        /\ \A e \in Entities : OwnRows(t, e) # {} =>
              \E m \in HeadsIn(Visible(t), e) :
                 IF pc[t] = "upsert" /\ row[t].entity = e THEN row[t] = m
                                                          ELSE staged[t][e] = m.id

\* A rebuild has selected the head of each entity whose row it deleted, and what it
\* has reinserted is that, or stands in for a head that nobody had cached.
RebuilderOK(b) ==
    status[b] = "active" =>
        /\ pc[b] \in {"delete", "reinsert"}
        /\ pc[b] = "delete" => \A e \in Entities : staged[b][e] \in {Untouched, None}
        /\ pc[b] = "reinsert" =>
              /\ copy[b] \subseteq Committed
              /\ \A e \in Entities :
                    /\ staged[b][e] = None => HeadsIn(Committed, e) = {d \in copy[b] : d.entity = e}
                    /\ staged[b][e] \notin {Untouched, None} =>
                          \/ \E d \in HeadsIn(Committed, e) : d.id = staged[b][e]
                          \/ head[e] = None /\ HeadsIn(Committed, e) # {}

CacheInv ==
    /\ LocksOK
    /\ \A d \in rows : Writer(d) \notin Rebuilders
    /\ \A t \in Resolvers \cup Reviewers : WriterOK(t)
    /\ \A b \in Rebuilders : RebuilderOK(b)

\* A step of t leaves the local state of every other transaction alone.
OthersKept(t) ==
    \A s \in Txns : s # t =>
        /\ status'[s] = status[s] /\ pc'[s] = pc[s] /\ row'[s] = row[s]
        /\ staged'[s] = staged[s] /\ copy'[s] = copy[s]

\* It changes nothing that anybody else reads either.
OthersSeeNoChange(t) ==
    /\ OthersKept(t)
    /\ Committed' = Committed /\ head' = head
    /\ \A s \in Txns : s # t => Visible(s)' = Visible(s)

LEMMA LocksKept ==
    ASSUME TypeOK, LocksOK, NEW t \in Txns, OthersKept(t),
           \A e \in Entities : staged'[t][e] # Untouched =>
              status'[t] = "active" /\ (staged[t][e] # Untouched \/ HoldersOfHead(t, e) = {})
    PROVE  LocksOK'
  BY DEF LocksOK, OthersKept, HoldersOfHead

\* The steps that leave the rows and the outcomes alone.
LEMMA QuietForOthers ==
    ASSUME TypeOK, NEW t \in Txns, rows' = rows, status' = status, head' = head,
           OthersKept(t)
    PROVE  OthersSeeNoChange(t) /\ Visible(t)' = Visible(t)
  BY DEF OthersSeeNoChange, Committed, Visible

\* One that begins had written nothing.
LEMMA BeginForOthers ==
    ASSUME ChainInv, LocksOK, NEW t \in Txns, status[t] = "idle", rows' = rows, head' = head,
           status' = [status EXCEPT ![t] = "active"], staged' = staged, OthersKept(t)
    PROVE  /\ OthersSeeNoChange(t)
           /\ \A e \in Entities : OwnRows(t, e)' = {} /\ staged'[t][e] = Untouched
<1>0. TypeOK /\ RowsOK
  BY DEF ChainInv
<1>1. \A d \in rows : Writer(d) # t /\ Writer(d) \in Txns
  BY <1>0, WriterType DEF RowsOK
<1>2. \A d \in rows : status'[Writer(d)] = status[Writer(d)]
  BY <1>0, <1>1 DEF TypeOK
<1>3. Committed' = Committed /\ \A s \in Txns : Visible(s)' = Visible(s)
  BY <1>2 DEF Committed, Visible
<1>4. \A e \in Entities : OwnRows(t, e)' = {} /\ staged'[t][e] = Untouched
  BY <1>1 DEF OwnRows, LocksOK
<1> QED
  BY <1>3, <1>4 DEF OthersSeeNoChange

LEMMA InsertForOthers ==
    ASSUME ChainInv, NEW t \in Txns, InsertDecision(t)
    PROVE  OthersSeeNoChange(t) /\ Visible(t)' = Visible(t) \cup {row[t]} /\ Writer(row[t]) = t
<1>1. Writer(row[t]) = t /\ status[t] = "active" /\ rows' = rows \cup {row[t]}
  BY DEF ChainInv, PlanOK, InsertDecision
<1>2. OthersKept(t)
  BY DEF ChainInv, TypeOK, InsertDecision, OthersKept
<1>3. status' = status /\ head' = head
  BY DEF InsertDecision
<1> QED
  BY <1>1, <1>2, <1>3 DEF OthersSeeNoChange, Committed, Visible

LEMMA RollBackForOthers ==
    ASSUME ChainInv, NEW t \in Txns, status[t] = "active", RollBack(t)
    PROVE  OthersSeeNoChange(t)
<1>0. TypeOK
  BY DEF ChainInv
<1>1. rows' = {d \in rows : Writer(d) # t} /\ head' = head
      /\ status' = [status EXCEPT ![t] = "aborted"]
  BY DEF RollBack
<1>2. \A d \in rows : Writer(d) # t => status'[Writer(d)] = status[Writer(d)]
  BY <1>0, <1>1, WriterType DEF TypeOK
<1>3. Committed' = Committed
  BY <1>1, <1>2 DEF Committed
<1>4. \A s \in Txns : s # t => Visible(s)' = Visible(s)
  BY <1>1, <1>2 DEF Visible
<1>5. OthersKept(t)
  BY <1>0 DEF TypeOK, RollBack, OthersKept
<1> QED
  BY <1>1, <1>3, <1>4, <1>5 DEF OthersSeeNoChange

\* What a commit of t adds for the others is t's own rows.
LEMMA CommitForOthers ==
    ASSUME ChainInv, NEW t \in Txns, Commit(t)
    PROVE  /\ OthersKept(t) /\ rows' = rows /\ status[t] = "active"
           /\ Committed' = Visible(t)
           /\ \A s \in Txns : Visible(s)' = Visible(t) \cup Visible(s)
           /\ \A e \in Entities : staged'[t][e] = Untouched
           /\ status'[t] = "committed"
<1>0. TypeOK
  BY DEF ChainInv
<1>1. rows' = rows /\ status[t] = "active" /\ status' = [status EXCEPT ![t] = "committed"]
  BY DEF Commit, IsDone
<1>2. OthersKept(t)
  BY <1>0 DEF TypeOK, Commit, OthersKept
<1>3. Committed' = Visible(t)
  BY <1>0, <1>1, WriterType DEF Committed, Visible, TypeOK
<1>4. \A s \in Txns : Visible(s)' = Visible(t) \cup Visible(s)
  BY <1>0, <1>1, WriterType DEF Visible, TypeOK
<1>5. status'[t] = "committed" /\ \A e \in Entities : staged'[t][e] = Untouched
  BY <1>0, <1>1 DEF TypeOK, Commit
<1> QED
  BY <1>1, <1>2, <1>3, <1>4, <1>5

\* A transaction with no decision on e sees of e what is committed.
LEMMA NoOwnRows ==
    ASSUME TypeOK, RowsOK, NEW t \in Txns, NEW e \in Entities, OwnRows(t, e) = {}
    PROVE  HeadsIn(Visible(t), e) = HeadsIn(Committed, e)
<1>1. \A d \in rows : d.entity = e => (d \in Visible(t) <=> d \in Committed)
  BY DEF OwnRows, Visible, Committed
<1> QED
  BY <1>1, HeadIsLocal DEF Visible, Committed

-----------------------------------------------------------------------------
(* The others keep their part of CacheInv.                                  *)

LEMMA WriterUnmoved ==
    ASSUME NEW s \in Txns, WriterOK(s), NEW t \in Txns, s # t, OthersSeeNoChange(t)
    PROVE  WriterOK(s)'
<1>1. /\ status'[s] = status[s] /\ pc'[s] = pc[s] /\ row'[s] = row[s]
      /\ staged'[s] = staged[s] /\ Visible(s)' = Visible(s)
  BY DEF OthersSeeNoChange, OthersKept
<1>2. \A e : OwnRows(s, e) = {d \in Visible(s) : Writer(d) = s /\ d.entity = e}
  BY DEF OwnRows, Visible
<1>3. \A e : OwnRows(s, e)' = {d \in Visible(s)' : Writer(d) = s /\ d.entity = e}
  BY DEF OwnRows, Visible
<1>4. \A e : OwnRows(s, e)' = OwnRows(s, e)
  BY <1>1, <1>2, <1>3
<1> QED
  BY <1>1, <1>4 DEF WriterOK

LEMMA RebuilderUnmoved ==
    ASSUME NEW b \in Txns, RebuilderOK(b), NEW t \in Txns, b # t, OthersSeeNoChange(t)
    PROVE  RebuilderOK(b)'
<1>1. /\ status'[b] = status[b] /\ pc'[b] = pc[b] /\ staged'[b] = staged[b]
      /\ copy'[b] = copy[b] /\ Committed' = Committed /\ head' = head
  BY DEF OthersSeeNoChange, OthersKept
<1> QED
  BY <1>1 DEF RebuilderOK

\* Two open transactions never decide about one entity, so the commit of one
\* moves no head the other has cached under a decision of its own.
LEMMA WriterUnmovedByCommit ==
    ASSUME ChainInv, NEW s \in Txns, WriterOK(s), NEW t \in Txns, s # t, Commit(t)
    PROVE  WriterOK(s)'
<1>0. TypeOK /\ RowsOK /\ PendingOK
  BY DEF ChainInv
<1>1. /\ OthersKept(t) /\ rows' = rows /\ status[t] = "active"
      /\ Visible(s)' = Visible(t) \cup Visible(s)
  BY CommitForOthers
<1>2. /\ status'[s] = status[s] /\ pc'[s] = pc[s] /\ row'[s] = row[s]
      /\ staged'[s] = staged[s]
  BY <1>1 DEF OthersKept
<1>3. \A e : OwnRows(s, e)' = OwnRows(s, e)
  BY <1>1 DEF OwnRows
<1>4. ASSUME NEW e \in Entities, status[s] = "active", OwnRows(s, e) # {}
      PROVE  HeadsIn(Visible(s)', e) = HeadsIn(Visible(s), e)
  <2>1. \A d \in rows : d.entity = e /\ Writer(d) = t => FALSE
    BY <1>0, <1>1, <1>4 DEF PendingOK, OwnRows
  <2>2. \A d \in rows : d.entity = e => (d \in Visible(s)' <=> d \in Visible(s))
    BY <1>1, <2>1 DEF Visible
  <2>3. Visible(s)' \subseteq rows /\ Visible(s) \subseteq rows
    BY <1>1 DEF Visible
  <2> QED
    BY <1>0, <2>2, <2>3, HeadIsLocal
<1>5. Visible(s) \subseteq Visible(s)'
  BY <1>1
<1> QED
  BY <1>2, <1>3, <1>4, <1>5 DEF WriterOK

LEMMA RebuilderUnmovedByCommit ==
    ASSUME ChainInv, CacheInv, NEW b \in Rebuilders, NEW t \in Txns, b # t, Commit(t)
    PROVE  RebuilderOK(b)'
<1>0. TypeOK /\ RowsOK /\ b \in Txns /\ RebuilderOK(b)
  BY DEF ChainInv, CacheInv, Txns
<1>1. /\ OthersKept(t) /\ rows' = rows /\ status[t] = "active"
      /\ Committed' = Visible(t)
  BY CommitForOthers
<1>2. /\ status'[b] = status[b] /\ pc'[b] = pc[b] /\ copy'[b] = copy[b]
      /\ staged'[b] = staged[b]
  BY <1>0, <1>1 DEF OthersKept
<1>3. Committed \subseteq Committed'
  BY <1>1 DEF Committed, Visible
<1>4. ASSUME NEW e \in Entities, staged[b][e] # Untouched
      PROVE  HeadsIn(Committed', e) = HeadsIn(Committed, e) /\ head'[e] = head[e]
  <2>1. staged[t][e] = Untouched
    BY <1>0, <1>4 DEF CacheInv, LocksOK, HoldersOfHead
  <2>2. OwnRows(t, e) = {}
    <3>1. CASE t \in Rebuilders
      BY <3>1 DEF CacheInv, OwnRows
    <3>2. CASE t \in Resolvers \cup Reviewers
      <4>1. pc[t] # "upsert"
        BY DEF Commit, IsDone
      <4>2. \A m \in HeadsIn(Visible(t), e) : staged[t][e] # m.id
        BY <1>0, <2>1, NoneAssumption DEF TypeOK, Decision, HeadsIn, Visible
      <4>3. WriterOK(t)
        BY <3>2 DEF CacheInv
      <4> QED
        BY <1>1, <4>1, <4>2, <4>3 DEF WriterOK
    <3> QED
      BY <3>1, <3>2 DEF Txns
  <2>3. HeadsIn(Committed', e) = HeadsIn(Committed, e)
    BY <1>0, <1>1, <2>2, NoOwnRows
  <2>4. head'[e] = head[e]
    BY <2>1 DEF Commit
  <2> QED
    BY <2>3, <2>4
<1>5. ASSUME status[b] = "active", pc[b] = "reinsert", NEW e \in Entities
      PROVE  /\ staged[b][e] = None => HeadsIn(Committed', e) = {d \in copy[b] : d.entity = e}
             /\ staged[b][e] \notin {Untouched, None} =>
                   \/ \E d \in HeadsIn(Committed', e) : d.id = staged[b][e]
                   \/ head'[e] = None /\ HeadsIn(Committed', e) # {}
  BY <1>0, <1>4, <1>5, NoneAssumption DEF RebuilderOK
<1>6. status[b] = "active" /\ pc[b] = "reinsert" => copy[b] \subseteq Committed'
  BY <1>0, <1>3 DEF RebuilderOK
<1>7. status[b] = "active" =>
         /\ pc[b] \in {"delete", "reinsert"}
         /\ pc[b] = "delete" => \A e \in Entities : staged[b][e] \in {Untouched, None}
  BY <1>0 DEF RebuilderOK
<1> QED
  BY <1>2, <1>5, <1>6, <1>7 DEF RebuilderOK

\* What a step leaves to be shown when it commits nothing: the lock discipline
\* and the part of CacheInv about the transaction that takes it.
LEMMA CacheByStep ==
    ASSUME ChainInv, CacheInv, NEW t \in Txns, OthersSeeNoChange(t),
           \A d \in rows' : d \in rows \/ Writer(d) \notin Rebuilders,
           \A e \in Entities : staged'[t][e] # Untouched =>
              status'[t] = "active" /\ (staged[t][e] # Untouched \/ HoldersOfHead(t, e) = {}),
           t \in Resolvers \cup Reviewers => WriterOK(t)',
           t \in Rebuilders => RebuilderOK(t)'
    PROVE  CacheInv'
<1>1. LocksOK'
  BY LocksKept DEF ChainInv, CacheInv, OthersSeeNoChange
<1>2. \A d \in rows' : Writer(d) \notin Rebuilders
  BY DEF CacheInv
<1>3. \A s \in Resolvers \cup Reviewers : WriterOK(s)'
  BY WriterUnmoved DEF CacheInv, Txns
<1>4. \A b \in Rebuilders : RebuilderOK(b)'
  BY RebuilderUnmoved DEF CacheInv, Txns
<1> QED
  BY <1>1, <1>2, <1>3, <1>4 DEF CacheInv

LEMMA CacheCommit ==
    ASSUME ChainInv, CacheInv, NEW t \in Txns, Commit(t)
    PROVE  CacheInv'
<1>1. /\ OthersKept(t) /\ rows' = rows
      /\ \A e \in Entities : staged'[t][e] = Untouched
      /\ status'[t] = "committed"
  BY CommitForOthers
<1>2. LocksOK'
  BY <1>1, LocksKept DEF ChainInv, CacheInv
<1>3. WriterOK(t)' /\ RebuilderOK(t)'
  BY <1>1 DEF WriterOK, RebuilderOK
<1>4. \A s \in Resolvers \cup Reviewers : WriterOK(s)'
  BY <1>3, WriterUnmovedByCommit DEF CacheInv, Txns
<1>5. \A b \in Rebuilders : RebuilderOK(b)'
  BY <1>3, RebuilderUnmovedByCommit
<1> QED
  BY <1>1, <1>2, <1>4, <1>5 DEF CacheInv

LEMMA CacheRollBack ==
    ASSUME ChainInv, CacheInv, NEW t \in Txns, status[t] = "active", RollBack(t)
    PROVE  CacheInv'
<1>1. OthersSeeNoChange(t)
  BY RollBackForOthers
<1>2. /\ rows' \subseteq rows /\ status'[t] = "aborted"
      /\ \A e \in Entities : staged'[t][e] = Untouched
  BY DEF RollBack, ChainInv, TypeOK
<1>3. WriterOK(t)' /\ RebuilderOK(t)'
  BY <1>2 DEF WriterOK, RebuilderOK
<1> QED
  BY <1>1, <1>2, <1>3, CacheByStep

-----------------------------------------------------------------------------
(* A writer keeps its own part.                                             *)

\* The head of an entity the writer has decided about is what it sees there.
LEMMA CacheInsert ==
    ASSUME ChainInv, CacheInv, NEW t \in Resolvers \cup Reviewers, InsertDecision(t)
    PROVE  CacheInv'
<1> DEFINE n == row[t]
<1>0. TypeOK /\ RowsOK /\ PlanOK /\ t \in Txns /\ t \notin Rebuilders
  BY TxnsAssumption DEF ChainInv, Txns
<1>1. /\ status[t] = "active" /\ pc[t] = "insert" /\ rows' = rows \cup {n}
      /\ UNCHANGED <<status, row, staged>>
      /\ pc'[t] = "upsert"
  BY <1>0 DEF InsertDecision, TypeOK
<1>2. /\ Writer(n) = t
      /\ \A d \in rows : d.id # n.id
      /\ n.supersedes # None =>
            \E o \in Visible(t) : o.id = n.supersedes /\ o.entity = n.entity
      /\ n.id # None
  BY <1>0, <1>1, NoneAssumption DEF PlanOK, ChainInv, LocalOK, Decision
<1>3. OthersSeeNoChange(t) /\ Visible(t)' = Visible(t) \cup {n}
  BY <1>0, InsertForOthers
<1>4. (\A s \in rows : s.supersedes # n.id) /\ n.supersedes # n.id
  BY <1>0, <1>2 DEF RowsOK, Visible
<1>5. n \in HeadsIn(Visible(t)', n.entity)
  BY <1>3, <1>4 DEF HeadsIn, Visible
<1>6. WriterOK(t)
  BY DEF CacheInv
<1>7. ASSUME NEW e \in Entities, OwnRows(t, e)' # {}
      PROVE  \E m \in HeadsIn(Visible(t)', e) :
                IF row[t].entity = e THEN row[t] = m ELSE staged[t][e] = m.id
  <2>1. CASE n.entity = e
    BY <1>5, <2>1
  <2>2. CASE n.entity # e
    <3>1. OwnRows(t, e) # {}
      BY <1>1, <1>7, <2>2 DEF OwnRows
    <3>2. PICK m \in HeadsIn(Visible(t), e) : staged[t][e] = m.id
      BY <1>1, <1>6, <3>1 DEF WriterOK
    <3>3. n.supersedes # m.id
      BY <1>0, <1>2, <2>2, <3>2, WriterType DEF RowsOK, HeadsIn, Visible
    <3>4. m \in HeadsIn(Visible(t)', e)
      BY <1>3, <3>2, <3>3 DEF HeadsIn
    <3> QED
      BY <2>2, <3>2, <3>4
  <2> QED
    BY <2>1, <2>2
<1>8. ASSUME NEW e \in Entities, staged[t][e] # Untouched
      PROVE  \E d \in Visible(t)' : /\ d.entity = e /\ d.id = staged[t][e]
                                    /\ t \in Reviewers => Writer(d) = t
  BY <1>1, <1>3, <1>6, <1>8 DEF WriterOK
<1>9. WriterOK(t)'
  BY <1>1, <1>2, <1>3, <1>7, <1>8 DEF WriterOK
<1>10. \A e \in Entities : staged'[t][e] # Untouched => status'[t] = "active" /\ staged[t][e] # Untouched
  BY <1>1
<1> QED
  BY <1>0, <1>1, <1>2, <1>3, <1>9, <1>10, CacheByStep

LEMMA CacheUpsert ==
    ASSUME ChainInv, CacheInv, NEW t \in Resolvers \cup Reviewers, UpsertHead(t)
    PROVE  CacheInv'
<1>0. TypeOK /\ t \in Txns /\ t \notin Rebuilders
  BY TxnsAssumption DEF ChainInv, Txns
<1>1. /\ status[t] = "active" /\ pc[t] = "upsert" /\ UNCHANGED <<rows, status, row, head>>
      /\ row[t] \in Decision /\ row[t].entity \in Entities
      /\ HoldersOfHead(t, row[t].entity) = {}
      /\ pc'[t] \in {"claim", "done"}
  BY <1>0 DEF UpsertHead, ChainInv, LocalOK, TypeOK, Decision
<1>2. /\ staged'[t][row[t].entity] = row[t].id
      /\ \A e \in Entities : e # row[t].entity => staged'[t][e] = staged[t][e]
  BY <1>0, <1>1 DEF UpsertHead, NewHeadRow, TypeOK
<1>3. OthersKept(t)
  BY <1>0 DEF UpsertHead, OthersKept, TypeOK
<1>4. OthersSeeNoChange(t) /\ Visible(t)' = Visible(t)
  BY <1>0, <1>1, <1>3, QuietForOthers
<1>5. WriterOK(t)
  BY DEF CacheInv
<1>6. \A e : OwnRows(t, e)' = OwnRows(t, e)
  BY <1>1 DEF OwnRows
<1>7. ASSUME NEW e \in Entities, staged'[t][e] # Untouched
      PROVE  \E d \in Visible(t) : /\ d.entity = e /\ d.id = staged'[t][e]
                                   /\ t \in Reviewers => Writer(d) = t
  BY <1>1, <1>2, <1>5, <1>7 DEF WriterOK
<1>8. ASSUME NEW e \in Entities, OwnRows(t, e) # {}
      PROVE  \E m \in HeadsIn(Visible(t), e) : staged'[t][e] = m.id
  BY <1>1, <1>2, <1>5, <1>8 DEF WriterOK
<1>9. WriterOK(t)'
  BY <1>1, <1>4, <1>6, <1>7, <1>8 DEF WriterOK
<1>10. \A e \in Entities : staged'[t][e] # Untouched =>
          status'[t] = "active" /\ (staged[t][e] # Untouched \/ HoldersOfHead(t, e) = {})
  BY <1>1, <1>2
<1> QED
  BY <1>0, <1>1, <1>4, <1>9, <1>10, CacheByStep

\* The other steps of a writer write no head row.  They keep its part when it
\* begins, when it keeps the row at hand, and when it adopts a head it has read.
LEMMA CacheWriterLocal ==
    ASSUME ChainInv, CacheInv, NEW t \in Resolvers \cup Reviewers, OthersKept(t),
           rows' = rows, status' = status, head' = head, staged' = staged,
           pc[t] # "upsert",
           pc'[t] = "upsert" =>
              t \in Resolvers /\ row'[t] \in HeadsIn(Visible(t), row'[t].entity)
    PROVE  CacheInv'
<1>0. t \in Txns /\ t \notin Rebuilders /\ t \notin Resolvers \cap Reviewers /\ TypeOK
  BY TxnsAssumption DEF Txns, ChainInv
<1>1. OthersSeeNoChange(t) /\ Visible(t)' = Visible(t)
  BY <1>0, QuietForOthers
<1>2. WriterOK(t)
  BY DEF CacheInv
<1>3. \A e : OwnRows(t, e)' = OwnRows(t, e)
  BY DEF OwnRows
<1>4. ASSUME NEW e \in Entities, status[t] = "active", OwnRows(t, e) # {}
      PROVE  \E m \in HeadsIn(Visible(t), e) :
                IF pc'[t] = "upsert" /\ row'[t].entity = e THEN row'[t] = m
                                                           ELSE staged[t][e] = m.id
  BY <1>2, <1>4 DEF WriterOK
<1>5. pc'[t] = "upsert" => row'[t] \in Visible(t) /\ t \notin Reviewers
  BY <1>0 DEF HeadsIn
<1>6. WriterOK(t)'
  BY <1>1, <1>2, <1>3, <1>4, <1>5 DEF WriterOK
<1>7. \A e \in Entities : staged'[t][e] # Untouched => status'[t] = "active" /\ staged[t][e] # Untouched
  BY <1>0 DEF CacheInv, LocksOK
<1> QED
  BY <1>0, <1>1, <1>6, <1>7, CacheByStep

LEMMA CacheWriterBegin ==
    ASSUME ChainInv, CacheInv, NEW t \in Resolvers \cup Reviewers, OthersKept(t),
           rows' = rows, head' = head, staged' = staged,
           status[t] = "idle", status' = [status EXCEPT ![t] = "active"],
           pc'[t] # "upsert"
    PROVE  CacheInv'
<1>0. t \in Txns /\ t \notin Rebuilders
  BY TxnsAssumption DEF Txns
<1>1. /\ OthersSeeNoChange(t)
      /\ \A e \in Entities : OwnRows(t, e)' = {} /\ staged'[t][e] = Untouched
  BY <1>0, BeginForOthers DEF CacheInv
<1>2. WriterOK(t)'
  BY <1>1 DEF WriterOK
<1> QED
  BY <1>0, <1>1, <1>2, CacheByStep

LEMMA CacheResolver ==
    ASSUME ChainInv, CacheInv, NEW r \in Resolvers,
           BeginRun(r) \/ Resolve(r) \/ AdoptWinner(r) \/ WriteClaims(r)
    PROVE  CacheInv'
<1>0. r \in Txns /\ TypeOK
  BY DEF Txns, ChainInv
<1>1. CASE BeginRun(r)
  <2>1. /\ OthersKept(r) /\ UNCHANGED <<rows, head, staged>>
        /\ status[r] = "idle" /\ status' = [status EXCEPT ![r] = "active"]
        /\ pc'[r] # "upsert"
    BY <1>0, <1>1 DEF BeginRun, OthersKept, TypeOK
  <2> QED
    BY <2>1, CacheWriterBegin
<1>2. CASE Resolve(r)
  <2>1. PICK v \in todo[r] : \E h \in HeadsSeenBy(r, EntityOf[v]) :
            \/ KeepHead(r, h)
            \/ \E c \in Conclusions(r, v) : Conclude(r, v, h, c[1], c[2])
    BY <1>2 DEF Resolve
  <2>2. PICK h \in HeadsSeenBy(r, EntityOf[v]) :
            \/ KeepHead(r, h)
            \/ \E c \in Conclusions(r, v) : Conclude(r, v, h, c[1], c[2])
    BY <2>1
  <2>3. /\ UNCHANGED <<rows, status, head, staged, copy>>
        /\ pc[r] # "upsert"
    BY <1>2 DEF Resolve
  <2>4. /\ pc'[r] # "upsert"
        /\ \A s \in Txns : s # r => pc'[s] = pc[s] /\ row'[s] = row[s]
    BY <1>0, <2>2 DEF KeepHead, Conclude, TypeOK
  <2> QED
    BY <2>3, <2>4, CacheWriterLocal DEF OthersKept
<1>3. CASE AdoptWinner(r)
  <2>1. PICK h \in HeadsSeenBy(r, row[r].entity) :
            h # None /\ row' = [row EXCEPT ![r] = h]
    BY <1>3 DEF AdoptWinner
  <2>2. h \in HeadsIn(Visible(r), row[r].entity)
    BY <2>1 DEF HeadsSeenBy
  <2>3. row'[r] \in HeadsIn(Visible(r), row'[r].entity)
    BY <1>0, <2>1, <2>2 DEF TypeOK, HeadsIn
  <2>4. /\ OthersKept(r) /\ UNCHANGED <<rows, status, head, staged>>
        /\ pc[r] # "upsert"
    BY <1>0, <1>3, <2>1 DEF AdoptWinner, OthersKept, TypeOK
  <2> QED
    BY <2>3, <2>4, CacheWriterLocal
<1>4. CASE WriteClaims(r)
  <2>1. /\ OthersKept(r) /\ UNCHANGED <<rows, status, head, staged>>
        /\ pc[r] # "upsert" /\ pc'[r] # "upsert"
    BY <1>0, <1>4 DEF WriteClaims, OthersKept, TypeOK
  <2> QED
    BY <2>1, CacheWriterLocal
<1> QED
  BY <1>1, <1>2, <1>3, <1>4

LEMMA CacheReviewer ==
    ASSUME ChainInv, CacheInv, NEW h \in Reviewers, View(h) \/ PostDecision(h)
    PROVE  CacheInv'
<1>0. h \in Txns /\ TypeOK
  BY DEF Txns, ChainInv
<1>1. CASE View(h)
  <2>1. /\ OthersKept(h) /\ UNCHANGED <<rows, status, head, staged>>
        /\ pc[h] # "upsert" /\ pc'[h] # "upsert"
    BY <1>0, <1>1 DEF View, OthersKept, TypeOK
  <2> QED
    BY <2>1, CacheWriterLocal
<1>2. CASE PostDecision(h)
  <2>1. \A s \in Txns : s # h => row'[s] = row[s]
    BY <1>2 DEF PostDecision, ChainInv, TypeOK
  <2>2. /\ UNCHANGED <<rows, head, staged, copy>>
        /\ status[h] = "idle" /\ status' = [status EXCEPT ![h] = "active"]
        /\ pc'[h] # "upsert"
        /\ \A s \in Txns : s # h => pc'[s] = pc[s] /\ status'[s] = status[s]
    BY <1>0, <1>2 DEF PostDecision, TypeOK
  <2> QED
    BY <2>1, <2>2, CacheWriterBegin DEF OthersKept
<1> QED
  BY <1>1, <1>2

-----------------------------------------------------------------------------
(* So does a rebuild.                                                       *)

\* It has no decision of its own, so it sees what is committed.
LEMMA RebuilderSees ==
    ASSUME CacheInv, NEW b \in Rebuilders
    PROVE  Visible(b) = Committed
  BY DEF CacheInv, Visible, Committed

LEMMA CacheRebuilder ==
    ASSUME ChainInv, CacheInv, NEW b \in Rebuilders,
           BeginRebuild(b) \/ DeleteHead(b) \/ SelectHeads(b) \/ ReinsertHead(b)
    PROVE  CacheInv'
<1>0. b \in Txns /\ b \notin Resolvers \cup Reviewers /\ TypeOK /\ RebuilderOK(b)
  BY TxnsAssumption DEF Txns, ChainInv, CacheInv
<1>1. CASE BeginRebuild(b)
  <2>1. /\ OthersKept(b) /\ UNCHANGED <<rows, head, staged>>
        /\ status[b] = "idle" /\ status' = [status EXCEPT ![b] = "active"]
        /\ pc'[b] = "delete"
    BY <1>0, <1>1 DEF BeginRebuild, OthersKept, TypeOK
  <2>2. OthersSeeNoChange(b) /\ \A e \in Entities : staged'[b][e] = Untouched
    BY <1>0, <2>1, BeginForOthers DEF CacheInv
  <2>3. RebuilderOK(b)'
    BY <2>1, <2>2 DEF RebuilderOK
  <2> QED
    BY <1>0, <2>1, <2>2, <2>3, CacheByStep
<1>2. CASE DeleteHead(b)
  <2>1. PICK e \in todo[b] :
            HoldersOfHead(b, e) = {} /\ staged' = [staged EXCEPT ![b][e] = None]
    BY <1>2 DEF DeleteHead
  <2>2. /\ UNCHANGED <<rows, head, status, pc, row, copy>>
        /\ status[b] = "active" /\ pc[b] = "delete"
    BY <1>2 DEF DeleteHead
  <2>3. \A s \in Txns : s # b => staged'[s] = staged[s]
    BY <2>1 DEF ChainInv, TypeOK
  <2>4. OthersSeeNoChange(b)
    BY <1>0, <2>2, <2>3, QuietForOthers DEF OthersKept
  <2>5. \A k \in Entities : staged'[b][k] = IF k = e THEN None ELSE staged[b][k]
    BY <1>0, <2>1 DEF TypeOK
  <2>6. RebuilderOK(b)'
    BY <1>0, <2>2, <2>5 DEF RebuilderOK
  <2>7. \A k \in Entities : staged'[b][k] # Untouched =>
           status'[b] = "active" /\ (staged[b][k] # Untouched \/ HoldersOfHead(b, k) = {})
    BY <2>1, <2>2, <2>5
  <2> QED
    BY <1>0, <2>2, <2>4, <2>6, <2>7, CacheByStep
<1>3. CASE SelectHeads(b)
  <2>1. /\ UNCHANGED <<rows, head, status, row, staged>>
        /\ status[b] = "active" /\ pc[b] = "delete" /\ pc'[b] = "reinsert"
        /\ copy'[b] = UNION {HeadsIn(Committed, e) : e \in Entities}
        /\ OthersKept(b)
    BY <1>0, <1>3, RebuilderSees DEF SelectHeads, TypeOK, OthersKept
  <2>2. OthersSeeNoChange(b)
    BY <1>0, <2>1, QuietForOthers
  <2>3. Committed' = Committed
    BY <2>2 DEF OthersSeeNoChange
  <2>4. copy'[b] \subseteq Committed
    BY <2>1 DEF HeadsIn
  <2>5. \A e \in Entities : HeadsIn(Committed, e) = {d \in copy'[b] : d.entity = e}
    BY <2>1 DEF HeadsIn
  <2>6. \A e \in Entities : staged[b][e] \in {Untouched, None}
    BY <1>0, <2>1 DEF RebuilderOK
  <2>7. RebuilderOK(b)'
    BY <2>1, <2>3, <2>4, <2>5, <2>6 DEF RebuilderOK
  <2>8. \A e \in Entities : staged'[b][e] # Untouched => status'[b] = "active" /\ staged[b][e] # Untouched
    BY <2>1
  <2> QED
    BY <1>0, <2>1, <2>2, <2>7, <2>8, CacheByStep
<1>4. CASE ReinsertHead(b)
  <2>1. PICK d \in copy[b] :
            /\ HoldersOfHead(b, d.entity) = {}
            /\ KeyIsFree(b, d.entity)
            /\ staged' = [staged EXCEPT ![b][d.entity] = d.id]
            /\ copy' = [copy EXCEPT ![b] = @ \ {d}]
    BY <1>4 DEF ReinsertHead
  <2>2. /\ UNCHANGED <<rows, head, status, pc, row>>
        /\ status[b] = "active" /\ pc[b] = "reinsert"
    BY <1>4 DEF ReinsertHead
  <2>3. OthersKept(b) /\ copy'[b] = copy[b] \ {d}
    BY <1>0, <2>1, <2>2 DEF TypeOK, OthersKept
  <2>4. OthersSeeNoChange(b) /\ Committed' = Committed
    BY <1>0, <2>2, <2>3, QuietForOthers DEF OthersSeeNoChange
  <2>5. /\ copy[b] \subseteq Committed /\ d \in Committed
        /\ \A e \in Entities :
              /\ staged[b][e] = None => HeadsIn(Committed, e) = {x \in copy[b] : x.entity = e}
              /\ staged[b][e] \notin {Untouched, None} =>
                    \/ \E x \in HeadsIn(Committed, e) : x.id = staged[b][e]
                    \/ head[e] = None /\ HeadsIn(Committed, e) # {}
    BY <1>0, <2>2 DEF RebuilderOK
  <2>6. d.entity \in Entities /\ d.id \notin {Untouched, None}
    BY <1>0, <2>5, NoneAssumption DEF TypeOK, Decision, Committed
  <2>7. \A e \in Entities : staged'[b][e] = IF e = d.entity THEN d.id ELSE staged[b][e]
    BY <1>0, <2>1 DEF TypeOK
  <2>8. \/ d \in HeadsIn(Committed, d.entity)
        \/ head[d.entity] = None /\ HeadsIn(Committed, d.entity) # {}
    <3>1. CASE staged[b][d.entity] = None
      BY <2>5, <2>6, <3>1
    <3>2. CASE head[d.entity] = None
      BY <2>5, <2>6, <3>2 DEF ChainInv, OneHead, HasOneHead
    <3> QED
      BY <2>1, <3>1, <3>2 DEF KeyIsFree
  <2>9. ASSUME NEW e \in Entities
        PROVE  /\ staged'[b][e] = None => HeadsIn(Committed, e) = {x \in copy'[b] : x.entity = e}
               /\ staged'[b][e] \notin {Untouched, None} =>
                     \/ \E x \in HeadsIn(Committed, e) : x.id = staged'[b][e]
                     \/ head[e] = None /\ HeadsIn(Committed, e) # {}
    <3>1. CASE e = d.entity
      BY <2>6, <2>7, <2>8, <3>1
    <3>2. CASE e # d.entity
      BY <2>3, <2>5, <2>7, <3>2
    <3> QED
      BY <3>1, <3>2
  <2>10. RebuilderOK(b)'
    BY <2>2, <2>3, <2>4, <2>5, <2>9 DEF RebuilderOK
  <2>11. \A e \in Entities : staged'[b][e] # Untouched =>
            status'[b] = "active" /\ (staged[b][e] # Untouched \/ HoldersOfHead(b, e) = {})
    BY <2>1, <2>2, <2>7
  <2> QED
    BY <1>0, <2>2, <2>4, <2>10, <2>11, CacheByStep
<1> QED
  BY <1>1, <1>2, <1>3, <1>4

-----------------------------------------------------------------------------
LEMMA CacheStep == ChainInv /\ CacheInv /\ [Next]_vars => CacheInv'
<1> SUFFICES ASSUME ChainInv, CacheInv, [Next]_vars
             PROVE  CacheInv'
  OBVIOUS
<1>1. ASSUME NEW r \in Resolvers, BeginRun(r) \/ ResolverStep(r)
      PROVE  CacheInv'
  BY <1>1, CacheResolver, CacheInsert, CacheUpsert, CacheCommit DEF ResolverStep, Txns
<1>2. ASSUME NEW h \in Reviewers, View(h) \/ PostDecision(h) \/ ReviewerStep(h)
      PROVE  CacheInv'
  BY <1>2, CacheReviewer, CacheInsert, CacheUpsert, CacheCommit, CacheRollBack
     DEF ReviewerStep, RefuseReviewer, Txns
<1>3. ASSUME NEW b \in Rebuilders, BeginRebuild(b) \/ RebuilderStep(b)
      PROVE  CacheInv'
  BY <1>3, CacheRebuilder, CacheCommit, CacheRollBack DEF RebuilderStep, RefuseRebuild, Txns
<1>4. ASSUME NEW t \in Txns, Crash(t) \/ DeadlockVictim(t)
      PROVE  CacheInv'
  BY <1>4, CacheRollBack DEF Crash, DeadlockVictim
<1>5. CASE UNCHANGED vars
  BY <1>5 DEF vars, CacheInv, LocksOK, HoldersOfHead, WriterOK, RebuilderOK, OwnRows,
              Visible, Committed
<1> QED
  BY <1>1, <1>2, <1>3, <1>4, <1>5 DEF Next

LEMMA CacheInit == Init => CacheInv
  BY DEF Init, CacheInv, LocksOK, WriterOK, RebuilderOK, Txns

\* A step that commits nothing moves neither the chain that readers see nor
\* the cache.
LEMMA AgreementMovesByCommit ==
    ASSUME ChainInv, CacheInv, Next, ~\E t \in Txns : Commit(t)
    PROVE  Committed' = Committed /\ head' = head
<1>0. TypeOK /\ LocksOK
  BY DEF ChainInv, CacheInv
<1>1. ASSUME rows' = rows, status' = status
      PROVE  Committed' = Committed
  BY <1>1 DEF Committed
<1>2. ASSUME NEW t \in Txns, status[t] = "idle", rows' = rows,
             status' = [status EXCEPT ![t] = "active"]
      PROVE  Committed' = Committed
  BY <1>0, <1>2, WriterType DEF Committed, TypeOK
<1>3. ASSUME NEW t \in Txns, status[t] = "active", RollBack(t)
      PROVE  Committed' = Committed /\ head' = head
  BY <1>3, RollBackForOthers DEF OthersSeeNoChange
<1>4. ASSUME NEW t \in Txns, InsertDecision(t)
      PROVE  Committed' = Committed /\ head' = head
  BY <1>4, InsertForOthers DEF OthersSeeNoChange
<1>5. ASSUME NEW r \in Resolvers, BeginRun(r) \/ ResolverStep(r)
      PROVE  Committed' = Committed /\ head' = head
  BY <1>1, <1>2, <1>4, <1>5
     DEF ResolverStep, Txns, BeginRun, Resolve, AdoptWinner, UpsertHead, WriteClaims
<1>6. ASSUME NEW h \in Reviewers, View(h) \/ PostDecision(h) \/ ReviewerStep(h)
      PROVE  Committed' = Committed /\ head' = head
  BY <1>1, <1>2, <1>3, <1>4, <1>6
     DEF ReviewerStep, Txns, View, PostDecision, RefuseReviewer, UpsertHead
<1>7. ASSUME NEW b \in Rebuilders, BeginRebuild(b) \/ RebuilderStep(b)
      PROVE  Committed' = Committed /\ head' = head
  BY <1>1, <1>2, <1>3, <1>7
     DEF RebuilderStep, Txns, BeginRebuild, DeleteHead, SelectHeads, ReinsertHead, RefuseRebuild
<1>8. ASSUME NEW t \in Txns, Crash(t) \/ DeadlockVictim(t)
      PROVE  Committed' = Committed /\ head' = head
  BY <1>3, <1>8 DEF Crash, DeadlockVictim
<1> QED
  BY <1>5, <1>6, <1>7, <1>8 DEF Next

\* The commit of a rebuild leaves the cache in agreement wherever it was.
LEMMA RebuildKeepsAgreement ==
    ASSUME ChainInv, CacheInv, NEW b \in Rebuilders, Commit(b),
           NEW e \in Entities, CacheAgrees(e)
    PROVE  CacheAgrees(e)'
<1>0. TypeOK /\ RebuilderOK(b) /\ b \in Txns
  BY DEF ChainInv, CacheInv, Txns
<1>1. Committed' = Committed
  BY <1>0, CommitForOthers, RebuilderSees
<1>2. status[b] = "active" /\ pc[b] = "reinsert" /\ copy[b] = {}
  BY <1>0 DEF Commit, IsDone, RebuilderOK
<1>3. head'[e] = IF staged[b][e] = Untouched THEN head[e] ELSE staged[b][e]
  BY DEF Commit
<1>4. CASE staged[b][e] = Untouched
  BY <1>1, <1>3, <1>4 DEF CacheAgrees
<1>5. CASE staged[b][e] = None
  BY <1>0, <1>1, <1>2, <1>3, <1>5, NoneAssumption DEF RebuilderOK, CacheAgrees
<1>6. CASE staged[b][e] \notin {Untouched, None}
  <2>1. \A d \in HeadsIn(Committed, e) : d.id # None
    BY <1>0, WriterType DEF HeadsIn, Committed
  <2>2. \E d \in HeadsIn(Committed, e) : d.id = staged[b][e]
    BY <1>0, <1>2, <1>6, <2>1 DEF RebuilderOK, CacheAgrees
  <2> QED
    BY <1>1, <1>3, <1>6, <2>2 DEF CacheAgrees
<1> QED
  BY <1>4, <1>5, <1>6

\* That of a writer takes it away only where it cached somebody else's
\* decision, and only a resolver does that.
LEMMA WriterLosesAgreement ==
    ASSUME ChainInv, CacheInv, NEW t \in Resolvers \cup Reviewers, Commit(t),
           NEW e \in Entities, CacheAgrees(e), ~CacheAgrees(e)'
    PROVE  /\ t \in Resolvers
           /\ staged[t][e] \notin {Untouched, None, head[e]}
           /\ staged[t][e][1] # t
<1>0. TypeOK /\ RowsOK /\ WriterOK(t) /\ t \in Txns
  BY DEF ChainInv, CacheInv, Txns
<1>1. Committed' = Visible(t) /\ status[t] = "active" /\ pc[t] # "upsert"
  BY <1>0, CommitForOthers DEF Commit, IsDone
<1>2. head'[e] = IF staged[t][e] = Untouched THEN head[e] ELSE staged[t][e]
  BY DEF Commit
<1>3. \A d \in Visible(t) : d.id \notin {None, Untouched}
  BY <1>0, NoneAssumption DEF TypeOK, Decision, Visible
<1>4. OwnRows(t, e) = {}
  <2> SUFFICES ASSUME OwnRows(t, e) # {} PROVE FALSE
    OBVIOUS
  <2>1. PICK m \in HeadsIn(Visible(t), e) : staged[t][e] = m.id
    BY <1>0, <1>1 DEF WriterOK
  <2>2. head'[e] = m.id
    BY <1>2, <1>3, <2>1 DEF HeadsIn
  <2> QED
    BY <1>1, <2>1, <2>2 DEF CacheAgrees
<1>5. HeadsIn(Committed', e) = HeadsIn(Committed, e)
  BY <1>0, <1>1, <1>4, NoOwnRows
<1>6. head'[e] # head[e]
  BY <1>5 DEF CacheAgrees
<1>7. PICK d \in Visible(t) : /\ d.entity = e /\ d.id = staged[t][e]
                              /\ t \in Reviewers => Writer(d) = t
  BY <1>0, <1>1, <1>2, <1>6 DEF WriterOK
<1>8. Writer(d) # t
  BY <1>4, <1>7 DEF OwnRows, Visible
<1>9. staged[t][e][1] # t
  BY <1>7, <1>8 DEF Writer
<1>10. staged[t][e] \notin {Untouched, None, head[e]}
  BY <1>2, <1>3, <1>6, <1>7
<1> QED
  BY <1>7, <1>8, <1>9, <1>10

\* However the transactions interleave, the cache is taken away from the chain
\* by nothing but the commit of a resolver that cached the decision of another.
THEOREM CacheGoesStaleByAdoption == Spec => StaleOnlyByAdoption
<1> DEFINE A == \A e \in Entities :
                  CacheAgrees(e) /\ ~CacheAgrees(e)' =>
                      \E r \in Resolvers :
                          /\ status[r] = "active" /\ status'[r] = "committed"
                          /\ staged[r][e] \notin {Untouched, None, head[e]}
                          /\ staged[r][e][1] # r
<1>1. ASSUME ChainInv, CacheInv, [Next]_vars
      PROVE  [A]_vars
  <2> SUFFICES ASSUME Next, NEW e \in Entities, CacheAgrees(e), ~CacheAgrees(e)'
               PROVE  \E r \in Resolvers :
                          /\ status[r] = "active" /\ status'[r] = "committed"
                          /\ staged[r][e] \notin {Untouched, None, head[e]}
                          /\ staged[r][e][1] # r
    BY <1>1
  <2>1. PICK t \in Txns : Commit(t)
    <3>1. Committed' = Committed /\ head' = head => CacheAgrees(e)'
      BY DEF CacheAgrees
    <3> QED
      BY <1>1, <3>1, AgreementMovesByCommit
  <2>2. t \notin Rebuilders
    BY <1>1, <2>1, RebuildKeepsAgreement
  <2>3. /\ t \in Resolvers /\ staged[t][e] \notin {Untouched, None, head[e]}
        /\ staged[t][e][1] # t
    BY <1>1, <2>1, <2>2, WriterLosesAgreement DEF Txns
  <2>4. status[t] = "active" /\ status'[t] = "committed"
    BY <1>1, <2>1, CommitForOthers
  <2> QED
    BY <2>3, <2>4
<1>2. Spec => [](ChainInv /\ CacheInv)
  BY ChainInit, ChainStep, CacheInit, CacheStep, PTL DEF Spec
<1>3. Spec => [][A]_vars
  BY <1>1, <1>2, PTL DEF Spec
<1> QED
  BY <1>3 DEF StaleOnlyByAdoption
=============================================================================
