--------------------- MODULE ResolutionRefinementProofs ---------------------
(***************************************************************************)
(* Proof that ResolutionChain implements DecisionRegister: the commit of a *)
(* transaction that decided something is a step of the register, and every *)
(* other step leaves what a reader of committed data sees as it was.       *)
(***************************************************************************)
EXTENDS ResolutionRefinement, ResolutionChainProofs

\* A decision names a company that is in the registry, or the one that was
\* minted together with it.
Registered(d) ==
    \/ d.company \in CommittedCompanies \cup {None}
    \/ d.company = d.id /\ d.company \in companies

\* So does every row, and every row about to be inserted.
NamedInv ==
    /\ \A d \in rows : Registered(d)
    /\ \A t \in Txns : status[t] = "active" /\ pc[t] = "insert" => Registered(row[t])
-----------------------------------------------------------------------------
(***************************************************************************)
(* Steps that a reader of committed data does not see.                     *)
(***************************************************************************)

\* What t does while it stays uncommitted: it touches its own rows and its own
\* companies, and nobody else's.
KeepsToItself(t) ==
    /\ \A s \in Txns \ {t} : status'[s] = status[s]
    /\ status[t] # "committed" /\ status'[t] # "committed"
    /\ \A d \in rows \cup rows' : Writer(d) # t => (d \in rows <=> d \in rows')
    /\ \A c \in MintedCompanies : c[1] # t => (c \in companies <=> c \in companies')

LEMMA UnseenStep ==
    ASSUME TypeOK, TypeOK', NEW t \in Txns, KeepsToItself(t)
    PROVE  Committed' = Committed /\ CommittedCompanies' = CommittedCompanies
<1>1. \A d \in rows \cup rows' : Writer(d) \in Txns
  BY DEF TypeOK, Decision, DecisionIds, Writer
<1>2. ASSUME NEW d \in rows \cup rows'
      PROVE  d \in Committed' <=> d \in Committed
  BY <1>1, <1>2 DEF KeepsToItself, Committed, Writer
<1>3. Committed' = Committed
  BY <1>2 DEF Committed, Writer
<1>4. \A c \in MintedCompanies : c[1] \in Txns
  BY DEF MintedCompanies, Txns
<1>5. CommittedCompanies' = CommittedCompanies
  BY <1>4 DEF KeepsToItself, CommittedCompanies
<1> QED
  BY <1>3, <1>5

\* The only company resolve() adds is the one it mints for the version at hand,
\* and the row it plans is registered.
LEMMA ResolvePlans ==
    ASSUME TypeOK, NEW r \in Resolvers, Resolve(r)
    PROVE  /\ status[r] = "active"
           /\ companies \subseteq companies'
           /\ \A c \in companies' \ companies : c \in MintedCompanies => c[1] = r
           /\ pc'[r] = "insert" =>
                 \/ row'[r].company \in CommittedCompanies \cup {None}
                 \/ row'[r].company = row'[r].id /\ row'[r].company \in companies'
<1>0. r \in Txns /\ status[r] = "active"
  BY DEF Txns, Resolve
<1>1. PICK v \in todo[r] :
         \E h \in HeadsSeenBy(r, EntityOf[v]) :
            \/ KeepHead(r, h)
            \/ \E c \in Conclusions(r, v) : Conclude(r, v, h, c[1], c[2])
  BY DEF Resolve
<1>2. PICK h \in HeadsSeenBy(r, EntityOf[v]) :
         \/ KeepHead(r, h)
         \/ \E c \in Conclusions(r, v) : Conclude(r, v, h, c[1], c[2])
  BY <1>1
<1>3. CASE KeepHead(r, h)
  BY <1>0, <1>3 DEF KeepHead, TypeOK
<1>4. CASE \E c \in Conclusions(r, v) : Conclude(r, v, h, c[1], c[2])
  <2>1. PICK c \in Conclusions(r, v) : Conclude(r, v, h, c[1], c[2])
    BY <1>4
  <2>2. /\ row'[r].id = <<r, v>> /\ row'[r].company = c[2]
        /\ companies' = IF c[1] = "CREATED_NEW" THEN companies \cup {c[2]} ELSE companies
    BY <1>0, <2>1 DEF Conclude, TypeOK
  <2>3. \/ c[1] = "CREATED_NEW" /\ c[2] = <<r, v>>
        \/ c[1] # "CREATED_NEW" /\ c[2] \in CommittedCompanies \cup {None}
    BY <2>1 DEF Conclusions
  <2>4. companies \subseteq companies'
    BY <2>2
  <2>5. \A x \in companies' \ companies : x = <<r, v>>
    BY <2>2, <2>3
  <2>6. \A x \in companies' \ companies : x[1] = r
    BY <2>5
  <2>7. \/ row'[r].company \in CommittedCompanies \cup {None}
        \/ row'[r].company = row'[r].id /\ row'[r].company \in companies'
    <3>1. CASE c[1] = "CREATED_NEW" /\ c[2] = <<r, v>>
      <4>1. companies' = companies \cup {c[2]}
        BY <2>2, <3>1
      <4>2. row'[r].company = <<r, v>> /\ row'[r].id = <<r, v>>
        BY <2>2, <3>1
      <4> QED
        BY <3>1, <4>1, <4>2
    <3>2. CASE c[2] \in CommittedCompanies \cup {None}
      BY <2>2, <3>2
    <3> QED
      BY <2>3, <3>1, <3>2
  <2> QED
    BY <1>0, <2>4, <2>5, <2>6, <2>7
<1> QED
  BY <1>2, <1>3, <1>4

\* Every statement of a transaction keeps to itself, and so does a rollback.
LEMMA StatementKeeps ==
    ASSUME ChainInv, ChainInv', NEW t \in Txns,
           \/ t \in Resolvers /\ (BeginRun(t) \/ Resolve(t) \/ AdoptWinner(t) \/ WriteClaims(t))
           \/ t \in Reviewers /\ (View(t) \/ PostDecision(t))
           \/ t \in Rebuilders /\ (\/ BeginRebuild(t) \/ DeleteHead(t) \/ SelectHeads(t)
                                   \/ ReinsertHead(t))
           \/ InsertDecision(t) \/ UpsertHead(t)
           \/ status[t] = "active" /\ RollBack(t)
    PROVE  KeepsToItself(t)
<1>0. TypeOK
  BY DEF ChainInv
<1>1. CASE BeginRun(t) \/ BeginRebuild(t)
  BY <1>0, <1>1 DEF TypeOK, BeginRun, BeginRebuild, KeepsToItself
<1>2. CASE t \in Resolvers /\ Resolve(t)
  <2>1. rows' = rows /\ status' = status
    BY <1>2 DEF Resolve
  <2>2. \A c \in MintedCompanies : c[1] # t => (c \in companies <=> c \in companies')
    BY <1>0, <1>2, ResolvePlans
  <2> QED
    BY <1>2, <2>1, <2>2 DEF Resolve, KeepsToItself
<1>3. CASE AdoptWinner(t)
  BY <1>3 DEF AdoptWinner, WithoutMinted, KeepsToItself
<1>4. CASE View(t) \/ PostDecision(t)
  BY <1>0, <1>4 DEF TypeOK, View, PostDecision, KeepsToItself
<1>5. CASE \/ WriteClaims(t) \/ UpsertHead(t)
           \/ DeleteHead(t) \/ SelectHeads(t) \/ ReinsertHead(t)
  BY <1>5 DEF WriteClaims, UpsertHead, DeleteHead, SelectHeads, ReinsertHead, KeepsToItself
<1>6. CASE InsertDecision(t)
  <2>1. Writer(row[t]) = t
    BY <1>6 DEF ChainInv, PlanOK, InsertDecision
  <2> QED
    BY <1>6, <2>1 DEF InsertDecision, KeepsToItself
<1>7. CASE status[t] = "active" /\ RollBack(t)
  <2>1. /\ \A s \in Txns \ {t} : status'[s] = status[s]
        /\ status'[t] = "aborted"
    BY <1>0, <1>7 DEF TypeOK, RollBack
  <2> QED
    BY <1>7, <2>1 DEF RollBack, KeepsToItself
<1> QED
  BY <1>1, <1>2, <1>3, <1>4, <1>5, <1>6, <1>7

\* So a step of the system is a commit, or a reader sees nothing of it.
LEMMA CommitOrUnseen ==
    ASSUME ChainInv, ChainInv', [Next]_vars
    PROVE  \/ \E t \in Txns : Commit(t)
           \/ Committed' = Committed /\ CommittedCompanies' = CommittedCompanies
<1>0. TypeOK /\ TypeOK'
  BY DEF ChainInv
<1>1. \/ UNCHANGED vars
      \/ \E t \in Txns : Commit(t) \/ KeepsToItself(t)
  <2>1. CASE \E r \in Resolvers : BeginRun(r) \/ ResolverStep(r)
    BY <2>1, StatementKeeps DEF ResolverStep, Txns
  <2>2. CASE \E h \in Reviewers : View(h) \/ PostDecision(h) \/ ReviewerStep(h)
    BY <2>2, StatementKeeps DEF ReviewerStep, RefuseReviewer, Txns
  <2>3. CASE \E b \in Rebuilders : BeginRebuild(b) \/ RebuilderStep(b)
    BY <2>3, StatementKeeps DEF RebuilderStep, RefuseRebuild, Txns
  <2>4. CASE \E t \in Txns : Crash(t) \/ DeadlockVictim(t)
    BY <2>4, StatementKeeps DEF Crash, DeadlockVictim
  <2> QED
    BY <2>1, <2>2, <2>3, <2>4 DEF Next
<1>2. UNCHANGED vars => Committed' = Committed /\ CommittedCompanies' = CommittedCompanies
  BY DEF vars, Committed, CommittedCompanies, Writer
<1> QED
  BY <1>0, <1>1, <1>2, UnseenStep
-----------------------------------------------------------------------------
(***************************************************************************)
(* Every decision names a registered company.                              *)
(***************************************************************************)

\* A committed company stays committed.
LEMMA RegistryGrows ==
    ASSUME ChainInv, ChainInv', [Next]_vars
    PROVE  CommittedCompanies \subseteq CommittedCompanies'
<1>1. ASSUME NEW t \in Txns, Commit(t)
      PROVE  CommittedCompanies \subseteq CommittedCompanies'
  <2>1. \A s \in Txns : status[s] = "committed" => status'[s] = "committed"
    BY <1>1 DEF ChainInv, TypeOK, Commit
  <2>2. \A c \in MintedCompanies : c[1] \in Txns
    BY DEF MintedCompanies, Txns
  <2> QED
    BY <1>1, <2>1, <2>2 DEF CommittedCompanies, Commit
<1> QED
  BY <1>1, CommitOrUnseen

\* What a transaction has to do for NamedInv to survive: take away only
\* companies of its own that no row stands for, insert only the row it planned,
\* and plan a registered one.
KeepsNames(t) ==
    /\ CommittedCompanies \subseteq CommittedCompanies'
    /\ \A s \in Txns \ {t} : status'[s] = status[s] /\ pc'[s] = pc[s] /\ row'[s] = row[s]
    /\ \A d \in rows' :
          d \in rows \/ (status[t] = "active" /\ pc[t] = "insert" /\ d = row[t])
    /\ \A c \in companies \ companies' : c[1] = t /\ \A d \in rows' : d.id # c
    /\ pc'[t] = "insert" =>
          \/ row'[t].company \in CommittedCompanies' \cup {None}
          \/ row'[t].company = row'[t].id /\ row'[t].company \in companies'

LEMMA NamedKept ==
    ASSUME ChainInv, NamedInv, NEW t \in Txns, KeepsNames(t)
    PROVE  NamedInv'
<1> USE DEF KeepsNames
<1>1. ASSUME NEW d, Registered(d), d.id \notin companies \ companies'
      PROVE  Registered(d)'
  BY <1>1 DEF Registered
<1>2. ASSUME NEW d \in rows'
      PROVE  Registered(d)'
  <2>1. Registered(d)
    BY DEF NamedInv
  <2> QED
    BY <1>1, <2>1
<1>3. ASSUME NEW s \in Txns, status'[s] = "active", pc'[s] = "insert"
      PROVE  Registered(row[s])'
  <2>1. CASE s # t
    <3>1. Registered(row[s]) /\ Writer(row[s]) = s
      BY <1>3, <2>1 DEF NamedInv, ChainInv, PlanOK
    <3>2. row[s].id \notin companies \ companies'
      BY <2>1, <3>1 DEF Writer
    <3>3. row'[s] = row[s]
      BY <2>1
    <3> QED
      BY <3>1, <3>2, <3>3 DEF Registered
  <2>2. CASE s = t
    BY <1>3, <2>2 DEF Registered
  <2> QED
    BY <2>1, <2>2
<1> QED
  BY <1>2, <1>3 DEF NamedInv

LEMMA NamedResolve ==
    ASSUME ChainInv, NamedInv, NEW r \in Resolvers, Resolve(r),
           CommittedCompanies \subseteq CommittedCompanies'
    PROVE  NamedInv'
<1>0. r \in Txns /\ TypeOK
  BY DEF Txns, ChainInv
<1>1. \A s \in Txns \ {r} : status'[s] = status[s] /\ pc'[s] = pc[s] /\ row'[s] = row[s]
  BY <1>0 DEF Resolve, KeepHead, Conclude, TypeOK
<1>2. companies \subseteq companies' /\ rows' = rows
  BY <1>0, ResolvePlans DEF Resolve
<1>3. pc'[r] = "insert" =>
         \/ row'[r].company \in CommittedCompanies \cup {None}
         \/ row'[r].company = row'[r].id /\ row'[r].company \in companies'
  BY <1>0, ResolvePlans
<1>9. KeepsNames(r)
  BY <1>0, <1>1, <1>2, <1>3 DEF KeepsNames
<1> QED
  BY <1>0, <1>9, NamedKept

LEMMA NamedPost ==
    ASSUME ChainInv, NamedInv, NEW h \in Reviewers, PostDecision(h),
           CommittedCompanies \subseteq CommittedCompanies'
    PROVE  NamedInv'
<1>0. h \in Txns /\ TypeOK
  BY DEF Txns, ChainInv
<1>1. \A s \in Txns \ {h} : status'[s] = status[s] /\ pc'[s] = pc[s] /\ row'[s] = row[s]
  BY <1>0 DEF PostDecision, TypeOK
<1>2. row'[h].company \in CommittedCompanies \cup {None}
  BY <1>0 DEF PostDecision, HumanVerdicts, TypeOK
<1>3. companies' = companies /\ rows' = rows
  BY DEF PostDecision
<1>9. KeepsNames(h)
  BY <1>0, <1>1, <1>2, <1>3 DEF KeepsNames
<1> QED
  BY <1>0, <1>9, NamedKept

\* The company a losing resolver deletes belongs to a row that was never
\* inserted.
LEMMA NamedAdopt ==
    ASSUME ChainInv, NamedInv, NEW r \in Resolvers, AdoptWinner(r),
           CommittedCompanies \subseteq CommittedCompanies'
    PROVE  NamedInv'
<1>0. r \in Txns /\ TypeOK
  BY DEF Txns, ChainInv
<1>1. \A s \in Txns \ {r} : status'[s] = status[s] /\ pc'[s] = pc[s] /\ row'[s] = row[s]
  BY <1>0 DEF AdoptWinner, TypeOK
<1>2. rows' = rows /\ companies \ companies' \subseteq {<<r, at[r]>>} /\ pc'[r] # "insert"
  BY <1>0 DEF AdoptWinner, WithoutMinted, TypeOK
<1>3. row[r].id = <<r, at[r]>> /\ \A d \in rows : d.id # row[r].id
  <2>1. row[r].id \in DecisionIds
    BY <1>0 DEF ChainInv, LocalOK, AdoptWinner, Decision
  <2>2. row[r].id[1] = r /\ row[r].id[2] = at[r] /\ \A d \in rows : d.id # row[r].id
    BY <1>0 DEF ChainInv, PlanOK, AdoptWinner, Writer
  <2> QED
    BY <2>1, <2>2 DEF DecisionIds
<1>4. \A c \in companies \ companies' : c[1] = r /\ \A d \in rows' : d.id # c
  BY <1>2, <1>3
<1>9. KeepsNames(r)
  BY <1>0, <1>1, <1>2, <1>4 DEF KeepsNames
<1> QED
  BY <1>0, <1>9, NamedKept

LEMMA NamedRollBack ==
    ASSUME ChainInv, NamedInv, NEW t \in Txns, RollBack(t),
           CommittedCompanies \subseteq CommittedCompanies'
    PROVE  NamedInv'
<1>0. TypeOK
  BY DEF ChainInv
<1>1. \A s \in Txns \ {t} : status'[s] = status[s] /\ pc'[s] = pc[s] /\ row'[s] = row[s]
  BY <1>0 DEF RollBack, TypeOK
<1>2. rows' \subseteq rows /\ pc'[t] # "insert"
  BY <1>0 DEF RollBack, TypeOK
<1>3. \A c \in companies \ companies' : c[1] = t /\ \A d \in rows' : d.id # c
  BY DEF RollBack, Writer
<1>9. KeepsNames(t)
  BY <1>1, <1>2, <1>3 DEF KeepsNames
<1> QED
  BY <1>0, <1>9, NamedKept

LEMMA NamedStep == ChainInv /\ ChainInv' /\ NamedInv /\ [Next]_vars => NamedInv'
<1> SUFFICES ASSUME ChainInv, ChainInv', NamedInv, [Next]_vars
             PROVE  NamedInv'
  OBVIOUS
<1>0. TypeOK /\ CommittedCompanies \subseteq CommittedCompanies'
  BY RegistryGrows DEF ChainInv
<1>1. ASSUME NEW t \in Txns, InsertDecision(t) \/ UpsertHead(t) \/ Commit(t)
      PROVE  NamedInv'
  <2>1. KeepsNames(t)
    BY <1>0, <1>1 DEF KeepsNames, InsertDecision, UpsertHead, Commit, TypeOK
  <2> QED
    BY <2>1, NamedKept
<1>2. ASSUME NEW r \in Resolvers, BeginRun(r) \/ WriteClaims(r)
      PROVE  NamedInv'
  <2>1. r \in Txns
    BY DEF Txns
  <2>2. KeepsNames(r)
    BY <1>0, <1>2, <2>1 DEF KeepsNames, BeginRun, WriteClaims, TypeOK
  <2> QED
    BY <2>1, <2>2, NamedKept
<1>3. ASSUME NEW h \in Reviewers, View(h)
      PROVE  NamedInv'
  <2>1. h \in Txns
    BY DEF Txns
  <2>2. KeepsNames(h)
    BY <1>0, <1>3, <2>1 DEF KeepsNames, View, TypeOK
  <2> QED
    BY <2>1, <2>2, NamedKept
<1>4. ASSUME NEW b \in Rebuilders,
             BeginRebuild(b) \/ DeleteHead(b) \/ SelectHeads(b) \/ ReinsertHead(b)
      PROVE  NamedInv'
  <2>1. b \in Txns
    BY DEF Txns
  <2>2. KeepsNames(b)
    BY <1>0, <1>4, <2>1 DEF KeepsNames, BeginRebuild, DeleteHead, SelectHeads, ReinsertHead, TypeOK
  <2> QED
    BY <2>1, <2>2, NamedKept
<1>5. ASSUME NEW t \in Txns, RollBack(t)
      PROVE  NamedInv'
  BY <1>0, <1>5, NamedRollBack
<1>6. CASE UNCHANGED vars
  BY <1>6 DEF vars, NamedInv, Registered, CommittedCompanies
<1>7. CASE \E r \in Resolvers : BeginRun(r) \/ ResolverStep(r)
  BY <1>0, <1>1, <1>2, <1>7, NamedResolve, NamedAdopt DEF ResolverStep, Txns
<1>8. CASE \E h \in Reviewers : View(h) \/ PostDecision(h) \/ ReviewerStep(h)
  BY <1>0, <1>1, <1>3, <1>5, <1>8, NamedPost DEF ReviewerStep, RefuseReviewer, Txns
<1>9. CASE \E b \in Rebuilders : BeginRebuild(b) \/ RebuilderStep(b)
  BY <1>1, <1>4, <1>5, <1>9 DEF RebuilderStep, RefuseRebuild, Txns
<1>10. CASE \E t \in Txns : Crash(t) \/ DeadlockVictim(t)
  BY <1>5, <1>10 DEF Crash, DeadlockVictim
<1> QED
  BY <1>6, <1>7, <1>8, <1>9, <1>10 DEF Next
-----------------------------------------------------------------------------
(***************************************************************************)
(* What a commit shows.                                                    *)
(***************************************************************************)

\* What t has decided on e and not committed.
PendingOn(t, e) == {d \in rows : d.entity = e /\ Writer(d) = t}

\* The current decision on e is the one head of its committed decisions.
LEMMA CurrentIsHead ==
    ASSUME ChainInv, NEW e \in Entities
    PROVE  /\ DecidedOn(e) = {} => CurrentOn(e) = None
           /\ DecidedOn(e) # {} => /\ CurrentOn(e) \in HeadsIn(Committed, e)
                                   /\ CurrentOn(e) \in DecidedOn(e)
                                   /\ CurrentOn(e) # None
           /\ \A h \in HeadsIn(Committed, e) : h = CurrentOn(e)
<1>1. HasOneHead(Committed, e)
  BY DEF ChainInv, OneHead
<1>2. None \notin Committed
  BY NoneAssumption DEF ChainInv, TypeOK, Committed
<1>3. CASE DecidedOn(e) = {}
  BY <1>3 DEF CurrentOn, DecidedOn, HeadsIn
<1>4. CASE DecidedOn(e) # {}
  <2>1. PICK h \in HeadsIn(Committed, e) : \A o \in HeadsIn(Committed, e) : o = h
    BY <1>1, <1>4 DEF HasOneHead, DecidedOn
  <2>2. CurrentOn(e) \in HeadsIn(Committed, e)
    BY <1>4, <2>1 DEF CurrentOn
  <2>3. CurrentOn(e) \in DecidedOn(e)
    BY <2>2 DEF HeadsIn, DecidedOn
  <2> QED
    BY <1>2, <1>4, <2>1, <2>2, <2>3 DEF DecidedOn
<1> QED
  BY <1>3, <1>4

\* The commit of t adds what t decided to what is committed.
LEMMA CommitAdds ==
    ASSUME ChainInv, NEW t \in Txns, Commit(t)
    PROVE  /\ rows' = rows /\ companies' = companies
           /\ status[t] = "active"
           /\ \A s \in Txns : status'[s] = "committed" <=> s = t \/ status[s] = "committed"
           /\ Committed' = Visible(t)
           /\ \A e : DecidedOn(e)' = DecidedOn(e) \cup PendingOn(t, e)
           /\ \A e : DecidedOn(e) \cap PendingOn(t, e) = {}
<1>0. TypeOK
  BY DEF ChainInv
<1>1. /\ rows' = rows /\ companies' = companies
      /\ status[t] = "active" /\ status' = [status EXCEPT ![t] = "committed"]
  BY DEF Commit, IsDone
<1>2. \A s \in Txns : status'[s] = "committed" <=> s = t \/ status[s] = "committed"
  BY <1>0, <1>1 DEF TypeOK
<1>3. \A d \in rows : Writer(d) \in Txns
  BY <1>0, WriterType
<1>4. Committed' = Visible(t)
  BY <1>1, <1>2, <1>3 DEF Committed, Visible, Writer
<1>5. \A e : DecidedOn(e)' = DecidedOn(e) \cup PendingOn(t, e)
  BY <1>4 DEF DecidedOn, PendingOn, Visible, Committed
<1>6. \A e : DecidedOn(e) \cap PendingOn(t, e) = {}
  BY <1>1 DEF DecidedOn, PendingOn, Committed
<1> QED
  BY <1>1, <1>2, <1>4, <1>5, <1>6

\* Where t decided nothing, nothing changes.
LEMMA CommitKeeps ==
    ASSUME ChainInv, NEW t \in Txns, Commit(t),
           NEW e \in Entities, PendingOn(t, e) = {}
    PROVE  CurrentOn(e)' = CurrentOn(e) /\ DecidedOn(e)' = DecidedOn(e)
<1>1. DecidedOn(e)' = DecidedOn(e) /\ Committed' = Visible(t)
  BY CommitAdds
<1>2. \A d \in rows : d.entity = e => (d \in Visible(t) <=> d \in Committed)
  BY DEF PendingOn, Visible, Committed
<1>3. Visible(t) \subseteq rows /\ Committed \subseteq rows
  BY DEF Visible, Committed
<1>4. HeadsIn(Visible(t), e) = HeadsIn(Committed, e)
  BY <1>2, <1>3, HeadIsLocal DEF ChainInv
<1>5. HeadsIn(Committed, e)' = HeadsIn(Committed, e)
  BY <1>1, <1>4 DEF HeadsIn
<1> QED
  BY <1>1, <1>5 DEF CurrentOn

\* Where t decided something, its last decision holds, and it built on what
\* held before; a resolver had found that open.
LEMMA CommitReplaces ==
    ASSUME ChainInv, OverrideInv, NEW t \in Txns, Commit(t),
           NEW e \in Entities, PendingOn(t, e) # {}
    PROVE  /\ CurrentOn(e)' \in PendingOn(t, e)
           /\ t \in Resolvers => ~IsSettled(CurrentOn(e))
<1>0. /\ rows' = rows /\ status[t] = "active" /\ Committed' = Visible(t)
      /\ DecidedOn(e)' = DecidedOn(e) \cup PendingOn(t, e)
  BY CommitAdds
<1>1. PICK f \in PendingOn(t, e) : StandsOnCommitted(f)
  <2>1. PICK d \in PendingOn(t, e) : TRUE
    OBVIOUS
  <2>2. PICK f \in rows : f.entity = d.entity /\ Writer(f) = Writer(d) /\ StandsOnCommitted(f)
    BY <1>0, <2>1 DEF PendingOn, ChainInv, PendingOK
  <2> QED
    BY <2>1, <2>2 DEF PendingOn
<1>2. \A h \in HeadsIn(Committed, e) : f.supersedes = h.id
  <2>1. f.supersedes # None \/ HeadsIn(Committed, e) = {}
    BY <1>1 DEF StandsOnCommitted, PendingOn, HeadsIn
  <2>2. f.supersedes # None => \E h \in HeadsIn(Committed, e) : h.id = f.supersedes
    BY <1>1 DEF StandsOnCommitted, PendingOn
  <2> QED
    BY <2>1, <2>2, CurrentIsHead
<1>3. /\ CurrentOn(e)' \in HeadsIn(Committed, e)'
      /\ CurrentOn(e)' \in DecidedOn(e)'
  <2>1. DecidedOn(e)' # {} /\ \E d \in Visible(t) : d.entity = e
    BY <1>0 DEF PendingOn, Visible
  <2>2. HasOneHead(Visible(t), e)
    BY <1>0 DEF ChainInv, OneHead
  <2>3. CurrentOn(e)' = CHOOSE d \in HeadsIn(Visible(t), e) : TRUE
    BY <1>0, <2>1 DEF CurrentOn, HeadsIn
  <2>4. CurrentOn(e)' \in HeadsIn(Visible(t), e)
    BY <2>1, <2>2, <2>3 DEF HasOneHead
  <2> QED
    BY <1>0, <2>4 DEF HeadsIn, DecidedOn
<1>4. CurrentOn(e)' \in PendingOn(t, e)
  <2> SUFFICES ASSUME CurrentOn(e)' \in DecidedOn(e) PROVE FALSE
    BY <1>0, <1>3
  <2>1. CurrentOn(e)' \in HeadsIn(Visible(t), e)
    BY <1>0, <1>3 DEF HeadsIn
  <2>2. CurrentOn(e)' \in HeadsIn(Committed, e)
    BY <2>1 DEF HeadsIn, DecidedOn, Visible, Committed
  <2>3. f \in Visible(t) /\ f.supersedes = (CurrentOn(e)').id
    BY <1>2, <2>2 DEF PendingOn, Visible
  <2> QED
    BY <2>1, <2>3 DEF HeadsIn
<1>5. t \in Resolvers => ~IsSettled(CurrentOn(e))
  <2>1. CASE DecidedOn(e) = {}
    BY <2>1, CurrentIsHead DEF IsSettled
  <2>2. CASE DecidedOn(e) # {}
    <3>1. CurrentOn(e) \in rows /\ f \in rows /\ f.supersedes = CurrentOn(e).id
      BY <1>2, <2>2, CurrentIsHead DEF HeadsIn, Committed, PendingOn
    <3> QED
      BY <3>1 DEF OverrideInv, PendingOn
  <2> QED
    BY <2>1, <2>2
<1> QED
  BY <1>4, <1>5
-----------------------------------------------------------------------------
(***************************************************************************)
(* A commit is a step of the register.                                     *)
(***************************************************************************)

\* On every entity t decided about, or left it alone.
LEMMA CommitDecides ==
    ASSUME ChainInv, OverrideInv, NEW t \in Txns, Commit(t), NEW e \in Entities
    PROVE  Register!Decides(t, e) \/ Register!Keeps(e)
<1>1. CASE PendingOn(t, e) = {}
  <2>1. Register!Keeps(e)
    BY <1>1, CommitKeeps DEF Register!Keeps
  <2> QED
    BY <2>1
<1>2. CASE PendingOn(t, e) # {}
  <2> DEFINE new == CurrentOn(e)'
             old == CurrentOn(e)
  <2>1. new \in PendingOn(t, e) /\ (t \in Resolvers => ~IsSettled(old))
    BY <1>2, CommitReplaces
  <2>2. /\ DecidedOn(e)' = DecidedOn(e) \cup PendingOn(t, e)
        /\ DecidedOn(e) \cap PendingOn(t, e) = {}
    BY CommitAdds
  <2>3. old \in DecidedOn(e) \cup {None}
    BY CurrentIsHead
  <2>4. new # None /\ Writer(new) = t
    BY <2>1, NoneAssumption DEF PendingOn, ChainInv, TypeOK
  <2>5. t \in Resolvers => Register!IsOpen(old)
    BY <2>1 DEF IsSettled, Register!IsOpen
  <2>6. new \notin (DecidedOn(e)' \ {new}) \cup {old}
    BY <2>1, <2>2, <2>3, <2>4
  <2>7. (DecidedOn(e) \ {old}) \cup ({old} \ {None}) \subseteq DecidedOn(e)' \ {new}
    BY <2>1, <2>2, <2>3
  <2>8. \A d \in (DecidedOn(e)' \ {new}) \ ((DecidedOn(e) \ {old}) \cup {old}) : Writer(d) = t
    BY <2>2 DEF PendingOn
  <2>9. Register!Decides(t, e)
    BY <2>4, <2>5, <2>6, <2>7, <2>8 DEF Register!Decides, Register!Author, Writer
  <2> QED
    BY <2>9
<1> QED
  BY <1>1, <1>2

\* What a commit adds is what the transaction decided.
LEMMA CommitAdded ==
    ASSUME ChainInv, OverrideInv, NEW t \in Txns, Commit(t), NEW e \in Entities
    PROVE  ((DecidedOn(e)' \ {CurrentOn(e)'}) \cup {CurrentOn(e)'})
              \ ((DecidedOn(e) \ {CurrentOn(e)}) \cup {CurrentOn(e)}) = PendingOn(t, e)
<1>1. CASE PendingOn(t, e) = {}
  BY <1>1, CommitKeeps
<1>2. CASE PendingOn(t, e) # {}
  <2>1. /\ DecidedOn(e)' = DecidedOn(e) \cup PendingOn(t, e)
        /\ DecidedOn(e) \cap PendingOn(t, e) = {}
    BY CommitAdds
  <2>2. CurrentOn(e) \in DecidedOn(e) \cup {None}
    BY CurrentIsHead
  <2>3. None \notin PendingOn(t, e)
    BY NoneAssumption DEF PendingOn, ChainInv, TypeOK
  <2>4. CurrentOn(e)' \in PendingOn(t, e)
    BY <1>2, CommitReplaces
  <2> QED
    BY <2>1, <2>2, <2>3, <2>4
<1> QED
  BY <1>1, <1>2

\* The companies that enter the registry are named by what was decided, and
\* what was decided names companies of the registry.
LEMMA CommitRegisters ==
    ASSUME ChainInv, ChainInv', MintedInv, NamedInv, NEW t \in Txns, Commit(t)
    PROVE  LET named == {d.company : d \in UNION {PendingOn(t, e) : e \in Entities}}
           IN  /\ CommittedCompanies \subseteq CommittedCompanies'
               /\ CommittedCompanies' \ CommittedCompanies \subseteq named
               /\ named \subseteq CommittedCompanies' \cup {None}
<1> DEFINE named == {d.company : d \in UNION {PendingOn(t, e) : e \in Entities}}
<1>0. /\ rows' = rows /\ companies' = companies /\ status[t] = "active"
      /\ \A s \in Txns : status'[s] = "committed" <=> s = t \/ status[s] = "committed"
  BY CommitAdds
<1>a. \A c \in MintedCompanies : c[1] \in Txns
  BY DEF MintedCompanies, Txns
<1>1. CommittedCompanies \subseteq CommittedCompanies'
  BY <1>0, <1>a DEF CommittedCompanies
<1>2. ASSUME NEW c \in CommittedCompanies', c \notin CommittedCompanies
      PROVE  c \in named
  <2>1. c \in companies /\ c \notin KnownCompanies /\ c[1] = t
    BY <1>0, <1>2, <1>a DEF CommittedCompanies
  <2>2. pc[t] # "insert"
    BY DEF Commit, IsDone
  <2>3. PICK d \in rows : d.company = c /\ Writer(d) = t
    BY <2>1, <2>2 DEF MintedInv
  <2>4. d \in PendingOn(t, d.entity) /\ d.entity \in Entities
    BY <2>3, WriterType DEF PendingOn, ChainInv
  <2> QED
    BY <2>3, <2>4
<1>3. ASSUME NEW e \in Entities, NEW d \in PendingOn(t, e)
      PROVE  d.company \in CommittedCompanies' \cup {None}
  <2>1. d \in rows /\ Writer(d) = t
    BY DEF PendingOn
  <2>2. CASE d.company \in CommittedCompanies \cup {None}
    BY <1>1, <2>2
  <2>3. CASE d.company = d.id /\ d.company \in companies
    <3>1. d.company \in Companies
      BY <2>3 DEF ChainInv, TypeOK
    <3>2. status'[d.company[1]] = "committed"
      BY <1>0, <2>1, <2>3 DEF Writer
    <3> QED
      BY <1>0, <2>3, <3>1, <3>2 DEF CommittedCompanies, Companies
  <2> QED
    BY <2>1, <2>2, <2>3 DEF NamedInv, Registered
<1> QED
  BY <1>1, <1>2, <1>3

LEMMA CommitIsDecide ==
    ASSUME ChainInv, ChainInv', OverrideInv, MintedInv, NamedInv,
           NEW t \in Txns, Commit(t)
    PROVE  Register!Decide
<1>1. \A e \in Entities : Register!Decides(t, e) \/ Register!Keeps(e)
  BY CommitDecides
<1>2. Register!Registers
  BY CommitAdded, CommitRegisters DEF Register!Registers
<1> QED
  BY <1>1, <1>2 DEF Register!Decide
-----------------------------------------------------------------------------
LEMMA RegisterInit == Init => Register!Init
<1> SUFFICES ASSUME Init PROVE Register!Init
  OBVIOUS
<1>1. \A e : DecidedOn(e) = {} /\ CurrentOn(e) = None
  BY DEF Init, DecidedOn, Committed, CurrentOn
<1>2. \A c \in MintedCompanies : status[c[1]] # "committed"
  BY DEF Init, MintedCompanies, Txns
<1>3. CommittedCompanies = KnownCompanies
  BY <1>2 DEF CommittedCompanies
<1> QED
  BY <1>1, <1>3 DEF Register!Init

\* To a reader of committed data the racing transactions of entity resolution
\* are one register of current decisions: whatever a run or a reviewer decides
\* shows at the commit, at once, by an author who was allowed to replace what
\* held, with the companies it names; nothing else shows at all.
THEOREM ChainImplementsRegister == Spec => ImplementsDecisionRegister
<1> DEFINE Inv == ChainInv /\ OverrideInv /\ MintedInv /\ NamedInv
<1>1. Init => Inv
  <2>1. Init => OverrideInv /\ MintedInv
    BY DEF Init, OverrideInv, MintedInv
  <2>2. Init => NamedInv
    BY DEF Init, NamedInv
  <2> QED
    BY <2>1, <2>2, ChainInit
<1>2. Inv /\ [Next]_vars => Inv'
  BY ChainStep, OverrideStep, MintedStep, NamedStep
<1>3. Inv /\ Inv' /\ [Next]_vars =>
         [Register!Decide]_<<[e \in Entities |-> CurrentOn(e)],
                             [e \in Entities |-> DecidedOn(e) \ {CurrentOn(e)}],
                             CommittedCompanies>>
  <2> SUFFICES ASSUME Inv, Inv', [Next]_vars
               PROVE  [Register!Decide]_<<[e \in Entities |-> CurrentOn(e)],
                                          [e \in Entities |-> DecidedOn(e) \ {CurrentOn(e)}],
                                          CommittedCompanies>>
    OBVIOUS
  <2>1. CASE \E t \in Txns : Commit(t)
    BY <2>1, CommitIsDecide
  <2>2. CASE Committed' = Committed /\ CommittedCompanies' = CommittedCompanies
    BY <2>2 DEF CurrentOn, DecidedOn, HeadsIn
  <2> QED
    BY <2>1, <2>2, CommitOrUnseen
<1> QED
  BY <1>1, <1>2, <1>3, RegisterInit, PTL DEF Spec, ImplementsDecisionRegister, Register!Spec
=============================================================================
