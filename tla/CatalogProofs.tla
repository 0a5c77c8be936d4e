--------------------------- MODULE CatalogProofs ----------------------------
(***************************************************************************)
(* For any tokens, blocks and failures: between blocks the registrations   *)
(* in memory are those of the stored launches, a block's transaction has   *)
(* no conflict to refuse, and, as long as rebuilds succeed, the rows that  *)
(* a block stores follow from its logs and the rows before it.             *)
(***************************************************************************)
EXTENDS Catalog, TLAPS

ChangeSets ==
  [launches : SUBSET (Tokens \X Categories), graduations : SUBSET Tokens,
   fills : SUBSET (Nat \X Nat \X Markets)]

Types ==
  /\ category \in [Tokens -> Categories \cup {"none"}]
  /\ graduated \subseteq Tokens /\ \A t \in graduated : category[t] = "pons"
  /\ number \in Nat /\ block \in Seq(Launches \cup Graduations \cup Fills)
  /\ changes \in ChangeSets
  /\ pc \in {"down", "idle", "block"} /\ (pc # "block" => changes = NoChanges)

\* What a block has accepted so far agrees with the rows and with itself.
Acceptable ==
  /\ \A l \in changes.launches :
       /\ category[l[1]] \in {"none", l[2]}
       /\ \A m \in changes.launches : m[1] = l[1] => m[2] = l[2]
  /\ \A t \in changes.graduations : PonsKnown(t)

\* The markets of the stored rows and of the changes that are not yet stored.
Due ==
  StoredMarkets \cup {Opened(l[1], l[2]) : l \in changes.launches}
                \cup {<<t, "pons">> : t \in changes.graduations}

\* A running program's registrations follow the rows and the block in hand;
\* what a failed rebuild leaves behind is too much, never too little.
Follows == pc # "down" => /\ Due \subseteq registered
                          /\ mirrored => registered = Due

CatalogInv == Types /\ Acceptable /\ Follows

-----------------------------------------------------------------------------
\* A launch that was accepted meets no conflict when it is stored: the row has
\* its category, or there is none and the block has no other.
LEMMA LaunchKeepsCategory ==
  ASSUME CatalogInv, NEW l \in changes.launches
  PROVE  CategoryAfter(l[1]) = l[2]
  <1>1. l \in Tokens \X Categories /\ l = <<l[1], l[2]>>
    BY DEF CatalogInv, Types, ChangeSets
  <1>2. l[2] = "pons" \/ l[2] = "o1_crypto"
    BY <1>1 DEF Categories
  <1>3. category[l[1]] \in {"none", l[2]}
    BY DEF CatalogInv, Acceptable
  <1>4. <<l[1], "pons">> \in changes.launches => l[2] = "pons"
    BY <1>1 DEF CatalogInv, Acceptable
  <1> QED
    BY <1>1, <1>2, <1>3, <1>4 DEF CategoryAfter

\* No accepted launch conflicts.
LEMMA NothingConflicts == CatalogInv => Conflicts = {}
  BY LaunchKeepsCategory DEF Conflicts

\* The rows a block leaves open what was due before.
LEMMA StoredIsDue ==
  ASSUME CatalogInv, CommitBlock
  PROVE  StoredMarkets' = Due
  <1>1. category' = [t \in Tokens |-> CategoryAfter(t)] /\ graduated' = GraduatedAfter
    BY DEF CommitBlock
  <1>2. ASSUME NEW t \in changes.graduations PROVE t \in Tokens /\ CategoryAfter(t) = "pons"
    <2>1. t \in Tokens
      BY DEF CatalogInv, Types, ChangeSets
    <2>2. CASE <<t, "pons">> \in changes.launches
      BY <2>1, <2>2, LaunchKeepsCategory
    <2>3. CASE category[t] = "pons"
      BY <2>1, <2>3 DEF CategoryAfter
    <2> QED
      BY <2>1, <2>2, <2>3 DEF CatalogInv, Acceptable, PonsKnown
  <1>3. graduated' = graduated \cup changes.graduations
    BY <1>1, <1>2 DEF GraduatedAfter
  <1> DEFINE Rows == {Opened(t, category[t]) : t \in {u \in Tokens : category[u] # "none"}}
             News == {Opened(l[1], l[2]) : l \in changes.launches}
  <1>4. ASSUME NEW t \in Tokens, category'[t] # "none"
        PROVE  Opened(t, category'[t]) \in Rows \cup News
    <2>1. CASE category[t] # "none"
      BY <2>1, <1>1, <1>4 DEF CategoryAfter
    <2>2. CASE category[t] = "none"
      <3>1. \E c \in Categories : <<t, c>> \in changes.launches /\ category'[t] = c
        BY <2>2, <1>1, <1>4 DEF CategoryAfter, Categories
      <3>2. PICK c \in Categories : <<t, c>> \in changes.launches /\ category'[t] = c
        BY <3>1
      <3>3. Opened(<<t, c>>[1], <<t, c>>[2]) \in News
        BY <3>2
      <3> QED
        BY <3>2, <3>3
    <2> QED
      BY <2>1, <2>2
  <1>5. ASSUME NEW t \in Tokens, category[t] # "none"
        PROVE  category'[t] = category[t]
    BY <1>1, <1>5 DEF CategoryAfter
  <1>6. ASSUME NEW l \in changes.launches
        PROVE  l[1] \in Tokens /\ category'[l[1]] = l[2] /\ l[2] # "none"
    <2>1. l[1] \in Tokens /\ l[2] # "none"
      BY DEF CatalogInv, Types, ChangeSets, Categories
    <2> QED
      BY <2>1, <1>1, LaunchKeepsCategory
  <1>7. {Opened(t, category'[t]) : t \in {u \in Tokens : category'[u] # "none"}} = Rows \cup News
    BY <1>4, <1>5, <1>6
  <1> QED
    BY <1>3, <1>7 DEF StoredMarkets, Due

-----------------------------------------------------------------------------
\* Nothing is stored, and the program is not running.
LEMMA InitCatalog == Init => CatalogInv
  BY DEF Init, CatalogInv, Types, ChangeSets, NoChanges, Acceptable, Follows, Categories

\* A launch registers its market and is accepted, or does neither.
LEMMA LaunchCatalog ==
  ASSUME CatalogInv, NEW t \in Tokens, NEW c \in Categories, Launch(t, c)
  PROVE  CatalogInv'
  <1>1. /\ pc = "block" /\ pc' = pc /\ mirrored' = mirrored
        /\ category' = category /\ graduated' = graduated /\ number' = number
        /\ block' = Append(block, [kind |-> "launch", token |-> t, cat |-> c])
    BY DEF Launch, Seen, dbVars
  <1>2. [kind |-> "launch", token |-> t, cat |-> c] \in Launches
    BY DEF Launches
  <1>3. block' \in Seq(Launches \cup Graduations \cup Fills)
    BY <1>1, <1>2 DEF CatalogInv, Types
  <1>4. StoredMarkets' = StoredMarkets
    BY <1>1 DEF StoredMarkets
  <1>5. CASE Accepted(t, c)
    <2>1. /\ registered' = registered \cup {Opened(t, c)}
          /\ changes' = [changes EXCEPT !.launches = @ \cup {<<t, c>>}]
      BY <1>5 DEF Launch, RegisteredWith
    <2>2. /\ changes' \in ChangeSets /\ changes'.launches = changes.launches \cup {<<t, c>>}
          /\ changes'.graduations = changes.graduations
      BY <2>1 DEF CatalogInv, Types, ChangeSets
    <2>3. Types'
      BY <1>1, <1>3, <2>2 DEF CatalogInv, Types
    <2>4. Acceptable'
      BY <1>1, <1>5, <2>2 DEF CatalogInv, Acceptable, Accepted, PonsKnown
    <2>5. Due' = Due \cup {Opened(t, c)}
      <3>1. <<t, c>>[1] = t /\ <<t, c>>[2] = c
        OBVIOUS
      <3>2. {Opened(l[1], l[2]) : l \in changes'.launches}
              = {Opened(l[1], l[2]) : l \in changes.launches} \cup {Opened(t, c)}
        BY <2>2, <3>1
      <3> QED
        BY <1>4, <2>2, <3>2 DEF Due
    <2>6. Follows'
      BY <1>1, <2>1, <2>5 DEF CatalogInv, Follows
    <2> QED
      BY <2>3, <2>4, <2>6 DEF CatalogInv
  <1>6. CASE ~Accepted(t, c)
    <2>1. registered' = registered /\ changes' = changes
      BY <1>6 DEF Launch
    <2>2. Types' /\ Acceptable' /\ Follows'
      BY <1>1, <1>3, <1>4, <2>1 DEF CatalogInv, Types, Acceptable, PonsKnown, Follows, Due
    <2> QED
      BY <2>2 DEF CatalogInv
  <1> QED
    BY <1>5, <1>6

\* A graduation registers the pool of a launch that is stored or due.
LEMMA GraduateCatalog == ASSUME CatalogInv, NEW t \in Tokens, Graduate(t) PROVE CatalogInv'
  <1>1. /\ pc = "block" /\ pc' = pc /\ mirrored' = mirrored
        /\ category' = category /\ graduated' = graduated /\ number' = number
        /\ block' = Append(block, [kind |-> "graduate", token |-> t])
    BY DEF Graduate, Seen, dbVars
  <1>2. [kind |-> "graduate", token |-> t] \in Graduations
    BY DEF Graduations
  <1>3. block' \in Seq(Launches \cup Graduations \cup Fills)
    BY <1>1, <1>2 DEF CatalogInv, Types
  <1>4. StoredMarkets' = StoredMarkets
    BY <1>1 DEF StoredMarkets
  <1>5. CASE PonsKnown(t)
    <2>1. /\ registered' = registered \cup {<<t, "pons">>}
          /\ changes' = [changes EXCEPT !.graduations = @ \cup {t}]
      BY <1>5 DEF Graduate, RegisteredWith
    <2>2. /\ changes' \in ChangeSets /\ changes'.graduations = changes.graduations \cup {t}
          /\ changes'.launches = changes.launches
      BY <2>1 DEF CatalogInv, Types, ChangeSets
    <2>3. Types'
      BY <1>1, <1>3, <2>2 DEF CatalogInv, Types
    <2>4. Acceptable'
      BY <1>1, <1>5, <2>2 DEF CatalogInv, Acceptable, PonsKnown
    <2>5. Due' = Due \cup {<<t, "pons">>}
      BY <1>4, <2>2 DEF Due
    <2>6. Follows'
      BY <1>1, <2>1, <2>5 DEF CatalogInv, Follows
    <2> QED
      BY <2>3, <2>4, <2>6 DEF CatalogInv
  <1>6. CASE ~PonsKnown(t)
    <2>1. registered' = registered /\ changes' = changes
      BY <1>6 DEF Graduate
    <2>2. Types' /\ Acceptable' /\ Follows'
      BY <1>1, <1>3, <1>4, <2>1 DEF CatalogInv, Types, Acceptable, PonsKnown, Follows, Due
    <2> QED
      BY <2>2 DEF CatalogInv
  <1> QED
    BY <1>5, <1>6

\* A fill changes no registration.
LEMMA FillCatalog == ASSUME CatalogInv, NEW m \in Markets, Fill(m) PROVE CatalogInv'
  <1>1. /\ pc = "block" /\ pc' = pc /\ mirrored' = mirrored /\ registered' = registered
        /\ category' = category /\ graduated' = graduated /\ number' = number
        /\ block' = Append(block, [kind |-> "fill", market |-> m])
    BY DEF Fill, Seen, dbVars
  <1>2. [kind |-> "fill", market |-> m] \in Fills
    BY DEF Fills
  <1>3. block' \in Seq(Launches \cup Graduations \cup Fills) /\ Len(block) + 1 \in Nat
    BY <1>1, <1>2 DEF CatalogInv, Types
  <1>4. <<number, Len(block) + 1, m>> \in Nat \X Nat \X Markets
    BY <1>3 DEF CatalogInv, Types
  <1>5. /\ changes' \in ChangeSets /\ changes'.launches = changes.launches
        /\ changes'.graduations = changes.graduations
    BY <1>4 DEF Fill, CatalogInv, Types, ChangeSets
  <1>6. StoredMarkets' = StoredMarkets
    BY <1>1 DEF StoredMarkets
  <1> QED
    BY <1>1, <1>3, <1>5, <1>6 DEF CatalogInv, Types, Acceptable, PonsKnown, Follows, Due

\* The block is stored: what was due is what the rows open.
LEMMA CommitCatalog == ASSUME CatalogInv, CommitBlock PROVE CatalogInv'
  <1>1. /\ pc = "block" /\ pc' = "idle" /\ changes' = NoChanges /\ block' = <<>>
        /\ category' = [t \in Tokens |-> CategoryAfter(t)] /\ graduated' = GraduatedAfter
        /\ number' = number + 1
    BY DEF CommitBlock, Return
  <1>2. registered' = registered /\ mirrored' = mirrored
    BY NothingConflicts DEF CommitBlock
  <1>3. /\ changes' \in ChangeSets /\ changes'.launches = {} /\ changes'.graduations = {}
    BY <1>1 DEF NoChanges, ChangeSets
  <1>4. Types'
    <2>1. category' \in [Tokens -> Categories \cup {"none"}]
      BY <1>1 DEF CategoryAfter, Categories, CatalogInv, Types
    <2>2. graduated' \subseteq Tokens /\ \A t \in graduated' : category'[t] = "pons"
      BY <1>1 DEF GraduatedAfter, CategoryAfter, CatalogInv, Types, ChangeSets
    <2> QED
      BY <1>1, <1>3, <2>1, <2>2 DEF CatalogInv, Types
  <1>5. Acceptable'
    BY <1>3 DEF Acceptable
  <1>6. Due' = StoredMarkets'
    BY <1>3 DEF Due
  <1>7. Follows'
    BY <1>1, <1>2, <1>6, StoredIsDue DEF CatalogInv, Follows
  <1> QED
    BY <1>4, <1>5, <1>7 DEF CatalogInv

\* Nothing of a failed block is stored; the rebuild starts from the rows or
\* leaves what was there.
LEMMA FailsCatalog == ASSUME CatalogInv, ProcessBlockFails PROVE CatalogInv'
  <1>1. /\ pc = "block" /\ pc' = "idle" /\ changes' = NoChanges /\ block' = <<>>
        /\ category' = category /\ graduated' = graduated /\ number' = number
    BY DEF ProcessBlockFails, Return, dbVars
  <1>2. PICK ok \in BOOLEAN : registered' = (IF ok THEN StoredMarkets' ELSE registered) /\ mirrored' = ok
    BY DEF ProcessBlockFails, Restore
  <1>3. StoredMarkets' = StoredMarkets
    BY <1>1 DEF StoredMarkets
  <1>4. /\ changes' \in ChangeSets /\ changes'.launches = {} /\ changes'.graduations = {}
    BY <1>1 DEF NoChanges, ChangeSets
  <1>5. Due' = StoredMarkets /\ StoredMarkets \subseteq Due
    BY <1>3, <1>4 DEF Due
  <1>6. Follows'
    BY <1>1, <1>2, <1>3, <1>5 DEF CatalogInv, Follows
  <1> QED
    BY <1>1, <1>4, <1>6 DEF CatalogInv, Types, Acceptable

\* Begin, Skip, Kill and Start: between blocks there are no changes.
LEMMA BetweenCatalog ==
  ASSUME CatalogInv, Begin \/ Kill \/ Start \/ \E opened \in SUBSET Markets : Skip(opened)
  PROVE  CatalogInv'
  <1>1. category' = category /\ graduated' = graduated /\ number' \in Nat
    BY DEF Begin, Kill, Start, Skip, dbVars, CatalogInv, Types
  <1>2. StoredMarkets' = StoredMarkets
    BY <1>1 DEF StoredMarkets
  <1>3. changes' = NoChanges /\ pc' \in {"down", "idle", "block"}
        /\ block' \in Seq(Launches \cup Graduations \cup Fills)
    <2>1. CASE Begin
      BY <2>1 DEF Begin, CatalogInv, Types
    <2>2. CASE Kill
      BY <2>2 DEF Kill, Return
    <2>3. CASE Start
      BY <2>3 DEF Start, CatalogInv, Types
    <2>4. CASE \E opened \in SUBSET Markets : Skip(opened)
      BY <2>4 DEF Skip, CatalogInv, Types
    <2> QED
      BY <2>1, <2>2, <2>3, <2>4
  <1>4. /\ changes' \in ChangeSets /\ changes'.launches = {} /\ changes'.graduations = {}
    BY <1>3 DEF NoChanges, ChangeSets
  <1>5. Due' = StoredMarkets
    BY <1>2, <1>4 DEF Due
  <1>6. pc = "idle" => Due = StoredMarkets
    BY DEF CatalogInv, Types, Due, NoChanges
  <1>7. Follows'
    BY <1>5, <1>6 DEF Begin, Kill, Start, Skip, CatalogInv, Follows
  <1> QED
    BY <1>1, <1>3, <1>4, <1>7 DEF CatalogInv, Types, Acceptable

\* Every step preserves the invariant.
LEMMA NextCatalog == CatalogInv /\ [Next]_vars => CatalogInv'
  <1> SUFFICES ASSUME CatalogInv, [Next]_vars PROVE CatalogInv'
    OBVIOUS
  <1>1. CASE UNCHANGED vars
    BY <1>1 DEF vars, dbVars, CatalogInv, Types, Acceptable, PonsKnown, Follows, Due, StoredMarkets
  <1> QED
    BY <1>1, LaunchCatalog, GraduateCatalog, FillCatalog, CommitCatalog, FailsCatalog,
       BetweenCatalog DEF Next

\* The invariant holds throughout.
LEMMA CatalogAlways == Spec => []CatalogInv
  BY InitCatalog, NextCatalog, PTL DEF Spec

\* Between blocks the registrations are those of the stored launches, and none
\* of them is ever missing, through failed blocks, failed rebuilds, skips and
\* restarts (ProcessBlock, restoreRegistrations).
THEOREM RegistrationsMirrorStore == Spec => []MirrorsStore
  <1>1. ASSUME CatalogInv, pc = "idle" PROVE Due = StoredMarkets
    <2>1. changes.launches = {} /\ changes.graduations = {}
      BY <1>1 DEF CatalogInv, Types, NoChanges
    <2> QED
      BY <2>1 DEF Due
  <1>2. CatalogInv => MirrorsStore
    BY <1>1 DEF CatalogInv, Follows, MirrorsStore
  <1> QED
    BY <1>2, CatalogAlways, PTL

\* The conflict branch of CommitBlock never runs for a block that went through
\* acceptLaunchCategory.
THEOREM NothingLeftToRefuse == Spec => []NoLateConflict
  <1>1. CatalogInv => NoLateConflict
    BY NothingConflicts DEF NoLateConflict
  <1> QED
    BY <1>1, CatalogAlways, PTL

-----------------------------------------------------------------------------
(* Fills, when a rebuild of the registrations cannot fail *)

\* Without failed rebuilds nothing stale is left to route a fill by.
FillInv ==
  /\ mirrored /\ FillsOnlyForStored
  /\ \A f \in fills : f[3][1] \in Tokens
  /\ \A f \in changes.fills : f[3] \in Due

\* What is due has a launch that is stored, or will be with the block.
LEMMA DueIsLaunched ==
  ASSUME CatalogInv, NEW m \in Due
  PROVE  m[1] \in Tokens /\ CategoryAfter(m[1]) # "none"
  <1>1. CASE m \in {Opened(t, category[t]) : t \in {u \in Tokens : category[u] # "none"}}
    <2>1. PICK t \in Tokens : category[t] # "none" /\ m = Opened(t, category[t])
      BY <1>1
    <2> QED
      BY <2>1 DEF Opened, CategoryAfter
  <1>2. CASE m \in {<<t, "pons">> : t \in graduated}
    <2>1. PICK t \in graduated : m = <<t, "pons">>
      BY <1>2
    <2>2. t \in Tokens /\ category[t] = "pons"
      BY DEF CatalogInv, Types
    <2> QED
      BY <2>1, <2>2 DEF CategoryAfter
  <1>3. CASE m \in {Opened(l[1], l[2]) : l \in changes.launches}
    <2>1. PICK l \in changes.launches : m = Opened(l[1], l[2])
      BY <1>3
    <2>2. l[1] \in Tokens /\ l[2] # "none"
      BY DEF CatalogInv, Types, ChangeSets, Categories
    <2> QED
      BY <2>1, <2>2, LaunchKeepsCategory DEF Opened
  <1>4. CASE m \in {<<t, "pons">> : t \in changes.graduations}
    <2>1. PICK t \in changes.graduations : m = <<t, "pons">>
      BY <1>4
    <2>2. t \in Tokens /\ PonsKnown(t)
      BY DEF CatalogInv, Types, ChangeSets, Acceptable
    <2>3. CategoryAfter(t) # "none"
      BY <2>2 DEF PonsKnown, CategoryAfter
    <2> QED
      BY <2>1, <2>2, <2>3
  <1> QED
    BY <1>1, <1>2, <1>3, <1>4 DEF Due, StoredMarkets

\* A block in hand keeps what is due, and a fill is routed by it.
LEMMA LogFills ==
  ASSUME CatalogInv, FillInv,
         \/ \E t \in Tokens : Graduate(t) \/ \E c \in Categories : Launch(t, c)
         \/ \E m \in Markets : Fill(m)
  PROVE  FillInv'
  <1>1. /\ category' = category /\ graduated' = graduated /\ fills' = fills
        /\ mirrored' = mirrored /\ pc = "block" /\ changes \in ChangeSets
    BY DEF Graduate, Launch, Fill, Seen, dbVars, CatalogInv, Types
  <1>2. registered = Due
    BY <1>1 DEF CatalogInv, Follows, FillInv
  <1>3. StoredMarkets' = StoredMarkets
    BY <1>1 DEF StoredMarkets
  <1>4. /\ changes.launches \subseteq changes'.launches
        /\ changes.graduations \subseteq changes'.graduations
        /\ \A f \in changes'.fills : f \in changes.fills \/ f[3] \in registered
    <2>1. ASSUME NEW t \in Tokens, NEW c \in Categories, Launch(t, c)
          PROVE  \/ changes' = changes
                 \/ changes' = [changes EXCEPT !.launches = @ \cup {<<t, c>>}]
      BY <2>1 DEF Launch
    <2>2. ASSUME NEW t \in Tokens, Graduate(t)
          PROVE  changes' = changes \/ changes' = [changes EXCEPT !.graduations = @ \cup {t}]
      BY <2>2 DEF Graduate
    <2>3. ASSUME NEW m \in Markets, Fill(m)
          PROVE  \/ changes' = changes
                 \/ /\ changes' = [changes EXCEPT !.fills = @ \cup {<<number, Len(block) + 1, m>>}]
                    /\ m \in registered
      BY <2>3 DEF Fill
    <2> QED
      BY <1>1, <2>1, <2>2, <2>3 DEF ChangeSets
  <1>5. Due \subseteq Due'
    BY <1>3, <1>4 DEF Due
  <1> QED
    BY <1>1, <1>2, <1>4, <1>5 DEF FillInv, FillsOnlyForStored

\* The fills of a block are stored with the launches they need.
LEMMA CommitFills == ASSUME CatalogInv, FillInv, CommitBlock PROVE FillInv'
  <1>1. /\ category' = [t \in Tokens |-> CategoryAfter(t)] /\ fills' = fills \cup changes.fills
        /\ changes' = NoChanges /\ mirrored' = mirrored
    BY NothingConflicts DEF CommitBlock, Return
  <1>2. ASSUME NEW f \in changes.fills
        PROVE  f[3][1] \in Tokens /\ category'[f[3][1]] # "none"
    BY <1>1, DueIsLaunched DEF FillInv
  <1>3. ASSUME NEW f \in fills
        PROVE  f[3][1] \in Tokens /\ category'[f[3][1]] # "none"
    <2>1. category[f[3][1]] # "none"
      BY DEF FillInv, FillsOnlyForStored
    <2>2. f[3][1] \in Tokens
      BY DEF FillInv
    <2> QED
      BY <1>1, <2>1, <2>2 DEF CategoryAfter
  <1> QED
    BY <1>1, <1>2, <1>3 DEF FillInv, FillsOnlyForStored, NoChanges

\* Between blocks there are no fills in hand, and a rebuild succeeds.
LEMMA OtherFills ==
  ASSUME ~MayNotRestore, CatalogInv, FillInv,
         Begin \/ ProcessBlockFails \/ Kill \/ Start \/ \E opened \in SUBSET Markets : Skip(opened)
  PROVE  FillInv'
  <1>1. category' = category /\ fills' = fills
    BY DEF Begin, ProcessBlockFails, Kill, Start, Skip, dbVars
  <1>2. changes' = NoChanges
    BY DEF Begin, ProcessBlockFails, Kill, Start, Skip, Return, CatalogInv, Types
  <1>3. mirrored'
    <2>1. CASE ProcessBlockFails
      BY <2>1 DEF ProcessBlockFails, Restore
    <2>2. CASE ~ProcessBlockFails
      BY <2>2 DEF Begin, Kill, Start, Skip, FillInv
    <2> QED
      BY <2>1, <2>2
  <1> QED
    BY <1>1, <1>2, <1>3 DEF FillInv, FillsOnlyForStored, NoChanges

\* The invariant holds throughout.
LEMMA FillAlways == ASSUME ~MayNotRestore PROVE Spec => []FillInv
  <1>1. Init => FillInv
    BY DEF Init, FillInv, FillsOnlyForStored, NoChanges
  <1>2. CatalogInv /\ FillInv /\ [Next]_vars => FillInv'
    <2> SUFFICES ASSUME CatalogInv, FillInv, [Next]_vars PROVE FillInv'
      OBVIOUS
    <2>1. CASE UNCHANGED vars
      BY <2>1 DEF vars, dbVars, FillInv, FillsOnlyForStored, Due, StoredMarkets
    <2> QED
      BY <2>1, LogFills, CommitFills, OtherFills DEF Next
  <1> QED
    BY <1>1, <1>2, CatalogAlways, PTL DEF Spec

\* While rebuilds succeed no fill of a market is recorded whose launch is not
\* stored, whatever is skipped and whatever fails (Route, CommitBlock).
THEOREM FillsHaveLaunches ==
  ASSUME ~MayNotRestore PROVE Spec => []FillsOnlyForStored
  <1>1. FillInv => FillsOnlyForStored
    BY DEF FillInv
  <1> QED
    BY <1>1, FillAlways, PTL

-----------------------------------------------------------------------------
(* Types *)

\* What Types leaves open: the bounds, and what the markets and fills are made of.
Bounds ==
  /\ fills \subseteq (0 .. MaxBlocks) \X (1 .. MaxEvents) \X Markets
  /\ number \in 0 .. MaxBlocks /\ (pc = "block" => number < MaxBlocks)
  /\ faults \in 0 .. MaxFaults
  /\ existing \subseteq Markets /\ registered \subseteq Markets
  /\ (pc # "block" => block = <<>>) /\ Len(block) <= MaxEvents
  /\ changes.fills \subseteq {number} \X (1 .. Len(block)) \X Markets

\* What is stored, or was ever opened on the chain, is a market.
LEMMA MarketsAre ==
  ASSUME CatalogInv, Bounds
  PROVE  /\ \A t \in Tokens, c \in Categories : Opened(t, c) \in Markets /\ <<t, c>> \in Markets
         /\ StoredMarkets \subseteq Markets /\ OpenedOnChain \subseteq Markets
  <1>1. \A t \in Tokens, c \in Categories : Opened(t, c) \in Markets /\ <<t, c>> \in Markets
    BY DEF Opened, Markets
  <1>2. "pons" \in Categories
    BY DEF Categories
  <1>3. /\ category \in [Tokens -> Categories \cup {"none"}] /\ graduated \subseteq Tokens
        /\ block \in Seq(Launches \cup Graduations \cup Fills)
    BY DEF CatalogInv, Types
  <1>4. StoredMarkets \subseteq Markets
    BY <1>1, <1>2, <1>3 DEF StoredMarkets
  <1>5. OpenedOnChain \subseteq Markets
    <2>1. \A e \in Launches : e.token \in Tokens /\ e.cat \in Categories
      BY DEF Launches
    <2>2. \A e \in Graduations : e.token \in Tokens
      BY DEF Graduations
    <2> QED
      BY <1>1, <1>2, <2>1, <2>2 DEF OpenedOnChain, Bounds
  <1> QED
    BY <1>1, <1>4, <1>5

\* A log makes the block one longer and opens at most a market.
LEMMA LogBounds ==
  ASSUME CatalogInv, Bounds,
         \/ \E t \in Tokens : Graduate(t) \/ \E c \in Categories : Launch(t, c)
         \/ \E m \in Markets : Fill(m)
  PROVE  Bounds'
  <1>1. /\ fills' = fills /\ number' = number /\ faults' = faults /\ existing' = existing
        /\ pc = "block" /\ pc' = "block" /\ Len(block) < MaxEvents
    BY DEF Graduate, Launch, Fill, Seen, dbVars
  <1>2. PICK e : block' = Append(block, e)
    BY DEF Graduate, Launch, Fill, Seen
  <1>3. block \in Seq(Launches \cup Graduations \cup Fills) /\ changes \in ChangeSets
    BY DEF CatalogInv, Types
  <1>4. Len(block') = Len(block) + 1 /\ Len(block) \in Nat
    BY <1>2, <1>3
  <1>5. registered' \subseteq Markets
    <2>1. "pons" \in Categories
      BY DEF Categories
    <2>2. ASSUME NEW t \in Tokens, NEW c \in Categories, Launch(t, c) PROVE registered' \subseteq Markets
      <3>1. registered' = registered \cup {Opened(t, c)} \/ registered' = registered
        BY <2>2 DEF Launch, RegisteredWith
      <3>2. Opened(t, c) \in Markets
        BY MarketsAre
      <3> QED
        BY <3>1, <3>2 DEF Bounds
    <2>3. ASSUME NEW t \in Tokens, Graduate(t) PROVE registered' \subseteq Markets
      BY <2>1, <2>3, MarketsAre DEF Graduate, RegisteredWith, Bounds
    <2>4. ASSUME NEW m \in Markets, Fill(m) PROVE registered' \subseteq Markets
      BY <2>4 DEF Fill, Bounds
    <2> QED
      BY <2>2, <2>3, <2>4
  <1>6. \/ changes'.fills = changes.fills
        \/ \E m \in Markets : changes'.fills = changes.fills \cup {<<number, Len(block) + 1, m>>}
    BY <1>3 DEF Graduate, Launch, Fill, ChangeSets
  <1>7. changes'.fills \subseteq {number} \X (1 .. Len(block) + 1) \X Markets
    <2>1. changes.fills \subseteq {number} \X (1 .. Len(block)) \X Markets
      BY DEF Bounds
    <2>2. 1 .. Len(block) \subseteq 1 .. Len(block) + 1 /\ Len(block) + 1 \in 1 .. Len(block) + 1
      BY <1>4
    <2> QED
      BY <1>6, <2>1, <2>2
  <1> QED
    BY CatalogAssumption, <1>1, <1>4, <1>5, <1>7 DEF Bounds

\* All other steps end a block, or happen between blocks.
LEMMA OtherBounds ==
  ASSUME CatalogInv, Bounds,
         \/ Begin \/ CommitBlock \/ ProcessBlockFails \/ Kill \/ Start
         \/ \E opened \in SUBSET Markets : Skip(opened)
  PROVE  Bounds'
  <1>1. /\ MaxBlocks \in Nat /\ MaxEvents \in Nat /\ MaxFaults \in Nat
        /\ number \in Nat /\ block \in Seq(Launches \cup Graduations \cup Fills)
    BY CatalogAssumption DEF CatalogInv, Types
  <1>2. number' \in 0 .. MaxBlocks /\ (pc' = "block" => number' < MaxBlocks)
    BY <1>1 DEF Bounds, Begin, CommitBlock, ProcessBlockFails, Kill, Start, Skip, dbVars
  <1>3. faults' \in 0 .. MaxFaults
    BY <1>1 DEF Bounds, Begin, CommitBlock, ProcessBlockFails, Kill, Start, Skip
  <1>4. existing' \subseteq Markets
    BY MarketsAre DEF Bounds, Begin, CommitBlock, ProcessBlockFails, Kill, Start, Skip
  <1>5. block' = <<>> /\ changes' = NoChanges
    BY DEF Begin, CommitBlock, ProcessBlockFails, Kill, Start, Skip, Return, Bounds, CatalogInv, Types
  <1>6. fills' \subseteq (0 .. MaxBlocks) \X (1 .. MaxEvents) \X Markets
    <2>1. CASE CommitBlock
      <3>1. 1 .. Len(block) \subseteq 1 .. MaxEvents /\ number \in 0 .. MaxBlocks
        BY <1>1 DEF Bounds
      <3>2. changes.fills \subseteq (0 .. MaxBlocks) \X (1 .. MaxEvents) \X Markets
        BY <3>1 DEF Bounds
      <3> QED
        BY <2>1, <3>2 DEF CommitBlock, Bounds
    <2>2. CASE ~CommitBlock
      BY <2>2 DEF Bounds, Begin, ProcessBlockFails, Kill, Start, Skip, dbVars
    <2> QED
      BY <2>1, <2>2
  <1>7. registered' \subseteq Markets
    <2>1. CASE CommitBlock
      BY <2>1, NothingConflicts DEF CommitBlock, Bounds
    <2>2. CASE ProcessBlockFails
      <3>1. category' = category /\ graduated' = graduated
        BY <2>2 DEF ProcessBlockFails, dbVars
      <3>2. StoredMarkets' = StoredMarkets
        BY <3>1 DEF StoredMarkets
      <3> QED
        BY <2>2, <3>2, MarketsAre DEF ProcessBlockFails, Restore, Bounds
    <2>3. CASE Begin \/ Kill \/ Start \/ \E opened \in SUBSET Markets : Skip(opened)
      BY <2>3, MarketsAre DEF Begin, Kill, Start, Skip, Bounds
    <2> QED
      BY <2>1, <2>2, <2>3
  <1>8. Len(block') = 0 /\ changes'.fills = {}
    BY <1>5 DEF NoChanges
  <1> QED
    BY <1>1, <1>2, <1>3, <1>4, <1>5, <1>6, <1>7, <1>8 DEF Bounds

\* Nothing but the registrations is left of an attempt at a block, and nothing
\* is ever registered or stored that is not a market of a launched token.
THEOREM CatalogTypes == Spec => []TypeOK
  <1>1. Init => Bounds
    BY CatalogAssumption DEF Init, Bounds, NoChanges
  <1>2. CatalogInv /\ Bounds /\ [Next]_vars => Bounds'
    <2> SUFFICES ASSUME CatalogInv, Bounds, [Next]_vars PROVE Bounds'
      OBVIOUS
    <2>1. CASE UNCHANGED vars
      BY <2>1 DEF vars, dbVars, Bounds
    <2> QED
      BY <2>1, LogBounds, OtherBounds DEF Next
  <1> DEFINE Flag == mirrored \in BOOLEAN
  <1>3. Init => Flag
    BY Zenon DEF Init
  <1>4. Flag /\ [Next]_vars => Flag'
    BY Zenon DEF Next, vars, Begin, CommitBlock, ProcessBlockFails, Kill, Start, Skip, Restore, Seen,
                 Launch, Graduate, Fill
  <1>5. CatalogInv /\ Bounds /\ Flag => TypeOK
    <2> SUFFICES ASSUME CatalogInv, Bounds, Flag PROVE TypeOK
      OBVIOUS
    <2>1. /\ changes.launches \subseteq Tokens \X Categories /\ changes.graduations \subseteq Tokens
      BY DEF CatalogInv, Types, ChangeSets
    <2>2. \A t \in graduated : t \in Tokens /\ category[t] = "pons"
      BY DEF CatalogInv, Types
    <2>3. /\ category \in [Tokens -> Categories \cup {"none"}] /\ pc \in {"down", "idle", "block"}
          /\ block \in Seq(Launches \cup Graduations \cup Fills)
          /\ pc # "block" => changes = NoChanges
      BY DEF CatalogInv, Types
    <2> QED
      BY <2>1, <2>2, <2>3, Zenon DEF TypeOK, Bounds
  <1> HIDE DEF Flag
  <1> QED
    BY <1>1, <1>2, <1>3, <1>4, <1>5, CatalogAlways, PTL DEF Spec

-----------------------------------------------------------------------------
(* What a block stores follows from its logs and the rows before it *)

LaunchLog(t, c) == [kind |-> "launch", token |-> t, cat |-> c]
GraduateLog(t) == [kind |-> "graduate", token |-> t]
IsLaunch(e, t) == e.kind = "launch" /\ e.token = t
Launched(t) == \E i \in DOMAIN block : IsLaunch(block[i], t)

\* The first launch of a token in the block is the one that counts.
FirstCounts ==
  \A t \in Tokens : category[t] = "none" /\ Launched(t) =>
    \E i \in DOMAIN block : /\ IsLaunch(block[i], t) /\ block[i].cat = CategoryAfter(t)
                            /\ \A j \in 1 .. i - 1 : ~IsLaunch(block[j], t)

\* The launches and graduations in hand are those of the logs that agree with
\* the category that the token gets.
LaunchesAre ==
  \A t \in Tokens, c \in Categories :
    <<t, c>> \in changes.launches <=>
      c = CategoryAfter(t) /\ \E i \in DOMAIN block : block[i] = LaunchLog(t, c)

Finishes(t, i) ==
  /\ block[i] = GraduateLog(t) /\ CategoryAfter(t) = "pons"
  /\ category[t] = "pons" \/ \E j \in 1 .. i : block[j] = LaunchLog(t, "pons")

GraduationsAre ==
  \A t \in Tokens : t \in changes.graduations <=> \E i \in DOMAIN block : Finishes(t, i)

LogInv == FirstCounts /\ LaunchesAre /\ GraduationsAre

\* The markets of DueMarkets, with the category that the token gets.
MarketsAfter(n) ==
  StoredMarkets
    \cup {Opened(t, CategoryAfter(t)) :
            t \in {u \in Tokens : \E i \in 1 .. n : block[i] = LaunchLog(u, CategoryAfter(u))}}
    \cup {<<t, "pons">> : t \in {u \in Tokens : \E i \in 1 .. n : Finishes(u, i)}}

\* The category that follows from the logs is the one that is stored.
LEMMA DueIsAfter ==
  ASSUME CatalogInv, LogInv, NEW t \in Tokens
  PROVE  DueCategory(t) = CategoryAfter(t)
  <1>1. CASE category[t] # "none"
    BY <1>1 DEF DueCategory, CategoryAfter
  <1>2. CASE category[t] = "none" /\ Launched(t)
    <2>1. PICK i \in DOMAIN block :
            /\ IsLaunch(block[i], t) /\ block[i].cat = CategoryAfter(t)
            /\ \A j \in 1 .. i - 1 : ~IsLaunch(block[j], t)
      BY <1>2 DEF LogInv, FirstCounts
    <2> DEFINE First(k) == /\ block[k].kind = "launch" /\ block[k].token = t
                           /\ \A j \in 1 .. k - 1 : ~(block[j].kind = "launch" /\ block[j].token = t)
    <2>2. First(i)
      BY <2>1 DEF IsLaunch
    <2>3. DOMAIN block \subseteq Nat \ {0}
      BY DEF CatalogInv, Types
    <2>4. ASSUME NEW k \in DOMAIN block, First(k) PROVE k = i
      <3>1. ~(k \in 1 .. i - 1) /\ ~(i \in 1 .. k - 1)
        BY <2>2, <2>4
      <3> QED
        BY <2>3, <3>1
    <2> HIDE DEF First
    <2>5. (CHOOSE k \in DOMAIN block : First(k)) = i
      BY <2>2, <2>4
    <2>6. FirstCategory(t) = block[i].cat
      BY <2>5 DEF FirstCategory, First
    <2> QED
      BY <1>2, <2>1, <2>6 DEF DueCategory, Launched, IsLaunch
  <1>3. CASE category[t] = "none" /\ ~Launched(t)
    <2>1. ASSUME NEW c \in Categories, <<t, c>> \in changes.launches PROVE FALSE
      <3>1. PICK i \in DOMAIN block : block[i] = LaunchLog(t, c)
        BY <2>1 DEF LogInv, LaunchesAre
      <3> QED
        BY <1>3, <3>1 DEF Launched, IsLaunch, LaunchLog
    <2>2. CategoryAfter(t) = "none"
      BY <1>3, <2>1 DEF CategoryAfter, Categories
    <2>3. DueCategory(t) = "none"
      BY <1>3 DEF DueCategory, Launched, IsLaunch
    <2> QED
      BY <2>2, <2>3
  <1> QED
    BY <1>1, <1>2, <1>3

\* So are the markets.
LEMMA DueMarketsAre == ASSUME CatalogInv, LogInv, NEW n PROVE DueMarkets(n) = MarketsAfter(n)
  <1> DEFINE launched == {t \in Tokens : \E i \in 1 .. n :
                            block[i] = [kind |-> "launch", token |-> t, cat |-> DueCategory(t)]}
             finished == {t \in Tokens : \E i \in 1 .. n :
                            /\ block[i] = [kind |-> "graduate", token |-> t]
                            /\ DueCategory(t) = "pons"
                            /\ category[t] = "pons" \/ \E j \in 1 .. i : block[j] =
                                 [kind |-> "launch", token |-> t, cat |-> "pons"]}
  <1>1. \A t \in Tokens : DueCategory(t) = CategoryAfter(t)
    BY DueIsAfter
  <1>2. launched = {t \in Tokens : \E i \in 1 .. n : block[i] = LaunchLog(t, CategoryAfter(t))}
    BY <1>1 DEF LaunchLog
  <1>3. finished = {t \in Tokens : \E i \in 1 .. n : Finishes(t, i)}
    BY <1>1 DEF Finishes, GraduateLog, LaunchLog
  <1>4. DueMarkets(n) = StoredMarkets \cup {Opened(t, DueCategory(t)) : t \in launched}
                                      \cup {<<t, "pons">> : t \in finished}
    BY DEF DueMarkets
  <1> HIDE DEF launched, finished
  <1>5. \A t \in launched : t \in Tokens
    BY <1>2
  <1>6. {Opened(t, DueCategory(t)) : t \in launched} = {Opened(t, CategoryAfter(t)) : t \in launched}
    BY <1>1, <1>5
  <1> QED
    BY <1>2, <1>3, <1>4, <1>6 DEF MarketsAfter

\* After all its logs a block has in hand what is due.
LEMMA AllLogsAreDue ==
  ASSUME CatalogInv, LogInv
  PROVE  MarketsAfter(Len(block)) = Due
  <1>1. DOMAIN block = 1 .. Len(block) /\ changes \in ChangeSets
    BY DEF CatalogInv, Types
  <1>2. {Opened(t, CategoryAfter(t)) : t \in {u \in Tokens :
           \E i \in 1 .. Len(block) : block[i] = LaunchLog(u, CategoryAfter(u))}}
          = {Opened(l[1], l[2]) : l \in changes.launches}
    <2>1. ASSUME NEW t \in Tokens, NEW i \in 1 .. Len(block), block[i] = LaunchLog(t, CategoryAfter(t))
          PROVE  <<t, CategoryAfter(t)>> \in changes.launches
      <3>1. CategoryAfter(t) \in Categories
        <4>1. block[i] \in Launches \cup Graduations \cup Fills
          BY <1>1 DEF CatalogInv, Types
        <4>2. block[i] \in Launches
          BY <2>1, <4>1 DEF LaunchLog, Launches, Graduations, Fills
        <4> QED
          BY <2>1, <4>2 DEF LaunchLog, Launches
      <3> QED
        BY <1>1, <2>1, <3>1 DEF LogInv, LaunchesAre
    <2>2. ASSUME NEW l \in changes.launches
          PROVE  /\ l = <<l[1], l[2]>> /\ l[1] \in Tokens /\ l[2] = CategoryAfter(l[1])
                 /\ \E i \in 1 .. Len(block) : block[i] = LaunchLog(l[1], l[2])
      <3>1. l = <<l[1], l[2]>> /\ l[1] \in Tokens /\ l[2] \in Categories
        BY <1>1 DEF ChangeSets
      <3>2. <<l[1], l[2]>> \in changes.launches
        BY <3>1
      <3> QED
        BY <1>1, <3>1, <3>2 DEF LogInv, LaunchesAre
    <2>3. ASSUME NEW t \in Tokens, NEW i \in 1 .. Len(block), block[i] = LaunchLog(t, CategoryAfter(t))
          PROVE  Opened(t, CategoryAfter(t)) \in {Opened(l[1], l[2]) : l \in changes.launches}
      <3>1. PICK l \in changes.launches : l[1] = t /\ l[2] = CategoryAfter(t)
        BY <2>1, <2>3
      <3> QED
        BY <3>1
    <2>4. ASSUME NEW l \in changes.launches
          PROVE  Opened(l[1], l[2]) \in {Opened(t, CategoryAfter(t)) : t \in {u \in Tokens :
                   \E i \in 1 .. Len(block) : block[i] = LaunchLog(u, CategoryAfter(u))}}
      BY <2>2
    <2> QED
      BY <2>3, <2>4
  <1>3. {t \in Tokens : \E i \in 1 .. Len(block) : Finishes(t, i)} = changes.graduations
    BY <1>1 DEF LogInv, GraduationsAre, ChangeSets
  <1> QED
    BY <1>2, <1>3 DEF MarketsAfter, Due

\* A log is added at the end.
LEMMA AppendedIs ==
  ASSUME CatalogInv, NEW e, block' = Append(block, e)
  PROVE  /\ Len(block) \in Nat /\ DOMAIN block = 1 .. Len(block)
         /\ DOMAIN block' = 1 .. Len(block) + 1 /\ block'[Len(block) + 1] = e
         /\ \A i \in 1 .. Len(block) : block'[i] = block[i]
  <1>1. block \in Seq(Launches \cup Graduations \cup Fills)
    BY DEF CatalogInv, Types
  <1> QED
    BY <1>1

\* As long as tokens that have a category keep it, a log opens nothing earlier.
LEMMA KeptMarkets ==
  ASSUME CatalogInv, LogInv, NEW e, block' = Append(block, e),
         category' = category, graduated' = graduated,
         \A u \in Tokens : category[u] # "none" \/ Launched(u) => CategoryAfter(u)' = CategoryAfter(u)
  PROVE  /\ \A u \in Tokens, i \in 1 .. Len(block) : Finishes(u, i)' <=> Finishes(u, i)
         /\ \A n \in 0 .. Len(block) : MarketsAfter(n)' = MarketsAfter(n)
  <1>1. /\ Len(block) \in Nat /\ DOMAIN block = 1 .. Len(block)
        /\ \A i \in 1 .. Len(block) : block'[i] = block[i]
    BY AppendedIs
  <1>2. ASSUME NEW u \in Tokens, NEW i \in 1 .. Len(block), NEW c, block[i] = LaunchLog(u, c)
        PROVE  Launched(u)
    BY <1>1, <1>2 DEF Launched, IsLaunch, LaunchLog
  <1>3. ASSUME NEW u \in Tokens, NEW i \in 1 .. Len(block) PROVE Finishes(u, i)' <=> Finishes(u, i)
    <2>1. \A j \in 1 .. i : j \in 1 .. Len(block) /\ block'[j] = block[j]
      BY <1>1
    <2>2. category[u] = "pons" \/ (\E j \in 1 .. i : block[j] = LaunchLog(u, "pons"))
            => category[u] # "none" \/ Launched(u)
      BY <1>2, <2>1
    <2>3. Finishes(u, i)' <=>
            /\ block'[i] = GraduateLog(u) /\ CategoryAfter(u)' = "pons"
            /\ category'[u] = "pons" \/ \E j \in 1 .. i : block'[j] = LaunchLog(u, "pons")
      BY DEF Finishes, LaunchLog, GraduateLog
    <2> QED
      BY <1>1, <2>1, <2>2, <2>3 DEF Finishes
  <1>4. ASSUME NEW u \in Tokens, NEW i \in 1 .. Len(block)
        PROVE  /\ block'[i] = LaunchLog(u, CategoryAfter(u)') <=> block[i] = LaunchLog(u, CategoryAfter(u))
               /\ block[i] = LaunchLog(u, CategoryAfter(u)) => CategoryAfter(u)' = CategoryAfter(u)
    BY <1>1, <1>2
  <1>5. ASSUME NEW n \in 0 .. Len(block) PROVE MarketsAfter(n)' = MarketsAfter(n)
    <2> DEFINE Old == {u \in Tokens : \E i \in 1 .. n : block[i] = LaunchLog(u, CategoryAfter(u))}
               New == {u \in Tokens : \E i \in 1 .. n : block'[i] = LaunchLog(u, CategoryAfter(u)')}
    <2>1. 1 .. n \subseteq 1 .. Len(block)
      BY <1>1
    <2>2. New = Old /\ \A u \in Old : CategoryAfter(u)' = CategoryAfter(u)
      BY <1>4, <2>1
    <2>3. {u \in Tokens : \E i \in 1 .. n : Finishes(u, i)'} = {u \in Tokens : \E i \in 1 .. n : Finishes(u, i)}
      BY <1>3, <2>1
    <2>4. StoredMarkets' = StoredMarkets
      BY DEF StoredMarkets
    <2>5. {Opened(t, CategoryAfter(t)') : t \in New} = {Opened(t, CategoryAfter(t)) : t \in Old}
      <3> HIDE DEF New, Old
      <3> QED
        BY <2>2
    <2>6. MarketsAfter(n)' = StoredMarkets'
            \cup {Opened(t, CategoryAfter(t)') : t \in New}
            \cup {<<t, "pons">> : t \in {u \in Tokens : \E i \in 1 .. n : Finishes(u, i)'}}
      BY Zenon DEF MarketsAfter, LaunchLog, Opened
    <2>7. MarketsAfter(n) = StoredMarkets
            \cup {Opened(t, CategoryAfter(t)) : t \in Old}
            \cup {<<t, "pons">> : t \in {u \in Tokens : \E i \in 1 .. n : Finishes(u, i)}}
      BY Zenon DEF MarketsAfter
    <2> HIDE DEF New, Old
    <2> QED
      BY <2>3, <2>4, <2>5, <2>6, <2>7
  <1> QED
    BY <1>3, <1>5

\* A launch is accepted if its category is the one that the token then gets.
LEMMA LaunchIsFirst ==
  ASSUME CatalogInv, LogInv, NEW t \in Tokens, NEW c \in Categories, Launch(t, c)
  PROVE  /\ \A u \in Tokens :
              u # t \/ category[u] # "none" \/ Launched(u) => CategoryAfter(u)' = CategoryAfter(u)
         /\ Accepted(t, c) <=> CategoryAfter(t)' = c
         /\ category[t] = "none" /\ ~Launched(t) => Accepted(t, c)
  <1>1. /\ category' = category
        /\ \/ Accepted(t, c) /\ changes' = [changes EXCEPT !.launches = @ \cup {<<t, c>>}]
           \/ ~Accepted(t, c) /\ changes' = changes
    BY DEF Launch, Seen, dbVars
  <1>2. changes \in ChangeSets
    BY DEF CatalogInv, Types
  <1>3. /\ Accepted(t, c) => changes'.launches = changes.launches \cup {<<t, c>>}
        /\ ~Accepted(t, c) => changes'.launches = changes.launches
    BY <1>1, <1>2 DEF ChangeSets
  <1>4. ASSUME NEW u \in Tokens, u # t \/ category[u] # "none" PROVE CategoryAfter(u)' = CategoryAfter(u)
    <2>1. CASE category[u] # "none"
      BY <1>1, <2>1 DEF CategoryAfter
    <2>2. CASE u # t
      <3>1. \A d : <<u, d>> \in changes'.launches <=> <<u, d>> \in changes.launches
        BY <1>3, <2>2
      <3> QED
        BY <1>1, <3>1 DEF CategoryAfter
    <2> QED
      BY <1>4, <2>1, <2>2
  <1>5. Accepted(t, c) => CategoryAfter(t)' = c
    <2> SUFFICES ASSUME Accepted(t, c) PROVE CategoryAfter(t)' = c
      OBVIOUS
    <2>1. <<t, c>> \in changes'.launches
      BY <1>3
    <2>2. c = "pons" \/ c = "o1_crypto"
      BY DEF Categories
    <2>3. ASSUME c # "pons" PROVE <<t, "pons">> \notin changes'.launches
      <3>1. <<t, "pons">> \notin changes.launches
        <4> SUFFICES ASSUME <<t, "pons">> \in changes.launches PROVE FALSE
          OBVIOUS
        <4>1. <<t, "pons">>[1] = t /\ <<t, "pons">>[2] = "pons"
          OBVIOUS
        <4> QED
          BY <2>3, <4>1 DEF Accepted
      <3> QED
        BY <1>3, <2>3, <3>1
    <2>4. category'[t] = "none" \/ category'[t] = c
      BY <1>1 DEF Accepted
    <2> QED
      BY <2>1, <2>2, <2>3, <2>4 DEF CategoryAfter
  <1>6. ~Accepted(t, c) => CategoryAfter(t)' = CategoryAfter(t) /\ CategoryAfter(t) # c
    <2> SUFFICES ASSUME ~Accepted(t, c)
                 PROVE  CategoryAfter(t)' = CategoryAfter(t) /\ CategoryAfter(t) # c
      OBVIOUS
    <2>1. CategoryAfter(t)' = CategoryAfter(t)
      BY <1>1, <1>3 DEF CategoryAfter
    <2>2. CASE category[t] \notin {"none", c}
      BY <2>1, <2>2 DEF CategoryAfter
    <2>3. CASE \E l \in changes.launches : l[1] = t /\ l[2] # c
      BY <2>1, <2>3, LaunchKeepsCategory
    <2> QED
      BY <2>2, <2>3 DEF Accepted
  <1>7. ASSUME category[t] = "none", Launched(t) PROVE CategoryAfter(t)' = CategoryAfter(t)
    <2>1. CASE ~Accepted(t, c)
      BY <1>6, <2>1
    <2>2. CASE Accepted(t, c)
      <3>1. PICK i \in DOMAIN block : IsLaunch(block[i], t) /\ block[i].cat = CategoryAfter(t)
        BY <1>7 DEF LogInv, FirstCounts
      <3>2. block[i] = LaunchLog(t, CategoryAfter(t)) /\ CategoryAfter(t) \in Categories
        <4>1. block[i] \in Launches \cup Graduations \cup Fills
          BY DEF CatalogInv, Types
        <4>2. block[i] \in Launches
          BY <3>1, <4>1 DEF IsLaunch, Launches, Graduations, Fills
        <4> QED
          BY <3>1, <4>2 DEF IsLaunch, Launches, LaunchLog
      <3>3. <<t, CategoryAfter(t)>> \in changes.launches
        BY <3>2 DEF LogInv, LaunchesAre
      <3>4. CategoryAfter(t) = c
        <4> DEFINE l == <<t, CategoryAfter(t)>>
        <4>1. l[1] = t /\ l[2] = CategoryAfter(t) /\ l \in changes.launches
          BY <3>3
        <4> HIDE DEF l
        <4> QED
          BY <2>2, <4>1 DEF Accepted
      <3> QED
        BY <1>5, <2>2, <3>4
    <2> QED
      BY <2>1, <2>2
  <1>8. ASSUME category[t] = "none", ~Launched(t) PROVE Accepted(t, c)
    <2> SUFFICES ASSUME NEW l \in changes.launches, l[1] = t PROVE FALSE
      BY <1>8 DEF Accepted
    <2>1. l = <<t, l[2]>> /\ l[2] \in Categories
      BY <1>2 DEF ChangeSets
    <2>2. \E i \in DOMAIN block : block[i] = LaunchLog(t, l[2])
      BY <2>1 DEF LogInv, LaunchesAre
    <2> QED
      BY <1>8, <2>2 DEF Launched, IsLaunch, LaunchLog
  <1> QED
    BY <1>4, <1>5, <1>6, <1>7, <1>8

\* A launch is in hand with the category that the token gets.
LEMMA LaunchLogs ==
  ASSUME CatalogInv, LogInv, NEW t \in Tokens, NEW c \in Categories, Launch(t, c)
  PROVE  LogInv'
  <1> DEFINE e == LaunchLog(t, c)
  <1>0. PICK z : z = Len(block) + 1
    OBVIOUS
  <1>1. /\ category' = category /\ graduated' = graduated /\ block' = Append(block, e)
        /\ \/ Accepted(t, c) /\ changes' = [changes EXCEPT !.launches = @ \cup {<<t, c>>}]
           \/ ~Accepted(t, c) /\ changes' = changes
    BY DEF Launch, Seen, dbVars, LaunchLog
  <1>2. changes \in ChangeSets
    BY DEF CatalogInv, Types
  <1>3. /\ Accepted(t, c) => changes'.launches = changes.launches \cup {<<t, c>>}
        /\ ~Accepted(t, c) => changes'.launches = changes.launches
        /\ changes'.graduations = changes.graduations
    BY <1>1, <1>2 DEF ChangeSets
  <1>4. /\ Len(block) \in Nat /\ DOMAIN block = 1 .. Len(block) /\ z = Len(block) + 1
        /\ DOMAIN block' = 1 .. z /\ block'[z] = e
        /\ \A i \in 1 .. Len(block) : block'[i] = block[i]
    BY <1>0, <1>1, AppendedIs
  <1>5. /\ \A u \in Tokens :
             u # t \/ category[u] # "none" \/ Launched(u) => CategoryAfter(u)' = CategoryAfter(u)
        /\ Accepted(t, c) <=> CategoryAfter(t)' = c
        /\ category[t] = "none" /\ ~Launched(t) => Accepted(t, c)
    BY LaunchIsFirst
  <1>6. IsLaunch(e, t) /\ \A u : u # t => ~IsLaunch(e, u)
    BY DEF IsLaunch, LaunchLog
  <1>7. \A u, d : e = LaunchLog(u, d) <=> u = t /\ d = c
    BY DEF LaunchLog
  <1>8. \A u : e # GraduateLog(u)
    BY DEF LaunchLog, GraduateLog
  <1> HIDE DEF e
  <1>9. FirstCounts'
    <2> SUFFICES ASSUME NEW u \in Tokens, category[u] = "none", Launched(u)'
                 PROVE  \E i \in 1 .. z : /\ IsLaunch(block'[i], u) /\ block'[i].cat = CategoryAfter(u)'
                                          /\ \A j \in 1 .. i - 1 : ~IsLaunch(block'[j], u)
      <3>1. category' = category /\ DOMAIN block' = 1 .. z
        BY <1>1, <1>4
      <3>2. FirstCounts' <=> \A v \in Tokens : category'[v] = "none" /\ Launched(v)' =>
              \E i \in DOMAIN block' : /\ IsLaunch(block'[i], v) /\ block'[i].cat = CategoryAfter(v)'
                                       /\ \A j \in 1 .. i - 1 : ~IsLaunch(block'[j], v)
        BY Zenon DEF FirstCounts, IsLaunch
      <3> QED
        BY <3>1, <3>2
    <2>1. CASE Launched(u)
      <3>1. PICK i \in 1 .. Len(block) : /\ IsLaunch(block[i], u) /\ block[i].cat = CategoryAfter(u)
                                         /\ \A j \in 1 .. i - 1 : ~IsLaunch(block[j], u)
        BY <1>4, <2>1 DEF LogInv, FirstCounts
      <3>2. i \in 1 .. z /\ \A j \in 1 .. i - 1 : j \in 1 .. Len(block)
        BY <1>4
      <3>3. CategoryAfter(u)' = CategoryAfter(u)
        BY <1>5, <2>1
      <3> QED
        BY <1>4, <3>1, <3>2, <3>3
    <2>2. CASE ~Launched(u)
      <3>1. PICK i \in 1 .. z : IsLaunch(block'[i], u)
        BY <1>4 DEF Launched, IsLaunch
      <3>2. i = z /\ u = t
        <4>1. i \notin 1 .. Len(block)
          BY <1>4, <2>2, <3>1 DEF Launched
        <4>2. i = z
          BY <1>4, <4>1
        <4> QED
          BY <1>4, <1>6, <3>1, <4>2
      <3>3. CategoryAfter(t)' = c
        BY <1>5, <2>2, <3>2
      <3>4. e.cat = c
        BY DEF e, LaunchLog
      <3>5. \A j \in 1 .. z - 1 : j \in 1 .. Len(block)
        BY <1>4
      <3>6. \A j \in 1 .. z - 1 : ~IsLaunch(block'[j], u)
        BY <1>4, <2>2, <3>5 DEF Launched
      <3>7. z \in 1 .. z
        BY <1>4
      <3> QED
        BY <1>4, <1>6, <3>2, <3>3, <3>4, <3>6, <3>7
    <2> QED
      BY <2>1, <2>2
  <1>10. LaunchesAre'
    <2> SUFFICES ASSUME NEW u \in Tokens, NEW d \in Categories
                 PROVE  <<u, d>> \in changes'.launches <=>
                          d = CategoryAfter(u)' /\ \E i \in 1 .. z : block'[i] = LaunchLog(u, d)
      BY <1>4, Zenon DEF LaunchesAre, LaunchLog
    <2>1. (\E i \in 1 .. z : block'[i] = LaunchLog(u, d))
            <=> (u = t /\ d = c) \/ \E i \in 1 .. Len(block) : block[i] = LaunchLog(u, d)
      <3>1. \A i : i \in 1 .. z <=> i \in 1 .. Len(block) \/ i = z
        BY <1>4
      <3> QED
        BY <1>4, <1>7, <3>1
    <2>2. <<u, d>> \in changes.launches <=>
            d = CategoryAfter(u) /\ \E i \in 1 .. Len(block) : block[i] = LaunchLog(u, d)
      BY <1>4 DEF LogInv, LaunchesAre
    <2>3. CASE u = t /\ d = c
      <3>1. ~Accepted(t, c) => <<t, c>> \notin changes.launches
        <4> SUFFICES ASSUME <<t, c>> \in changes.launches, CategoryAfter(t)' # c PROVE FALSE
          BY <1>5
        <4>1. Launched(t) /\ CategoryAfter(t) = c
          BY <1>4, <2>2, <2>3 DEF Launched, IsLaunch, LaunchLog
        <4> QED
          BY <1>5, <4>1
      <3>2. Accepted(t, c) => <<t, c>> \in changes'.launches
        BY <1>3
      <3>3. ~Accepted(t, c) => <<t, c>> \notin changes'.launches
        BY <1>3, <3>1
      <3> QED
        BY <1>5, <2>1, <2>3, <3>2, <3>3
    <2>4. CASE ~(u = t /\ d = c)
      <3>1. <<u, d>> \in changes'.launches <=> <<u, d>> \in changes.launches
        BY <1>3, <2>4
      <3>2. ASSUME NEW i \in 1 .. Len(block), block[i] = LaunchLog(u, d)
            PROVE  CategoryAfter(u)' = CategoryAfter(u)
        <4>1. Launched(u)
          BY <1>4, <3>2 DEF Launched, IsLaunch, LaunchLog
        <4> QED
          BY <1>5, <4>1
      <3> QED
        BY <2>1, <2>2, <2>4, <3>1, <3>2
    <2> QED
      BY <2>3, <2>4
  <1>11. GraduationsAre'
    <2> SUFFICES ASSUME NEW u \in Tokens
                 PROVE  u \in changes'.graduations <=> \E i \in 1 .. z : Finishes(u, i)'
      BY <1>4, Zenon DEF GraduationsAre, Finishes
    <2>1. \A i \in 1 .. Len(block) : Finishes(u, i)' <=> Finishes(u, i)
      BY <1>1, <1>5, KeptMarkets
    <2>2. ~Finishes(u, z)'
      BY <1>4, <1>8 DEF Finishes, GraduateLog
    <2>3. \A i : i \in 1 .. z <=> i \in 1 .. Len(block) \/ i = z
      BY <1>4
    <2>4. u \in changes.graduations <=> \E i \in 1 .. Len(block) : Finishes(u, i)
      BY <1>4 DEF LogInv, GraduationsAre
    <2> QED
      BY <1>3, <2>1, <2>2, <2>3, <2>4
  <1> QED
    BY <1>9, <1>10, <1>11 DEF LogInv

\* A graduation is in hand if its token's launch as a Pons token is known by then.
LEMMA GraduateLogs ==
  ASSUME CatalogInv, LogInv,
         \/ \E t \in Tokens : Graduate(t)
         \/ \E m \in Markets : Fill(m)
  PROVE  LogInv' /\ \A u \in Tokens : CategoryAfter(u)' = CategoryAfter(u)
  <1>0. PICK z : z = Len(block) + 1
    OBVIOUS
  <1>1. category' = category /\ graduated' = graduated
    BY DEF Graduate, Fill, Seen, dbVars
  <1>2. changes \in ChangeSets
    BY DEF CatalogInv, Types
  <1>3. changes'.launches = changes.launches
    BY <1>2 DEF Graduate, Fill, ChangeSets
  <1>4. \A u \in Tokens : CategoryAfter(u)' = CategoryAfter(u)
    BY <1>1, <1>3 DEF CategoryAfter
  <1>5. PICK e : /\ block' = Append(block, e)
                 /\ \/ \E t \in Tokens : e = GraduateLog(t) /\ Graduate(t)
                    \/ e.kind = "fill" /\ \E m \in Markets : Fill(m)
    <2>1. ASSUME NEW t \in Tokens, Graduate(t) PROVE block' = Append(block, GraduateLog(t))
      BY <2>1 DEF Graduate, Seen, GraduateLog
    <2>2. ASSUME NEW m \in Markets, Fill(m)
          PROVE  block' = Append(block, [kind |-> "fill", market |-> m])
      BY <2>2 DEF Fill, Seen
    <2>3. \A m : [kind |-> "fill", market |-> m].kind = "fill"
      OBVIOUS
    <2> QED
      BY <2>1, <2>2, <2>3
  <1>6. /\ Len(block) \in Nat /\ DOMAIN block = 1 .. Len(block) /\ z = Len(block) + 1
        /\ DOMAIN block' = 1 .. z /\ block'[z] = e
        /\ \A i \in 1 .. Len(block) : block'[i] = block[i]
    BY <1>0, <1>5, AppendedIs
  <1>7. \A i : i \in 1 .. z <=> i \in 1 .. Len(block) \/ i = z
    BY <1>6
  <1>8. \A u, d : ~IsLaunch(e, u) /\ e # LaunchLog(u, d)
    BY <1>5 DEF GraduateLog, LaunchLog, IsLaunch
  <1>9. FirstCounts'
    <2> SUFFICES ASSUME NEW u \in Tokens, category[u] = "none", Launched(u)'
                 PROVE  \E i \in 1 .. z : /\ IsLaunch(block'[i], u) /\ block'[i].cat = CategoryAfter(u)'
                                          /\ \A j \in 1 .. i - 1 : ~IsLaunch(block'[j], u)
      <3>1. category' = category /\ DOMAIN block' = 1 .. z
        BY <1>1, <1>6
      <3>2. FirstCounts' <=> \A v \in Tokens : category'[v] = "none" /\ Launched(v)' =>
              \E i \in DOMAIN block' : /\ IsLaunch(block'[i], v) /\ block'[i].cat = CategoryAfter(v)'
                                       /\ \A j \in 1 .. i - 1 : ~IsLaunch(block'[j], v)
        BY Zenon DEF FirstCounts, IsLaunch
      <3> QED
        BY <3>1, <3>2
    <2>1. PICK k \in 1 .. z : IsLaunch(block'[k], u)
      BY <1>6 DEF Launched, IsLaunch
    <2>2. k \in 1 .. Len(block)
      BY <1>6, <1>7, <1>8, <2>1
    <2>3. Launched(u)
      BY <1>6, <2>1, <2>2 DEF Launched
    <2>4. PICK i \in 1 .. Len(block) : /\ IsLaunch(block[i], u) /\ block[i].cat = CategoryAfter(u)
                                       /\ \A j \in 1 .. i - 1 : ~IsLaunch(block[j], u)
      BY <1>6, <2>3 DEF LogInv, FirstCounts
    <2>5. i \in 1 .. z /\ \A j \in 1 .. i - 1 : j \in 1 .. Len(block)
      BY <1>6
    <2> QED
      BY <1>4, <1>6, <2>4, <2>5
  <1>10. LaunchesAre'
    <2> SUFFICES ASSUME NEW u \in Tokens, NEW d \in Categories
                 PROVE  <<u, d>> \in changes'.launches <=>
                          d = CategoryAfter(u)' /\ \E i \in 1 .. z : block'[i] = LaunchLog(u, d)
      BY <1>6, Zenon DEF LaunchesAre, LaunchLog
    <2>1. <<u, d>> \in changes.launches <=>
            d = CategoryAfter(u) /\ \E i \in 1 .. Len(block) : block[i] = LaunchLog(u, d)
      BY <1>6 DEF LogInv, LaunchesAre
    <2> QED
      BY <1>3, <1>4, <1>6, <1>7, <1>8, <2>1
  <1>11. GraduationsAre'
    <2> SUFFICES ASSUME NEW u \in Tokens
                 PROVE  u \in changes'.graduations <=> \E i \in 1 .. z : Finishes(u, i)'
      BY <1>6, Zenon DEF GraduationsAre, Finishes
    <2>1. \A i \in 1 .. Len(block) : Finishes(u, i)' <=> Finishes(u, i)
      BY <1>1, <1>4, <1>5, KeptMarkets
    <2>2. u \in changes.graduations <=> \E i \in 1 .. Len(block) : Finishes(u, i)
      BY <1>6 DEF LogInv, GraduationsAre
    <2>3. CASE e.kind = "fill" /\ \E m \in Markets : Fill(m)
      <3>1. changes'.graduations = changes.graduations
        BY <1>2, <2>3 DEF Fill, ChangeSets
      <3>2. ~Finishes(u, z)'
        BY <1>6, <2>3 DEF Finishes, GraduateLog
      <3> QED
        BY <1>7, <2>1, <2>2, <3>1, <3>2
    <2>4. ASSUME NEW t \in Tokens, e = GraduateLog(t), Graduate(t)
          PROVE  u \in changes'.graduations <=> \E i \in 1 .. z : Finishes(u, i)'
      <3>1. u \in changes'.graduations <=> u \in changes.graduations \/ (u = t /\ PonsKnown(t))
        BY <1>2, <2>4 DEF Graduate, ChangeSets
      <3>2. e = GraduateLog(u) <=> u = t
        BY <2>4 DEF GraduateLog
      <3>3. (\E j \in 1 .. z : block'[j] = LaunchLog(u, "pons"))
              <=> \E j \in 1 .. Len(block) : block[j] = LaunchLog(u, "pons")
        BY <1>6, <1>7, <1>8
      <3>4. Finishes(u, z)' <=> /\ u = t /\ CategoryAfter(u) = "pons"
                                /\ \/ category[u] = "pons"
                                   \/ \E j \in 1 .. Len(block) : block[j] = LaunchLog(u, "pons")
        <4>1. Finishes(u, z)' <=>
                /\ block'[z] = GraduateLog(u) /\ CategoryAfter(u)' = "pons"
                /\ category'[u] = "pons" \/ \E j \in 1 .. z : block'[j] = LaunchLog(u, "pons")
          BY <1>6 DEF Finishes, LaunchLog, GraduateLog
        <4> QED
          BY <1>1, <1>4, <1>6, <3>2, <3>3, <4>1
      <3>5. PonsKnown(u) <=> /\ CategoryAfter(u) = "pons"
                             /\ \/ category[u] = "pons"
                                \/ \E j \in 1 .. Len(block) : block[j] = LaunchLog(u, "pons")
        <4>1. "pons" \in Categories
          BY DEF Categories
        <4>2. <<u, "pons">> \in changes.launches <=>
                "pons" = CategoryAfter(u) /\ \E i \in 1 .. Len(block) : block[i] = LaunchLog(u, "pons")
          BY <1>6, <4>1 DEF LogInv, LaunchesAre
        <4>3. category[u] = "pons" => CategoryAfter(u) = "pons"
          BY DEF CategoryAfter
        <4> QED
          BY <4>2, <4>3 DEF PonsKnown
      <3> QED
        BY <1>7, <2>1, <2>2, <3>1, <3>4, <3>5
    <2> QED
      BY <1>5, <2>3, <2>4
  <1> QED
    BY <1>4, <1>9, <1>10, <1>11 DEF LogInv

\* A fill is recorded if its market is open by its place in the block.
IsRouted(i) == block[i].kind = "fill" /\ block[i].market \in MarketsAfter(i - 1)

\* The fills in hand are those of the logs.
FillsAre ==
  changes.fills = {<<number, i, block[i].market>> : i \in {j \in DOMAIN block : IsRouted(j)}}

RowInv == LogInv /\ FillsAre

\* Of the markets that a fill can be of, Route knows exactly those that are due.
RoutesDue == pc = "block" => \A m \in OpenedOnChain : m \in registered <=> m \in Due

\* Every market the chain has is stored, or is due with the block in hand; and a
\* token is stored as what its factory launched.
ChainInv ==
  /\ existing \subseteq StoredMarkets /\ OpenedOnChain \subseteq Due
  /\ \A t \in Tokens, c \in Categories :
       category[t] = c \/ <<t, c>> \in changes.launches
         => t \in IF c = "pons" THEN PonsTokens ELSE O1Tokens

\* What a log opens is added to what the chain has.
LEMMA LogOpens ==
  ASSUME CatalogInv, NEW e, block' = Append(block, e), existing' = existing
  PROVE  OpenedOnChain' =
           OpenedOnChain \cup {Opened(l.token, l.cat) : l \in {e} \cap Launches}
                         \cup {<<l.token, "pons">> : l \in {e} \cap Graduations}
  <1> DEFINE Old == {block[i] : i \in DOMAIN block}
             New == {block'[i] : i \in DOMAIN block'}
  <1>1. New = Old \cup {e}
    <2>1. /\ Len(block) \in Nat /\ DOMAIN block = 1 .. Len(block)
          /\ DOMAIN block' = 1 .. Len(block) + 1 /\ block'[Len(block) + 1] = e
          /\ \A i \in 1 .. Len(block) : block'[i] = block[i]
      BY AppendedIs
    <2>2. \A i : i \in 1 .. Len(block) + 1 <=> i \in 1 .. Len(block) \/ i = Len(block) + 1
      BY <2>1
    <2> QED
      BY <2>1, <2>2
  <1>2. OpenedOnChain = existing \cup {Opened(l.token, l.cat) : l \in Old \cap Launches}
                                 \cup {<<l.token, "pons">> : l \in Old \cap Graduations}
    BY DEF OpenedOnChain
  <1>3. OpenedOnChain' = existing \cup {Opened(l.token, l.cat) : l \in New \cap Launches}
                                  \cup {<<l.token, "pons">> : l \in New \cap Graduations}
    BY Zenon DEF OpenedOnChain, Opened, Launches, Graduations, Tokens, Categories
  <1> HIDE DEF Old, New
  <1> QED
    BY <1>1, <1>2, <1>3

\* Without skips, and with tokens of one factory each, every launch is accepted.
LEMMA LogChain ==
  ASSUME PonsTokens \cap O1Tokens = {}, CatalogInv, ChainInv,
         \/ \E t \in Tokens : Graduate(t) \/ \E c \in Categories : Launch(t, c)
         \/ \E m \in Markets : Fill(m)
  PROVE  ChainInv'
  <1>1. /\ category' = category /\ graduated' = graduated /\ existing' = existing
        /\ changes \in ChangeSets
    BY DEF Graduate, Launch, Fill, Seen, dbVars, CatalogInv, Types
  <1>2. StoredMarkets' = StoredMarkets
    BY <1>1 DEF StoredMarkets
  <1>3. ASSUME NEW t \in Tokens, NEW c \in Categories, Launch(t, c) PROVE ChainInv'
    <2>1. t \in (IF c = "pons" THEN PonsTokens ELSE O1Tokens) /\ block' = Append(block, LaunchLog(t, c))
      BY <1>3 DEF Launch, Seen, LaunchLog
    <2>2. ASSUME NEW d \in Categories, category[t] = d \/ <<t, d>> \in changes.launches PROVE d = c
      <3>1. t \in IF d = "pons" THEN PonsTokens ELSE O1Tokens
        BY <2>2 DEF ChainInv
      <3> QED
        BY <2>1, <3>1 DEF Categories
    <2>3. Accepted(t, c)
      <3>1. category[t] \in {"none", c}
        BY <2>2 DEF CatalogInv, Types
      <3>2. ASSUME NEW l \in changes.launches, l[1] = t PROVE l[2] = c
        <4>1. l = <<t, l[2]>> /\ l[2] \in Categories
          BY <1>1, <3>2 DEF ChangeSets
        <4> QED
          BY <2>2, <4>1
      <3> QED
        BY <3>1, <3>2 DEF Accepted
    <2>4. /\ changes'.launches = changes.launches \cup {<<t, c>>}
          /\ changes'.graduations = changes.graduations
      BY <1>1, <1>3, <2>3 DEF Launch, ChangeSets
    <2>5. Due \cup {Opened(t, c)} \subseteq Due'
      <3>1. <<t, c>>[1] = t /\ <<t, c>>[2] = c
        OBVIOUS
      <3> QED
        BY <1>2, <2>4, <3>1 DEF Due
    <2>6. OpenedOnChain' = OpenedOnChain \cup {Opened(t, c)}
      <3>1. {LaunchLog(t, c)} \cap Launches = {LaunchLog(t, c)} /\ {LaunchLog(t, c)} \cap Graduations = {}
        BY DEF LaunchLog, Launches, Graduations
      <3>2. LaunchLog(t, c).token = t /\ LaunchLog(t, c).cat = c
        BY DEF LaunchLog
      <3> QED
        BY <1>1, <2>1, <3>1, <3>2, LogOpens
    <2> QED
      BY <1>1, <1>2, <2>1, <2>4, <2>5, <2>6 DEF ChainInv
  <1>4. ASSUME NEW t \in Tokens, Graduate(t) PROVE ChainInv'
    <2>1. block' = Append(block, GraduateLog(t)) /\ <<t, "curve">> \in Due
      BY <1>4 DEF Graduate, Seen, GraduateLog, ChainInv
    <2>2. PonsKnown(t)
      <3>1. \A u, c : <<t, "curve">> = Opened(u, c) /\ (c = "none" \/ c \in Categories) => u = t /\ c = "pons"
        BY DEF Opened, Categories
      <3>2. <<t, "curve">> \notin {<<u, "pons">> : u \in graduated \cup changes.graduations}
        OBVIOUS
      <3>3. \A u \in Tokens : category[u] = "none" \/ category[u] \in Categories
        BY DEF CatalogInv, Types
      <3>4. \A l \in changes.launches : l = <<l[1], l[2]>> /\ l[2] \in Categories
        BY <1>1 DEF ChangeSets
      <3> QED
        BY <2>1, <3>1, <3>2, <3>3, <3>4 DEF Due, StoredMarkets, PonsKnown
    <2>3. /\ changes'.launches = changes.launches
          /\ changes'.graduations = changes.graduations \cup {t}
      BY <1>1, <1>4, <2>2 DEF Graduate, ChangeSets
    <2>4. Due \cup {<<t, "pons">>} \subseteq Due'
      BY <1>2, <2>3 DEF Due
    <2>5. OpenedOnChain' = OpenedOnChain \cup {<<t, "pons">>}
      <3>1. {GraduateLog(t)} \cap Launches = {} /\ {GraduateLog(t)} \cap Graduations = {GraduateLog(t)}
        BY DEF GraduateLog, Launches, Graduations
      <3>2. GraduateLog(t).token = t
        BY DEF GraduateLog
      <3> QED
        BY <1>1, <2>1, <3>1, <3>2, LogOpens
    <2> QED
      BY <1>1, <1>2, <2>3, <2>4, <2>5 DEF ChainInv
  <1>5. ASSUME NEW m \in Markets, Fill(m) PROVE ChainInv'
    <2>1. block' = Append(block, [kind |-> "fill", market |-> m])
      BY <1>5 DEF Fill, Seen
    <2>2. changes'.launches = changes.launches /\ changes'.graduations = changes.graduations
      BY <1>1, <1>5 DEF Fill, ChangeSets
    <2>3. Due' = Due
      BY <1>2, <2>2 DEF Due
    <2>4. OpenedOnChain' = OpenedOnChain
      <3> DEFINE e == [kind |-> "fill", market |-> m]
      <3>1. {e} \cap Launches = {} /\ {e} \cap Graduations = {}
        BY DEF Launches, Graduations
      <3>2. block' = Append(block, e)
        BY <2>1
      <3> HIDE DEF e
      <3>3. OpenedOnChain' =
              OpenedOnChain \cup {Opened(l.token, l.cat) : l \in {e} \cap Launches}
                            \cup {<<l.token, "pons">> : l \in {e} \cap Graduations}
        BY <1>1, <3>2, LogOpens
      <3> QED
        BY <3>1, <3>3
    <2> QED
      BY <1>1, <1>2, <2>2, <2>3, <2>4 DEF ChainInv
  <1> QED
    BY <1>3, <1>4, <1>5

\* The end of a block stores what it opened, or leaves chain and rows alone.
LEMMA OtherChain ==
  ASSUME ~MaySkip, CatalogInv, ChainInv,
         \/ Begin \/ CommitBlock \/ ProcessBlockFails \/ Kill \/ Start
         \/ \E opened \in SUBSET Markets : Skip(opened)
  PROVE  ChainInv'
  <1>1. /\ changes' = NoChanges /\ (pc # "block" => changes = NoChanges)
        /\ block' = <<>> \/ block' = block
    BY DEF Begin, CommitBlock, ProcessBlockFails, Kill, Start, Skip, Return, CatalogInv, Types
  <1>2. changes'.launches = {} /\ changes'.graduations = {}
    BY <1>1 DEF NoChanges
  <1>3. Due' = StoredMarkets'
    BY <1>2 DEF Due
  <1>4. CASE CommitBlock
    <2>1. existing' = OpenedOnChain /\ block' = <<>> /\ category' = [t \in Tokens |-> CategoryAfter(t)]
      BY <1>4 DEF CommitBlock, Return
    <2>2. OpenedOnChain' = existing'
      BY <2>1 DEF OpenedOnChain
    <2>3. StoredMarkets' = Due
      BY <1>4, StoredIsDue
    <2>4. ASSUME NEW t \in Tokens, NEW c \in Categories, category'[t] = c
          PROVE  t \in IF c = "pons" THEN PonsTokens ELSE O1Tokens
      <3>1. c # "none"
        BY DEF Categories
      <3>2. category[t] = c \/ <<t, c>> \in changes.launches
        BY <2>1, <2>4, <3>1 DEF CategoryAfter
      <3> QED
        BY <3>2 DEF ChainInv
    <2> QED
      BY <1>2, <1>3, <2>1, <2>2, <2>3, <2>4 DEF ChainInv
  <1>5. CASE ~CommitBlock
    <2>1. category' = category /\ graduated' = graduated /\ existing' = existing
      BY <1>5 DEF Begin, ProcessBlockFails, Kill, Start, Skip, dbVars
    <2>2. StoredMarkets' = StoredMarkets
      BY <2>1 DEF StoredMarkets
    <2>3. OpenedOnChain' \subseteq StoredMarkets
      <3>1. CASE block' = <<>>
        BY <2>1, <3>1 DEF OpenedOnChain, ChainInv
      <3>2. CASE block' = block /\ changes = NoChanges
        <4>1. Due = StoredMarkets
          BY <3>2 DEF Due, NoChanges
        <4>2. OpenedOnChain' = OpenedOnChain
          BY <2>1, <3>2 DEF OpenedOnChain
        <4> QED
          BY <4>1, <4>2 DEF ChainInv
      <3> QED
        BY <1>1, <1>5, <3>1, <3>2 DEF Begin, ProcessBlockFails, Kill, Start, Skip, Return
    <2> QED
      BY <1>2, <1>3, <2>1, <2>2, <2>3 DEF ChainInv
  <1> QED
    BY <1>4, <1>5

\* Route is right if rebuilds succeed; and also if they fail, but no block is
\* skipped and no token is launched by both factories: then every market that
\* a fill can be of is due, so that a stale registration is never asked for.
LEMMA RoutesAlways ==
  ASSUME ~MayNotRestore \/ (~MaySkip /\ PonsTokens \cap O1Tokens = {})
  PROVE  Spec => []RoutesDue
  <1>1. CASE ~MayNotRestore
    <2>1. CatalogInv /\ FillInv => RoutesDue
      BY DEF CatalogInv, Follows, FillInv, RoutesDue
    <2> QED
      BY <1>1, <2>1, CatalogAlways, FillAlways, PTL
  <1>2. CASE ~MaySkip /\ PonsTokens \cap O1Tokens = {}
    <2>1. Init => ChainInv
      BY DEF Init, ChainInv, NoChanges, OpenedOnChain, Categories
    <2>2. CatalogInv /\ ChainInv /\ [Next]_vars => ChainInv'
      <3> SUFFICES ASSUME CatalogInv, ChainInv, [Next]_vars PROVE ChainInv'
        OBVIOUS
      <3>1. CASE UNCHANGED vars
        BY <3>1 DEF vars, dbVars, ChainInv, StoredMarkets, OpenedOnChain, Due
      <3> QED
        BY <1>2, <3>1, LogChain, OtherChain DEF Next
    <2>3. CatalogInv /\ ChainInv => RoutesDue
      BY DEF CatalogInv, Follows, ChainInv, RoutesDue
    <2> QED
      BY <2>1, <2>2, <2>3, CatalogAlways, PTL DEF Spec
  <1> QED
    BY <1>1, <1>2

\* Route sees the markets that the logs before the fill have opened.
LEMMA LogRows ==
  ASSUME CatalogInv, RoutesDue, RowInv,
         \/ \E t \in Tokens : Graduate(t) \/ \E c \in Categories : Launch(t, c)
         \/ \E m \in Markets : Fill(m)
  PROVE  RowInv'
  <1>0. PICK z : z = Len(block) + 1
    OBVIOUS
  <1>1. /\ category' = category /\ graduated' = graduated /\ number' = number
        /\ pc = "block" /\ changes \in ChangeSets
    BY DEF Graduate, Launch, Fill, Seen, dbVars, CatalogInv, Types
  <1>2. /\ LogInv'
        /\ \A u \in Tokens : category[u] # "none" \/ Launched(u) => CategoryAfter(u)' = CategoryAfter(u)
    <2>1. CASE \E t \in Tokens, c \in Categories : Launch(t, c)
      BY <2>1, LaunchLogs, LaunchIsFirst DEF RowInv
    <2>2. CASE (\E t \in Tokens : Graduate(t)) \/ (\E m \in Markets : Fill(m))
      BY <2>2, GraduateLogs DEF RowInv
    <2> QED
      BY <2>1, <2>2
  <1>3. PICK e : /\ block' = Append(block, e)
                 /\ \/ e.kind # "fill" /\ changes'.fills = changes.fills
                    \/ \E m \in Markets : e = [kind |-> "fill", market |-> m] /\ Fill(m)
    <2>1. ASSUME NEW t \in Tokens, NEW c \in Categories, Launch(t, c)
          PROVE  block' = Append(block, LaunchLog(t, c)) /\ changes'.fills = changes.fills
      BY <1>1, <2>1 DEF Launch, Seen, LaunchLog, ChangeSets
    <2>2. ASSUME NEW t \in Tokens, Graduate(t)
          PROVE  block' = Append(block, GraduateLog(t)) /\ changes'.fills = changes.fills
      BY <1>1, <2>2 DEF Graduate, Seen, GraduateLog, ChangeSets
    <2>3. ASSUME NEW m \in Markets, Fill(m)
          PROVE  block' = Append(block, [kind |-> "fill", market |-> m])
      BY <2>3 DEF Fill, Seen
    <2>4. \A t, c : LaunchLog(t, c).kind # "fill" /\ GraduateLog(t).kind # "fill"
      BY DEF LaunchLog, GraduateLog
    <2> QED
      BY <2>1, <2>2, <2>3, <2>4
  <1>4. /\ Len(block) \in Nat /\ DOMAIN block = 1 .. Len(block) /\ z = Len(block) + 1
        /\ DOMAIN block' = 1 .. z /\ block'[z] = e
        /\ \A i \in 1 .. Len(block) : block'[i] = block[i]
    BY <1>0, <1>3, AppendedIs
  <1>5. \A n \in 0 .. Len(block) : MarketsAfter(n)' = MarketsAfter(n)
    BY <1>1, <1>2, <1>3, KeptMarkets DEF RowInv
  <1>6. ASSUME NEW i \in 1 .. Len(block) PROVE IsRouted(i)' <=> IsRouted(i)
    <2>1. i - 1 \in 0 .. Len(block)
      BY <1>4
    <2> QED
      BY <1>4, <1>5, <2>1 DEF IsRouted
  <1>7. IsRouted(z)' <=> e.kind = "fill" /\ e.market \in Due
    <2>1. z - 1 = Len(block) /\ Len(block) \in 0 .. Len(block)
      BY <1>4
    <2>2. MarketsAfter(z - 1)' = Due
      BY <1>5, <2>1, AllLogsAreDue DEF RowInv
    <2> QED
      BY <1>4, <2>2 DEF IsRouted
  <1>8. \A i : i \in 1 .. z <=> i \in 1 .. Len(block) \/ i = z
    BY <1>4
  <1>9. {<<number', i, block'[i].market>> : i \in {j \in 1 .. z : IsRouted(j)'}}
          = changes.fills \cup {<<number, i, e.market>> : i \in {j \in {z} : IsRouted(z)'}}
    <2>1. changes.fills = {<<number, i, block[i].market>> : i \in {j \in 1 .. Len(block) : IsRouted(j)}}
      BY <1>4 DEF RowInv, FillsAre
    <2> QED
      BY <1>1, <1>4, <1>6, <1>8, <2>1
  <1>10. changes'.fills = changes.fills \cup {<<number, i, e.market>> : i \in {j \in {z} : IsRouted(z)'}}
    <2>1. CASE e.kind # "fill" /\ changes'.fills = changes.fills
      BY <1>7, <2>1
    <2>2. ASSUME NEW m \in Markets, e = [kind |-> "fill", market |-> m], Fill(m)
          PROVE  changes'.fills
                   = changes.fills \cup {<<number, i, e.market>> : i \in {j \in {z} : IsRouted(z)'}}
      <3>1. e.kind = "fill" /\ e.market = m
        BY <2>2
      <3>2. changes' = IF m \in registered
                       THEN [changes EXCEPT !.fills = @ \cup {<<number, z, m>>}] ELSE changes
        BY <1>0, <2>2 DEF Fill
      <3>3. changes'.fills = IF m \in registered THEN changes.fills \cup {<<number, z, m>>}
                                                 ELSE changes.fills
        BY <1>1, <3>2 DEF ChangeSets
      <3>4. m \in registered <=> m \in Due
        BY <1>1, <2>2 DEF Fill, RoutesDue
      <3> QED
        BY <1>7, <3>1, <3>3, <3>4
    <2> QED
      BY <1>3, <2>1, <2>2
  <1>11. FillsAre' <=>
           changes'.fills = {<<number', i, block'[i].market>> : i \in {j \in DOMAIN block' : IsRouted(j)'}}
    BY Zenon DEF FillsAre, IsRouted
  <1> QED
    BY <1>2, <1>4, <1>9, <1>10, <1>11 DEF RowInv

\* An attempt that has seen no log has nothing in hand.
LEMMA EmptyRows == block = <<>> /\ changes = NoChanges => RowInv
  BY DEF NoChanges, RowInv, LogInv, FirstCounts, LaunchesAre, GraduationsAre, Launched, FillsAre

\* Every step keeps the changes in hand those of the logs seen so far.
LEMMA NextRows ==
  ASSUME CatalogInv, RoutesDue, RowInv, [Next]_vars,
         pc # "block" => block = <<>>, (block = <<>> /\ changes = NoChanges)' => RowInv'
  PROVE  RowInv'
  <1>1. CASE \/ Begin \/ CommitBlock \/ ProcessBlockFails \/ Kill \/ Start
             \/ \E opened \in SUBSET Markets : Skip(opened)
    BY <1>1 DEF Begin, CommitBlock, ProcessBlockFails, Kill, Start, Skip, Return, CatalogInv, Types
  <1>2. CASE UNCHANGED vars
    <2>1. /\ category' = category /\ graduated' = graduated /\ number' = number
          /\ block' = block /\ changes' = changes
      BY <1>2 DEF vars, dbVars
    <2>2. \A t : CategoryAfter(t)' = CategoryAfter(t) /\ (Launched(t)' <=> Launched(t))
      BY <2>1 DEF CategoryAfter, Launched, IsLaunch
    <2>3. FirstCounts'
      BY <2>1, <2>2 DEF RowInv, LogInv, FirstCounts, IsLaunch
    <2>4. LaunchesAre'
      <3>1. LaunchesAre
        BY DEF RowInv, LogInv
      <3> QED
        BY <2>1, <2>2, <3>1, Zenon DEF LaunchesAre, LaunchLog
    <2>5. \A t, i : Finishes(t, i)' <=> Finishes(t, i)
      BY <2>1, <2>2 DEF Finishes, LaunchLog, GraduateLog
    <2>6. GraduationsAre'
      BY <2>1, <2>5 DEF RowInv, LogInv, GraduationsAre
    <2>7. \A n : MarketsAfter(n)' = MarketsAfter(n)
      BY <2>1, <2>2, <2>5 DEF MarketsAfter, StoredMarkets, LaunchLog
    <2>8. FillsAre'
      BY <2>1, <2>7 DEF RowInv, FillsAre, IsRouted
    <2> QED
      BY <2>3, <2>4, <2>6, <2>8 DEF RowInv, LogInv
  <1> QED
    BY <1>1, <1>2, LogRows DEF Next

\* What a block stores is a function of its logs and the rows stored before it
\* (ProcessBlock, CommitBlock), if rebuilds of the registrations succeed, or if
\* nothing is skipped and each token has one factory.
THEOREM RowsFollow ==
  ASSUME ~MayNotRestore \/ (~MaySkip /\ PonsTokens \cap O1Tokens = {})
  PROVE  Spec => RowsFollowFromStore
  <1> DEFINE Empty == pc # "block" => block = <<>>
             Stored == pc = "block" /\ number' # number =>
                         /\ fills' = fills \cup DueFills
                         /\ \A t \in Tokens : category'[t] = DueCategory(t)
                         /\ StoredMarkets' = DueMarkets(Len(block))
  <1>1. Init => Empty /\ block = <<>> /\ changes = NoChanges
    BY DEF Init
  <1>2. Empty /\ [Next]_vars => Empty'
    BY DEF Next, vars, Begin, CommitBlock, ProcessBlockFails, Kill, Start, Skip, Return, Seen,
           Launch, Graduate, Fill
  <1>3. CatalogInv /\ Empty /\ RoutesDue /\ RowInv /\ [Next]_vars
          /\ ((block = <<>> /\ changes = NoChanges)' => RowInv') => RowInv'
    BY NextRows, Zenon
  <1>4. CatalogInv /\ RowInv /\ [Next]_vars => [Stored]_vars
    <2> SUFFICES ASSUME CatalogInv, RowInv, Next, pc = "block", number' # number
                 PROVE  /\ fills' = fills \cup DueFills
                        /\ \A t \in Tokens : category'[t] = DueCategory(t)
                        /\ StoredMarkets' = DueMarkets(Len(block))
      OBVIOUS
    <2>1. CommitBlock
      BY DEF Next, Begin, ProcessBlockFails, Kill, Start, Skip, Seen, Launch, Graduate, Fill, dbVars
    <2>2. DueFills = changes.fills
      <3>1. \A j : block[j].market \in DueMarkets(j - 1) <=> block[j].market \in MarketsAfter(j - 1)
        BY DueMarketsAre DEF RowInv
      <3> QED
        BY <3>1 DEF DueFills, RowInv, FillsAre, IsRouted
    <2>3. \A t \in Tokens : category'[t] = DueCategory(t)
      BY <2>1, DueIsAfter DEF CommitBlock, RowInv
    <2>4. StoredMarkets' = DueMarkets(Len(block))
      BY <2>1, StoredIsDue, AllLogsAreDue, DueMarketsAre DEF CommitBlock, RowInv
    <2> QED
      BY <2>1, <2>2, <2>3, <2>4 DEF CommitBlock
  <1> HIDE DEF Empty, Stored
  <1>5. Spec => []RowInv
    BY <1>1, <1>2, <1>3, EmptyRows, CatalogAlways, RoutesAlways, PTL DEF Spec
  <1>6. Spec => [][Stored]_vars
    BY <1>4, <1>5, CatalogAlways, PTL DEF Spec
  <1> QED
    BY <1>6, Zenon DEF RowsFollowFromStore, Stored

=============================================================================
