------------------------------ MODULE Catalog ------------------------------
(***************************************************************************)
(* internal/app/process_block.go over contracts.Catalog and the launch     *)
(* tables: while a block's logs are processed in order, launches and       *)
(* graduations register their curves and pools in memory, so that later    *)
(* fills are routed; the rows reach the database at the block's end. A     *)
(* block that fails has the registrations rebuilt from the database, which *)
(* needs RPC and may fail as well. The block is then seen again, possibly  *)
(* with other contents after a reorganisation, or skipped.                 *)
(***************************************************************************)
EXTENDS Naturals, Sequences, FiniteSets

CONSTANTS
  PonsTokens, O1Tokens,  \* the tokens each factory launches, possibly both
  MayNotRestore,  \* may restoreRegistrations fail?
  MaySkip,        \* is skip_history_lag on?
  MaxBlocks,      \* bound: blocks scanned or skipped
  MaxEvents,      \* bound: relevant logs of a block
  MaxFaults       \* bound: failed blocks and kills

ASSUME CatalogAssumption ==
  {MayNotRestore, MaySkip} \subseteq BOOLEAN /\ {MaxBlocks, MaxEvents, MaxFaults} \subseteq Nat

Tokens == PonsTokens \cup O1Tokens

Categories == {"pons", "o1_crypto"}
\* What a fill is routed by: a Pons curve, or a v4 pool of one category.
Markets == Tokens \X ({"curve"} \cup Categories)

Launches    == [kind : {"launch"}, token : Tokens, cat : Categories]
Graduations == [kind : {"graduate"}, token : Tokens]
Fills       == [kind : {"fill"}, market : Markets]

VARIABLES
  category,    \* launch_index, "none" where there is no row
  graduated,   \* tokens of launch_pons with a pool_id
  fills,       \* wallet_events: <<block, log, market>>
  number,      \* the next block
  existing,    \* markets the chain has before that block
  registered,  \* Catalog.curves and Catalog.pools
  mirrored,    \* the last rebuild of registered succeeded
  pc,
  block,       \* the logs of the block processed so far
  changes,     \* BlockChanges: launches, graduations, fills
  faults

dbVars == <<category, graduated, fills, number>>
vars   == <<dbVars, existing, registered, mirrored, pc, block, changes, faults>>

NoChanges == [launches |-> {}, graduations |-> {}, fills |-> {}]

Opened(t, c) == <<t, IF c = "pons" THEN "curve" ELSE c>>

-----------------------------------------------------------------------------
(* The chain: a market is used after it was opened *)

OpenedOnChain ==
  existing \cup {Opened(e.token, e.cat) : e \in {block[i] : i \in DOMAIN block} \cap Launches}
           \cup {<<e.token, "pons">> : e \in {block[i] : i \in DOMAIN block} \cap Graduations}

Seen(e) ==
  /\ pc = "block" /\ Len(block) < MaxEvents
  /\ block' = Append(block, e)
  /\ UNCHANGED <<dbVars, existing, mirrored, pc, faults>>

-----------------------------------------------------------------------------
(* restoreRegistrations *)

\* LoadRegistrations
StoredMarkets ==
  {Opened(t, category[t]) : t \in {u \in Tokens : category[u] # "none"}}
    \cup {<<t, "pons">> : t \in graduated}

RestoreForgotten(ok) == ok /\ registered' = registered /\ mirrored' = TRUE

\* It reads the rows as the block left them, and needs RPC for the decimals.
Restore(ok) ==
  /\ ok \/ MayNotRestore
  /\ registered' = IF ok THEN StoredMarkets' ELSE registered
  /\ mirrored' = ok

-----------------------------------------------------------------------------
(* ProcessBlock *)

ReturnKeepsChanges == block' = <<>> /\ changes' = changes

\* The changes are a local variable.
Return == block' = <<>> /\ changes' = NoChanges

Begin ==
  /\ pc = "idle" /\ number < MaxBlocks
  /\ pc' = "block"
  /\ UNCHANGED <<dbVars, existing, registered, mirrored, block, changes, faults>>

AcceptedByStore(t, c) == category[t] \in {"none", c}

\* acceptLaunchCategory: no other category in the database or in this block.
Accepted(t, c) ==
  /\ category[t] \in {"none", c}
  /\ \A l \in changes.launches : l[1] = t => l[2] = c

RegisteredAtTheEnd(m) == registered

\* RegisterCurve, RegisterPool
RegisteredWith(m) == registered \cup {m}

Launch(t, c) ==
  /\ t \in IF c = "pons" THEN PonsTokens ELSE O1Tokens
  /\ Seen([kind |-> "launch", token |-> t, cat |-> c])
  /\ IF Accepted(t, c)
     THEN /\ registered' = RegisteredWith(Opened(t, c))
          /\ changes' = [changes EXCEPT !.launches = @ \cup {<<t, c>>}]
     ELSE UNCHANGED <<registered, changes>>

\* ponsRegistrationData: launched in this block, or stored.
PonsKnown(t) == <<t, "pons">> \in changes.launches \/ category[t] = "pons"

Graduate(t) ==
  /\ <<t, "curve">> \in OpenedOnChain
  /\ Seen([kind |-> "graduate", token |-> t])
  /\ IF PonsKnown(t)
     THEN /\ registered' = RegisteredWith(<<t, "pons">>)
          /\ changes' = [changes EXCEPT !.graduations = @ \cup {t}]
     ELSE UNCHANGED <<registered, changes>>

\* A buy or sell by a followed wallet; Route ignores unregistered markets.
Fill(m) ==
  /\ m \in OpenedOnChain
  /\ Seen([kind |-> "fill", market |-> m])
  /\ changes' = IF m \in registered
                THEN [changes EXCEPT !.fills = @ \cup {<<number, Len(block) + 1, m>>}]
                ELSE changes
  /\ UNCHANGED registered

\* insertLaunchIndex: Pons launches before o1 launches, the first one stays.
CategoryAfter(t) ==
  IF category[t] # "none" THEN category[t]
  ELSE IF <<t, "pons">> \in changes.launches THEN "pons"
  ELSE IF <<t, "o1_crypto">> \in changes.launches THEN "o1_crypto" ELSE "none"

Conflicts == {l \in changes.launches : CategoryAfter(l[1]) # l[2]}

\* UPDATE launch_pons of the rows that exist.
GraduatedAfter == graduated \cup {t \in changes.graduations : CategoryAfter(t) = "pons"}

CommitBlock ==
  /\ pc = "block"
  /\ category' = [t \in Tokens |-> CategoryAfter(t)]
  /\ graduated' = GraduatedAfter
  /\ fills' = fills \cup changes.fills
  /\ number' = number + 1
  /\ existing' = OpenedOnChain
  /\ IF Conflicts = {} THEN UNCHANGED <<registered, mirrored>>
     ELSE \E ok \in BOOLEAN : Restore(ok)
  /\ pc' = "idle" /\ Return
  /\ UNCHANGED faults

\* A call failed, before or in the commit: nothing is stored, the deferred
\* restoreRegistrations runs, and the block will be fetched again.
ProcessBlockFails ==
  /\ pc = "block"
  /\ faults < MaxFaults /\ faults' = faults + 1
  /\ UNCHANGED <<dbVars, existing>>
  /\ \E ok \in BOOLEAN : Restore(ok)
  /\ pc' = "idle" /\ Return

-----------------------------------------------------------------------------
\* The poller skips history (Scanner): these blocks are never processed.
Skip(opened) ==
  /\ MaySkip /\ pc = "idle" /\ number < MaxBlocks
  /\ \A t \in Tokens : <<t, "pons">> \in opened => <<t, "curve">> \in existing \cup opened
  /\ number' = number + 1
  /\ existing' = existing \cup opened
  /\ UNCHANGED <<category, graduated, fills, registered, mirrored, pc, block, changes, faults>>

Kill ==
  /\ pc # "down"
  /\ faults < MaxFaults /\ faults' = faults + 1
  /\ pc' = "down" /\ registered' = {} /\ Return
  /\ UNCHANGED <<dbVars, existing, mirrored>>

\* New: a start that cannot rebuild the registrations does not come up.
Start ==
  /\ pc = "down"
  /\ pc' = "idle" /\ registered' = StoredMarkets /\ mirrored' = TRUE
  /\ UNCHANGED <<dbVars, existing, block, changes, faults>>

Init ==
  /\ category = [t \in Tokens |-> "none"] /\ graduated = {} /\ fills = {}
  /\ number = 0 /\ existing = {}
  /\ registered = {} /\ mirrored = TRUE
  /\ pc = "down" /\ block = <<>> /\ changes = NoChanges
  /\ faults = 0

Next ==
  \/ Begin \/ CommitBlock \/ ProcessBlockFails \/ Kill \/ Start
  \/ \E t \in Tokens : Graduate(t) \/ \E c \in Categories : Launch(t, c)
  \/ \E m \in Markets : Fill(m)
  \/ \E opened \in SUBSET Markets : Skip(opened)

Spec == Init /\ [][Next]_vars

-----------------------------------------------------------------------------
\* Types; only stored Pons launches have a pool of their own, and nothing but
\* the registrations is left of an attempt at a block.
TypeOK ==
  /\ category \in [Tokens -> Categories \cup {"none"}]
  /\ \A t \in graduated : t \in Tokens /\ category[t] = "pons"
  /\ fills \subseteq (0 .. MaxBlocks) \X (1 .. MaxEvents) \X Markets
  /\ number \in 0 .. MaxBlocks /\ faults \in 0 .. MaxFaults
  /\ existing \subseteq Markets /\ registered \subseteq Markets /\ mirrored \in BOOLEAN
  /\ pc \in {"down", "idle", "block"}
  /\ pc # "block" => block = <<>> /\ changes = NoChanges
  /\ block \in Seq(Launches \cup Graduations \cup Fills) /\ Len(block) <= MaxEvents
  /\ changes.launches \subseteq Tokens \X Categories /\ changes.graduations \subseteq Tokens
  /\ changes.fills \subseteq {number} \X (1 .. Len(block)) \X Markets

\* Between blocks the registrations are those of the stored launches, after
\* any mixture of failed blocks, restarts and skips; should a rebuild fail,
\* none of them is missing all the same (ProcessBlock, restoreRegistrations).
MirrorsStore ==
  pc = "idle" => /\ StoredMarkets \subseteq registered
                 /\ mirrored => registered = StoredMarkets

\* Fills of pools whose launch is not stored are not recorded
\* (docs/功能模块/02-合约目录与分流.md).
FillsOnlyForStored == \A f \in fills : category[f[3][1]] # "none"

\* The filter in front of the block's transaction leaves it nothing to
\* refuse: the conflict branch of CommitBlock never runs for a scanned block.
NoLateConflict == pc = "block" => Conflicts = {}

FirstCategory(t) ==
  LET i == CHOOSE i \in DOMAIN block :
             /\ block[i].kind = "launch" /\ block[i].token = t
             /\ \A j \in 1 .. i - 1 : ~(block[j].kind = "launch" /\ block[j].token = t)
  IN block[i].cat

\* The category of t once the block is stored, from the logs alone.
DueCategory(t) ==
  IF category[t] # "none" THEN category[t]
  ELSE IF \E i \in DOMAIN block : block[i].kind = "launch" /\ block[i].token = t
       THEN FirstCategory(t) ELSE "none"

\* The markets that the stored rows and the block's first n logs open.
DueMarkets(n) ==
  LET launched == {t \in Tokens : \E i \in 1 .. n :
                     block[i] = [kind |-> "launch", token |-> t, cat |-> DueCategory(t)]}
      finished == {t \in Tokens : \E i \in 1 .. n :
                     /\ block[i] = [kind |-> "graduate", token |-> t]
                     /\ DueCategory(t) = "pons"
                     /\ category[t] = "pons" \/ \E j \in 1 .. i : block[j] =
                          [kind |-> "launch", token |-> t, cat |-> "pons"]}
  IN StoredMarkets \cup {Opened(t, DueCategory(t)) : t \in launched}
                   \cup {<<t, "pons">> : t \in finished}

DueFills ==
  {<<number, i, block[i].market>> : i \in
     {j \in DOMAIN block : block[j].kind = "fill" /\ block[j].market \in DueMarkets(j - 1)}}

\* What a block stores is a function of its logs and the rows stored before
\* it: failed attempts, restarts and stale registrations leave no trace. After
\* a failed rebuild that needs tokens of one factory and no skipped blocks.
RowsFollowFromStore ==
  [][pc = "block" /\ number' # number =>
       /\ fills' = fills \cup DueFills
       /\ \A t \in Tokens : category'[t] = DueCategory(t)
       /\ StoredMarkets' = DueMarkets(Len(block))]_vars
=============================================================================
