------------------------------- MODULE Scores -------------------------------
(***************************************************************************)
(* The recalculation of scores: requestScoreAfter and runTicks of          *)
(* internal/app/ticks.go, RecalculateAll of internal/score/score.go and    *)
(* UpdateWalletScore of internal/store/smart_wallets.go. The scanner's     *)
(* goroutine commits sells and counts them; at the threshold it puts a     *)
(* signal in a channel of one place, or drops it when the place is taken.  *)
(* The tick goroutine recalculates wallet by wallet meanwhile.             *)
(* A score is represented by the number of sells of the wallet it was      *)
(* computed from; what the formula makes of them is in Fifo, and the sells  *)
(* that the retention purge takes away are in Retention.                   *)
(***************************************************************************)
EXTENDS Naturals, FiniteSets

CONSTANTS
  Wallets,
  Threshold,  \* 100 sells ask for a recalculation
  MaxSells,   \* bound: sells of a wallet
  MaxBlock,   \* bound: sells of one block
  MaxFaults,  \* bound: failures, restarts and edits of the operator
  Nobody

ScoresAssumption ==
  /\ Threshold \in Nat \ {0} /\ {MaxSells, MaxBlock, MaxFaults} \subseteq Nat
  /\ Nobody \notin Wallets

Levels == {"by score", "by operator"}

VARIABLES
  sells,         \* wallet_events: the stored sells of each wallet
  uncounted,     \* EventInserted of the block that is being committed
  sellSince,     \* App.sellSince
  scoreTrigger,  \* whether the channel holds a signal
  ticking,       \* runTicks: waiting in its select, or recalculating
  todo, wallet,  \* the wallets RecalculateAll has still to do, and its current one
  events,        \* what ScoreEvents read for it: none or a number of sells
  score, level, locked,  \* smart_wallets
  due,           \* the sells each wallet had when the threshold was last reached
  excused,       \* wallets whose recalculation failed, or was lost, since
  faults

scanVars == <<sells, uncounted, sellSince>>
loopVars == <<ticking, todo, wallet, events>>
rowVars  == <<score, level, locked>>
vars     == <<scanVars, scoreTrigger, loopVars, rowVars, due, excused, faults>>

NoEvents == MaxSells + 1

-----------------------------------------------------------------------------
(* The scanner's goroutine *)

\* CommitBlock: the events are visible to readers from here on.
CommitBlock(w, n) ==
  /\ uncounted = 0 /\ sells[w] + n <= MaxSells
  /\ sells' = [sells EXCEPT ![w] = @ + n]
  /\ uncounted' = n
  /\ UNCHANGED <<sellSince, scoreTrigger, loopVars, rowVars, due, excused, faults>>

\* The sells beyond the threshold do not count for the next time.
CountAfterCrossing == 0

\* requestScoreAfter, after the commit.
RequestScoreAfter ==
  /\ uncounted > 0 /\ uncounted' = 0
  /\ \/ /\ sellSince + uncounted < Threshold
        /\ sellSince' = sellSince + uncounted
        /\ UNCHANGED <<scoreTrigger, due, excused>>
     \/ /\ sellSince + uncounted >= Threshold
        /\ sellSince' = CountAfterCrossing
        /\ scoreTrigger' = TRUE
        /\ due' = sells /\ excused' = {}
  /\ UNCHANGED <<sells, loopVars, rowVars, faults>>

-----------------------------------------------------------------------------
(* The tick goroutine *)

\* The whole list, whatever the status of a wallet and its lock.
Listed == Wallets

LoadSmartWallets ==
  \/ todo' = Listed /\ ticking' = "scoring" /\ UNCHANGED <<excused, faults>>
  \/ /\ faults < MaxFaults /\ faults' = faults + 1
     /\ excused' = Wallets
     /\ UNCHANGED <<todo, ticking>>

\* case <-a.scoreTrigger
ScoreOnTrigger ==
  /\ ticking = "select" /\ scoreTrigger
  /\ scoreTrigger' = FALSE
  /\ LoadSmartWallets
  /\ UNCHANGED <<scanVars, wallet, events, rowVars, due>>

\* case <-scoreTick.C: a signal that waits stays where it is.
ScoreOnTick ==
  /\ ticking = "select"
  /\ LoadSmartWallets
  /\ UNCHANGED <<scanVars, scoreTrigger, wallet, events, rowVars, due>>

NextWallet(w) ==
  /\ ticking = "scoring" /\ wallet = Nobody
  /\ wallet' = w /\ todo' = todo \ {w}
  /\ UNCHANGED <<scanVars, scoreTrigger, ticking, events, rowVars, due, excused, faults>>

ScoreEvents ==
  /\ wallet # Nobody /\ events = NoEvents
  /\ events' = sells[wallet]
  /\ UNCHANGED <<scanVars, scoreTrigger, ticking, todo, wallet, rowVars, due, excused, faults>>

\* The list of wallets was read before, and what it said of the lock is old: the
\* row decides (level=CASE WHEN level_locked=1 THEN level ELSE ? END).
LevelAfter(w) == IF locked[w] THEN level[w] ELSE "by score"

UpdateWalletScore ==
  /\ wallet # Nobody /\ events # NoEvents
  /\ score' = [score EXCEPT ![wallet] = events]
  /\ level' = [level EXCEPT ![wallet] = LevelAfter(wallet)]
  /\ wallet' = Nobody /\ events' = NoEvents
  /\ UNCHANGED <<scanVars, scoreTrigger, ticking, todo, locked, due, excused, faults>>

ScoreKept == score

\* ScoreEvents, the replay or the update fails: this wallet is left as it is,
\* the others go on.
WalletFails ==
  /\ wallet # Nobody
  /\ faults < MaxFaults /\ faults' = faults + 1
  /\ score' = ScoreKept
  /\ excused' = excused \cup {wallet}
  /\ wallet' = Nobody /\ events' = NoEvents
  /\ UNCHANGED <<scanVars, scoreTrigger, ticking, todo, level, locked, due>>

Drained == FALSE

\* A signal sent during the recalculation is for the next one.
SignalAfterRun == scoreTrigger

RecalculateAllReturns ==
  /\ ticking = "scoring" /\ todo = {} /\ wallet = Nobody
  /\ ticking' = "select" /\ scoreTrigger' = SignalAfterRun
  /\ UNCHANGED <<scanVars, todo, wallet, events, rowVars, due, excused, faults>>

-----------------------------------------------------------------------------
\* The operator fixes a wallet's level, by SQL, at any time.
LockLevel(w) ==
  /\ ~locked[w] /\ faults < MaxFaults /\ faults' = faults + 1
  /\ locked' = [locked EXCEPT ![w] = TRUE]
  /\ level' = [level EXCEPT ![w] = "by operator"]
  /\ UNCHANGED <<scanVars, scoreTrigger, loopVars, score, due, excused>>

\* Neither the count nor the signal is stored.
Restart ==
  /\ faults < MaxFaults /\ faults' = faults + 1
  /\ uncounted' = 0 /\ sellSince' = 0 /\ scoreTrigger' = FALSE
  /\ ticking' = "select" /\ todo' = {} /\ wallet' = Nobody /\ events' = NoEvents
  /\ excused' = Wallets
  /\ UNCHANGED <<sells, rowVars, due>>

Init ==
  /\ sells = [w \in Wallets |-> 0] /\ uncounted = 0 /\ sellSince = 0
  /\ scoreTrigger = FALSE
  /\ ticking = "select" /\ todo = {} /\ wallet = Nobody /\ events = NoEvents
  /\ score = [w \in Wallets |-> 0] /\ level = [w \in Wallets |-> "by score"]
  /\ locked = [w \in Wallets |-> FALSE]
  /\ due = [w \in Wallets |-> 0] /\ excused = {} /\ faults = 0

Recalculate ==
  (\E w \in todo : NextWallet(w)) \/ ScoreEvents \/ UpdateWalletScore \/ RecalculateAllReturns

Next ==
  \/ \E w \in Wallets, n \in 1 .. MaxBlock : CommitBlock(w, n)
  \/ RequestScoreAfter
  \/ ScoreOnTrigger \/ ScoreOnTick \/ Recalculate \/ WalletFails
  \/ (\E w \in Wallets : LockLevel(w)) \/ Restart

Spec == Init /\ [][Next]_vars

\* RecalculateAll goes on, the block's count is taken, the hourly tick comes
\* again and again, and a select whose case is ready again and again takes it.
Fairness ==
  /\ WF_vars(RequestScoreAfter) /\ WF_vars(Recalculate)
  /\ SF_vars(ScoreOnTick) /\ SF_vars(ScoreOnTrigger)

FairSpec == Spec /\ Fairness

-----------------------------------------------------------------------------
\* Types; a score is only ever computed from sells the wallet has.
TypeOK ==
  /\ sells \in [Wallets -> 0 .. MaxSells] /\ uncounted \in 0 .. MaxBlock
  /\ sellSince \in 0 .. Threshold - 1 /\ scoreTrigger \in BOOLEAN
  /\ ticking \in {"select", "scoring"} /\ todo \subseteq Wallets
  /\ wallet \in Wallets \cup {Nobody} /\ events \in 0 .. NoEvents
  /\ (events # NoEvents => wallet # Nobody /\ events <= sells[wallet])
  /\ level \in [Wallets -> Levels] /\ locked \in [Wallets -> BOOLEAN]
  /\ \A w \in Wallets : score[w] <= sells[w] /\ due[w] <= sells[w]
  /\ excused \subseteq Wallets /\ faults \in 0 .. MaxFaults

\* A signal that is dropped because one is pending loses nothing: as long as a
\* wallet's score does not cover the sells of the last time the threshold was
\* reached, a signal waits in the channel or the recalculation in progress has
\* still to read that wallet's events, or has read them all
\* (requestScoreAfter against RecalculateAll).
PendingCovers ==
  \A w \in Wallets \ excused :
    score[w] < due[w] =>
      \/ scoreTrigger
      \/ w \in todo
      \/ wallet = w /\ (events = NoEvents \/ events >= due[w])

\* The level of a wallet the operator has locked is never overwritten, not even
\* by a recalculation that read the list before the lock (UpdateWalletScore).
LockedLevelStays == \A w \in Wallets : locked[w] => level[w] = "by operator"

\* A score is never replaced by one of fewer sells, in particular not by that
\* of a replay that failed (RecalculateAll).
ScoreMovesForward == [][\A w \in Wallets : score'[w] >= score[w]]_vars

\* When sells stop coming and nothing fails any more, every score covers all
\* sells in the end: by the hourly tick, whatever the count had reached.
ScoresCatchUp == <>[](\A w \in Wallets : score[w] = sells[w])
=============================================================================
