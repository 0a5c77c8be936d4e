----------------------------- MODULE Background -----------------------------
(***************************************************************************)
(* The goroutines beside the scanner (internal/app/ticks.go, app.go): the  *)
(* ticks flush prices (DirtySet), recalculate scores (Scores), reload the  *)
(* followed wallets (WalletSnapshot), purge old trades (Retention) and log *)
(* signals (Signals); another goroutine polls the price of ETH             *)
(* (PriceFeed). Each keeps its own state and shares rows with the scanner  *)
(* only, whose steps are part of each module. Neither reads what another   *)
(* writes, so one of them runs in each behaviour, as in Nodes.             *)
(***************************************************************************)
EXTENDS DirtySet

CONSTANTS
  Nobody,
  Wallets, Threshold, MaxSells, MaxBlock,                 \* of Scores
  EOA, Contract, Interval, Slow, MaxEdits,                \* of WalletSnapshot
  RetentionDays, Batch, MaxPerRun, MaxRows, MaxTime,      \* of Retention
  Subjects, SignalCap, Limit, RoundsPerDay, MaxRounds,    \* of Signals
  Poll, Timeout, TTL, Stale, FirstBackoff, MaxBackoff     \* of PriceFeed

VARIABLES
  runs,  \* who moves
  sells, uncounted, sellSince, scoreTrigger, ticking, toScore, wallet, events, score, level,
  locked, due, excused, scoreFaults,
  lists, listAge, shownList, tryAge, okAge, failed, refreshMu, pc, read, launch, listFaults,
  clock, chainTime, rows, inserted, running, cutoff, deleted, outcome, left, purgeFaults,
  now, found, signalSeen, lastLog,
  known, age, lastFailed, fetching, delay, elapsed, backoff, service, upFor, priced

scoreVars  == <<sells, uncounted, sellSince, scoreTrigger, ticking, toScore, wallet, events,
                score, level, locked, due, excused, scoreFaults>>
listVars   == <<lists, listAge, shownList, tryAge, okAge, failed, refreshMu, pc, read, launch,
                listFaults>>
purgeVars  == <<clock, chainTime, rows, inserted, running, cutoff, deleted, outcome, left,
                purgeFaults>>
signalVars == <<now, found, signalSeen, lastLog>>
feedVars   == <<known, age, lastFailed, fetching, delay, elapsed, backoff, service, upFor, priced>>

Score    == INSTANCE Scores WITH todo <- toScore, faults <- scoreFaults
Followed == INSTANCE WalletSnapshot WITH shown <- shownList, faults <- listFaults
Purge    == INSTANCE Retention WITH faults <- purgeFaults
Signal   == INSTANCE Signals WITH Cap <- SignalCap, todo <- found
Feed     == INSTANCE PriceFeed WITH row <- priced

ASSUME BackgroundAssumption ==
  /\ Score!ScoresAssumption /\ Followed!WalletAssumption /\ Purge!RetentionAssumption
  /\ Signal!SignalsAssumption /\ Feed!FeedAssumption

backgroundVars == <<runs, vars, scoreVars, listVars, purgeVars, signalVars, feedVars>>

\* Those that stand still wait in the first of their initial states.
BackgroundInit ==
  /\ runs \in {"prices", "scores", "lists", "purge", "signals", "feed"}
  /\ Init /\ Score!Init /\ Followed!Init /\ Purge!Init /\ Signal!Init /\ Feed!Init
  /\ runs # "lists" => lists = <<[a \in {EOA, Contract} |-> "active"]>>
  /\ runs # "feed" => service = "up"

BackgroundNext ==
  \/ /\ runs = "prices" /\ Next
     /\ UNCHANGED <<runs, scoreVars, listVars, purgeVars, signalVars, feedVars>>
  \/ /\ runs = "scores" /\ Score!Next
     /\ UNCHANGED <<runs, vars, listVars, purgeVars, signalVars, feedVars>>
  \/ /\ runs = "lists" /\ Followed!Next
     /\ UNCHANGED <<runs, vars, scoreVars, purgeVars, signalVars, feedVars>>
  \/ /\ runs = "purge" /\ Purge!Next
     /\ UNCHANGED <<runs, vars, scoreVars, listVars, signalVars, feedVars>>
  \/ /\ runs = "signals" /\ Signal!Next
     /\ UNCHANGED <<runs, vars, scoreVars, listVars, purgeVars, feedVars>>
  \/ /\ runs = "feed" /\ Feed!Next
     /\ UNCHANGED <<runs, vars, scoreVars, listVars, purgeVars, signalVars>>

BackgroundSpec == BackgroundInit /\ [][BackgroundNext]_backgroundVars

\* The fairness of each, for the one that runs; signals and the feed promise
\* nothing that needs any.
FairBackgroundSpec ==
  /\ BackgroundSpec
  /\ \/ runs = "prices" /\ Fairness
     \/ runs = "scores" /\ Score!Fairness
     \/ runs = "lists" /\ Followed!Fairness
     \/ runs = "purge" /\ Purge!Fairness
     \/ runs \in {"signals", "feed"}

-----------------------------------------------------------------------------
\* Types of all of them; the map of dirty prices agrees with its list, and a
\* purge says truly whether it stopped early.
BackgroundTypeOK ==
  /\ TypeOK /\ OrderMatchesItems /\ Purge!LimitedIsTrue
  /\ Score!TypeOK /\ Followed!TypeOK /\ Purge!TypeOK /\ Signal!TypeOK /\ Feed!TypeOK

\* See Scores: a dropped signal loses no recalculation (requestScoreAfter), and
\* none undoes the operator's lock of a level (UpdateWalletScore).
ScoresKeepUp == Score!PendingCovers /\ Score!LockedLevelStays

\* Nothing newer gives way to something older that another goroutine still held:
\* a displayed price (Flush), a score (RecalculateAll), the list of wallets; and
\* a block is matched against a list that is new enough (RefreshIfDue).
NothingGoesBack ==
  DisplayMovesForward /\ Score!ScoreMovesForward /\ Followed!NeverBack /\ Followed!BlockSeesOldEdits

\* See Retention: the purge reaches expired rows only, oldest first.
OldestExpiredGo == Purge!OldestExpiredGo

\* See Signals: a signal is repeated on its day only when the memory overflowed.
RepeatsOnlyOverCap == Signal!RepeatsOnlyOverCap

\* See PriceFeed: a trade loses its dollar price only by a long outage, and none
\* does for long after it (Run, ETHUSD).
PricesSurvive == Feed!OnlyStaleLosesPrices /\ Feed!NewAfterOutage

\* The ticks get their work done in the end, whatever fails in between: scores
\* cover all sells, the last list of wallets is followed, expired trades are gone
\* (runTicks).
TicksCatchUp == Score!ScoresCatchUp /\ Followed!LastListIsShown /\ Purge!ExpiredGo
=============================================================================
