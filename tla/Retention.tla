----------------------------- MODULE Retention ------------------------------
(***************************************************************************)
(* The retention of trades: PurgeExpiredWalletEvents of                    *)
(* internal/store/purge.go, called by purgeEvents on the purge tick        *)
(* (internal/app/ticks.go). A run deletes batch by batch, each batch a job *)
(* of the writer; between two batches blocks are committed, also old ones  *)
(* when the scanner is behind. A row is its chain time and its number,     *)
(* which stands for its id: of one chain time, the order of the ids.       *)
(***************************************************************************)
EXTENDS Naturals, FiniteSets, FiniteSetsExt

CONSTANTS
  RetentionDays, Batch, MaxPerRun,
  MaxRows,  \* bound: rows that are ever inserted
  MaxTime,  \* bound: the clock
  MaxFaults \* bound: failing batches, cancelled runs and restarts

RetentionAssumption ==
  /\ {RetentionDays, Batch, MaxPerRun} \subseteq Nat \ {0}
  /\ {MaxRows, MaxTime, MaxFaults} \subseteq Nat

VARIABLES
  clock,
  chainTime,  \* of the last committed block
  rows,       \* wallet_events
  inserted,   \* how many rows there ever were
  running,    \* a purge runs
  cutoff,     \* result.Cutoff
  deleted,    \* result.Deleted
  outcome,    \* of the last run: done, limited or failed
  left,       \* the rows the commit of the last batch left behind the cutoff
  faults

runVars == <<running, cutoff, deleted, outcome, left>>
vars    == <<clock, chainTime, rows, inserted, runVars, faults>>

Times == 0 .. MaxTime

\* chain_time ASC, id ASC
Before(r, s) == r.time < s.time \/ (r.time = s.time /\ r.id < s.id)

Expired(t) == {r \in rows : r.time < t}

-----------------------------------------------------------------------------
\* A committed block: of any time up to now, and never before a block that was
\* committed earlier.
CommitBlock(t) ==
  /\ inserted < MaxRows /\ t \in chainTime .. clock
  /\ chainTime' = t
  /\ inserted' = inserted + 1
  /\ rows' = rows \cup {[time |-> t, id |-> inserted']}
  /\ UNCHANGED <<clock, runVars, faults>>

Pass ==
  /\ clock < MaxTime /\ clock' = clock + 1
  /\ UNCHANGED <<chainTime, rows, inserted, runVars, faults>>

FirstCutoff == cutoff

NewCutoff == clock - RetentionDays

\* The cutoff is taken once, when the run begins.
Begin ==
  /\ ~running /\ running' = TRUE
  /\ clock >= RetentionDays /\ cutoff' = NewCutoff
  /\ deleted' = 0 /\ left' = {}
  /\ UNCHANGED <<clock, chainTime, rows, inserted, outcome, faults>>

Smaller(a, b) == IF a < b THEN a ELSE b

Size == Smaller(Batch, MaxPerRun - deleted)

NewestOf(set, n) == {r \in set : Cardinality({s \in set : Before(r, s)}) < n}

OldestOf(set, n) == {r \in set : Cardinality({s \in set : Before(s, r)}) < n}

\* Whether the run stops early: asked in the transaction of the last batch.
More(stay) == stay # {}

\* One job of the writer, and what the run does on its answer.
DeleteBatch ==
  /\ running
  /\ LET gone == OldestOf(Expired(cutoff), Size)
         full == deleted + Cardinality(gone) >= MaxPerRun
         stay == Expired(cutoff) \ gone
     IN /\ rows' = rows \ gone
        /\ deleted' = deleted + Cardinality(gone)
        /\ left' = stay
        /\ \/ /\ Cardinality(gone) < Size
              /\ running' = FALSE /\ outcome' = "done"
           \/ /\ Cardinality(gone) = Size /\ full
              /\ running' = FALSE /\ outcome' = IF More(stay) THEN "limited" ELSE "done"
           \/ /\ Cardinality(gone) = Size /\ ~full
              /\ UNCHANGED <<running, outcome>>
  /\ UNCHANGED <<clock, chainTime, inserted, cutoff, faults>>

\* A batch fails, the context is cancelled in the sleep, or the process ends:
\* the batches before stay deleted, nothing is remembered.
Aborted ==
  /\ running /\ faults < MaxFaults /\ faults' = faults + 1
  /\ running' = FALSE /\ outcome' = "failed"
  /\ UNCHANGED <<clock, chainTime, rows, inserted, cutoff, deleted, left>>

Init ==
  /\ clock = 0 /\ chainTime = 0 /\ rows = {} /\ inserted = 0
  /\ running = FALSE /\ cutoff = 0 /\ deleted = 0 /\ outcome = "done" /\ left = {}
  /\ faults = 0

Next ==
  \/ \E t \in Times : CommitBlock(t)
  \/ Pass \/ Begin \/ DeleteBatch \/ Aborted

Spec == Init /\ [][Next]_vars

\* The hourly tick comes again and again, and a run goes on.
Fairness == WF_vars(Begin) /\ WF_vars(DeleteBatch) /\ WF_vars(Pass)

FairSpec == Spec /\ Fairness

-----------------------------------------------------------------------------
\* Types; a run never deletes more than it may.
TypeOK ==
  /\ clock \in Times /\ chainTime \in 0 .. clock /\ inserted \in 0 .. MaxRows
  /\ rows \subseteq [time : Times, id : 1 .. MaxRows]
  /\ running \in BOOLEAN /\ outcome \in {"done", "limited", "failed"}
  /\ cutoff \in Times /\ deleted \in 0 .. MaxPerRun
  /\ faults \in 0 .. MaxFaults

\* A row that leaves was older than the retention when its run began, and every
\* row before it leaves with it or has left (DELETE ... ORDER BY chain_time, id
\* in batches that are cut to what the run may still delete).
OldestExpiredGo ==
  [][\A r \in rows \ rows' :
       /\ r.time < cutoff
       /\ \A s \in rows : Before(s, r) => s \notin rows']_vars

\* "提前停止": a run that returned says that it stopped early exactly when its
\* last commit left an expired row, and otherwise left none (result.Limited).
LimitedIsTrue == ~running /\ outcome # "failed" => (outcome = "limited" <=> left # {})

\* Expired rows go in the end, however many there are and whatever fails.
ExpiredGo == <>[](Expired(clock - RetentionDays) = {})
=============================================================================
