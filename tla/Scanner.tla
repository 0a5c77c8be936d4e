------------------------------ MODULE Scanner ------------------------------
(***************************************************************************)
(* internal/chain/poller.go and reorg.go: one goroutine that polls the     *)
(* head, prefetches a bounded range of blocks on several workers, consumes *)
(* them in ascending order and hands each to ProcessBlock, which commits   *)
(* rows and watermark in one transaction of the serial writer. The chain   *)
(* grows and reorganises meanwhile, RPC calls fail, nodes lag, and the     *)
(* process is stopped or killed anywhere.                                  *)
(***************************************************************************)
EXTENDS Integers, FiniteSets

CONSTANTS
  FromBlock,     \* RH_FROM_BLOCK
  RecentOffset,  \* defaultRecentBlockOffset (10 in the code)
  SkipLag,       \* skip_history_lag, 0 = never skip
  MaxPerTick,    \* RH_MAX_BLOCKS_PER_TICK
  MaxPrefetch,   \* maxBlockPrefetchConcurrency (8 in the code)
  LaggingNodes,  \* may a node answer from an earlier state of the chain?
  MaxHeight,     \* bound: height of the chain
  MaxReorgs,     \* bound: reorganisations
  MaxFaults,     \* bound: failed calls, stops and kills
  NoHash, NoBlock

ASSUME ScannerAssumption ==
  /\ {FromBlock, RecentOffset, SkipLag, MaxHeight, MaxReorgs, MaxFaults} \subseteq Nat
  /\ FromBlock <= MaxHeight
  /\ {MaxPerTick, MaxPrefetch} \subseteq Nat \ {0}
  /\ LaggingNodes \in BOOLEAN

Heights == 0 .. MaxHeight
\* A hash is the number of the reorganisation that first produced the block:
\* the code compares hashes of one height only.
Hashes  == 0 .. MaxReorgs
Blocks  == [num : Heights, hash : Hashes, parent : Hashes \cup {NoHash}]
Marks   == [found : BOOLEAN, last : Heights, hash : Hashes \cup {NoHash}]

ASSUME SentinelAssumption == NoHash \notin Hashes /\ NoBlock \notin Blocks

VARIABLES
  chain, tip, forks, mined,              \* the chain and every block it ever had
  wm, committed, passedOver, logged,     \* database, and what the log announced
  pc,        \* where the poller's goroutine is
  stopping,  \* the root context is cancelled
  mem,       \* Watermark held by processRange
  number, end, block,                    \* its loop and the block in hand
  jobs, inflight, fetched, failed,       \* the prefetch of this round
  request,   \* block whose transaction is queued at the writer
  faults

chainVars == <<chain, tip, forks, mined>>
dbVars    == <<wm, committed, passedOver, logged>>
roundVars == <<number, end, jobs, inflight, fetched, failed>>
vars      == <<chainVars, dbVars, pc, stopping, mem, roundVars, block, request, faults>>

-----------------------------------------------------------------------------
(* The chain, seen through the RPC nodes *)

BlockAt(c, h) == [num |-> h, hash |-> c[h], parent |-> IF h = 0 THEN NoHash ELSE c[h - 1]]

\* What an eth_getBlockByNumber may return for h, null excluded.
Served(h) ==
  IF LaggingNodes THEN {b \in mined : b.num = h}
                  ELSE {BlockAt(chain, k) : k \in {h} \cap 0 .. tip}

\* What an eth_blockNumber may return.
HeadAnswers == IF LaggingNodes THEN 0 .. tip ELSE {tip}

Remember(c, hs) == mined' = IF LaggingNodes THEN mined \cup {BlockAt(c, h) : h \in hs} ELSE mined

Mine ==
  /\ tip < MaxHeight
  /\ tip' = tip + 1
  /\ Remember(chain, {tip + 1})
  /\ UNCHANGED <<chain, forks, dbVars, pc, stopping, mem, roundVars, block, request, faults>>

\* Everything from h upwards is replaced; the new branch ends at t.
Reorg(h, t) ==
  /\ forks < MaxReorgs
  /\ 0 < h /\ h <= t /\ t <= tip
  /\ forks' = forks + 1
  /\ chain' = [k \in Heights |-> IF k >= h THEN forks + 1 ELSE chain[k]]
  /\ tip' = t
  /\ Remember(chain', h .. t)
  /\ UNCHANGED <<dbVars, pc, stopping, mem, roundVars, block, request, faults>>

-----------------------------------------------------------------------------
(* PollOnce *)

StartBlockUnderflow(head, configured) ==
  IF configured # 0 THEN configured ELSE head - RecentOffset

StartBlock(head, configured) ==
  IF configured # 0 THEN configured
  ELSE IF head <= RecentOffset THEN 0 ELSE head - RecentOffset

SkipsHistoryBackwards(head, last) == SkipLag # 0 /\ head > last /\ head - last > SkipLag

SkipsHistory(head, last) ==
  /\ SkipLag # 0
  /\ head > last
  /\ head - last > SkipLag
  /\ StartBlock(head, 0) > last

\* The watermark a poll that saw this head works with.
PolledMark(head) ==
  IF ~wm.found
  THEN [found |-> TRUE, last |-> StartBlock(head, FromBlock), hash |-> NoHash]
  ELSE IF SkipsHistory(head, wm.last)
       THEN [found |-> TRUE, last |-> StartBlock(head, 0), hash |-> NoHash]
       ELSE wm

NextBlockAfter(m) == m.last + 1

NextBlock(m) == IF m.hash = NoHash THEN m.last ELSE m.last + 1

Lesser(a, b) == IF a <= b THEN a ELSE b

\* The lowest height nothing is decided of: what a start or a skip drops.
Unscanned(w) ==
  IF ~w.found THEN 0 ELSE IF w.hash = NoHash THEN w.last ELSE w.last + 1

PollsRegardless == pc = "idle"

\* Run goes on to the next round unless a sleep was ended by the root context.
PollsAgain == pc = "idle" /\ ~stopping

\* LoadWatermark, Head, the watermark of a start or a skip, and the range.
Poll(head) ==
  /\ PollsAgain
  /\ LET m == PolledMark(head) IN
     /\ wm' = m /\ mem' = m
     /\ passedOver' = passedOver \cup (IF m = wm THEN {} ELSE Unscanned(wm) .. m.last - 1)
     /\ logged' = IF m = wm THEN logged ELSE logged \cup {m.last}
     /\ IF NextBlock(m) > head
        THEN UNCHANGED <<pc, roundVars>>
        ELSE /\ pc' = "range"
             /\ number' = NextBlock(m) /\ jobs' = NextBlock(m)
             /\ end' = Lesser(head, NextBlock(m) + MaxPerTick - 1)
             /\ UNCHANGED <<inflight, fetched, failed>>
  /\ UNCHANGED <<chainVars, committed, stopping, block, request, faults>>

-----------------------------------------------------------------------------
(* processRange: the workers *)

InRange == pc \in {"range", "resolve", "process", "commit", "written"}

\* A worker takes the next job; it leaves once the round's context is over.
TakeJob ==
  /\ InRange /\ ~stopping
  /\ jobs <= end /\ Cardinality(inflight) < MaxPrefetch
  /\ inflight' = inflight \cup {jobs}
  /\ jobs' = jobs + 1
  /\ UNCHANGED <<chainVars, dbVars, pc, stopping, mem, number, end, fetched, failed,
                 block, request, faults>>

Fetched(n, b) ==
  /\ n \in inflight
  /\ inflight' = inflight \ {n}
  /\ fetched' = fetched \cup {b}
  /\ UNCHANGED <<chainVars, dbVars, pc, stopping, mem, number, end, jobs, failed,
                 block, request, faults>>

NoAnswer(n) ==
  /\ n \in inflight
  /\ inflight' = inflight \ {n}
  /\ failed' = failed \cup {n}
  /\ UNCHANGED <<chainVars, dbVars, pc, stopping, mem, number, end, jobs, fetched,
                 block, request>>

\* The context was cancelled, or the node does not have the block.
FetchCutShort(n) ==
  /\ stopping \/ pc = "drain" \/ Served(n) = {}
  /\ NoAnswer(n)
  /\ UNCHANGED faults

FetchFailed(n) ==
  /\ faults < MaxFaults /\ faults' = faults + 1
  /\ NoAnswer(n)

-----------------------------------------------------------------------------
(* processRange: the consumer *)

ParentBrokenNever(m, b) == FALSE

\* The block in hand does not continue the watermark.
ParentBroken(m, b) ==
  m.hash # NoHash /\ b.num = m.last + 1 /\ b.parent # m.hash

TakeResult(b) ==
  /\ pc = "range" /\ number <= end
  /\ b.num = number
  /\ block' = b
  /\ pc' = IF ParentBroken(mem, b) THEN "resolve" ELSE "process"
  /\ UNCHANGED <<chainVars, dbVars, stopping, mem, roundVars, request, faults>>

\* The first error in block order cancels the round.
TakeError ==
  /\ pc = "range" /\ number <= end
  /\ number \in failed
  /\ pc' = "drain"
  /\ UNCHANGED <<chainVars, dbVars, stopping, mem, roundVars, block, request, faults>>

ParentIsOld(b, p) == p.hash = mem.hash

\* ResolveCanonicalParent accepts the node's n-1 only as the block's parent.
ParentConfirmed(b, p) == p.hash = b.parent

ReorgMarkTooLow(b, p) == [found |-> TRUE, last |-> p.num, hash |-> NoHash]

ReorgMark(b, p) == [found |-> TRUE, last |-> b.num - 1, hash |-> p.hash]

\* ResolveCanonicalParent, then saveWatermark.
Resolve(p) ==
  /\ pc = "resolve"
  /\ ParentConfirmed(block, p)
  /\ wm' = ReorgMark(block, p) /\ mem' = ReorgMark(block, p)
  /\ logged' = logged \cup {block.num}
  /\ pc' = "process"
  /\ UNCHANGED <<chainVars, committed, passedOver, stopping, roundVars, block, request, faults>>

\* The node has no n-1, or another block there: the round is given up.
ResolveRefused ==
  /\ pc = "resolve"
  /\ \/ Served(number - 1) = {}
     \/ \E p \in Served(number - 1) : ~ParentConfirmed(block, p)
  /\ pc' = "drain"
  /\ UNCHANGED <<chainVars, dbVars, stopping, mem, roundVars, block, request, faults>>

\* ProcessBlock reached CommitBlock: the transaction is queued.
Submit ==
  /\ pc = "process"
  /\ request' = block
  /\ pc' = "commit"
  /\ UNCHANGED <<chainVars, dbVars, stopping, mem, roundVars, block, faults>>

CommitMark(b) == [found |-> TRUE, last |-> b.num, hash |-> b.hash]

\* The writer commits rows and watermark together. Its caller may have left
\* already if the context was cancelled after the transaction began.
WriterCommits ==
  /\ request # NoBlock
  /\ wm' = CommitMark(request)
  /\ committed' = committed \cup {request}
  /\ request' = NoBlock
  /\ pc' = IF pc = "commit" THEN "written" ELSE pc
  /\ UNCHANGED <<chainVars, passedOver, logged, stopping, mem, roundVars, block, faults>>

\* The writer drops a request whose context is cancelled, or rolls it back.
WriterRollsBack ==
  /\ request # NoBlock
  /\ request' = NoBlock
  /\ pc' = IF pc = "commit" THEN "drain" ELSE pc
  /\ IF stopping
     THEN faults' = faults
     ELSE faults < MaxFaults /\ faults' = faults + 1
  /\ UNCHANGED <<chainVars, dbVars, stopping, mem, roundVars, block>>

\* ProcessBlock returned nil: on to the next block.
Advance ==
  /\ pc = "written"
  /\ mem' = CommitMark(block)
  /\ number' = number + 1
  /\ pc' = "range"
  /\ UNCHANGED <<chainVars, dbVars, stopping, end, jobs, inflight, fetched, failed,
                 block, request, faults>>

\* resolve's RPC or save, or anything ProcessBlock does before its commit, fails.
StepFails ==
  /\ pc \in {"resolve", "process"}
  /\ faults < MaxFaults /\ faults' = faults + 1
  /\ pc' = "drain"
  /\ UNCHANGED <<chainVars, dbVars, stopping, mem, roundVars, block, request>>

\* The cancelled root context ends whatever the consumer waits for; a commit
\* that was queued is left to the writer.
Interrupted ==
  /\ stopping
  /\ pc \in {"range", "resolve", "process", "commit"}
  /\ pc' = "drain"
  /\ UNCHANGED <<chainVars, dbVars, stopping, mem, roundVars, block, request, faults>>

RangeDone ==
  /\ pc = "range" /\ number > end
  /\ pc' = "drain"
  /\ UNCHANGED <<chainVars, dbVars, stopping, mem, roundVars, block, request, faults>>

WorkersGone == inflight = {}

\* workers.Wait, then processRange returns and its channels are garbage.
Drained ==
  /\ pc = "drain"
  /\ WorkersGone
  /\ pc' = "idle"
  /\ fetched' = {} /\ failed' = {} /\ block' = NoBlock
  /\ UNCHANGED <<chainVars, dbVars, stopping, mem, number, end, jobs, inflight, request, faults>>

-----------------------------------------------------------------------------
(* The process *)

Start ==
  /\ pc = "down"
  /\ pc' = "idle"
  /\ UNCHANGED <<chainVars, dbVars, stopping, mem, roundVars, block, request, faults>>

Stop ==
  /\ pc # "down" /\ ~stopping
  /\ faults < MaxFaults /\ faults' = faults + 1
  /\ stopping' = TRUE
  /\ UNCHANGED <<chainVars, dbVars, pc, mem, roundVars, block, request>>

Down ==
  /\ pc' = "down" /\ stopping' = FALSE
  /\ inflight' = {} /\ fetched' = {} /\ failed' = {}
  /\ block' = NoBlock /\ request' = NoBlock
  /\ UNCHANGED <<chainVars, dbVars, mem, number, end, jobs>>

\* Run returned, and Store.Close waited for the writer.
Exit ==
  /\ pc = "idle" /\ stopping /\ request = NoBlock
  /\ Down
  /\ UNCHANGED faults

Kill ==
  /\ pc # "down"
  /\ faults < MaxFaults /\ faults' = faults + 1
  /\ Down

-----------------------------------------------------------------------------
Init ==
  /\ chain = [h \in Heights |-> 0] /\ tip \in Heights /\ forks = 0
  /\ mined = IF LaggingNodes THEN {BlockAt(chain, h) : h \in 0 .. tip} ELSE {}
  /\ wm = [found |-> FALSE, last |-> 0, hash |-> NoHash] /\ mem = wm
  /\ committed = {} /\ passedOver = {} /\ logged = {}
  /\ pc = "down" /\ stopping = FALSE
  /\ number = 0 /\ end = 0 /\ jobs = 0 /\ block = NoBlock
  /\ inflight = {} /\ fetched = {} /\ failed = {}
  /\ request = NoBlock /\ faults = 0

Environment == Mine \/ \E h, t \in Heights : Reorg(h, t)

Workers ==
  \/ TakeJob
  \/ \E n \in inflight : FetchCutShort(n) \/ \E b \in Served(n) : Fetched(n, b)

Consumer ==
  \/ \E head \in HeadAnswers : Poll(head)
  \/ \E b \in fetched : TakeResult(b)
  \/ TakeError \/ RangeDone \/ Drained
  \/ \E p \in Served(number - 1) : Resolve(p)
  \/ ResolveRefused
  \/ Submit \/ Advance \/ Interrupted

Failures ==
  \/ \E n \in inflight : FetchFailed(n)
  \/ StepFails \/ WriterRollsBack \/ Stop \/ Kill

Next ==
  \/ Environment \/ Workers \/ Consumer \/ WriterCommits
  \/ Failures \/ Start \/ Exit

Spec == Init /\ [][Next]_vars

\* Goroutines and RPC calls make progress, main is restarted after a stop;
\* what fails, stops or mines is bounded and under no obligation.
Fairness ==
  /\ WF_vars(Workers) /\ WF_vars(Consumer) /\ WF_vars(WriterCommits)
  /\ WF_vars(Start) /\ WF_vars(Exit)

FairSpec == Spec /\ Fairness

-----------------------------------------------------------------------------
\* Types of the scanner's state: no height below 0 or hash out of nowhere.
TypeOK ==
  /\ chain \in [Heights -> Hashes] /\ tip \in Heights /\ forks \in Hashes
  /\ mined \subseteq Blocks
  /\ wm \in Marks /\ mem \in Marks
  /\ committed \subseteq Blocks /\ passedOver \subseteq Heights /\ logged \subseteq Nat
  /\ pc \in {"down", "idle", "range", "resolve", "process", "commit", "written", "drain"}
  /\ stopping \in BOOLEAN
  /\ number \in Nat /\ end \in Heights /\ jobs \in Nat
  /\ block \in Blocks \cup {NoBlock} /\ request \in Blocks \cup {NoBlock}
  /\ inflight \subseteq Heights /\ fetched \subseteq Blocks /\ failed \subseteq Heights
  /\ faults \in 0 .. MaxFaults

\* Between two commits the consumer's copy is the database's watermark, its
\* loop stands at the frontier, and what it hands on continues the watermark;
\* a queued transaction does too, even when its caller has left (processRange).
RoundInv ==
  /\ InRange => mem.found /\ number = NextBlock(mem)
  /\ InRange /\ pc # "written" => mem = wm
  /\ pc \in {"resolve", "process", "commit", "written"} =>
       block \in Blocks /\ block.num = number
  /\ pc = "resolve" => ParentBroken(mem, block)
  /\ pc \in {"process", "commit"} => ~ParentBroken(mem, block)
  /\ pc = "commit" => request = block
  /\ pc = "written" => wm = CommitMark(block)
  /\ request # NoBlock =>
       /\ wm.found /\ request.num = NextBlock(wm) /\ ~ParentBroken(wm, request)
       /\ pc = "commit" \/ (stopping /\ pc \in {"drain", "idle"})

Abs == INSTANCE Ingest WITH
         Heights <- Heights, Hashes <- Hashes, NoHash <- NoHash,
         wm <- wm, committed <- committed, passedOver <- passedOver, logged <- logged

\* Every step of the scanner is a step of Ingest or leaves its state alone,
\* whatever the prefetch, the nodes, a stop or a kill do in between.
RefinesIngest == Abs!Spec

\* See Ingest: no height is lost or scanned twice around stops, kills and
\* skips (poller.go PollOnce).
NoSilentGap == Abs!NoSilentGap

\* See Ingest: retries and reorganisations never record a height twice.
CommittedOnce == Abs!CommittedOnce

\* See Ingest: a fork between recorded neighbours was announced.
ForksAreLogged == Abs!ForksAreLogged

\* Once calls stop failing and the chain rests, the watermark reaches its
\* tip: no reorganisation or stop leaves the scanner stuck on a block (Run).
CatchesUp == <>[](wm.found /\ Unscanned(wm) > tip)

\* A stop ends, wherever it comes: the consumer leaves the result, the RPC or
\* the commit it waits for, the workers it then waits for are cut short, a
\* transaction that is left queued is decided, and no round starts again
\* (processRange: select on ctx.Done, defer workers.Wait; Run, Store.Close).
StopsEnd == stopping ~> pc = "down"
=============================================================================
