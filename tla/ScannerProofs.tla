--------------------------- MODULE ScannerProofs ---------------------------
(***************************************************************************)
(* Type correctness and the round invariant of the scanner, that it        *)
(* implements Ingest, and the safety properties that follow, for every     *)
(* chain, every tuning of the poller and every bound on faults.            *)
(***************************************************************************)
EXTENDS Scanner, TLAPS

SInv == TypeOK /\ RoundInv

\* What the nodes serve is made of blocks of the requested height.
LEMMA ServedType ==
  ASSUME TypeOK, NEW h \in Int, NEW b \in Served(h)
  PROVE  b \in Blocks /\ b.num = h
  <1> USE ScannerAssumption
  <1>1. CASE LaggingNodes
    BY <1>1 DEF Served, TypeOK
  <1>2. CASE ~LaggingNodes
    <2>1. h \in 0 .. tip /\ tip \in Heights /\ b = BlockAt(chain, h)
      BY <1>2 DEF Served, TypeOK
    <2>2. h \in Heights /\ (h # 0 => h - 1 \in Heights)
      BY <2>1 DEF Heights
    <2>3. chain[h] \in Hashes /\ (h # 0 => chain[h - 1] \in Hashes)
      BY <2>2 DEF TypeOK
    <2> QED
      BY <2>1, <2>2, <2>3 DEF BlockAt, Blocks
  <1> QED
    BY <1>1, <1>2

\* The chain's block of any height is a block.
LEMMA BlockAtType ==
  ASSUME NEW c \in [Heights -> Hashes], NEW h \in Heights
  PROVE  BlockAt(c, h) \in Blocks
  <1>1. h # 0 => h - 1 \in Heights
    BY ScannerAssumption DEF Heights
  <1> QED
    BY <1>1 DEF BlockAt, Blocks

\* A poll starts or skips to a height of the chain, and never backwards.
LEMMA PolledMarkType ==
  ASSUME TypeOK, NEW head \in 0 .. tip
  PROVE  /\ PolledMark(head) \in Marks /\ PolledMark(head).found
         /\ PolledMark(head) # wm =>
              /\ PolledMark(head).hash = NoHash
              /\ PolledMark(head).last >= Unscanned(wm)
  <1> USE ScannerAssumption
  <1>1. tip \in Nat /\ head \in Heights /\ wm.found \in BOOLEAN /\ wm.last \in Nat
    BY DEF TypeOK, Heights, Marks
  <1>2. StartBlock(head, 0) \in Heights /\ StartBlock(head, FromBlock) \in Heights
    BY <1>1 DEF StartBlock, Heights
  <1>3. CASE ~wm.found
    BY <1>2, <1>3 DEF PolledMark, Marks, Unscanned, Heights
  <1>4. CASE wm.found /\ SkipsHistory(head, wm.last)
    BY <1>1, <1>2, <1>4 DEF PolledMark, Marks, Unscanned, Heights, SkipsHistory
  <1>5. CASE wm.found /\ ~SkipsHistory(head, wm.last)
    BY <1>5 DEF PolledMark, TypeOK
  <1> QED
    BY <1>3, <1>4, <1>5

\* The marks written for a reorganisation and for a commit.
LEMMA MarkTypes ==
  ASSUME NEW b \in Blocks
  PROVE  /\ CommitMark(b) \in Marks
         /\ CommitMark(b).hash # NoHash
         /\ NextBlock(CommitMark(b)) = b.num + 1
         /\ \A p \in Blocks : b.num - 1 \in Heights => ReorgMark(b, p) \in Marks
  BY SentinelAssumption DEF CommitMark, ReorgMark, Blocks, Marks, NextBlock

-----------------------------------------------------------------------------
\* A process that has not started satisfies the invariant.
LEMMA InitSInv == Init => SInv
  <1> SUFFICES ASSUME Init PROVE SInv
    OBVIOUS
  <1> USE ScannerAssumption
  <1>1. 0 \in Heights /\ 0 \in Hashes
    BY DEF Heights, Hashes
  <1>2. chain \in [Heights -> Hashes] /\ tip \in Heights
    BY <1>1 DEF Init
  <1>3. mined \subseteq Blocks
    <2>1. 0 .. tip \subseteq Heights
      BY <1>2 DEF Heights
    <2> QED
      BY <2>1, <1>2, BlockAtType DEF Init
  <1>4. TypeOK
    <2>1. wm \in Marks /\ mem \in Marks
      BY <1>1 DEF Init, Marks
    <2>2. forks \in Hashes /\ faults \in 0 .. MaxFaults
      BY <1>1 DEF Init
    <2> QED
      BY <1>1, <1>2, <1>3, <2>1, <2>2 DEF Init, TypeOK
  <1>5. RoundInv
    BY DEF Init, RoundInv, InRange
  <1> QED
    BY <1>4, <1>5 DEF SInv

\* The chain moves without touching the scanner.
LEMMA EnvironmentInv == SInv /\ Environment => SInv'
  <1> SUFFICES ASSUME SInv, Environment PROVE SInv'
    OBVIOUS
  <1> USE ScannerAssumption
  <1>1. chain' \in [Heights -> Hashes] /\ tip' \in Heights /\ forks' \in Hashes /\ mined' \subseteq Blocks
    <2>1. CASE Mine
      <3>1. tip + 1 \in Heights
        BY <2>1 DEF Mine, SInv, TypeOK, Heights
      <3>2. BlockAt(chain, tip + 1) \in Blocks
        BY <3>1, BlockAtType DEF SInv, TypeOK
      <3> QED
        BY <2>1, <3>1, <3>2 DEF Mine, Remember, SInv, TypeOK
    <2>2. ASSUME NEW h \in Heights, NEW t \in Heights, Reorg(h, t)
          PROVE  chain' \in [Heights -> Hashes] /\ tip' \in Heights /\ forks' \in Hashes
                 /\ mined' \subseteq Blocks
      <3>1. forks + 1 \in Hashes
        BY <2>2 DEF Reorg, SInv, TypeOK, Hashes
      <3>2. chain' \in [Heights -> Hashes]
        BY <2>2, <3>1 DEF Reorg, SInv, TypeOK
      <3>3. h .. t \subseteq Heights
        BY DEF Heights
      <3>4. \A k \in h .. t : BlockAt(chain', k) \in Blocks
        BY <3>2, <3>3, BlockAtType
      <3> QED
        BY <2>2, <3>1, <3>2, <3>4 DEF Reorg, Remember, SInv, TypeOK
    <2> QED
      BY <2>1, <2>2 DEF Environment
  <1>2. UNCHANGED <<dbVars, pc, stopping, mem, roundVars, block, request, faults>>
    BY DEF Environment, Mine, Reorg
  <1>3. TypeOK'
    BY <1>1, <1>2 DEF SInv, TypeOK, dbVars, roundVars
  <1>4. RoundInv'
    BY <1>2 DEF SInv, RoundInv, InRange, ParentBroken, CommitMark, NextBlock, dbVars, roundVars
  <1> QED
    BY <1>3, <1>4 DEF SInv

\* A poll leaves the copy and the row equal and the loop at their frontier.
LEMMA PollInv ==
  ASSUME SInv, NEW head \in HeadAnswers, Poll(head)
  PROVE  SInv'
  <1> USE ScannerAssumption
  <1> DEFINE m == PolledMark(head)
  <1>1. head \in 0 .. tip /\ tip \in Heights /\ TypeOK
    BY DEF HeadAnswers, SInv, TypeOK, Heights
  <1>2. m \in Marks /\ m.found /\ m.last \in Heights /\ NextBlock(m) \in Nat
    BY <1>1, PolledMarkType DEF Marks, NextBlock, Heights
  <1> HIDE DEF m
  <1>3. wm' = m /\ mem' = m
    BY DEF Poll, PollsAgain, m
  <1>4. passedOver' \subseteq Heights /\ logged' \subseteq Nat
    <2>1. Unscanned(wm) \in Nat
      BY <1>1 DEF Unscanned, TypeOK, Marks, Heights
    <2>2. Unscanned(wm) .. m.last - 1 \subseteq Heights
      BY <2>1, <1>2 DEF Heights
    <2>3. m.last \in Nat
      BY <1>2 DEF Heights
    <2> QED
      BY <1>1, <2>2, <2>3 DEF Poll, PollsAgain, TypeOK, m
  <1>5. /\ pc' \in {"idle", "range"} /\ number' \in Nat /\ jobs' \in Nat /\ end' \in Heights
        /\ pc' = "range" => number' = NextBlock(m)
    <2>1. CASE NextBlock(m) > head
      BY <2>1, <1>1 DEF Poll, PollsAgain, m, roundVars, TypeOK
    <2>2. CASE ~(NextBlock(m) > head)
      <3>1. Lesser(head, NextBlock(m) + MaxPerTick - 1) \in Heights
        BY <2>2, <1>1, <1>2 DEF Lesser, Heights
      <3> QED
        BY <2>2, <3>1, <1>2 DEF Poll, PollsAgain, m
    <2> QED
      BY <2>1, <2>2
  <1>6. /\ UNCHANGED <<chainVars, committed, stopping, block, request, faults>>
        /\ UNCHANGED <<inflight, fetched, failed>>
        /\ pc = "idle" /\ ~stopping
    BY DEF Poll, PollsAgain, roundVars
  <1>7. TypeOK'
    BY <1>1, <1>2, <1>3, <1>4, <1>5, <1>6 DEF TypeOK, chainVars
  <1>8. RoundInv'
    <2>1. request' = NoBlock
      BY <1>6 DEF SInv, RoundInv
    <2> QED
      BY <1>2, <1>3, <1>5, <2>1 DEF RoundInv, InRange
  <1> QED
    BY <1>7, <1>8 DEF SInv

\* The workers only fill the round with blocks of its heights.
LEMMA WorkersInv ==
  ASSUME SInv,
         \/ Workers
         \/ \E n \in inflight : FetchFailed(n)
  PROVE  SInv'
  <1> USE ScannerAssumption
  <1>1. /\ inflight' \subseteq Heights /\ fetched' \subseteq Blocks /\ failed' \subseteq Heights
        /\ jobs' \in Nat /\ faults' \in 0 .. MaxFaults
    <2>1. CASE TakeJob
      <3>1. jobs \in Heights
        BY <2>1 DEF TakeJob, SInv, TypeOK, Heights
      <3> QED
        BY <2>1, <3>1 DEF TakeJob, SInv, TypeOK
    <2>2. ASSUME NEW n \in inflight, FetchCutShort(n) \/ FetchFailed(n)
          PROVE  /\ inflight' \subseteq Heights /\ fetched' \subseteq Blocks /\ failed' \subseteq Heights
                 /\ jobs' \in Nat /\ faults' \in 0 .. MaxFaults
      BY <2>2 DEF FetchCutShort, FetchFailed, NoAnswer, SInv, TypeOK
    <2>3. ASSUME NEW n \in inflight, NEW b \in Served(n), Fetched(n, b)
          PROVE  /\ inflight' \subseteq Heights /\ fetched' \subseteq Blocks /\ failed' \subseteq Heights
                 /\ jobs' \in Nat /\ faults' \in 0 .. MaxFaults
      <3>1. n \in Int
        BY DEF SInv, TypeOK, Heights
      <3>2. b \in Blocks
        BY <3>1, ServedType DEF SInv
      <3> QED
        BY <2>3, <3>2 DEF Fetched, SInv, TypeOK
    <2> QED
      BY <2>1, <2>2, <2>3 DEF Workers
  <1>2. UNCHANGED <<chainVars, dbVars, pc, stopping, mem, number, end, block, request>>
    BY DEF Workers, TakeJob, FetchCutShort, FetchFailed, NoAnswer, Fetched
  <1>3. TypeOK'
    BY <1>1, <1>2 DEF SInv, TypeOK, chainVars, dbVars
  <1>4. RoundInv'
    BY <1>2 DEF SInv, RoundInv, InRange, ParentBroken, CommitMark, NextBlock, dbVars
  <1> QED
    BY <1>3, <1>4 DEF SInv

\* The consumer hands on a block only if it continues its watermark.
LEMMA TakeResultInv ==
  ASSUME SInv, NEW b \in fetched, TakeResult(b)
  PROVE  SInv'
  <1>1. b \in Blocks
    BY DEF SInv, TypeOK
  <1>2. TypeOK'
    BY <1>1 DEF TakeResult, SInv, TypeOK, chainVars, dbVars, roundVars
  <1>3. RoundInv'
    BY <1>1 DEF TakeResult, SInv, RoundInv, InRange, ParentBroken, CommitMark, NextBlock,
                dbVars, roundVars
  <1> QED
    BY <1>2, <1>3 DEF SInv

\* The steps that only give the round up, or let go of what it held.
LEMMA GiveUpInv ==
  ASSUME SInv,
         \/ TakeError \/ RangeDone \/ Drained \/ ResolveRefused \/ Interrupted
         \/ StepFails \/ Stop
  PROVE  SInv'
  <1> USE ScannerAssumption
  <1>1. TypeOK'
    <2>1. CASE TakeError \/ RangeDone \/ Drained \/ ResolveRefused \/ Interrupted
      BY <2>1 DEF TakeError, RangeDone, Drained, ResolveRefused, Interrupted,
                  SInv, TypeOK, chainVars, dbVars, roundVars
    <2>2. CASE StepFails
      BY <2>2 DEF StepFails, SInv, TypeOK, chainVars, dbVars, roundVars
    <2>3. CASE Stop
      BY <2>3 DEF Stop, SInv, TypeOK, chainVars, dbVars, roundVars
    <2> QED
      BY <2>1, <2>2, <2>3
  <1>2. RoundInv'
    BY DEF TakeError, RangeDone, Drained, ResolveRefused, Interrupted, StepFails, Stop,
           SInv, RoundInv, InRange, ParentBroken, CommitMark, NextBlock, dbVars, roundVars
  <1> QED
    BY <1>1, <1>2 DEF SInv

\* After the re-anchoring the block in hand continues the watermark.
LEMMA ResolveInv ==
  ASSUME SInv, NEW p \in Served(number - 1), Resolve(p)
  PROVE  SInv'
  <1> USE ScannerAssumption
  <1>1. /\ block \in Blocks /\ block.num = number /\ ParentBroken(mem, block)
        /\ mem = wm /\ request = NoBlock /\ number \in Nat
    BY DEF SInv, RoundInv, InRange, Resolve, TypeOK
  <1>2. p \in Blocks
    BY <1>1, ServedType DEF SInv
  <1>3. block.num - 1 \in Heights /\ block.num = wm.last + 1 /\ block.num \in Nat
    BY <1>1 DEF ParentBroken, SInv, TypeOK, Marks, Heights
  <1>4. ReorgMark(block, p) \in Marks
    BY <1>1, <1>2, <1>3, MarkTypes
  <1>5. TypeOK'
    BY <1>3, <1>4 DEF Resolve, SInv, TypeOK, chainVars, roundVars
  <1>6. NextBlock(ReorgMark(block, p)) = number /\ ~ParentBroken(ReorgMark(block, p), block)
    BY <1>1, <1>2, <1>3, SentinelAssumption
       DEF Resolve, ParentConfirmed, ReorgMark, NextBlock, ParentBroken, Blocks
  <1>7. RoundInv'
    <2>1. mem' = ReorgMark(block, p) /\ wm' = mem' /\ pc' = "process" /\ request' = NoBlock
          /\ block' = block /\ number' = number
      BY <1>1 DEF Resolve, roundVars
    <2>2. mem'.found
      BY <2>1 DEF ReorgMark
    <2>3. NextBlock(mem') = number' /\ ~ParentBroken(mem', block')
      BY <1>6, <2>1
    <2> QED
      BY <1>1, <2>1, <2>2, <2>3 DEF RoundInv, InRange
  <1> QED
    BY <1>5, <1>7 DEF SInv

\* The queued transaction is the block in hand.
LEMMA SubmitInv == ASSUME SInv, Submit PROVE SInv'
  <1>1. TypeOK'
    BY DEF Submit, SInv, TypeOK, RoundInv, chainVars, dbVars, roundVars
  <1>2. RoundInv'
    BY DEF Submit, SInv, RoundInv, InRange, ParentBroken, CommitMark, NextBlock,
           chainVars, dbVars, roundVars
  <1> QED
    BY <1>1, <1>2 DEF SInv

\* The writer moves the row to the queued block, or drops it.
LEMMA WriterInv == ASSUME SInv, WriterCommits \/ WriterRollsBack PROVE SInv'
  <1> USE ScannerAssumption
  <1>1. CASE WriterCommits
    <2>1. request \in Blocks /\ CommitMark(request) \in Marks
      BY <1>1, MarkTypes DEF WriterCommits, SInv, TypeOK
    <2>2. TypeOK'
      BY <1>1, <2>1 DEF WriterCommits, SInv, TypeOK, chainVars, roundVars
    <2>3. RoundInv'
      BY <1>1, <2>1 DEF WriterCommits, SInv, RoundInv, InRange, roundVars
    <2> QED
      BY <2>2, <2>3 DEF SInv
  <1>2. CASE WriterRollsBack
    <2>1. TypeOK'
      BY <1>2 DEF WriterRollsBack, SInv, TypeOK, chainVars, dbVars, roundVars
    <2>2. RoundInv'
      BY <1>2 DEF WriterRollsBack, SInv, RoundInv, InRange, dbVars, roundVars
    <2> QED
      BY <2>1, <2>2 DEF SInv
  <1> QED
    BY <1>1, <1>2

\* The copy follows the row after a commit.
LEMMA AdvanceInv == ASSUME SInv, Advance PROVE SInv'
  <1> USE ScannerAssumption
  <1>1. block \in Blocks /\ block.num = number /\ wm = CommitMark(block) /\ request = NoBlock
    BY DEF Advance, SInv, RoundInv
  <1>2. CommitMark(block) \in Marks /\ NextBlock(CommitMark(block)) = number + 1
        /\ CommitMark(block).found
    BY <1>1, MarkTypes DEF CommitMark
  <1>3. TypeOK'
    BY <1>1, <1>2 DEF Advance, SInv, TypeOK, chainVars, dbVars
  <1>4. RoundInv'
    BY <1>1, <1>2 DEF Advance, RoundInv, InRange, dbVars
  <1> QED
    BY <1>3, <1>4 DEF SInv

\* Starting, exiting and being killed leave the row alone.
LEMMA ProcessInv == ASSUME SInv, Start \/ Exit \/ Kill PROVE SInv'
  <1> USE ScannerAssumption
  <1>1. TypeOK'
    <2>1. CASE Start \/ Exit
      BY <2>1 DEF Start, Exit, Down, SInv, TypeOK, chainVars, dbVars, roundVars
    <2>2. CASE Kill
      <3>1. faults' \in 0 .. MaxFaults
        BY <2>2 DEF Kill, SInv, TypeOK
      <3>2. /\ UNCHANGED <<chainVars, dbVars, mem, number, end, jobs>>
            /\ pc' = "down" /\ stopping' = FALSE /\ block' = NoBlock /\ request' = NoBlock
            /\ inflight' = {} /\ fetched' = {} /\ failed' = {}
        BY <2>2 DEF Kill, Down
      <3> QED
        BY <3>1, <3>2 DEF SInv, TypeOK, chainVars, dbVars
    <2> QED
      BY <2>1, <2>2
  <1>2. RoundInv'
    BY DEF Start, Exit, Kill, Down, SInv, RoundInv, InRange, dbVars, roundVars
  <1> QED
    BY <1>1, <1>2 DEF SInv

\* SInv is inductive.
LEMMA NextSInv == SInv /\ [Next]_vars => SInv'
  <1> SUFFICES ASSUME SInv, [Next]_vars PROVE SInv'
    OBVIOUS
  <1>1. CASE UNCHANGED vars
    BY <1>1 DEF SInv, TypeOK, RoundInv, InRange, ParentBroken, CommitMark, NextBlock,
                vars, chainVars, dbVars, roundVars
  <1>2. CASE Next
    BY <1>2, EnvironmentInv, PollInv, WorkersInv, TakeResultInv, GiveUpInv, ResolveInv, SubmitInv,
       WriterInv, AdvanceInv, ProcessInv DEF Next, Consumer, Failures
  <1> QED
    BY <1>1, <1>2

\* The scanner's variables keep their types, and between two commits its copy
\* of the watermark, its loop and the queued transaction agree with the
\* database, under every interleaving of workers, writer, stops and kills.
THEOREM ScannerRounds == Spec => [](TypeOK /\ RoundInv)
  <1> QED
    BY InitSInv, NextSInv, PTL DEF Spec, SInv

-----------------------------------------------------------------------------
(* The scanner implements Ingest *)

\* The empty database is the initial state of Ingest.
LEMMA AbsInit == Init => Abs!Init
  <1>1. 0 \in Heights
    BY ScannerAssumption DEF Heights
  <1> QED
    BY <1>1 DEF Init, Abs!Init, Abs!Marks, Marks

\* What the poller scans next is the frontier of Ingest.
LEMMA SameFrontier ==
  ASSUME NEW w \in Marks
  PROVE  /\ Abs!Frontier(w) = Unscanned(w)
         /\ w.found => NextBlock(w) = Unscanned(w)
  BY DEF Abs!Frontier, Unscanned, NextBlock

\* A poll either keeps the watermark or passes over heights.
LEMMA PollRefines ==
  ASSUME SInv, NEW head \in HeadAnswers, Poll(head)
  PROVE  [Abs!Next]_(Abs!ingestVars)
  <1> DEFINE m == PolledMark(head)
  <1>1. head \in 0 .. tip /\ TypeOK /\ wm \in Marks
    BY ScannerAssumption DEF HeadAnswers, SInv, TypeOK, Heights
  <1>2. CASE m = wm
    BY <1>2 DEF Poll, PollsAgain, Abs!ingestVars
  <1>3. CASE m # wm
    <2>1. /\ m \in Marks /\ m.found /\ m.hash = NoHash /\ m.last \in Heights
          /\ m.last >= Unscanned(wm)
      BY <1>1, <1>3, PolledMarkType DEF Marks
    <2>2. m = [found |-> TRUE, last |-> m.last, hash |-> NoHash]
      BY <2>1 DEF Marks
    <2>3. Abs!PassOver(m.last)
      BY <1>1, <1>3, <2>1, <2>2, SameFrontier DEF Poll, PollsAgain, Abs!PassOver
    <2> QED
      BY <2>1, <2>3 DEF Abs!Next
  <1> QED
    BY <1>2, <1>3

\* ResolveCanonicalParent moves the hash only: the block stood next to it.
LEMMA ResolveRefines ==
  ASSUME SInv, NEW p \in Served(number - 1), Resolve(p)
  PROVE  [Abs!Next]_(Abs!ingestVars)
  <1>1. /\ block \in Blocks /\ mem = wm /\ wm.found /\ wm \in Marks
        /\ wm.hash # NoHash /\ block.num = wm.last + 1 /\ number \in Nat
    BY DEF SInv, RoundInv, InRange, Resolve, ParentBroken, TypeOK
  <1>2. p \in Blocks /\ p.hash \in Hashes
    BY <1>1, ServedType DEF SInv, Blocks
  <1>3. wm.last \in Nat /\ block.num - 1 = wm.last
    BY <1>1, ScannerAssumption DEF Marks, Heights
  <1>4. wm' = [found |-> TRUE, last |-> wm.last, hash |-> p.hash]
    BY <1>3 DEF Resolve, ReorgMark
  <1>5. Abs!Reanchor(p.hash)
    BY <1>1, <1>4 DEF Resolve, Abs!Reanchor
  <1> QED
    BY <1>2, <1>5 DEF Abs!Next

\* A commit is a record of the frontier block, whoever still waits for it.
LEMMA CommitRefines ==
  ASSUME SInv, WriterCommits
  PROVE  [Abs!Next]_(Abs!ingestVars)
  <1>1. /\ request \in Blocks /\ wm \in Marks /\ wm.found
        /\ request.num = NextBlock(wm) /\ ~ParentBroken(wm, request)
    BY DEF SInv, TypeOK, RoundInv, WriterCommits
  <1>2. request.num = Abs!Frontier(wm)
    BY <1>1, SameFrontier
  <1>3. wm.hash # NoHash => request.parent = wm.hash
    BY <1>1 DEF ParentBroken, NextBlock
  <1>4. Abs!Record(request)
    BY <1>1, <1>2, <1>3 DEF WriterCommits, CommitMark, Abs!Record
  <1>5. request \in Abs!Blocks
    BY <1>1 DEF Blocks, Abs!Blocks
  <1> QED
    BY <1>4, <1>5 DEF Abs!Next

\* Every step of the scanner is a step of Ingest, or leaves its state alone.
LEMMA StepRefines == SInv /\ [Next]_vars => [Abs!Next]_(Abs!ingestVars)
  <1> SUFFICES ASSUME SInv, [Next]_vars PROVE [Abs!Next]_(Abs!ingestVars)
    OBVIOUS
  <1>1. CASE \E head \in HeadAnswers : Poll(head)
    BY <1>1, PollRefines
  <1>2. CASE \E p \in Served(number - 1) : Resolve(p)
    BY <1>2, ResolveRefines
  <1>3. CASE WriterCommits
    BY <1>3, CommitRefines
  <1>4. CASE \/ Environment \/ Workers \/ Failures \/ Start \/ Exit
             \/ (\E b \in fetched : TakeResult(b)) \/ TakeError \/ RangeDone \/ Drained
             \/ ResolveRefused \/ Submit \/ Advance \/ Interrupted
    <2>1. UNCHANGED dbVars
      BY <1>4 DEF Environment, Mine, Reorg, Workers, TakeJob, FetchCutShort, Fetched, NoAnswer,
                  Failures, FetchFailed, StepFails, WriterRollsBack, Stop, Kill, Down, Start, Exit,
                  TakeResult, TakeError, RangeDone, Drained, ResolveRefused, Submit, Advance,
                  Interrupted
    <2> QED
      BY <2>1 DEF dbVars, Abs!ingestVars
  <1>5. CASE UNCHANGED vars
    BY <1>5 DEF vars, dbVars, Abs!ingestVars
  <1> QED
    BY <1>1, <1>2, <1>3, <1>4, <1>5 DEF Next, Consumer

\* The scanner implements Ingest: prefetching, lagging nodes, failures, stops
\* and kills only ever record the next block, pass over heights or re-anchor.
THEOREM ScannerImplementsIngest == Spec => RefinesIngest
  <1> QED
    BY InitSInv, NextSInv, AbsInit, StepRefines, PTL DEF Spec, RefinesIngest, Abs!Spec

P == INSTANCE IngestProofs

\* The invariant of Ingest holds of whatever implements it.
LEMMA IngestHolds == Abs!Spec => []Abs!IngestInv
  <1>1. P!IngestAssumption
    BY ScannerAssumption, SentinelAssumption DEF P!IngestAssumption, Heights
  <1>2. P!Spec => []P!IngestInv
    BY <1>1, P!IngestCorrect
  <1> QED
    BY <1>2, PTL
       DEF Abs!Frontier, P!Frontier, Abs!Blocks, P!Blocks, Abs!Marks, P!Marks, Abs!Init,
           P!Init, Abs!Record, P!Record, Abs!PassOver, P!PassOver, Abs!Reanchor,
           P!Reanchor, Abs!Next, P!Next, Abs!ingestVars, P!ingestVars, Abs!Spec,
           P!Spec, Abs!CommittedHeights, P!CommittedHeights, Abs!NoSilentGap,
           P!NoSilentGap, Abs!CommittedOnce, P!CommittedOnce,
           Abs!ForksAreLogged, P!ForksAreLogged, Abs!WatermarkIsLinked,
           P!WatermarkIsLinked, Abs!TypeOK, P!TypeOK, Abs!IngestInv, P!IngestInv

\* What Ingest guarantees is stated in the same words of the scanner's variables.
LEMMA ScannerSafe == Spec => [](NoSilentGap /\ CommittedOnce /\ ForksAreLogged)
  <1>1. Abs!IngestInv => NoSilentGap /\ CommittedOnce /\ ForksAreLogged
    BY DEF Abs!IngestInv, NoSilentGap, CommittedOnce, ForksAreLogged
  <1> QED
    BY <1>1, ScannerImplementsIngest, IngestHolds, PTL DEF RefinesIngest

\* For every chain and tuning, and wherever a process stopped or was killed, no
\* height below the watermark is lost without an announcement (PollOnce).
THEOREM NoHeightIsLost == Spec => []NoSilentGap
  BY ScannerSafe, PTL

\* Every height that a round holds is in its range, and what is committed is
\* what the chain had (processRange and its workers).
THEOREM ScannerTypes == Spec => []TypeOK
  BY ScannerRounds, PTL

\* No height is recorded twice, however often it was fetched, retried, replaced
\* by a reorganisation or passed over (processRange and the watermark).
THEOREM NoHeightTwice == Spec => []CommittedOnce
  BY ScannerSafe, PTL

\* Where two recorded neighbours are not parent and child, it was announced
\* (the comparison with the watermark's hash in processRange).
THEOREM NoForkIsSilent == Spec => []ForksAreLogged
  BY ScannerSafe, PTL
=============================================================================
