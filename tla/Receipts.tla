------------------------------ MODULE Receipts ------------------------------
(***************************************************************************)
(* internal/chain/receipts.go and CallBatch of client.go: one block and    *)
(* the receipts of all its transactions, read in one batch, in two         *)
(* parallel calls or transaction by transaction. Each call may go to       *)
(* another node of the pool, and the nodes may be on different forks or    *)
(* answer nonsense, so a call is answered with any member of the sets      *)
(* below. One call of FetchBlock runs at a time: those that run in         *)
(* parallel share nothing but what Probe fixed before.                     *)
(***************************************************************************)
EXTENDS Integers, Sequences, FiniteSets

CONSTANTS
  Forks,        \* the blocks of the asked height, one per fork
  TxsOf,        \* the transactions of each, in order
  Txs,
  Workers,      \* maxReceiptConcurrency goroutines of fetchIndividually
  MaxRows,      \* bound: length of an answered list of receipts
  Absent,       \* an optional field that is not in the answer
  NoBlock, NoReceipt

ASSUME ReceiptsAssumption ==
  /\ IsFiniteSet(Forks) /\ Forks # {}
  /\ TxsOf \in [Forks -> Seq(Txs)] /\ MaxRows \in Nat
  /\ \A f \in Forks : \A i, j \in DOMAIN TxsOf[f] : TxsOf[f][i] = TxsOf[f][j] => i = j

VARIABLES
  probed, blockMethod,  \* ReceiptFetcher
  batch,                \* RH_BLOCK_FETCH_MODE
  pc,                   \* where FetchBlock is
  ctxDone,              \* its context has ended
  block, rows,          \* what fetchWithPair or the first call has read
  inFlight,             \* the calls of fetchWithPair without an answer
  work,                 \* the job of each worker of fetchIndividually
  sent, sending,        \* jobs handed out, and whether the loop goes on
  out, firstErr,
  result                \* what the last FetchBlock returned

fetchVars == <<ctxDone, block, rows, inFlight, work, sent, sending, out, firstErr>>
vars == <<probed, blockMethod, batch, pc, fetchVars, result>>

Ended == -1
Failed == [block |-> NoBlock, receipts |-> <<>>]

Min2(a, b) == IF a < b THEN a ELSE b

-----------------------------------------------------------------------------
(* What nodes answer, and what of it is taken *)

\* A receipt as it comes: the transaction, the fork it names, its index.
Longest == CHOOSE n \in {Len(TxsOf[f]) : f \in Forks} : \A f \in Forks : Len(TxsOf[f]) <= n
RawReceipts == [tx : Txs, block : Forks, index : (1 .. Longest) \cup {Absent}, status : {"valid", "invalid"}]
RowLists == UNION {[1 .. n -> RawReceipts] : n \in 0 .. MaxRows}

\* decodeReceipt
Decodes(row, i, f) ==
  /\ row.block = f
  /\ row.status = "valid"
  /\ row.index \in {i, Absent}

Receipt(row) == [tx |-> row.tx, block |-> row.block]

\* alignReceipts: a later row of the same transaction replaces an earlier one.
RowOf(list, t) ==
  CHOOSE r \in {k \in DOMAIN list : list[k].tx = t} :
    \A k \in DOMAIN list : list[k].tx = t => k <= r

Aligns(list, f) ==
  /\ Len(list) = Len(TxsOf[f])
  /\ \A i \in DOMAIN TxsOf[f] :
       /\ \E k \in DOMAIN list : list[k].tx = TxsOf[f][i]
       /\ Decodes(list[RowOf(list, TxsOf[f][i])], i, f)

Aligned(list, f) == [i \in DOMAIN TxsOf[f] |-> Receipt(list[RowOf(list, TxsOf[f][i])])]

\* A block as it comes: its fork, the height it claims, and the indices of its
\* transactions.
RawBlocks == [fork : Forks, number : {"asked", "other"}, indices : {"in order", "absent", "out of order"}]

\* decodeBlock, and the test of the height behind each use of it.
BlockRead(raw) ==
  IF raw.number = "asked" /\ raw.indices # "out of order" THEN raw.fork ELSE NoBlock

\* assembleBlock: the block with its receipts, or an error.
Assembled(f, list) ==
  IF f # NoBlock /\ Aligns(list, f) THEN [block |-> f, receipts |-> Aligned(list, f)] ELSE Failed

\* CallBatch: the ids of the answer's envelopes are those of the two calls, in
\* any order, each once.
BatchIds == {"block", "rows"}
IdLists == UNION {[1 .. n -> BatchIds \cup {"other"}] : n \in 1 .. 3}
TakesBatch(ids) == Len(ids) = Cardinality(BatchIds) /\ {ids[k] : k \in DOMAIN ids} = BatchIds

-----------------------------------------------------------------------------
\* Any failure of the one probe fixes the mode for good.
Probe(ok) ==
  /\ ~probed
  /\ probed' = TRUE /\ blockMethod' = ok
  /\ UNCHANGED <<batch, pc, fetchVars, result>>

FetchBlock ==
  /\ pc = "idle" /\ probed
  /\ pc' = IF ~blockMethod THEN "asking" ELSE IF batch THEN "batch" ELSE "pair"
  /\ ctxDone' = FALSE /\ block' = NoBlock /\ rows' = <<>> /\ firstErr' = FALSE
  /\ inFlight' = IF blockMethod /\ ~batch THEN BatchIds ELSE {}
  /\ work' = [w \in Workers |-> Ended] /\ sent' = 0 /\ sending' = FALSE /\ out' = <<>>
  /\ UNCHANGED <<probed, blockMethod, batch, result>>

Return(r) == pc' = "idle" /\ result' = r

\* The caller's context ends: the scanner stops or gives the round up.
CtxEnds ==
  /\ pc # "idle" /\ ~ctxDone /\ ctxDone' = TRUE
  /\ UNCHANGED <<probed, blockMethod, batch, pc, block, rows, inFlight, work, sent, sending, out,
                 firstErr, result>>

BatchResults == {Assembled(f, list) : f \in {BlockRead(raw) : raw \in RawBlocks}, list \in RowLists}

\* fetchWithBatch: one call, one node.
BatchAnswered ==
  /\ pc = "batch"
  /\ \/ \E ids \in IdLists, r \in BatchResults : Return(IF TakesBatch(ids) THEN r ELSE Failed)
     \/ Return(Failed)
  /\ UNCHANGED <<probed, blockMethod, batch, fetchVars>>

\* fetchWithPair: each call to a node of its own. The first error cancels the
\* other call, which then fails, if its answer does not arrive before.
PairAnswered ==
  /\ pc = "pair"
  /\ \/ "block" \in inFlight /\ inFlight' = inFlight \ {"block"}
        /\ \/ (\E raw \in RawBlocks : block' = BlockRead(raw)) /\ UNCHANGED firstErr
           \/ firstErr' = TRUE /\ UNCHANGED block
        /\ UNCHANGED rows
     \/ "rows" \in inFlight /\ inFlight' = inFlight \ {"rows"}
        /\ \/ rows' \in RowLists /\ UNCHANGED firstErr
           \/ firstErr' = TRUE /\ UNCHANGED rows
        /\ UNCHANGED block
  /\ UNCHANGED <<probed, blockMethod, batch, pc, ctxDone, work, sent, sending, out, result>>

PairOver == inFlight = {}

PairReturns ==
  /\ pc = "pair" /\ PairOver
  /\ Return(IF firstErr THEN Failed ELSE Assembled(block, rows))
  /\ UNCHANGED <<probed, blockMethod, batch, fetchVars>>

-----------------------------------------------------------------------------
(* fetchIndividually *)

Jobs == DOMAIN TxsOf[block]

\* The block is read first; without transactions it is complete.
AskingAnswered ==
  /\ pc = "asking"
  /\ \/ Return(Failed) /\ UNCHANGED fetchVars
     \/ \E f \in {BlockRead(raw) : raw \in RawBlocks} \ {NoBlock} :
          /\ block' = f
          /\ \/ TxsOf[f] = <<>> /\ Return([block |-> f, receipts |-> <<>>])
                /\ UNCHANGED <<work, sending, out>>
             \/ /\ TxsOf[f] # <<>> /\ pc' = "singly" /\ UNCHANGED result
                /\ \E W \in SUBSET Workers :
                     /\ Cardinality(W) = Min2(Len(TxsOf[f]), Cardinality(Workers))
                     /\ work' = [w \in Workers |-> IF w \in W THEN 0 ELSE Ended]
                /\ sending' = TRUE
                /\ out' = [i \in DOMAIN TxsOf[f] |-> NoReceipt]
          /\ UNCHANGED <<ctxDone, rows, inFlight, sent, firstErr>>
  /\ UNCHANGED <<probed, blockMethod, batch>>

\* The context of the workers: the first error cancels it.
Cancelled == ctxDone \/ firstErr

NextJobAlways == TRUE

NextJob == sent + 1 \in Jobs

\* jobs is unbuffered: a job goes to a worker that waits for one.
Send(w) ==
  /\ pc = "singly" /\ sending /\ NextJob /\ work[w] = 0
  /\ work' = [work EXCEPT ![w] = sent + 1] /\ sent' = sent + 1
  /\ UNCHANGED <<probed, blockMethod, batch, pc, ctxDone, block, rows, inFlight, sending, out,
                 firstErr, result>>

\* close(jobs), after the last job or when the context has ended.
StopSending ==
  /\ pc = "singly" /\ sending
  /\ sent = Len(TxsOf[block]) \/ Cancelled
  /\ sending' = FALSE
  /\ UNCHANGED <<probed, blockMethod, batch, pc, ctxDone, block, rows, inFlight, work, sent, out,
                 firstErr, result>>

\* A worker's call; after an error it takes the next job.
Worked(w) ==
  /\ pc = "singly" /\ work[w] > 0
  /\ LET i == work[w] IN
     \/ \E row \in RawReceipts :
          IF Decodes(row, i, block) /\ row.tx = TxsOf[block][i]
          THEN out' = [out EXCEPT ![i] = Receipt(row)] /\ UNCHANGED firstErr
          ELSE firstErr' = TRUE /\ UNCHANGED out
     \/ firstErr' = TRUE /\ UNCHANGED out
  /\ work' = [work EXCEPT ![w] = 0]
  /\ UNCHANGED <<probed, blockMethod, batch, pc, ctxDone, block, rows, inFlight, sent, sending, result>>

JobsClosed == ~sending

WorkerEnds(w) ==
  /\ pc = "singly" /\ JobsClosed /\ work[w] = 0
  /\ work' = [work EXCEPT ![w] = Ended]
  /\ UNCHANGED <<probed, blockMethod, batch, pc, ctxDone, block, rows, inFlight, sent, sending, out,
                 firstErr, result>>

IncompleteByError == firstErr

\* The loop may have been left by the context without any worker's error.
Incomplete == firstErr \/ ctxDone

SinglyReturns ==
  /\ pc = "singly" /\ ~sending
  /\ \A w \in Workers : work[w] = Ended
  /\ Return(IF Incomplete THEN Failed ELSE [block |-> block, receipts |-> out])
  /\ UNCHANGED <<probed, blockMethod, batch, fetchVars>>

-----------------------------------------------------------------------------
\* The mode comes from the configuration.
Init ==
  /\ probed = FALSE /\ blockMethod = FALSE /\ batch \in BOOLEAN
  /\ pc = "idle" /\ ctxDone = FALSE /\ block = NoBlock /\ rows = <<>> /\ inFlight = {}
  /\ work = [w \in Workers |-> Ended] /\ sent = 0 /\ sending = FALSE
  /\ out = <<>> /\ firstErr = FALSE /\ result = Failed

Singly == StopSending \/ SinglyReturns \/ \E w \in Workers : Send(w) \/ WorkerEnds(w)

Next ==
  \/ \E ok \in BOOLEAN : Probe(ok)
  \/ FetchBlock \/ CtxEnds
  \/ BatchAnswered \/ PairAnswered \/ PairReturns \/ AskingAnswered
  \/ Singly \/ \E w \in Workers : Worked(w)

Spec == Init /\ [][Next]_vars

\* The HTTP client's timeout answers every call; goroutines go on when they can.
Fairness ==
  /\ WF_vars(BatchAnswered) /\ WF_vars(PairAnswered) /\ WF_vars(PairReturns)
  /\ WF_vars(AskingAnswered) /\ WF_vars(Singly)
  /\ \A w \in Workers : WF_vars(Worked(w))

FairSpec == Spec /\ Fairness

-----------------------------------------------------------------------------
\* Types; jobs are handed out in order, each at most once, and when FetchBlock
\* has returned none of its goroutines is left that could still write to what
\* it returned (wg.Wait, and both reads from errs).
TypeOK ==
  /\ {probed, blockMethod, batch, ctxDone, sending, firstErr} \subseteq BOOLEAN
  /\ pc \in {"idle", "asking", "batch", "pair", "singly"}
  /\ block \in Forks \cup {NoBlock} /\ rows \in RowLists /\ inFlight \subseteq BatchIds
  /\ work \in [Workers -> Ended .. sent]
  /\ pc = "idle" => inFlight = {} /\ \A w \in Workers : work[w] = Ended
  /\ sent \in 0 .. Longest
  /\ block # NoBlock => sent <= Len(TxsOf[block])

\* The heart of the matter: a block is returned with the receipts of all its own
\* transactions, in order, all of the fork the block is of, whatever nodes of
\* whatever forks answered, and never with the zero receipt of a job that was
\* not done (fetchWithBatch, fetchWithPair, fetchIndividually).
ReturnedWhole ==
  result # Failed =>
    result.receipts =
      [i \in DOMAIN TxsOf[result.block] |-> [tx |-> TxsOf[result.block][i], block |-> result.block]]

\* FetchBlock always returns: the unbuffered channel, the workers that go on
\* after an error and the loop that stops at the end of the context never wait
\* for one another.
FetchReturns == pc # "idle" ~> pc = "idle"
=============================================================================
