---------------------------- MODULE NodesProofs -----------------------------
(***************************************************************************)
(* A block is returned with the receipts of all its own transactions, for  *)
(* any number of forks, transactions and workers and any length of the     *)
(* answers, however the goroutines, their errors and the end of the        *)
(* context interleave; and the pool gives each node its share, for any     *)
(* number of nodes of any rates, whoever calls and whatever is answered.   *)
(***************************************************************************)
EXTENDS Nodes, SequenceTheorems, Sums

-----------------------------------------------------------------------------
(* Receipts *)

\* What ReturnedWhole says of one result.
Whole(r) ==
  r # Failed =>
    r.receipts = [i \in DOMAIN TxsOf[r.block] |-> [tx |-> TxsOf[r.block][i], block |-> r.block]]

\* A job that was handed out is done, in some worker's hand, or has failed.
JobsAccounted ==
  \A i \in 1 .. sent :
    \/ out[i] = [tx |-> TxsOf[block][i], block |-> block]
    \/ \E w \in Workers : work[w] = i
    \/ firstErr

\* The loop of fetchIndividually: it ends after the last job, or incomplete.
LoopInv ==
  /\ out = [i \in DOMAIN TxsOf[block] |-> out[i]]
  /\ DOMAIN TxsOf[block] = 1 .. Len(TxsOf[block]) /\ Len(TxsOf[block]) \in Nat
  /\ sent <= Len(TxsOf[block]) /\ work \in [Workers -> Ended .. sent]
  /\ sending \/ sent = Len(TxsOf[block]) \/ Incomplete
  /\ JobsAccounted

FetchInv ==
  /\ block \in Forks \cup {NoBlock} /\ rows \in RowLists /\ sent \in Nat
  /\ pc \in {"asking", "pair"} => sent = 0
  /\ pc = "asking" => work = [w \in Workers |-> Ended]
  /\ pc = "singly" => LoopInv
  /\ Whole(result)

-----------------------------------------------------------------------------
\* A list that aligns with a block gives the receipts of the block.
LEMMA AssembledWhole ==
  ASSUME NEW f, NEW list \in RowLists
  PROVE  Whole(Assembled(f, list))
  <1> SUFFICES ASSUME f # NoBlock, Aligns(list, f)
               PROVE  Aligned(list, f) =
                        [i \in DOMAIN TxsOf[f] |-> [tx |-> TxsOf[f][i], block |-> f]]
    BY DEF Whole, Assembled
  <1>1. PICK n \in Nat : DOMAIN list = 1 .. n
    BY ReceiptsAssumption DEF RowLists
  <1> SUFFICES ASSUME NEW i \in DOMAIN TxsOf[f]
               PROVE  Receipt(list[RowOf(list, TxsOf[f][i])]) = [tx |-> TxsOf[f][i], block |-> f]
    BY DEF Aligned
  <1> DEFINE t == TxsOf[f][i]
             S == {k \in DOMAIN list : list[k].tx = t}
  <1>2. S \in SUBSET (1 .. n) /\ S # {}
    BY <1>1 DEF Aligns
  <1>3. \E r \in S : \A k \in S : k <= r
    <2>1. S \in SUBSET (0 .. n)
      BY <1>2
    <2> HIDE DEF S
    <2> QED
      BY <1>2, <2>1, GreatestOf
  <1>4. \E r \in S : \A k \in DOMAIN list : list[k].tx = t => k <= r
    BY <1>3
  <1>5. RowOf(list, t) \in S
    BY <1>4 DEF RowOf
  <1>6. list[RowOf(list, t)].block = f
    BY DEF Aligns, Decodes
  <1> QED
    BY <1>5, <1>6 DEF Receipt

-----------------------------------------------------------------------------
\* No rows are a list of rows.
LEMMA NoRows == <<>> \in RowLists
  <1>1. <<>> \in [1 .. 0 -> RawReceipts] /\ 0 \in 0 .. MaxRows
    BY ReceiptsAssumption
  <1> QED
    BY <1>1 DEF RowLists

\* Nothing is returned yet.
LEMMA InitFetch == Init => FetchInv
  BY NoRows DEF Init, FetchInv, Whole

\* FetchBlock starts with locals of its own.
LEMMA FetchBlockFetch == ASSUME FetchInv, FetchBlock PROVE FetchInv'
  BY NoRows DEF FetchBlock, FetchInv, Whole

\* The batch and the pair return what assembleBlock makes of their answers.
LEMMA TogetherFetch == ASSUME FetchInv, BatchAnswered \/ PairAnswered \/ PairReturns PROVE FetchInv'
  <1>1. Whole(Failed)
    BY DEF Whole
  <1>2. CASE BatchAnswered
    <2>1. Whole(result') /\ pc' = "idle"
      BY <1>1, <1>2, AssembledWhole DEF BatchAnswered, BatchResults, Return
    <2> QED
      BY <1>2, <2>1 DEF BatchAnswered, fetchVars, FetchInv
  <1>3. CASE PairReturns
    <2>1. Whole(result') /\ pc' = "idle"
      BY <1>1, <1>3, AssembledWhole DEF PairReturns, Return, FetchInv
    <2> QED
      BY <1>3, <2>1 DEF PairReturns, fetchVars, FetchInv
  <1>4. CASE PairAnswered
    <2>1. block' \in Forks \cup {NoBlock} /\ rows' \in RowLists
      BY <1>4 DEF PairAnswered, FetchInv, BlockRead, RawBlocks
    <2> QED
      BY <1>4, <2>1 DEF PairAnswered, FetchInv, Whole
  <1> QED
    BY <1>2, <1>3, <1>4
-----------------------------------------------------------------------------
(* fetchIndividually *)

\* The block is read; without transactions it is returned at once.
LEMMA AskingFetch == ASSUME FetchInv, AskingAnswered PROVE FetchInv'
  <1>1. Whole(Failed)
    BY DEF Whole
  <1>2. CASE Return(Failed) /\ UNCHANGED fetchVars
    BY <1>1, <1>2 DEF Return, fetchVars, FetchInv
  <1>3. ASSUME NEW f \in {BlockRead(raw) : raw \in RawBlocks} \ {NoBlock},
               block' = f, TxsOf[f] = <<>>, Return([block |-> f, receipts |-> <<>>]),
               UNCHANGED <<rows, sent>>
        PROVE  FetchInv'
    <2>1. Whole([block |-> f, receipts |-> <<>>])
      BY <1>3 DEF Whole
    <2>2. f \in Forks
      BY DEF BlockRead, RawBlocks
    <2> QED
      BY <1>3, <2>1, <2>2 DEF FetchInv, Return
  <1>4. ASSUME NEW f \in {BlockRead(raw) : raw \in RawBlocks} \ {NoBlock},
               block' = f, pc' = "singly", sending',
               work' \in [Workers -> {0, Ended}],
               out' = [i \in DOMAIN TxsOf[f] |-> NoReceipt],
               UNCHANGED <<rows, sent, result>>, pc = "asking"
        PROVE  FetchInv'
    <2>1. f \in Forks
      BY DEF BlockRead, RawBlocks
    <2>2. TxsOf[f] \in Seq(Txs)
      BY <2>1, ReceiptsAssumption
    <2>3. sent' = 0 /\ 0 \in Ended .. 0 /\ Ended \in Ended .. 0
      BY <1>4 DEF FetchInv, Ended
    <2>4. LoopInv'
      BY <1>4, <2>2, <2>3 DEF LoopInv, JobsAccounted
    <2> QED
      BY <1>4, <2>1, <2>3, <2>4 DEF FetchInv, Whole
  <1> QED
    BY <1>2, <1>3, <1>4 DEF AskingAnswered

\* A job leaves the loop for a worker's hand.
LEMMA SendFetch == ASSUME FetchInv, NEW w \in Workers, Send(w) PROVE FetchInv'
  <1>1. /\ pc = "singly" /\ pc' = pc /\ work[w] = 0 /\ sent' = sent + 1 /\ sent \in Nat
        /\ work' = [work EXCEPT ![w] = sent + 1] /\ sending /\ sending' = sending
        /\ block' = block /\ out' = out /\ firstErr' = firstErr /\ rows' = rows /\ result' = result
    BY DEF Send, FetchInv
  <1>2. LoopInv
    BY <1>1 DEF FetchInv
  <1>3. work' \in [Workers -> Ended .. sent']
    BY <1>1, <1>2 DEF LoopInv, Ended
  <1>4. JobsAccounted'
    <2> SUFFICES ASSUME NEW i \in 1 .. sent'
                 PROVE  \/ out[i] = [tx |-> TxsOf[block][i], block |-> block]
                        \/ \E v \in Workers : work'[v] = i
                        \/ firstErr
      BY <1>1 DEF JobsAccounted
    <2>1. CASE i = sent + 1
      BY <2>1, <1>1, <1>2 DEF LoopInv
    <2>2. CASE i \in 1 .. sent
      <3>1. \A v \in Workers : work[v] = i => work'[v] = i
        BY <2>2, <1>1, <1>2 DEF LoopInv
      <3> QED
        BY <2>2, <3>1, <1>2 DEF LoopInv, JobsAccounted
    <2> QED
      BY <2>1, <2>2, <1>1
  <1>5. sent' <= Len(TxsOf[block])
    BY <1>1, <1>2 DEF Send, NextJob, Jobs, LoopInv
  <1>6. LoopInv'
    BY <1>1, <1>2, <1>3, <1>4, <1>5 DEF LoopInv
  <1> QED
    BY <1>1, <1>6 DEF FetchInv, Whole

\* A worker answers for the job in its hand, or records the first error.
LEMMA WorkedFetch == ASSUME FetchInv, NEW w \in Workers, Worked(w) PROVE FetchInv'
  <1> DEFINE j == work[w]
  <1>1. /\ pc = "singly" /\ pc' = pc /\ j > 0 /\ work' = [work EXCEPT ![w] = 0]
        /\ sent' = sent /\ sent \in Nat /\ sending' = sending /\ ctxDone' = ctxDone
        /\ block' = block /\ rows' = rows /\ result' = result
    BY DEF Worked, FetchInv
  <1>2. LoopInv
    BY <1>1 DEF FetchInv
  <1>3. j \in 1 .. sent
    BY <1>1, <1>2 DEF LoopInv, Ended
  <1>4. \/ /\ out' = [out EXCEPT ![j] = [tx |-> TxsOf[block][j], block |-> block]]
           /\ firstErr' = firstErr
        \/ out' = out /\ firstErr' = TRUE
    BY DEF Worked, Decodes, Receipt
  <1>5. work' \in [Workers -> Ended .. sent']
    BY <1>1, <1>2 DEF LoopInv, Ended
  <1>6. JobsAccounted'
    <2> SUFFICES ASSUME NEW i \in 1 .. sent, ~firstErr'
                 PROVE  \/ out'[i] = [tx |-> TxsOf[block][i], block |-> block]
                        \/ \E v \in Workers : work'[v] = i
      BY <1>1 DEF JobsAccounted
    <2>1. i \in DOMAIN out
      BY <1>1, <1>2 DEF LoopInv
    <2>2. CASE i = j
      BY <2>1, <2>2, <1>4
    <2>3. CASE i # j
      <3>1. out'[i] = out[i]
        BY <2>1, <2>3, <1>4
      <3>2. \A v \in Workers : work[v] = i => work'[v] = i
        BY <2>3, <1>1, <1>2 DEF LoopInv
      <3>3. ~firstErr
        BY <1>4
      <3> QED
        BY <3>1, <3>2, <3>3, <1>2 DEF LoopInv, JobsAccounted
    <2> QED
      BY <2>2, <2>3
  <1>7. LoopInv'
    BY <1>1, <1>2, <1>4, <1>5, <1>6 DEF LoopInv, Incomplete
  <1> QED
    BY <1>1, <1>7 DEF FetchInv, Whole

\* The loop ends, workers end, or the context does: no job is forgotten.
LEMMA EndsFetch ==
  ASSUME FetchInv, StopSending \/ CtxEnds \/ \E w \in Workers : WorkerEnds(w)
  PROVE  FetchInv'
  <1>1. /\ pc' = pc /\ sent' = sent /\ sent \in Nat /\ block' = block /\ rows' = rows
        /\ out' = out /\ firstErr' = firstErr /\ result' = result
    BY DEF StopSending, CtxEnds, WorkerEnds, FetchInv
  <1>2. CASE StopSending
    BY <1>1, <1>2 DEF StopSending, FetchInv, LoopInv, JobsAccounted, Incomplete, Cancelled, Whole
  <1>3. CASE CtxEnds
    BY <1>1, <1>3 DEF CtxEnds, FetchInv, LoopInv, JobsAccounted, Incomplete, Whole
  <1>4. ASSUME NEW w \in Workers, WorkerEnds(w) PROVE FetchInv'
    <2>1. /\ pc = "singly" /\ work[w] = 0 /\ work' = [work EXCEPT ![w] = Ended]
          /\ sending' = sending /\ ctxDone' = ctxDone
      BY <1>4 DEF WorkerEnds
    <2>2. LoopInv
      BY <2>1 DEF FetchInv
    <2>3. work' \in [Workers -> Ended .. sent]
      BY <1>1, <2>1, <2>2 DEF LoopInv, Ended
    <2>4. \A i \in 1 .. sent : \A v \in Workers : work[v] = i => work'[v] = i
      BY <2>1, <2>2 DEF LoopInv
    <2>5. JobsAccounted'
      BY <1>1, <2>2, <2>4 DEF LoopInv, JobsAccounted
    <2>6. LoopInv'
      BY <1>1, <2>1, <2>2, <2>3, <2>5 DEF LoopInv, Incomplete
    <2> QED
      BY <1>1, <2>1, <2>6 DEF FetchInv, Whole
  <1> QED
    BY <1>2, <1>3, <1>4

\* When all workers have left a complete loop, every job is done.
LEMMA SinglyFetch == ASSUME FetchInv, SinglyReturns PROVE FetchInv'
  <1>1. /\ pc = "singly" /\ ~sending /\ pc' = "idle" /\ \A w \in Workers : work[w] = Ended
        /\ result' = IF Incomplete THEN Failed ELSE [block |-> block, receipts |-> out]
        /\ block' = block /\ rows' = rows /\ sent' = sent
    BY DEF SinglyReturns, Return, fetchVars
  <1>2. LoopInv
    BY <1>1 DEF FetchInv
  <1>3. Whole(result')
    <2>1. CASE Incomplete
      BY <1>1, <2>1 DEF Whole
    <2>2. CASE ~Incomplete
      <3>1. sent = Len(TxsOf[block]) /\ ~firstErr
        BY <1>1, <1>2, <2>2 DEF LoopInv, Incomplete
      <3>2. \A i \in DOMAIN TxsOf[block] : out[i] = [tx |-> TxsOf[block][i], block |-> block]
        BY <1>1, <1>2, <3>1 DEF LoopInv, JobsAccounted, Ended
      <3>3. out = [i \in DOMAIN TxsOf[block] |-> [tx |-> TxsOf[block][i], block |-> block]]
        BY <1>2, <3>2 DEF LoopInv
      <3> QED
        BY <1>1, <2>2, <3>3 DEF Whole
    <2> QED
      BY <2>1, <2>2
  <1> QED
    BY <1>1, <1>3 DEF FetchInv

\* Every step preserves the invariant.
LEMMA NextFetch == FetchInv /\ [Next]_vars => FetchInv'
  <1> SUFFICES ASSUME FetchInv, [Next]_vars PROVE FetchInv'
    OBVIOUS
  <1>1. ASSUME NEW ok \in BOOLEAN, Probe(ok) PROVE FetchInv'
    BY <1>1 DEF Probe, fetchVars, FetchInv, LoopInv, JobsAccounted, Incomplete, Whole
  <1>2. CASE UNCHANGED vars
    BY <1>2 DEF vars, fetchVars, FetchInv, LoopInv, JobsAccounted, Incomplete, Whole
  <1> QED
    BY <1>1, <1>2, FetchBlockFetch, TogetherFetch, AskingFetch, SendFetch, WorkedFetch, EndsFetch,
       SinglyFetch DEF Next, Singly

\* Every block that FetchBlock returns has the receipts of all its own
\* transactions, in their order and of its own fork (fetchWithBatch,
\* fetchWithPair, fetchIndividually).
THEOREM BlocksAreWhole == Spec => []ReturnedWhole
  <1>1. FetchInv => ReturnedWhole
    BY DEF FetchInv, Whole, ReturnedWhole
  <1> QED
    BY <1>1, InitFetch, NextFetch, PTL DEF Spec

\* Where FetchBlock is, its goroutines and the calls it waits for.
FetchPlaces ==
  /\ pc \in {"idle", "asking", "batch", "pair", "singly"}
  /\ inFlight \subseteq BatchIds /\ (pc # "pair" => inFlight = {})
  /\ work \in [Workers -> Ended .. sent] /\ (pc # "singly" => \A w \in Workers : work[w] = Ended)
  /\ sent \in Nat /\ (pc = "singly" => block \in Forks)
  /\ sent # 0 => block \in Forks /\ sent <= Len(TxsOf[block])

FetchFlags ==
  /\ probed \in BOOLEAN /\ blockMethod \in BOOLEAN /\ batch \in BOOLEAN
  /\ ctxDone \in BOOLEAN /\ sending \in BOOLEAN /\ firstErr \in BOOLEAN

\* A flag is kept, set or cleared.
LEMMA NextFlags == ASSUME FetchFlags, [Next]_vars PROVE FetchFlags'
  <1>1. CASE \E ok \in BOOLEAN : Probe(ok)
    BY <1>1, Zenon DEF FetchFlags, Probe, fetchVars
  <1>2. CASE FetchBlock \/ CtxEnds
    BY <1>2, Zenon DEF FetchFlags, FetchBlock, CtxEnds
  <1>3. CASE BatchAnswered \/ PairAnswered \/ PairReturns
    BY <1>3, Zenon DEF FetchFlags, BatchAnswered, PairAnswered, PairReturns, fetchVars
  <1>4. CASE AskingAnswered
    BY <1>4, Zenon DEF FetchFlags, AskingAnswered, fetchVars
  <1>5. CASE Singly
    BY <1>5, Zenon DEF FetchFlags, Singly, StopSending, SinglyReturns, Send, WorkerEnds, fetchVars
  <1>6. ASSUME NEW w \in Workers, Worked(w) PROVE FetchFlags'
    BY <1>6, Zenon DEF FetchFlags, Worked
  <1>7. CASE UNCHANGED vars
    BY <1>7, Zenon DEF FetchFlags, vars, fetchVars
  <1> QED
    BY <1>1, <1>2, <1>3, <1>4, <1>5, <1>6, <1>7, Zenon DEF Next

\* Calls are in flight in the pair only, and workers at work in the loop only.
LEMMA NextPlaces == ASSUME FetchInv, FetchPlaces, [Next]_vars PROVE FetchPlaces'
  <1>1. CASE FetchBlock
    <2>1. /\ pc' \in {"asking", "batch", "pair"} /\ inFlight' \subseteq BatchIds
          /\ pc' # "pair" => inFlight' = {}
      BY <1>1 DEF FetchBlock
    <2>2. work' = [w \in Workers |-> Ended] /\ sent' = 0
      BY <1>1 DEF FetchBlock
    <2> QED
      BY <2>1, <2>2 DEF FetchPlaces, Ended
  <1>2. CASE CtxEnds \/ StopSending
    BY <1>2 DEF CtxEnds, StopSending, FetchPlaces
  <1>3. CASE BatchAnswered
    <2>1. pc = "batch" /\ pc' = "idle" /\ UNCHANGED <<block, inFlight, work, sent>>
      BY <1>3 DEF BatchAnswered, Return, fetchVars
    <2> QED
      BY <2>1 DEF FetchPlaces
  <1>4. CASE PairAnswered
    <2>1. pc = "pair" /\ pc' = pc /\ inFlight' \subseteq inFlight /\ UNCHANGED <<work, sent>>
      BY <1>4 DEF PairAnswered
    <2>2. sent = 0
      BY <2>1 DEF FetchInv
    <2> QED
      BY <2>1, <2>2 DEF FetchPlaces
  <1>5. CASE PairReturns
    BY <1>5 DEF PairReturns, PairOver, Return, fetchVars, FetchPlaces
  <1>6. CASE AskingAnswered
    <2>1. pc = "asking" /\ sent = 0
      BY <1>6 DEF AskingAnswered, FetchInv
    <2>2. sent' = sent /\ inFlight' = inFlight /\ pc' \in {"idle", "singly"}
          /\ \/ work' = work
             \/ pc' = "singly" /\ work' \in [Workers -> {0, Ended}]
      BY <1>6 DEF AskingAnswered, Return, fetchVars
    <2>3. pc' = "singly" => block' \in Forks
      BY <1>6 DEF AskingAnswered, Return, BlockRead, RawBlocks
    <2> QED
      BY <2>1, <2>2, <2>3 DEF FetchPlaces, Ended
  <1>7. ASSUME NEW w \in Workers, Send(w) PROVE FetchPlaces'
    <2>1. /\ pc = "singly" /\ pc' = pc /\ inFlight' = inFlight /\ block' = block
          /\ sent' = sent + 1 /\ work' = [work EXCEPT ![w] = sent + 1] /\ sent + 1 \in Jobs
      BY <1>7 DEF Send, NextJob
    <2>2. LoopInv
      BY <2>1 DEF FetchInv
    <2>3. sent' \in Nat /\ sent' <= Len(TxsOf[block]) /\ work' \in [Workers -> Ended .. sent']
      BY <2>1, <2>2 DEF FetchPlaces, LoopInv, Jobs, Ended
    <2> QED
      BY <2>1, <2>3 DEF FetchPlaces
  <1>8. ASSUME NEW w \in Workers, Worked(w) \/ WorkerEnds(w) PROVE FetchPlaces'
    <2>1. /\ pc = "singly" /\ pc' = pc /\ inFlight' = inFlight /\ block' = block /\ sent' = sent
          /\ work' = [work EXCEPT ![w] = 0] \/ work' = [work EXCEPT ![w] = Ended]
      BY <1>8 DEF Worked, WorkerEnds
    <2> QED
      BY <2>1 DEF FetchPlaces, Ended
  <1>9. CASE SinglyReturns
    BY <1>9 DEF SinglyReturns, Return, fetchVars, FetchPlaces
  <1>10. CASE (\E ok \in BOOLEAN : Probe(ok)) \/ UNCHANGED vars
    <2>1. UNCHANGED <<pc, block, inFlight, work, sent>>
      BY <1>10 DEF Probe, vars, fetchVars
    <2> QED
      BY <2>1 DEF FetchPlaces
  <1> QED
    BY <1>1, <1>2, <1>3, <1>4, <1>5, <1>6, <1>7, <1>8, <1>9, <1>10 DEF Next, Singly

\* Nothing runs.
LEMMA InitPlaces == Init => FetchPlaces /\ FetchFlags
  <1> SUFFICES ASSUME Init PROVE FetchPlaces /\ FetchFlags
    OBVIOUS
  <1>1. FetchFlags
    BY Zenon DEF Init, FetchFlags
  <1>2. pc = "idle" /\ inFlight = {} /\ work = [w \in Workers |-> Ended] /\ sent = 0
    BY DEF Init
  <1> QED
    BY <1>1, <1>2 DEF FetchPlaces, Ended

\* There is a longest block.
LEMMA LongestIs == Longest \in Nat /\ \A f \in Forks : Len(TxsOf[f]) <= Longest
  <1> DEFINE G == {T \in SUBSET Forks : \E n \in Nat : \A f \in T : Len(TxsOf[f]) <= n}
             lens == {Len(TxsOf[f]) : f \in Forks}
  <1>1. \A f \in Forks : Len(TxsOf[f]) \in Nat
    <2>1. \A f \in Forks : TxsOf[f] \in Seq(Txs)
      BY ReceiptsAssumption
    <2> QED
      BY <2>1
  <1>2. {} \in G
    OBVIOUS
  <1>3. ASSUME NEW T \in SUBSET Forks, NEW x \in Forks, T \in G, x \notin T
        PROVE  T \cup {x} \in G
    <2>1. PICK n \in Nat : \A f \in T : Len(TxsOf[f]) <= n
      BY <1>3
    <2> DEFINE m == n + Len(TxsOf[x])
    <2>2. m \in Nat /\ \A f \in T \cup {x} : Len(TxsOf[f]) <= m
      BY <1>1, <2>1
    <2> HIDE DEF m
    <2> QED
      BY <2>2
  <1>4. Forks \in G
    <2>1. IsFiniteSet(Forks)
      BY ReceiptsAssumption
    <2> HIDE DEF G
    <2>2. SUBSET Forks \subseteq G
      BY <1>2, <1>3, <2>1, EverySubset
    <2> QED
      BY <2>2
  <1>5. PICK n \in Nat : \A f \in Forks : Len(TxsOf[f]) <= n
    BY <1>4
  <1>6. lens \in SUBSET (0 .. n) /\ lens # {}
    <2>1. \A f \in Forks : Len(TxsOf[f]) \in 0 .. n
      BY <1>1, <1>5
    <2>2. Forks # {}
      BY ReceiptsAssumption
    <2> QED
      BY <2>1, <2>2
  <1>7. \E r \in lens : \A k \in lens : k <= r
    <2> HIDE DEF lens
    <2> QED
      BY <1>6, GreatestOf
  <1>8. Longest \in lens /\ \A f \in Forks : Len(TxsOf[f]) <= Longest
    <2>1. \E r \in lens : \A f \in Forks : Len(TxsOf[f]) <= r
      BY <1>7
    <2> QED
      BY <2>1 DEF Longest
  <1> QED
    BY <1>1, <1>8

\* The invariants say what TypeOK does.
LEMMA FetchTypesHold == ASSUME FetchInv, FetchPlaces, FetchFlags PROVE TypeOK
  <1>1. {probed, blockMethod, batch, ctxDone, sending, firstErr} \subseteq BOOLEAN
    BY Zenon DEF FetchFlags
  <1>2. block \in Forks => Len(TxsOf[block]) \in Nat
    <2>1. block \in Forks => TxsOf[block] \in Seq(Txs)
      BY ReceiptsAssumption
    <2> QED
      BY <2>1
  <1>3. sent \in 0 .. Longest /\ (block # NoBlock => sent <= Len(TxsOf[block]))
    BY <1>2, LongestIs DEF FetchInv, FetchPlaces
  <1>4. block \in Forks \cup {NoBlock} /\ rows \in RowLists
    BY DEF FetchInv
  <1> HIDE DEF RowLists, BatchIds
  <1>5. /\ pc \in {"idle", "asking", "batch", "pair", "singly"} /\ inFlight \subseteq BatchIds
        /\ work \in [Workers -> Ended .. sent]
        /\ pc = "idle" => inFlight = {} /\ \A w \in Workers : work[w] = Ended
    BY DEF FetchPlaces
  <1> QED
    BY <1>1, <1>3, <1>4, <1>5 DEF TypeOK

-----------------------------------------------------------------------------
(* The pool: a node's bucket, and the choice among the nodes *)

Nodes1N == 1 .. N

\* The instance adds and counts as everyone does.
LEMMA PoolSums ==
  /\ \A f, S : Pool!SumFunctionOnSet(f, S) = SumFunctionOnSet(f, S)
  /\ \A S : Pool!Cardinality(S) = Cardinality(S)
  <1>1. \A f, S : Pool!SumFunctionOnSet(f, S) = SumFunctionOnSet(f, S)
    BY Zenon DEF Pool!SumFunctionOnSet, Pool!FoldFunctionOnSet, Pool!MapThenFoldSet,
                 SumFunctionOnSet, FoldFunctionOnSet, MapThenFoldSet
  <1>2. \A S : Pool!Cardinality(S) = Cardinality(S)
    BY Zenon DEF Pool!Cardinality, Cardinality
  <1> QED
    BY <1>1, <1>2

\* The assumption, as arithmetic.
LEMMA PoolNumbers ==
  /\ N \in Nat \ {0} /\ Sec \in Nat \ {0} /\ MaxLag \in Nat /\ MaxCalls \in Nat
  /\ Pool!Endpoints = Nodes1N /\ Pool!OldestAge = Sec + MaxLag /\ Pool!None = 0
  /\ IsFiniteSet(Nodes1N)
  /\ QpsOf \in [Nodes1N -> Nat \ {0}]
  /\ \A m \in Nodes1N : Pool!Qps(m) = QpsOf[m]
  <1>1. /\ N \in Nat \ {0} /\ Sec \in Nat \ {0} /\ MaxLag \in Nat /\ MaxCalls \in Nat
        /\ QpsOf \in Seq(Nat \ {0}) /\ Len(QpsOf) = N
    BY NodesAssumption DEF Pool!PoolAssumption
  <1>2. QpsOf \in [Nodes1N -> Nat \ {0}]
    BY <1>1 DEF Nodes1N
  <1>3. IsFiniteSet(Nodes1N)
    BY <1>1, FS_Interval DEF Nodes1N
  <1> QED
    BY <1>1, <1>2, <1>3 DEF Pool!Endpoints, Pool!OldestAge, Pool!None, Pool!Qps, Nodes1N

BucketTypes ==
  /\ members \in (SUBSET Nodes1N) \ {{}}
  /\ current \in [Nodes1N -> Int] /\ tokens \in [Nodes1N -> Nat]
  /\ \A m \in Nodes1N : tokens[m] <= QpsOf[m] * Sec
  /\ age \in [Nodes1N -> 0 .. Sec + MaxLag] /\ cool \in [Nodes1N -> -MaxLag .. Sec]
  /\ calls \in 0 .. MaxCalls

\* There are members, and no more of them than nodes.
LEMMA SomeMembers ==
  ASSUME BucketTypes
  PROVE  members \subseteq Nodes1N /\ members # {} /\ IsFiniteSet(members)
  <1>1. members \in SUBSET Nodes1N /\ members \notin {{}}
    BY Zenon DEF BucketTypes
  <1>2. IsFiniteSet(members)
    BY <1>1, PoolNumbers, FS_Subset
  <1> QED
    BY <1>1, <1>2

\* Refilling adds the gain of some ticks, up to the capacity.
LEMMA RefilledIs ==
  ASSUME BucketTypes, NEW m \in Nodes1N, NEW lag \in Nat
  PROVE  /\ Pool!Refilled(m, lag) \in Nat /\ Pool!Refilled(m, lag) <= QpsOf[m] * Sec
         /\ age[m] <= lag => Pool!Refilled(m, lag) = tokens[m]
         /\ age[m] >= lag => Pool!Refilled(m, lag) <= tokens[m] + (age[m] - lag) * QpsOf[m]
  <1>1. /\ QpsOf[m] \in Nat /\ Pool!Qps(m) = QpsOf[m] /\ Sec \in Nat
        /\ tokens[m] \in Nat /\ age[m] \in Nat /\ tokens[m] <= QpsOf[m] * Sec
    BY PoolNumbers DEF BucketTypes
  <1> DEFINE gain == Pool!Larger(0, age[m] - lag) * QpsOf[m]
             full == QpsOf[m] * Sec
  <1>2. /\ gain \in Nat
        /\ age[m] <= lag => gain = 0
        /\ age[m] >= lag => gain = (age[m] - lag) * QpsOf[m]
    <2>1. CASE age[m] <= lag
      <3>1. Pool!Larger(0, age[m] - lag) = 0
        BY <1>1, <2>1 DEF Pool!Larger
      <3> QED
        BY <1>1, <2>1, <3>1
    <2>2. CASE age[m] > lag
      <3>1. Pool!Larger(0, age[m] - lag) = age[m] - lag /\ age[m] - lag \in Nat
        BY <1>1, <2>2 DEF Pool!Larger
      <3> QED
        BY <1>1, <2>2, <3>1
    <2> QED
      BY <1>1, <2>1, <2>2
  <1>3. full \in Nat
    BY <1>1
  <1>4. Pool!Refilled(m, lag) = Pool!Smaller(full, tokens[m] + gain)
    BY <1>1 DEF Pool!Refilled
  <1> HIDE DEF gain
  <1>5. tokens[m] <= full
    BY <1>1
  <1>6. /\ Pool!Refilled(m, lag) \in Nat /\ Pool!Refilled(m, lag) <= full
        /\ Pool!Refilled(m, lag) <= tokens[m] + gain
        /\ gain = 0 => Pool!Refilled(m, lag) = tokens[m]
    <2> HIDE DEF full
    <2> QED
      BY <1>1, <1>2, <1>3, <1>4, <1>5 DEF Pool!Smaller
  <1> QED
    BY <1>2, <1>6

\* Division that rounds up.
LEMMA RoundedUp ==
  ASSUME NEW a \in Nat \ {0}, NEW b \in Nat \ {0}
  PROVE  (a + b - 1) \div b \in 1 .. a
  <1> DEFINE z == (a + b - 1) \div b
  <1>1. a + b - 1 \in Nat
    OBVIOUS
  <1>2. z \in Int /\ b * z <= a + b - 1 /\ a + b - 1 < b * z + b
    BY <1>1
  <1> HIDE DEF z
  <1>3. z >= 1
    <2> SUFFICES ASSUME z <= 0 PROVE FALSE
      BY <1>2
    <2>1. b * z <= 0
      BY <1>2
    <2> QED
      BY <1>2, <2>1
  <1>4. z <= a
    <2> SUFFICES ASSUME z >= a + 1 PROVE FALSE
      BY <1>2
    <2>1. b * z >= b * (a + 1)
      BY <1>2
    <2>2. b * (a + 1) = b * a + b /\ b * a >= a
      OBVIOUS
    <2> QED
      BY <1>2, <2>1, <2>2
  <1> QED
    BY <1>2, <1>3, <1>4 DEF z

\* Nobody waits longer than for the oldest age; a node that may be called now is
\* not cooling and has a token.
LEMMA WaitIs ==
  ASSUME BucketTypes, NEW m \in Nodes1N, NEW lag \in 0 .. MaxLag
  PROVE  /\ Pool!WaitDuration(m, lag) \in 0 .. Sec + MaxLag
         /\ Pool!WaitDuration(m, lag) = 0 => ~Pool!Cooling(m, lag) /\ Pool!Refilled(m, lag) >= Sec
  <1> DEFINE missing == Sec - Pool!Refilled(m, lag)
  <1>1. /\ Sec \in Nat \ {0} /\ MaxLag \in Nat /\ lag \in Nat
        /\ Pool!Qps(m) \in Nat \ {0} /\ cool[m] \in -MaxLag .. Sec
    BY PoolNumbers DEF BucketTypes
  <1>2. Pool!Refilled(m, lag) \in Nat
    BY <1>1, RefilledIs
  <1>3. CASE Pool!Cooling(m, lag)
    <2>1. Pool!WaitDuration(m, lag) = cool[m] + lag
      BY <1>3 DEF Pool!WaitDuration
    <2> QED
      BY <1>1, <1>3, <2>1 DEF Pool!Cooling
  <1>4. CASE ~Pool!Cooling(m, lag) /\ missing <= 0
    <2>1. Pool!WaitDuration(m, lag) = 0
      BY <1>4 DEF Pool!WaitDuration
    <2> QED
      BY <1>1, <1>2, <1>4, <2>1
  <1>5. CASE ~Pool!Cooling(m, lag) /\ ~(missing <= 0)
    <2>1. Pool!WaitDuration(m, lag) = (missing + Pool!Qps(m) - 1) \div Pool!Qps(m)
      BY <1>5 DEF Pool!WaitDuration
    <2>2. missing \in Nat \ {0} /\ missing <= Sec
      BY <1>1, <1>2, <1>5
    <2> HIDE DEF missing
    <2>3. Pool!WaitDuration(m, lag) \in 1 .. missing
      BY <1>1, <2>1, <2>2, RoundedUp
    <2> QED
      BY <1>1, <2>2, <2>3
  <1> QED
    BY <1>3, <1>4, <1>5

\* The shortest wait is that of some node.
LEMMA MinWaitIs ==
  ASSUME BucketTypes, NEW lag \in 0 .. MaxLag
  PROVE  Pool!MinWait(lag) \in 0 .. Sec + MaxLag
  <1> DEFINE Waits == {Pool!WaitDuration(m, lag) : m \in members}
  <1>1. members \subseteq Nodes1N /\ members # {}
    BY SomeMembers
  <1>2. Sec + MaxLag \in Nat
    BY PoolNumbers
  <1>3. \A m \in members : Pool!WaitDuration(m, lag) \in 0 .. Sec + MaxLag
    BY <1>1, WaitIs
  <1>4. \A w \in Waits : w \in 0 .. Sec + MaxLag
    BY <1>3
  <1>5. Waits \in SUBSET Nat /\ Waits # {}
    BY <1>1, <1>2, <1>4
  <1>6. \E w \in Waits : \A v \in Waits : w <= v
    <2> HIDE DEF Waits
    <2> QED
      BY <1>5, SmallestOf
  <1>7. \E w \in Waits : \A m \in members : w <= Pool!WaitDuration(m, lag)
    BY <1>6
  <1>8. Pool!MinWait(lag) \in Waits
    BY <1>7 DEF Pool!MinWait
  <1> QED
    BY <1>4, <1>8

\* The raised currents are those of the ready nodes, raised by their weights.
LEMMA RaisedIs ==
  ASSUME BucketTypes, NEW R \in SUBSET Nodes1N
  PROVE  /\ Pool!Raised(R) \in [Nodes1N -> Int]
         /\ \A m \in Nodes1N :
              Pool!Raised(R)[m] = IF m \in R THEN current[m] + QpsOf[m] ELSE current[m]
  BY PoolNumbers DEF BucketTypes, Pool!Raised

\* There is a first node among those with the highest current.
LEMMA BestIs ==
  ASSUME BucketTypes, NEW R \in SUBSET Nodes1N, R # {}
  PROVE  /\ Pool!Best(R) \in R
         /\ \A m \in R : Pool!Raised(R)[m] <= Pool!Raised(R)[Pool!Best(R)]
  <1> DEFINE v == Pool!Raised(R)
             Leads(S, b) == \A m \in S : v[m] < v[b] \/ (v[m] = v[b] /\ b <= m)
             G == {S \in SUBSET R : S # {} => \E b \in S : Leads(S, b)}
  <1>1. IsFiniteSet(R)
    BY PoolNumbers, FS_Subset
  <1>2. \A m \in R : v[m] \in Int /\ m \in Int
    <2>1. v \in [Nodes1N -> Int]
      BY RaisedIs
    <2> HIDE DEF v
    <2> QED
      BY <2>1, PoolNumbers DEF Nodes1N
  <1>3. ASSUME NEW S \in SUBSET R, NEW x \in R, S \in G, x \notin S PROVE S \cup {x} \in G
    <2>1. CASE S = {}
      <3>1. Leads(S \cup {x}, x)
        BY <1>2, <2>1
      <3> QED
        BY <3>1
    <2>2. CASE S # {}
      <3>1. PICK b \in S : Leads(S, b)
        BY <1>3, <2>2
      <3>2. b \in R
        BY <3>1
      <3> HIDE DEF v
      <3>3. CASE v[x] < v[b] \/ (v[x] = v[b] /\ b <= x)
        <4>1. Leads(S \cup {x}, b)
          BY <3>1, <3>3
        <4> QED
          BY <4>1
      <3>4. CASE ~(v[x] < v[b] \/ (v[x] = v[b] /\ b <= x))
        <4>1. v[b] < v[x] \/ (v[b] = v[x] /\ x <= b)
          BY <1>2, <3>2, <3>4
        <4>2. ASSUME NEW m \in S PROVE v[m] < v[x] \/ (v[m] = v[x] /\ x <= m)
          <5>1. v[m] < v[b] \/ (v[m] = v[b] /\ b <= m)
            BY <3>1
          <5>2. v[m] \in Int /\ v[b] \in Int /\ v[x] \in Int /\ m \in Int /\ b \in Int /\ x \in Int
            BY <1>2, <3>2
          <5> QED
            BY <4>1, <5>1, <5>2
        <4>3. v[x] = v[x] /\ x <= x
          BY <1>2
        <4>4. Leads(S \cup {x}, x)
          BY <4>2, <4>3
        <4> QED
          BY <4>4
      <3> QED
        BY <3>3, <3>4
    <2> QED
      BY <2>1, <2>2
  <1>4. {} \in G
    OBVIOUS
  <1>5. SUBSET R \subseteq G
    <2> HIDE DEF G
    <2> QED
      BY <1>1, <1>3, <1>4, EverySubset
  <1>6. \E b \in R : Leads(R, b)
    BY <1>5
  <1>7. Pool!Best(R) \in R /\ Leads(R, Pool!Best(R))
    BY <1>6 DEF Pool!Best
  <1>8. v[Pool!Best(R)] \in Int
    BY <1>2, <1>7
  <1> QED
    BY <1>2, <1>7, <1>8

-----------------------------------------------------------------------------
(* The pool: its types *)

\* What lag finds ready are members with a token that are not cooling.
LEMMA ReadyIs ==
  ASSUME BucketTypes, NEW lag \in 0 .. MaxLag
  PROVE  /\ Pool!Ready(lag) \subseteq members
         /\ \A m \in Pool!Ready(lag) : ~Pool!Cooling(m, lag) /\ Pool!Refilled(m, lag) >= Sec
         /\ Pool!Ready(lag) # {} => Pool!Best(Pool!Ready(lag)) \in Pool!Ready(lag)
  <1>1. \A m \in Pool!Ready(lag) : m \in members /\ Pool!WaitDuration(m, lag) = 0
    BY DEF Pool!Ready
  <1>2. Pool!Ready(lag) \in SUBSET Nodes1N
    BY <1>1, SomeMembers
  <1>3. \A m \in Pool!Ready(lag) : ~Pool!Cooling(m, lag) /\ Pool!Refilled(m, lag) >= Sec
    BY <1>1, <1>2, WaitIs
  <1>4. Pool!Ready(lag) # {} => Pool!Best(Pool!Ready(lag)) \in Pool!Ready(lag)
    BY <1>2, BestIs
  <1> QED
    BY <1>1, <1>3, <1>4

\* The units that the critical section takes from a node.
Taken(m, lag) == IF Pool!Ready(lag) # {} /\ m = Pool!Best(Pool!Ready(lag)) THEN Sec ELSE 0

\* The critical section refills a bucket by what it gains from now on no more,
\* and takes a token of one that is full enough.
LEMMA ScanIs ==
  ASSUME BucketTypes, NEW lag \in 0 .. MaxLag, Pool!Scan(lag), NEW m \in Nodes1N
  PROVE  /\ tokens'[m] \in Nat /\ age'[m] \in 0 .. age[m] /\ Taken(m, lag) \in {0, Sec}
         /\ tokens'[m] + Taken(m, lag) <= QpsOf[m] * Sec
         /\ tokens'[m] + Taken(m, lag) <= tokens[m] + (age[m] - age'[m]) * QpsOf[m]
         /\ Taken(m, lag) # 0 => age'[m] <= lag
  <1> DEFINE taken == Taken(m, lag)
             refilled == Pool!Refilled(m, lag)
  <1>1. /\ Sec \in Nat \ {0} /\ lag \in Nat /\ QpsOf[m] \in Nat
        /\ tokens[m] \in Nat /\ age[m] \in Nat /\ tokens[m] <= QpsOf[m] * Sec
    BY PoolNumbers DEF BucketTypes
  <1>2. taken \in {0, Sec}
    BY DEF Taken
  <1>3. taken # 0 => m \in Pool!Ready(lag)
    BY ReadyIs, <1>1 DEF Taken
  <1>4. taken # 0 => m \in members /\ ~Pool!Cooling(m, lag) /\ refilled >= Sec
    BY <1>3, ReadyIs
  <1>5. /\ tokens'[m] = IF m \notin members \/ Pool!Cooling(m, lag) THEN tokens[m]
                        ELSE refilled - taken
        /\ age'[m] = IF m \notin members \/ Pool!Cooling(m, lag) THEN age[m]
                     ELSE Pool!Smaller(age[m], lag)
    BY PoolNumbers, Zenon DEF Pool!Scan, Taken
  <1>6. /\ refilled \in Nat /\ refilled <= QpsOf[m] * Sec
        /\ age[m] <= lag => refilled = tokens[m]
        /\ age[m] >= lag => refilled <= tokens[m] + (age[m] - lag) * QpsOf[m]
    BY <1>1, RefilledIs
  <1> HIDE DEF taken, refilled
  <1>7. CASE m \notin members \/ Pool!Cooling(m, lag)
    <2>1. tokens'[m] = tokens[m] /\ age'[m] = age[m] /\ taken = 0
      BY <1>2, <1>4, <1>5, <1>7
    <2>2. (age[m] - age'[m]) * QpsOf[m] = 0
      BY <1>1, <2>1
    <2> QED
      BY <1>1, <1>2, <2>1, <2>2 DEF taken
  <1>8. CASE ~(m \notin members \/ Pool!Cooling(m, lag))
    <2>1. tokens'[m] = refilled - taken /\ age'[m] = Pool!Smaller(age[m], lag)
      BY <1>5, <1>8
    <2>2. /\ age'[m] \in Nat /\ age'[m] <= age[m] /\ age'[m] <= lag
          /\ age[m] <= lag => age'[m] = age[m]
          /\ age[m] >= lag => age'[m] = lag
      BY <1>1, <2>1 DEF Pool!Smaller
    <2>3. refilled <= tokens[m] + (age[m] - age'[m]) * QpsOf[m]
      <3>1. CASE age[m] <= lag
        <4>1. (age[m] - age'[m]) * QpsOf[m] = 0
          BY <1>1, <2>2, <3>1
        <4> QED
          BY <1>1, <1>6, <3>1, <4>1
      <3>2. CASE age[m] >= lag
        BY <1>6, <2>2, <3>2
      <3> QED
        BY <1>1, <3>1, <3>2
    <2> DEFINE gain == (age[m] - age'[m]) * QpsOf[m]
               full == QpsOf[m] * Sec
    <2>4. gain \in Int /\ full \in Int /\ refilled <= full /\ refilled <= tokens[m] + gain
      BY <1>1, <1>6, <2>2, <2>3
    <2> HIDE DEF gain, full
    <2>5. /\ tokens'[m] \in Nat /\ tokens'[m] + taken = refilled
      BY <1>1, <1>2, <1>4, <1>6, <2>1
    <2>6. tokens'[m] + taken <= full /\ tokens'[m] + taken <= tokens[m] + gain
      BY <1>1, <1>6, <2>4, <2>5
    <2> QED
      BY <1>1, <1>2, <2>2, <2>5, <2>6 DEF taken, gain, full
  <1> QED
    BY <1>7, <1>8

CallerTypes ==
  /\ caller \in [Callers -> [pc : {"idle", "waiting", "locking", "asleep", "calling"},
                             ticks : 0 .. Sec + MaxLag, at : 0 .. N]]
  /\ \A c \in Callers : /\ (caller[c].at = 0) <=> (caller[c].pc # "calling")
                        /\ caller[c].pc = "calling" => caller[c].at \in members
                        /\ caller[c].pc = "locking" => caller[c].ticks \in 0 .. MaxLag

PoolTypes == BucketTypes /\ CallerTypes /\ recent \in [Nodes1N -> [1 .. Sec -> Nat]]

\* The currents change to numbers, those of nodes that are not ready not at all.
LEMMA CurrentAfterIs ==
  ASSUME BucketTypes, NEW R \in SUBSET Nodes1N, R # {}
  PROVE  LET b == Pool!Best(R)
             all == SumFunctionOnSet(QpsOf, R) IN
         /\ all \in Int
         /\ Pool!CurrentAfter(R) \in [Nodes1N -> Int]
         /\ \A m \in Nodes1N :
              Pool!CurrentAfter(R)[m] = IF m = b THEN current[m] + QpsOf[m] - all
                                        ELSE IF m \in R THEN current[m] + QpsOf[m]
                                        ELSE current[m]
  <1> DEFINE b == Pool!Best(R)
             all == SumFunctionOnSet(QpsOf, R)
  <1>1. all \in Int
    <2>1. IsFiniteSet(R) /\ \A x \in R : QpsOf[x] \in Int
      BY PoolNumbers, FS_Subset
    <2> QED
      BY <2>1, SumOfSome DEF Integral
  <1>2. Pool!CurrentAfter(R) = [Pool!Raised(R) EXCEPT ![b] = @ - all]
    BY PoolSums, Zenon DEF Pool!CurrentAfter
  <1>3. b \in R
    BY BestIs
  <1>4. /\ Pool!Raised(R) \in [Nodes1N -> Int]
        /\ \A m \in Nodes1N :
             Pool!Raised(R)[m] = IF m \in R THEN current[m] + QpsOf[m] ELSE current[m]
    BY RaisedIs
  <1> HIDE DEF all, b
  <1>5. /\ Pool!CurrentAfter(R) \in [Nodes1N -> Int]
        /\ \A m \in Nodes1N : Pool!CurrentAfter(R)[m] =
             IF m = b THEN Pool!Raised(R)[m] - all ELSE Pool!Raised(R)[m]
    BY <1>1, <1>2, <1>3, <1>4
  <1>6. \A m \in Nodes1N : Pool!CurrentAfter(R)[m] =
             IF m = b THEN current[m] + QpsOf[m] - all
             ELSE IF m \in R THEN current[m] + QpsOf[m] ELSE current[m]
    <2> TAKE m \in Nodes1N
    <2>1. CASE m = b
      <3>1. Pool!Raised(R)[m] = current[m] + QpsOf[m]
        BY <1>3, <1>4, <2>1
      <3>2. Pool!CurrentAfter(R)[m] = Pool!Raised(R)[m] - all
        BY <1>5, <2>1, Zenon
      <3>3. Pool!CurrentAfter(R)[m] = current[m] + QpsOf[m] - all
        <4>1. current[m] \in Int /\ QpsOf[m] \in Int
          BY PoolNumbers DEF BucketTypes
        <4> QED
          BY <1>1, <3>1, <3>2, <4>1
      <3> QED
        BY <2>1, <3>3, Zenon
    <2>2. CASE m # b
      <3>1. Pool!CurrentAfter(R)[m] = Pool!Raised(R)[m]
        BY <1>5, <2>2, Zenon
      <3> QED
        BY <1>4, <2>2, <3>1, Zenon
    <2> QED
      BY <2>1, <2>2
  <1> QED
    BY <1>1, <1>5, <1>6 DEF all, b

\* A caller gets a node, or the time to wait for one.
LEMMA AcquireTypes ==
  ASSUME PoolTypes, NEW c \in Callers, Pool!Acquire(c)
  PROVE  PoolTypes'
  <1> DEFINE lag == caller[c].ticks
             R == Pool!Ready(lag)
             b == Pool!Best(R)
  <1>1. BucketTypes /\ CallerTypes /\ recent \in [Nodes1N -> [1 .. Sec -> Nat]]
    BY DEF PoolTypes
  <1>2. /\ Sec \in Nat \ {0} /\ MaxLag \in Nat /\ N \in Nat /\ QpsOf \in [Nodes1N -> Nat \ {0}]
        /\ 1 \in 1 .. Sec
    BY PoolNumbers
  <1>3. lag \in 0 .. MaxLag
    BY <1>1 DEF CallerTypes, Pool!Acquire
  <1>4. Pool!Scan(lag) /\ members' = members /\ cool' = cool /\ calls' = calls
    BY Zenon DEF Pool!Acquire
  <1>5. R \in SUBSET Nodes1N /\ R \subseteq members /\ (R # {} => b \in R)
    BY <1>1, <1>3, ReadyIs, SomeMembers
  <1>6. \/ /\ R # {} /\ current' = Pool!CurrentAfter(R)
           /\ caller' = [caller EXCEPT ![c] = [pc |-> "calling", ticks |-> 0, at |-> b]]
           /\ recent' = [recent EXCEPT ![b][1] = @ + 1]
        \/ /\ R = {} /\ current' = current /\ recent' = recent
           /\ caller' = [caller EXCEPT ![c] =
                           [pc |-> "asleep", ticks |-> Pool!MinWait(lag), at |-> 0]]
    BY PoolNumbers, Zenon DEF Pool!Acquire
  <1>7. Pool!MinWait(lag) \in 0 .. Sec + MaxLag
    BY <1>1, <1>3, MinWaitIs
  <1> HIDE DEF lag, R, b
  <1>8. \A m \in Nodes1N : /\ tokens'[m] \in Nat /\ tokens'[m] <= QpsOf[m] * Sec
                           /\ age'[m] \in 0 .. Sec + MaxLag
    <2> TAKE m \in Nodes1N
    <2>1. /\ tokens'[m] \in Nat /\ age'[m] \in 0 .. age[m] /\ Taken(m, lag) \in {0, Sec}
          /\ tokens'[m] + Taken(m, lag) <= QpsOf[m] * Sec
      BY <1>1, <1>3, <1>4, ScanIs
    <2>2. age[m] \in 0 .. Sec + MaxLag /\ QpsOf[m] \in Nat
      BY <1>1, <1>2 DEF BucketTypes
    <2> DEFINE full == QpsOf[m] * Sec
    <2>3. full \in Int
      BY <1>2, <2>2
    <2>4. tokens'[m] <= full
      <3> HIDE DEF full
      <3> QED
        BY <1>2, <2>1, <2>3 DEF full
    <2> QED
      BY <1>2, <2>1, <2>2, <2>4
  <1>9. /\ tokens' = [m \in Nodes1N |-> tokens'[m]] /\ age' = [m \in Nodes1N |-> age'[m]]
    BY <1>4, PoolNumbers DEF Pool!Scan
  <1>10. current' \in [Nodes1N -> Int]
    <2>1. R # {} => Pool!CurrentAfter(R) \in [Nodes1N -> Int]
      BY <1>1, <1>5, CurrentAfterIs
    <2>2. current \in [Nodes1N -> Int]
      BY <1>1 DEF BucketTypes
    <2> QED
      BY <1>6, <2>1, <2>2, Zenon
  <1>11. BucketTypes'
    <2>1. tokens' \in [Nodes1N -> Nat] /\ age' \in [Nodes1N -> 0 .. Sec + MaxLag]
      BY <1>8, <1>9
    <2> QED
      BY <1>1, <1>4, <1>8, <1>10, <2>1 DEF BucketTypes
  <1>12. CallerTypes'
    <2>1. b \in members => b \in 1 .. N
      BY <1>1, SomeMembers DEF Nodes1N
    <2>2. CASE R # {}
      <3>1. caller' = [caller EXCEPT ![c] = [pc |-> "calling", ticks |-> 0, at |-> b]]
        BY <1>6, <2>2
      <3> QED
        BY <1>1, <1>2, <1>4, <1>5, <2>1, <2>2, <3>1 DEF CallerTypes
    <2>3. CASE R = {}
      <3>1. caller' = [caller EXCEPT ![c] =
                         [pc |-> "asleep", ticks |-> Pool!MinWait(lag), at |-> 0]]
        BY <1>6, <2>3
      <3> QED
        BY <1>1, <1>2, <1>4, <1>7, <3>1 DEF CallerTypes
    <2> QED
      BY <2>2, <2>3
  <1>13. recent' \in [Nodes1N -> [1 .. Sec -> Nat]]
    <2>1. CASE R # {}
      <3>1. recent' = [recent EXCEPT ![b][1] = @ + 1] /\ b \in Nodes1N
        BY <1>5, <1>6, <2>1
      <3> QED
        BY <1>1, <1>2, <3>1
    <2> QED
      BY <1>1, <1>6, <2>1
  <1> QED
    BY <1>11, <1>12, <1>13 DEF PoolTypes

\* A second's calls, a tick later.
LEMMA ShiftedIs ==
  ASSUME NEW n \in Nat \ {0}, NEW r \in [1 .. n -> Nat]
  PROVE  LET s == <<0>> \o SubSeq(r, 1, n - 1) IN
         /\ s \in [1 .. n -> Nat] /\ s[1] = 0
         /\ \A i \in 2 .. n : s[i] = r[i - 1]
  <1> DEFINE front == SubSeq(r, 1, n - 1)
  <1>1. /\ front \in Seq(Nat) /\ Len(front) = n - 1
        /\ \A i \in 1 .. n - 1 : front[i] = r[i]
    <2>1. r \in Seq(Nat) /\ Len(r) = n
      OBVIOUS
    <2> QED
      BY <2>1
  <1>2. <<0>> \in Seq(Nat) /\ Len(<<0>>) = 1 /\ <<0>>[1] = 0
    OBVIOUS
  <1> HIDE DEF front
  <1>3. /\ <<0>> \o front \in Seq(Nat) /\ Len(<<0>> \o front) = n
        /\ \A i \in 1 .. n : (<<0>> \o front)[i] = IF i <= 1 THEN <<0>>[i] ELSE front[i - 1]
    BY <1>1, <1>2
  <1>4. DOMAIN (<<0>> \o front) = 1 .. n /\ \A i \in 1 .. n : (<<0>> \o front)[i] \in Nat
    BY <1>3
  <1>5. <<0>> \o front = [i \in 1 .. n |-> (<<0>> \o front)[i]]
    BY <1>3
  <1>6. <<0>> \o front \in [1 .. n -> Nat]
    BY <1>4, <1>5
  <1>7. (<<0>> \o front)[1] = 0 /\ \A i \in 2 .. n : (<<0>> \o front)[i] = r[i - 1]
    BY <1>1, <1>2, <1>3
  <1> QED
    BY <1>6, <1>7 DEF front

\* The buckets are full at the start.
LEMMA InitTypes == ASSUME Pool!Init PROVE PoolTypes
  <1>1. /\ N \in Nat \ {0} /\ Sec \in Nat \ {0} /\ MaxLag \in Nat /\ MaxCalls \in Nat
        /\ Pool!Endpoints = Nodes1N /\ QpsOf \in [Nodes1N -> Nat \ {0}]
        /\ \A m \in Nodes1N : Pool!Qps(m) = QpsOf[m]
    BY PoolNumbers
  <1>2. members \in (SUBSET Nodes1N) \ {{}}
    BY <1>1, Zenon DEF Pool!Init
  <1>3. \A m \in Nodes1N : QpsOf[m] * Sec \in Nat /\ QpsOf[m] * Sec <= QpsOf[m] * Sec
    BY <1>1
  <1>4. /\ tokens = [m \in Nodes1N |-> QpsOf[m] * Sec]
        /\ current = [m \in Nodes1N |-> 0] /\ age = [m \in Nodes1N |-> 0]
        /\ cool = [m \in Nodes1N |-> -MaxLag] /\ calls = 0
        /\ recent = [m \in Nodes1N |-> [t \in 1 .. Sec |-> 0]]
    BY <1>1 DEF Pool!Init
  <1>5. caller = [c \in Callers |-> [pc |-> "idle", ticks |-> 0, at |-> 0]]
    BY PoolNumbers DEF Pool!Init, Pool!Idle
  <1>6. BucketTypes
    BY <1>1, <1>2, <1>3, <1>4 DEF BucketTypes
  <1>7. CallerTypes
    BY <1>1, <1>5 DEF CallerTypes
  <1>8. recent \in [Nodes1N -> [1 .. Sec -> Nat]]
    BY <1>4
  <1> QED
    BY <1>6, <1>7, <1>8 DEF PoolTypes

\* The callers move.
LEMMA MovesTypes ==
  ASSUME PoolTypes, NEW c \in Callers,
         Pool!Begin(c) \/ Pool!GiveUp(c) \/ Pool!ReadNow(c) \/ Pool!Wake(c)
  PROVE  PoolTypes'
  <1>1. /\ members' = members /\ current' = current /\ tokens' = tokens /\ age' = age
        /\ cool' = cool /\ recent' = recent
    BY DEF Pool!Begin, Pool!GiveUp, Pool!ReadNow, Pool!Wake, Pool!poolVars
  <1>2. /\ Sec \in Nat \ {0} /\ MaxLag \in Nat /\ MaxCalls \in Nat /\ N \in Nat
        /\ Pool!None = 0
    BY PoolNumbers
  <1>3. calls' \in 0 .. MaxCalls
    BY <1>2 DEF PoolTypes, BucketTypes, Pool!Begin, Pool!GiveUp, Pool!ReadNow, Pool!Wake
  <1>4. BucketTypes'
    BY <1>1, <1>3 DEF PoolTypes, BucketTypes
  <1>5. CallerTypes
    BY DEF PoolTypes
  <1>6. CallerTypes'
    BY <1>1, <1>2, <1>5 DEF CallerTypes, Pool!Begin, Pool!GiveUp, Pool!ReadNow, Pool!Wake, Pool!Idle
  <1> QED
    BY <1>1, <1>4, <1>6 DEF PoolTypes

\* A node that is penalized is one that was called.
LEMMA AnsweredTypes ==
  ASSUME PoolTypes, NEW c \in Callers, NEW a \in Pool!Answers, Pool!Answered(c, a)
  PROVE  PoolTypes'
  <1>1. /\ members' = members /\ current' = current /\ recent' = recent /\ calls' = calls
        /\ caller[c].pc = "calling" /\ caller' = [caller EXCEPT ![c] = Pool!Idle]
    BY Zenon DEF Pool!Answered
  <1>2. /\ Sec \in Nat \ {0} /\ MaxLag \in Nat /\ Pool!None = 0 /\ N \in Nat
        /\ QpsOf \in [Nodes1N -> Nat \ {0}]
    BY PoolNumbers
  <1>3. CallerTypes /\ BucketTypes
    BY DEF PoolTypes
  <1>4. CallerTypes'
    BY <1>1, <1>2, <1>3 DEF CallerTypes, Pool!Idle
  <1> DEFINE m == caller[c].at
  <1>5. \/ /\ tokens' = [tokens EXCEPT ![m] = 0] /\ age' = [age EXCEPT ![m] = 0]
           /\ cool' = [cool EXCEPT ![m] = Sec]
        \/ tokens' = tokens /\ age' = age /\ cool' = cool
    BY Zenon DEF Pool!Answered
  <1>6. m \in Nodes1N
    BY <1>1, <1>3, SomeMembers DEF CallerTypes
  <1> HIDE DEF m
  <1>7. \A n \in Nodes1N : QpsOf[n] * Sec \in Nat
    BY <1>2
  <1>8. BucketTypes'
    <2>1. CASE tokens' = tokens /\ age' = age /\ cool' = cool
      BY <1>1, <1>3, <2>1 DEF BucketTypes
    <2>2. CASE /\ tokens' = [tokens EXCEPT ![m] = 0] /\ age' = [age EXCEPT ![m] = 0]
               /\ cool' = [cool EXCEPT ![m] = Sec]
      <3>1. \A n \in Nodes1N : tokens'[n] <= QpsOf[n] * Sec
        <4> TAKE n \in Nodes1N
        <4> DEFINE full == QpsOf[n] * Sec
        <4>1. full \in Nat /\ tokens[n] <= full
          BY <1>3, <1>7 DEF BucketTypes
        <4> HIDE DEF full
        <4>2. tokens'[n] <= full
          BY <1>3, <2>2, <4>1 DEF BucketTypes
        <4> QED
          BY <4>2 DEF full
      <3> QED
        BY <1>1, <1>2, <1>3, <1>6, <2>2, <3>1 DEF BucketTypes
    <2> QED
      BY <1>5, <2>1, <2>2
  <1> QED
    BY <1>1, <1>4, <1>8 DEF PoolTypes

\* Time passes.
LEMMA TickTypes == ASSUME PoolTypes, Pool!Tick PROVE PoolTypes'
  <1>1. /\ Sec \in Nat \ {0} /\ MaxLag \in Nat /\ N \in Nat /\ Pool!Endpoints = Nodes1N
        /\ Pool!OldestAge = Sec + MaxLag
    BY PoolNumbers
  <1>2. /\ members' = members /\ current' = current /\ tokens' = tokens /\ calls' = calls
    BY DEF Pool!Tick
  <1>3. CallerTypes /\ BucketTypes
    BY DEF PoolTypes
  <1>4. age' \in [Nodes1N -> 0 .. Sec + MaxLag]
    BY <1>1, <1>3, SMTT(20) DEF BucketTypes, Pool!Tick, Pool!Smaller
  <1>5. cool' \in [Nodes1N -> -MaxLag .. Sec]
    BY <1>1, <1>3, SMTT(20) DEF BucketTypes, Pool!Tick, Pool!Larger
  <1>6. BucketTypes'
    BY <1>2, <1>3, <1>4, <1>5 DEF BucketTypes
  <1>7. CallerTypes'
    <2>1. caller' = [c \in Callers |->
            CASE caller[c].pc = "locking" -> [caller[c] EXCEPT !.ticks = @ + 1]
              [] caller[c].pc = "asleep" -> [caller[c] EXCEPT !.ticks = Pool!Larger(0, @ - 1)]
              [] OTHER -> caller[c]]
      BY DEF Pool!Tick
    <2>2. \A c \in Callers : caller[c].pc = "locking" => caller[c].ticks < MaxLag
      BY DEF Pool!Tick
    <2>3. ASSUME NEW c \in Callers
          PROVE  /\ caller'[c] \in [pc : {"idle", "waiting", "locking", "asleep", "calling"},
                                    ticks : 0 .. Sec + MaxLag, at : 0 .. N]
                 /\ caller'[c].pc = caller[c].pc /\ caller'[c].at = caller[c].at
                 /\ caller[c].pc = "locking" => caller'[c].ticks \in 0 .. MaxLag
      <3>1. CASE caller[c].pc = "locking"
        <4>1. caller'[c] = [caller[c] EXCEPT !.ticks = @ + 1]
          BY <2>1, <3>1
        <4> QED
          BY <1>1, <1>3, <2>2, <3>1, <4>1 DEF CallerTypes
      <3>2. CASE caller[c].pc = "asleep"
        <4>1. caller'[c] = [caller[c] EXCEPT !.ticks = Pool!Larger(0, @ - 1)]
          BY <2>1, <3>2
        <4>2. Pool!Larger(0, caller[c].ticks - 1) \in 0 .. Sec + MaxLag
          BY <1>1, <1>3 DEF CallerTypes, Pool!Larger
        <4> QED
          BY <1>3, <3>2, <4>1, <4>2 DEF CallerTypes
      <3>3. CASE caller[c].pc \notin {"locking", "asleep"}
        <4>1. caller'[c] = caller[c]
          BY <2>1, <3>3
        <4> QED
          BY <1>3, <3>3, <4>1 DEF CallerTypes
      <3> QED
        BY <3>1, <3>2, <3>3
    <2>4. caller' = [c \in Callers |-> caller'[c]]
      BY <2>1
    <2> QED
      BY <1>2, <1>3, <2>3, <2>4 DEF CallerTypes
  <1>8. recent' \in [Nodes1N -> [1 .. Sec -> Nat]]
    <2>1. \A m \in Nodes1N : recent[m] \in [1 .. Sec -> Nat]
      BY DEF PoolTypes
    <2>2. recent' = [m \in Nodes1N |-> <<0>> \o SubSeq(recent[m], 1, Sec - 1)]
      BY <1>1 DEF Pool!Tick
    <2>3. \A m \in Nodes1N : <<0>> \o SubSeq(recent[m], 1, Sec - 1) \in [1 .. Sec -> Nat]
      BY <1>1, <2>1, ShiftedIs
    <2> QED
      BY <2>2, <2>3
  <1> QED
    BY <1>6, <1>7, <1>8 DEF PoolTypes

\* The steps of the pool, by their effect on it.
LEMMA PoolSteps ==
  ASSUME [Pool!Next]_(Pool!vars)
  PROVE  \/ \E c \in Callers : \/ Pool!Begin(c) \/ Pool!GiveUp(c) \/ Pool!ReadNow(c) \/ Pool!Wake(c)
                               \/ Pool!Acquire(c)
                               \/ \E a \in Pool!Answers : Pool!Answered(c, a)
         \/ Pool!Tick
         \/ UNCHANGED Pool!vars
  BY Zenon DEF Pool!Next, Pool!Step

LEMMA NextTypes == ASSUME PoolTypes, [Pool!Next]_(Pool!vars) PROVE PoolTypes'
  <1>1. CASE UNCHANGED Pool!vars
    BY <1>1 DEF PoolTypes, BucketTypes, CallerTypes, Pool!vars, Pool!poolVars
  <1> QED
    BY <1>1, PoolSteps, MovesTypes, AcquireTypes, AnsweredTypes, TickTypes

-----------------------------------------------------------------------------
(* The pool: no node gets more calls in a second than it has tokens for *)

\* A node that was given a call i ticks ago had its clock set then, give or take
\* the age of the caller's reading.
CallsMakeYoung ==
  \A m \in Nodes1N, i \in 1 .. Sec : recent[m][i] > 0 => age[m] <= i - 1 + MaxLag

Gained(m, j) == QpsOf[m] * Pool!Larger(0, (j - 1 + MaxLag) - age[m])

\* The calls of the last j ticks and the tokens that are left come out of a full
\* bucket and what was gained in these ticks.
CallsWerePaid ==
  \A m \in Nodes1N, j \in 1 .. Sec :
    SumFunctionOnSet(recent[m], 1 .. j) * Sec + tokens[m] <= QpsOf[m] * Sec + Gained(m, j)

BurstInv == CallsMakeYoung /\ CallsWerePaid

\* The calls of some ticks.
LEMMA CallsOf ==
  ASSUME NEW n \in Nat, NEW r \in [1 .. n -> Nat], NEW j \in 0 .. n
  PROVE  /\ SumFunctionOnSet(r, 1 .. j) \in Nat
         /\ (\A i \in 1 .. j : r[i] = 0) => SumFunctionOnSet(r, 1 .. j) = 0
         /\ j > 0 => SumFunctionOnSet(r, 1 .. j) = r[j] + SumFunctionOnSet(r, 1 .. j - 1)
  <1>1. j \in Nat /\ 1 .. j \subseteq 1 .. n /\ \A i \in 1 .. j : r[i] \in Nat
    OBVIOUS
  <1>2. IsFiniteSet(1 .. j)
    BY <1>1, FS_Interval
  <1>3. SumFunctionOnSet(r, 1 .. j) \in Nat
    BY <1>1, <1>2, SumOfNats
  <1>4. Integral(r, 1 .. j)
    BY <1>1, <1>2 DEF Integral
  <1>5. ASSUME \A i \in 1 .. j : r[i] = 0 PROVE SumFunctionOnSet(r, 1 .. j) = 0
    BY <1>2, <1>5, SumOfZeros, Zenon
  <1>6. ASSUME j > 0
        PROVE  SumFunctionOnSet(r, 1 .. j) = r[j] + SumFunctionOnSet(r, 1 .. j - 1)
    <2>1. j \in 1 .. j /\ (1 .. j) \ {j} = 1 .. j - 1
      BY <1>1, <1>6
    <2>2. SumFunctionOnSet(r, 1 .. j) = r[j] + SumFunctionOnSet(r, (1 .. j) \ {j})
      BY <1>4, <2>1, SumOfOne
    <2> QED
      BY <2>1, <2>2
  <1> QED
    BY <1>3, <1>5, <1>6

\* One more call in this tick is one more call in the last j ticks.
LEMMA OneMoreCall ==
  ASSUME NEW n \in Nat \ {0}, NEW r \in [1 .. n -> Nat], NEW s \in [1 .. n -> Nat],
         s[1] = r[1] + 1, \A i \in 2 .. n : s[i] = r[i], NEW j \in 1 .. n
  PROVE  SumFunctionOnSet(s, 1 .. j) = SumFunctionOnSet(r, 1 .. j) + 1
  <1> DEFINE U == 1 .. j
             V == U \ {1}
  <1>1. IsFiniteSet(U) /\ 1 \in U /\ V \subseteq 2 .. n /\ U \subseteq 1 .. n
    <2>1. IsFiniteSet(U)
      BY FS_Interval
    <2>2. 1 \in U /\ V \subseteq 2 .. n /\ U \subseteq 1 .. n
      OBVIOUS
    <2> QED
      BY <2>1, <2>2
  <1>2. IsFiniteSet(V)
    BY <1>1, FS_Subset
  <1> HIDE DEF U
  <1>3. \A x \in U : r[x] \in Int /\ s[x] \in Int
    BY <1>1
  <1>4. \A x \in V : s[x] = r[x]
    BY <1>1
  <1>5. Integral(r, U) /\ Integral(s, U) /\ Integral(r, V)
    BY <1>1, <1>2, <1>3 DEF Integral
  <1>6. /\ SumFunctionOnSet(r, U) = r[1] + SumFunctionOnSet(r, V)
        /\ SumFunctionOnSet(s, U) = s[1] + SumFunctionOnSet(s, V)
    BY <1>1, <1>5, SumOfOne
  <1> HIDE DEF V
  <1>7. SumFunctionOnSet(s, V) = SumFunctionOnSet(r, V)
    BY <1>4, <1>5, SumOfSame, Zenon
  <1>8. r[1] \in Int /\ SumFunctionOnSet(r, V) \in Int
    BY <1>1, <1>3, <1>5, SumOfSome
  <1>9. SumFunctionOnSet(s, U) = SumFunctionOnSet(r, U) + 1
    BY <1>6, <1>7, <1>8
  <1> QED
    BY <1>9 DEF U

\* A tick later, the calls of one tick more.
LEMMA CallsShifted ==
  ASSUME NEW n \in Nat \ {0}, NEW r \in [1 .. n -> Nat], NEW j \in 1 .. n
  PROVE  SumFunctionOnSet(<<0>> \o SubSeq(r, 1, n - 1), 1 .. j) = SumFunctionOnSet(r, 1 .. j - 1)
  <1> DEFINE s == <<0>> \o SubSeq(r, 1, n - 1)
             G == {k \in Nat : k + 1 \in 1 .. n =>
                     SumFunctionOnSet(s, 1 .. k + 1) = SumFunctionOnSet(r, 1 .. k)}
  <1>1. s \in [1 .. n -> Nat] /\ s[1] = 0 /\ \A i \in 2 .. n : s[i] = r[i - 1]
    BY ShiftedIs
  <1> HIDE DEF s
  <1>2. 0 \in G
    <2>1. 0 \in 0 .. n /\ 1 \in 0 .. n /\ 1 .. 0 = {} /\ 1 - 1 = 0 /\ 1 > 0 /\ 0 + 1 = 1
      OBVIOUS
    <2>2. SumFunctionOnSet(r, 1 .. 0) = 0 /\ SumFunctionOnSet(s, 1 .. 0) = 0
      BY <1>1, <2>1, CallsOf
    <2>3. SumFunctionOnSet(s, 1 .. 1) = s[1] + SumFunctionOnSet(s, 1 .. 1 - 1)
      BY <1>1, <2>1, CallsOf
    <2> QED
      BY <1>1, <2>1, <2>2, <2>3
  <1>3. ASSUME NEW k \in Nat, k \in G PROVE k + 1 \in G
    <2> SUFFICES ASSUME k + 2 \in 1 .. n
                 PROVE  SumFunctionOnSet(s, 1 .. k + 2) = SumFunctionOnSet(r, 1 .. k + 1)
      <3>1. k + 1 + 1 = k + 2
        OBVIOUS
      <3> QED
        BY <3>1
    <2>1. /\ k + 2 \in 0 .. n /\ k + 2 > 0 /\ (k + 2) - 1 = k + 1 /\ k + 2 \in 2 .. n
          /\ k + 1 \in 0 .. n /\ k + 1 > 0 /\ (k + 1) - 1 = k /\ k + 1 \in 1 .. n
      OBVIOUS
    <2>2. SumFunctionOnSet(s, 1 .. k + 2) = s[k + 2] + SumFunctionOnSet(s, 1 .. (k + 2) - 1)
      BY <1>1, <2>1, CallsOf
    <2>3. SumFunctionOnSet(r, 1 .. k + 1) = r[k + 1] + SumFunctionOnSet(r, 1 .. (k + 1) - 1)
      BY <2>1, CallsOf
    <2>4. s[k + 2] = r[k + 1]
      BY <1>1, <2>1
    <2>5. SumFunctionOnSet(s, 1 .. k + 1) = SumFunctionOnSet(r, 1 .. k)
      BY <1>3, <2>1
    <2> QED
      BY <2>1, <2>2, <2>3, <2>4, <2>5
  <1>4. Nat \subseteq G
    <2> HIDE DEF G
    <2> QED
      BY <1>2, <1>3, EveryNat
  <1>5. j - 1 \in Nat /\ j - 1 + 1 = j
    OBVIOUS
  <1>6. j - 1 \in G
    BY <1>4, <1>5
  <1> QED
    BY <1>5, <1>6 DEF s

\* Each call takes Sec units from a bucket that was refilled up to a reading of
\* the clock.
LEMMA AcquireBurst ==
  ASSUME PoolTypes, BurstInv, NEW c \in Callers, Pool!Acquire(c)
  PROVE  BurstInv'
  <1> DEFINE lag == caller[c].ticks
             R == Pool!Ready(lag)
             b == Pool!Best(R)
  <1>1. BucketTypes /\ CallerTypes /\ recent \in [Nodes1N -> [1 .. Sec -> Nat]]
    BY DEF PoolTypes
  <1>2. /\ Sec \in Nat \ {0} /\ MaxLag \in Nat /\ QpsOf \in [Nodes1N -> Nat \ {0}]
        /\ 1 \in 1 .. Sec /\ Sec \in Nat
    BY PoolNumbers
  <1>3. lag \in 0 .. MaxLag
    BY <1>1 DEF CallerTypes, Pool!Acquire
  <1>4. Pool!Scan(lag) /\ members' = members
    BY Zenon DEF Pool!Acquire
  <1>5. R # {} => b \in Nodes1N
    BY <1>1, <1>3, ReadyIs, SomeMembers
  <1>6. \/ R # {} /\ recent' = [recent EXCEPT ![b][1] = @ + 1]
        \/ R = {} /\ recent' = recent
    BY Zenon DEF Pool!Acquire
  <1> SUFFICES ASSUME NEW m \in Nodes1N
               PROVE  /\ \A i \in 1 .. Sec : recent'[m][i] > 0 => age'[m] <= i - 1 + MaxLag
                      /\ \A j \in 1 .. Sec :
                           SumFunctionOnSet(recent'[m], 1 .. j) * Sec + tokens'[m]
                             <= QpsOf[m] * Sec + QpsOf[m] * Pool!Larger(0, (j - 1 + MaxLag) - age'[m])
    BY Zenon DEF BurstInv, CallsMakeYoung, CallsWerePaid, Gained, Pool!Larger
  <1> DEFINE taken == Taken(m, lag)
  <1>12. PoolTypes'
    BY AcquireTypes
  <1>7. /\ tokens'[m] \in Nat /\ age'[m] \in 0 .. age[m] /\ taken \in {0, Sec}
        /\ tokens'[m] + taken <= QpsOf[m] * Sec
        /\ tokens'[m] + taken <= tokens[m] + (age[m] - age'[m]) * QpsOf[m]
        /\ taken # 0 => age'[m] <= lag
    BY <1>1, <1>3, <1>4, ScanIs
  <1>8. \/ /\ taken = Sec
           /\ \A i \in 1 .. Sec : recent'[m][i] = IF i = 1 THEN recent[m][i] + 1
                                                  ELSE recent[m][i]
        \/ taken = 0 /\ recent'[m] = recent[m]
    <2>1. CASE R # {} /\ m = b
      <3>1. taken = Sec
        BY <2>1 DEF Taken
      <3>2. recent' = [recent EXCEPT ![b][1] = @ + 1]
        BY <1>6, <2>1
      <3> HIDE DEF R, b, taken, lag
      <3>3. \A i \in 1 .. Sec : recent'[m][i] = IF i = 1 THEN recent[m][i] + 1
                                                ELSE recent[m][i]
        BY <1>1, <1>2, <2>1, <3>2
      <3> QED
        BY <3>1, <3>3
    <2>2. CASE R # {} /\ m # b
      <3>1. taken = 0
        BY <2>2 DEF Taken
      <3>2. recent' = [recent EXCEPT ![b][1] = @ + 1]
        BY <1>6, <2>2
      <3> HIDE DEF R, b, taken, lag
      <3>3. recent'[m] = recent[m]
        BY <1>1, <2>2, <3>2
      <3> QED
        BY <3>1, <3>3
    <2>3. CASE R = {}
      <3>1. taken = 0
        BY <2>3 DEF Taken
      <3> QED
        BY <1>6, <2>3, <3>1
    <2> QED
      BY <2>1, <2>2, <2>3
  <1>9. /\ QpsOf[m] \in Nat /\ tokens[m] \in Nat /\ age[m] \in Nat
        /\ recent[m] \in [1 .. Sec -> Nat]
    BY <1>1, <1>2, SMTT(20) DEF BucketTypes
  <1> HIDE DEF taken, lag, R, b
  <1>10. ASSUME NEW i \in 1 .. Sec, recent'[m][i] > 0 PROVE age'[m] <= i - 1 + MaxLag
    <2>1. CASE recent[m][i] > 0
      <3>1. age[m] <= i - 1 + MaxLag
        BY <2>1 DEF BurstInv, CallsMakeYoung
      <3> QED
        BY <1>2, <1>7, <1>9, <3>1
    <2>2. CASE ~(recent[m][i] > 0)
      <3>1. taken = Sec /\ i = 1
        BY <1>8, <1>9, <1>10, <2>2
      <3>2. age'[m] <= lag /\ lag <= MaxLag
        BY <1>2, <1>3, <1>7, <3>1
      <3> QED
        BY <1>2, <1>3, <1>7, <3>1, <3>2
    <2> QED
      BY <2>1, <2>2
  <1>11. ASSUME NEW j \in 1 .. Sec
         PROVE  SumFunctionOnSet(recent'[m], 1 .. j) * Sec + tokens'[m]
                  <= QpsOf[m] * Sec + QpsOf[m] * Pool!Larger(0, (j - 1 + MaxLag) - age'[m])
    <2> DEFINE sum == SumFunctionOnSet(recent[m], 1 .. j)
               newSum == SumFunctionOnSet(recent'[m], 1 .. j)
               span == j - 1 + MaxLag
               full == QpsOf[m] * Sec
    <2>1. sum \in Nat
      BY <1>2, <1>9, CallsOf, SMTT(20)
    <2>2. newSum * Sec = sum * Sec + taken
      <3>1. CASE taken = 0 /\ recent'[m] = recent[m]
        <4>1. newSum = sum
          BY <3>1
        <4>2. sum * Sec \in Nat
          BY <1>2, <2>1
        <4> QED
          BY <3>1, <4>1, <4>2
      <3>2. CASE taken = Sec /\ \A i \in 1 .. Sec :
                   recent'[m][i] = IF i = 1 THEN recent[m][i] + 1 ELSE recent[m][i]
        <4>1. recent'[m] \in [1 .. Sec -> Nat]
          BY <1>2, <1>12, PoolNumbers DEF PoolTypes
        <4>2. /\ 1 \in 1 .. Sec /\ \A i \in 2 .. Sec : i \in 1 .. Sec /\ i # 1
          BY <1>2
        <4>3. recent'[m][1] = recent[m][1] + 1 /\ \A i \in 2 .. Sec : recent'[m][i] = recent[m][i]
          BY <3>2, <4>2
        <4>4. newSum = sum + 1
          <5> DEFINE new == recent'[m]
                     old == recent[m]
          <5>1. new \in [1 .. Sec -> Nat] /\ old \in [1 .. Sec -> Nat]
            BY <1>9, <4>1
          <5>2. new[1] = old[1] + 1 /\ \A i \in 2 .. Sec : new[i] = old[i]
            BY <4>3
          <5> HIDE DEF new, old
          <5>3. SumFunctionOnSet(new, 1 .. j) = SumFunctionOnSet(old, 1 .. j) + 1
            BY <1>2, <5>1, <5>2, OneMoreCall
          <5> QED
            BY <5>3 DEF new, old
        <4> HIDE DEF newSum, sum
        <4> QED
          BY <1>2, <2>1, <3>2, <4>4
      <3> QED
        BY <1>8, <3>1, <3>2
    <2>3. sum * Sec + tokens[m] <= full + QpsOf[m] * Pool!Larger(0, span - age[m])
      BY DEF BurstInv, CallsWerePaid, Gained
    <2>4. span \in Nat /\ full \in Nat /\ sum * Sec \in Nat
      BY <1>2, <1>9, <2>1
    <2>5. age[m] > span => sum = 0
      <3> SUFFICES ASSUME age[m] > span PROVE sum = 0
        OBVIOUS
      <3>1. ASSUME NEW i \in 1 .. j PROVE recent[m][i] = 0
        <4>1. i \in 1 .. Sec /\ recent[m][i] \in Nat /\ i \in Int
          BY <1>2, <1>9
        <4>2. recent[m][i] > 0 => age[m] <= i - 1 + MaxLag
          BY <4>1 DEF BurstInv, CallsMakeYoung
        <4> QED
          BY <1>2, <1>9, <4>1, <4>2
      <3>2. j \in 0 .. Sec
        BY <1>2
      <3> QED
        BY <1>2, <1>9, <3>1, <3>2, CallsOf, Zenon
    <2>6. CASE age[m] <= span
      <3>1. /\ Pool!Larger(0, span - age[m]) = span - age[m]
            /\ Pool!Larger(0, span - age'[m]) = span - age'[m]
        BY <1>7, <1>9, <2>4, <2>6 DEF Pool!Larger
      <3>2. QpsOf[m] * (span - age'[m])
              = QpsOf[m] * (span - age[m]) + (age[m] - age'[m]) * QpsOf[m]
        BY <1>7, <1>9, <2>4
      <3> DEFINE gain == (age[m] - age'[m]) * QpsOf[m]
                 before == QpsOf[m] * (span - age[m])
                 after == QpsOf[m] * (span - age'[m])
      <3>3. gain \in Int /\ before \in Int /\ after \in Int /\ after = before + gain
        <4>1. age[m] - age'[m] \in Int /\ span - age[m] \in Int /\ span - age'[m] \in Int
          BY <1>7, <1>9, <2>4
        <4> HIDE DEF span
        <4> QED
          BY <1>9, <3>2, <4>1
      <3>4. sum * Sec + tokens[m] <= full + before
        BY <2>3, <3>1
      <3>5. tokens'[m] + taken <= tokens[m] + gain
        BY <1>7
      <3> DEFINE paid == sum * Sec
      <3>6. newSum * Sec = paid + taken /\ paid \in Nat
        BY <2>2, <2>4
      <3> HIDE DEF gain, before, after, full, paid
      <3>7. paid + taken + tokens'[m] <= full + after
        BY <1>2, <1>7, <1>9, <2>4, <3>3, <3>4, <3>5, <3>6, SMTT(20) DEF paid
      <3> QED
        BY <3>1, <3>6, <3>7 DEF after, full
    <2>7. CASE age[m] > span
      <3>1. newSum * Sec = taken
        <4>1. sum * Sec = 0
          BY <1>2, <2>5, <2>7
        <4> QED
          BY <1>2, <1>7, <2>2, <4>1
      <3>2. taken + tokens'[m] <= full
        BY <1>2, <1>7
      <3>3. Pool!Larger(0, span - age'[m]) \in Nat
        BY <1>7, <1>9, <2>4 DEF Pool!Larger
      <3>4. QpsOf[m] * Pool!Larger(0, span - age'[m]) \in Nat
        BY <1>9, <3>3
      <3> DEFINE more == QpsOf[m] * Pool!Larger(0, span - age'[m])
      <3> HIDE DEF more, full
      <3>5. taken + tokens'[m] <= full + more
        BY <1>2, <1>7, <2>4, <3>2, <3>4 DEF more
      <3> QED
        BY <3>1, <3>5 DEF more, full
    <2> QED
      BY <1>9, <2>4, <2>6, <2>7
  <1> QED
    BY <1>10, <1>11

\* Nothing was called yet.
LEMMA InitBurst == ASSUME Pool!Init PROVE BurstInv
  <1>1. PoolTypes
    BY InitTypes
  <1>2. Sec \in Nat \ {0} /\ MaxLag \in Nat /\ QpsOf \in [Nodes1N -> Nat \ {0}]
    BY PoolNumbers
  <1>3. /\ recent = [m \in Nodes1N |-> [t \in 1 .. Sec |-> 0]]
    BY PoolNumbers DEF Pool!Init
  <1>4. CallsMakeYoung
    BY <1>3 DEF CallsMakeYoung
  <1>5. ASSUME NEW m \in Nodes1N, NEW j \in 1 .. Sec
        PROVE  SumFunctionOnSet(recent[m], 1 .. j) * Sec + tokens[m]
                 <= QpsOf[m] * Sec + Gained(m, j)
    <2>1. recent[m] \in [1 .. Sec -> Nat] /\ \A i \in 1 .. j : recent[m][i] = 0
      BY <1>1, <1>2, <1>3 DEF PoolTypes
    <2>2. SumFunctionOnSet(recent[m], 1 .. j) = 0
      <3>1. j \in 0 .. Sec /\ Sec \in Nat
        BY <1>2
      <3> QED
        BY <2>1, <3>1, CallsOf, Zenon
    <2>3. tokens[m] \in Nat /\ tokens[m] <= QpsOf[m] * Sec /\ age[m] \in Nat /\ QpsOf[m] \in Nat
      BY <1>1, <1>2 DEF PoolTypes, BucketTypes
    <2>4. Pool!Larger(0, (j - 1 + MaxLag) - age[m]) \in Nat
      BY <1>2, <2>3 DEF Pool!Larger
    <2>5. Gained(m, j) \in Nat /\ QpsOf[m] * Sec \in Nat
      BY <1>2, <2>3, <2>4 DEF Gained
    <2> HIDE DEF Gained
    <2>6. SumFunctionOnSet(recent[m], 1 .. j) * Sec = 0
      BY <1>2, <2>2
    <2> DEFINE full == QpsOf[m] * Sec
    <2>7. full \in Nat /\ tokens[m] <= full
      BY <2>3, <2>5
    <2> HIDE DEF full
    <2>8. 0 + tokens[m] <= full + Gained(m, j)
      BY <2>3, <2>5, <2>7
    <2> QED
      BY <2>6, <2>8 DEF full
  <1> QED
    BY <1>4, <1>5 DEF BurstInv, CallsWerePaid

\* A penalty takes tokens away, and makes the node as young as a call.
LEMMA AnsweredBurst ==
  ASSUME PoolTypes, BurstInv, NEW c \in Callers, NEW a \in Pool!Answers, Pool!Answered(c, a)
  PROVE  BurstInv'
  <1>1. recent' = recent
    BY Zenon DEF Pool!Answered
  <1>2. BucketTypes /\ recent \in [Nodes1N -> [1 .. Sec -> Nat]]
    BY DEF PoolTypes
  <1>3. Sec \in Nat \ {0} /\ MaxLag \in Nat /\ QpsOf \in [Nodes1N -> Nat \ {0}]
    BY PoolNumbers
  <1> DEFINE n == caller[c].at
  <1>4. \/ tokens' = [tokens EXCEPT ![n] = 0] /\ age' = [age EXCEPT ![n] = 0]
        \/ tokens' = tokens /\ age' = age
    BY Zenon DEF Pool!Answered
  <1> HIDE DEF n
  <1>5. ASSUME NEW m \in Nodes1N
        PROVE  \/ tokens'[m] = 0 /\ age'[m] = 0
               \/ tokens'[m] = tokens[m] /\ age'[m] = age[m]
    BY <1>2, <1>4 DEF BucketTypes
  <1> SUFFICES ASSUME NEW m \in Nodes1N
               PROVE  /\ \A i \in 1 .. Sec : recent[m][i] > 0 => age'[m] <= i - 1 + MaxLag
                      /\ \A j \in 1 .. Sec :
                           SumFunctionOnSet(recent[m], 1 .. j) * Sec + tokens'[m]
                             <= QpsOf[m] * Sec + QpsOf[m] * Pool!Larger(0, (j - 1 + MaxLag) - age'[m])
    BY <1>1, Zenon DEF BurstInv, CallsMakeYoung, CallsWerePaid, Gained, Pool!Larger
  <1>6. /\ \A i \in 1 .. Sec : recent[m][i] > 0 => age[m] <= i - 1 + MaxLag
        /\ \A j \in 1 .. Sec : SumFunctionOnSet(recent[m], 1 .. j) * Sec + tokens[m]
             <= QpsOf[m] * Sec + QpsOf[m] * Pool!Larger(0, (j - 1 + MaxLag) - age[m])
    BY Zenon DEF BurstInv, CallsMakeYoung, CallsWerePaid, Gained
  <1>7. CASE tokens'[m] = tokens[m] /\ age'[m] = age[m]
    BY <1>6, <1>7, Zenon
  <1>8. CASE tokens'[m] = 0 /\ age'[m] = 0
    <2>1. /\ age[m] \in Nat /\ tokens[m] \in Nat /\ QpsOf[m] \in Nat
          /\ recent[m] \in [1 .. Sec -> Nat]
      BY <1>2, <1>3, SMTT(20) DEF BucketTypes
    <2>2. \A i \in 1 .. Sec : 0 <= i - 1 + MaxLag
      BY <1>3
    <2>3. ASSUME NEW j \in 1 .. Sec
          PROVE  SumFunctionOnSet(recent[m], 1 .. j) * Sec
                   <= QpsOf[m] * Sec + QpsOf[m] * Pool!Larger(0, (j - 1 + MaxLag) - 0)
      <3> DEFINE x == Pool!Larger(0, (j - 1 + MaxLag) - age[m])
                 y == Pool!Larger(0, (j - 1 + MaxLag) - 0)
                 sum == SumFunctionOnSet(recent[m], 1 .. j)
                 full == QpsOf[m] * Sec
      <3>1. x \in Nat /\ y \in Nat /\ x <= y
        BY <1>3, <2>1 DEF Pool!Larger
      <3>2. sum \in Nat
        <4>1. j \in 0 .. Sec /\ Sec \in Nat
          BY <1>3
        <4> QED
          BY <2>1, <4>1, CallsOf, Zenon
      <3>3. sum * Sec + tokens[m] <= full + QpsOf[m] * x
        BY <1>6
      <3>4. full \in Nat
        BY <1>3, <2>1
      <3> HIDE DEF x, y, sum, full
      <3>5. QpsOf[m] * x <= QpsOf[m] * y /\ QpsOf[m] * x \in Nat /\ QpsOf[m] * y \in Nat
        BY <2>1, <3>1
      <3>6. sum * Sec \in Nat
        BY <1>3, <3>2
      <3> DEFINE before == QpsOf[m] * x
                 after == QpsOf[m] * y
                 paid == sum * Sec
      <3>7. /\ before \in Nat /\ after \in Nat /\ paid \in Nat /\ before <= after
            /\ paid + tokens[m] <= full + before
        BY <3>3, <3>5, <3>6
      <3> HIDE DEF before, after, paid
      <3>8. paid <= full + after
        BY <2>1, <3>4, <3>7
      <3> QED
        BY <3>8 DEF paid, full, after, sum, y
    <2>4. ASSUME NEW j \in 1 .. Sec
          PROVE  SumFunctionOnSet(recent[m], 1 .. j) * Sec + tokens'[m]
                   <= QpsOf[m] * Sec + QpsOf[m] * Pool!Larger(0, (j - 1 + MaxLag) - age'[m])
      <3>1. SumFunctionOnSet(recent[m], 1 .. j) \in Nat
        <4>1. j \in 0 .. Sec /\ Sec \in Nat
          BY <1>3
        <4> QED
          BY <2>1, <4>1, CallsOf, Zenon
      <3>2. SumFunctionOnSet(recent[m], 1 .. j) * Sec \in Nat
        BY <1>3, <3>1
      <3>3. SumFunctionOnSet(recent[m], 1 .. j) * Sec + tokens'[m]
              = SumFunctionOnSet(recent[m], 1 .. j) * Sec
        <4> DEFINE paid == SumFunctionOnSet(recent[m], 1 .. j) * Sec
        <4>1. paid \in Nat
          BY <3>2
        <4> HIDE DEF paid
        <4>2. paid + tokens'[m] = paid
          BY <1>8, <4>1
        <4> QED
          BY <4>2 DEF paid
      <3> QED
        BY <1>8, <2>3, <3>3, Zenon
    <2> QED
      BY <1>8, <2>2, <2>4
  <1> QED
    BY <1>5, <1>7, <1>8

\* A tick later a second's calls are those of the tick before it and a tick less,
\* and a node has gained as much as it has grown older.
LEMMA TickBurst == ASSUME PoolTypes, BurstInv, Pool!Tick PROVE BurstInv'
  <1>1. BucketTypes /\ recent \in [Nodes1N -> [1 .. Sec -> Nat]]
    BY DEF PoolTypes
  <1>2. Sec \in Nat \ {0} /\ MaxLag \in Nat /\ QpsOf \in [Nodes1N -> Nat \ {0}]
    BY PoolNumbers
  <1>3. /\ tokens' = tokens
        /\ age' = [m \in Nodes1N |-> Pool!Smaller(age[m] + 1, Sec + MaxLag)]
        /\ recent' = [m \in Nodes1N |-> <<0>> \o SubSeq(recent[m], 1, Sec - 1)]
    BY PoolNumbers DEF Pool!Tick
  <1> SUFFICES ASSUME NEW m \in Nodes1N
               PROVE  /\ \A i \in 1 .. Sec : recent'[m][i] > 0 => age'[m] <= i - 1 + MaxLag
                      /\ \A j \in 1 .. Sec :
                           SumFunctionOnSet(recent'[m], 1 .. j) * Sec + tokens'[m]
                             <= QpsOf[m] * Sec + QpsOf[m] * Pool!Larger(0, (j - 1 + MaxLag) - age'[m])
    BY Zenon DEF BurstInv, CallsMakeYoung, CallsWerePaid, Gained, Pool!Larger
  <1>4. /\ \A i \in 1 .. Sec : recent[m][i] > 0 => age[m] <= i - 1 + MaxLag
        /\ \A j \in 1 .. Sec : SumFunctionOnSet(recent[m], 1 .. j) * Sec + tokens[m]
             <= QpsOf[m] * Sec + QpsOf[m] * Pool!Larger(0, (j - 1 + MaxLag) - age[m])
    BY Zenon DEF BurstInv, CallsMakeYoung, CallsWerePaid, Gained
  <1>5. /\ age[m] \in 0 .. Sec + MaxLag /\ tokens[m] \in Nat /\ QpsOf[m] \in Nat
        /\ tokens[m] <= QpsOf[m] * Sec /\ recent[m] \in [1 .. Sec -> Nat]
    BY <1>1, <1>2 DEF BucketTypes
  <1>6. recent'[m] = <<0>> \o SubSeq(recent[m], 1, Sec - 1) /\ tokens'[m] = tokens[m]
    BY <1>3
  <1>7. /\ age'[m] \in 0 .. Sec + MaxLag /\ age'[m] <= age[m] + 1
    BY <1>2, <1>3, <1>5 DEF Pool!Smaller
  <1>8. recent'[m][1] = 0 /\ \A i \in 2 .. Sec : recent'[m][i] = recent[m][i - 1]
    BY <1>2, <1>5, <1>6, ShiftedIs
  <1>9. ASSUME NEW i \in 1 .. Sec, recent'[m][i] > 0 PROVE age'[m] <= i - 1 + MaxLag
    <2>1. i \in 2 .. Sec /\ i - 1 \in 1 .. Sec
      BY <1>2, <1>8, <1>9
    <2>2. age[m] <= (i - 1) - 1 + MaxLag
      BY <1>4, <1>8, <1>9, <2>1
    <2> QED
      BY <1>2, <1>5, <1>7, <2>1, <2>2
  <1>10. ASSUME NEW j \in 1 .. Sec
         PROVE  SumFunctionOnSet(recent'[m], 1 .. j) * Sec + tokens'[m]
                  <= QpsOf[m] * Sec + QpsOf[m] * Pool!Larger(0, (j - 1 + MaxLag) - age'[m])
    <2> DEFINE sum == SumFunctionOnSet(recent[m], 1 .. j - 1)
               y == Pool!Larger(0, (j - 1 + MaxLag) - age'[m])
               full == QpsOf[m] * Sec
    <2>1. SumFunctionOnSet(recent'[m], 1 .. j) = sum
      <3> DEFINE old == recent[m]
                 new == recent'[m]
      <3>1. old \in [1 .. Sec -> Nat] /\ new = <<0>> \o SubSeq(old, 1, Sec - 1)
        BY <1>5, <1>6
      <3> HIDE DEF old, new
      <3>2. SumFunctionOnSet(<<0>> \o SubSeq(old, 1, Sec - 1), 1 .. j)
              = SumFunctionOnSet(old, 1 .. j - 1)
        BY <1>2, <3>1, CallsShifted
      <3>3. SumFunctionOnSet(new, 1 .. j) = SumFunctionOnSet(old, 1 .. j - 1)
        BY <3>1, <3>2
      <3> QED
        BY <3>3 DEF old, new
    <2>2. y \in Nat
      BY <1>2, <1>7 DEF Pool!Larger
    <2>3. sum \in Nat /\ (j = 1 => sum = 0)
      <3>1. j - 1 \in 0 .. Sec /\ Sec \in Nat /\ (j = 1 => \A i \in 1 .. j - 1 : recent[m][i] = 0)
        BY <1>2
      <3> QED
        BY <1>5, <3>1, CallsOf, Zenon
    <2>4. full \in Nat /\ QpsOf[m] * y \in Nat /\ tokens[m] <= full
      <3>1. full \in Nat /\ tokens[m] <= full
        BY <1>2, <1>5
      <3> HIDE DEF y
      <3> QED
        BY <1>5, <2>2, <3>1
    <2>5. sum * Sec + tokens[m] <= full + QpsOf[m] * y
      <3>1. CASE j = 1
        <4>1. sum * Sec = 0
          BY <1>2, <2>3, <3>1
        <4> DEFINE more == QpsOf[m] * y
        <4>2. more \in Nat /\ full \in Nat /\ tokens[m] <= full
          BY <2>4
        <4> HIDE DEF more, full
        <4>3. 0 + tokens[m] <= full + more
          BY <1>5, <4>2
        <4> QED
          BY <4>1, <4>3 DEF more
      <3>2. CASE j # 1
        <4> DEFINE i == j - 1
                   x == Pool!Larger(0, (i - 1 + MaxLag) - age[m])
        <4>1. i \in 1 .. Sec
          BY <1>2, <3>2
        <4>2. sum * Sec + tokens[m] <= full + QpsOf[m] * x
          BY <1>4, <4>1
        <4>3. x \in Nat /\ x <= y
          BY <1>2, <1>5, <1>7, <4>1 DEF Pool!Larger
        <4> HIDE DEF x, y
        <4>4. QpsOf[m] * x <= QpsOf[m] * y /\ QpsOf[m] * x \in Nat
          BY <1>5, <2>2, <4>3
        <4> DEFINE before == QpsOf[m] * x
                   after == QpsOf[m] * y
                   paid == sum * Sec
        <4>5. /\ before \in Nat /\ after \in Nat /\ before <= after /\ full \in Nat
              /\ paid + tokens[m] <= full + before
          BY <2>4, <4>2, <4>4
        <4>6. paid \in Nat
          <5> HIDE DEF sum
          <5> QED
            BY <1>2, <2>3
        <4> HIDE DEF before, after, paid, full
        <4>7. paid + tokens[m] <= full + after
          BY <1>5, <4>5, <4>6
        <4> QED
          BY <4>7 DEF paid, after
      <3> QED
        BY <3>1, <3>2
    <2> QED
      BY <1>6, <2>1, <2>5, Zenon
  <1> QED
    BY <1>9, <1>10
\* Each step of the pool keeps a node's calls paid for.
LEMMA NextBurst ==
  ASSUME PoolTypes, BurstInv, [Pool!Next]_(Pool!vars)
  PROVE  BurstInv'
  <1>1. CASE recent' = recent /\ age' = age /\ tokens' = tokens
    BY <1>1, Zenon DEF BurstInv, CallsMakeYoung, CallsWerePaid, Gained, Pool!Larger
  <1>2. ASSUME NEW c \in Callers,
               Pool!Begin(c) \/ Pool!GiveUp(c) \/ Pool!ReadNow(c) \/ Pool!Wake(c)
        PROVE  recent' = recent /\ age' = age /\ tokens' = tokens
    BY <1>2 DEF Pool!Begin, Pool!GiveUp, Pool!ReadNow, Pool!Wake, Pool!poolVars
  <1>3. UNCHANGED Pool!vars => recent' = recent /\ age' = age /\ tokens' = tokens
    BY DEF Pool!vars, Pool!poolVars
  <1> QED
    BY <1>1, <1>2, <1>3, PoolSteps, AcquireBurst, AnsweredBurst, TickBurst

\* Over the whole second, with the node as young as can be.
LEMMA BurstIsBounded == ASSUME PoolTypes, BurstInv PROVE Pool!BurstBound
  <1>1. Sec \in Nat \ {0} /\ MaxLag \in Nat /\ QpsOf \in [Nodes1N -> Nat \ {0}]
    BY PoolNumbers
  <1> SUFFICES ASSUME NEW m \in members
               PROVE  Pool!CallsInLastSecond(m) * Sec <= Pool!Qps(m) * (2 * Sec - 1 + MaxLag)
    BY DEF Pool!BurstBound
  <1>2. m \in Nodes1N
    BY SomeMembers DEF PoolTypes
  <1>3. /\ recent[m] \in [1 .. Sec -> Nat] /\ QpsOf[m] \in Nat /\ Pool!Qps(m) = QpsOf[m]
        /\ tokens[m] \in Nat /\ age[m] \in Nat
    BY <1>1, <1>2, PoolNumbers, SMTT(20) DEF PoolTypes, BucketTypes
  <1>4. Pool!CallsInLastSecond(m) = SumFunctionOnSet(recent[m], 1 .. Sec)
    <2>1. DOMAIN recent[m] = 1 .. Sec
      BY <1>3
    <2> QED
      BY <2>1, PoolSums, Zenon DEF Pool!CallsInLastSecond, Pool!SumFunction
  <1> DEFINE paid == SumFunctionOnSet(recent[m], 1 .. Sec) * Sec
             span == Sec - 1 + MaxLag
             gain == Pool!Larger(0, span - age[m])
  <1>5. paid + tokens[m] <= QpsOf[m] * Sec + QpsOf[m] * gain
    <2>1. Sec \in 1 .. Sec
      BY <1>1
    <2> QED
      BY <1>2, <2>1, Zenon DEF BurstInv, CallsWerePaid, Gained
  <1>6. gain \in Nat /\ gain <= span /\ span \in Nat
    BY <1>1, <1>3 DEF Pool!Larger
  <1>7. paid \in Nat
    <2>1. Sec \in 0 .. Sec /\ Sec \in Nat
      BY <1>1
    <2>2. SumFunctionOnSet(recent[m], 1 .. Sec) \in Nat
      BY <1>3, <2>1, CallsOf, Zenon
    <2> QED
      BY <1>1, <2>2
  <1> HIDE DEF paid, gain
  <1>8. QpsOf[m] * gain <= QpsOf[m] * span /\ QpsOf[m] * gain \in Nat
    <2> HIDE DEF span
    <2> QED
      BY <1>3, <1>6
  <1>9. QpsOf[m] * Sec + QpsOf[m] * span = QpsOf[m] * (2 * Sec - 1 + MaxLag)
    BY <1>1, <1>3
  <1> DEFINE full == QpsOf[m] * Sec
             before == QpsOf[m] * gain
             after == QpsOf[m] * span
  <1>10. full \in Nat /\ before \in Nat /\ after \in Nat /\ before <= after
    <2>1. full \in Nat /\ after \in Nat
      BY <1>1, <1>3, <1>6
    <2> QED
      BY <1>8, <2>1
  <1>11. paid <= full + after
    <2>1. paid + tokens[m] <= full + before
      BY <1>5
    <2> HIDE DEF full, before, after
    <2> QED
      BY <1>3, <1>7, <1>10, <2>1
  <1> QED
    BY <1>3, <1>4, <1>9, <1>11 DEF paid

-----------------------------------------------------------------------------
(* The pool: the weighted round robin stays in balance *)

\* One round of the members, less one.
Drift == SumFunctionOnSet(QpsOf, members) - 1

\* How far k members may be ahead of the others together.
Ahead(k) == Drift * (k * (Cardinality(members) - k))

\* The currents of each set of members: what one node is ahead, all others are
\* behind, and the more there are on either side, the further they may be apart.
CurrentsSpread ==
  /\ \A m \in Nodes1N \ members : current[m] = 0
  /\ SumFunctionOnSet(current, members) = 0
  /\ \A A \in SUBSET members : SumFunctionOnSet(current, A) <= Ahead(Cardinality(A))

\* What there is to add up.
LEMMA SpreadNumbers ==
  ASSUME BucketTypes
  PROVE  /\ Cardinality(members) \in Nat \ {0} /\ Drift \in Nat
         /\ \A A \in SUBSET members :
              /\ IsFiniteSet(A) /\ Cardinality(A) \in 0 .. Cardinality(members)
              /\ Integral(current, A) /\ SumFunctionOnSet(current, A) \in Int
              /\ Integral(QpsOf, A) /\ SumFunctionOnSet(QpsOf, A) \in Nat
              /\ \A m \in A : QpsOf[m] <= SumFunctionOnSet(QpsOf, A)
  <1>1. members \subseteq Nodes1N /\ members # {} /\ IsFiniteSet(members)
    BY SomeMembers
  <1>2. \A m \in members : current[m] \in Int /\ QpsOf[m] \in Nat /\ QpsOf[m] >= 1 /\ QpsOf[m] \in Int
    BY <1>1, PoolNumbers DEF BucketTypes
  <1>3. ASSUME NEW A \in SUBSET members
        PROVE  /\ IsFiniteSet(A) /\ Cardinality(A) \in 0 .. Cardinality(members)
               /\ Integral(current, A) /\ SumFunctionOnSet(current, A) \in Int
               /\ Integral(QpsOf, A) /\ SumFunctionOnSet(QpsOf, A) \in Nat
               /\ \A m \in A : QpsOf[m] <= SumFunctionOnSet(QpsOf, A)
    <2>1. IsFiniteSet(A) /\ Cardinality(A) \in Nat /\ Cardinality(members) \in Nat
      BY <1>1, FS_Subset, FS_CardinalityType
    <2>2. Cardinality(A) <= Cardinality(members)
      BY <1>1, FS_Subset
    <2>3. \A m \in A : current[m] \in Int /\ QpsOf[m] \in Nat /\ QpsOf[m] \in Int
      BY <1>2
    <2>4. Integral(current, A) /\ Integral(QpsOf, A)
      BY <2>1, <2>3 DEF Integral
    <2>5. SumFunctionOnSet(current, A) \in Int
      BY <2>4, SumOfSome
    <2>6. /\ SumFunctionOnSet(QpsOf, A) \in Nat
          /\ \A m \in A : QpsOf[m] <= SumFunctionOnSet(QpsOf, A)
      BY <2>1, <2>3, SumOfNats
    <2> QED
      BY <2>1, <2>2, <2>4, <2>5, <2>6
  <1>4. Cardinality(members) \in Nat /\ Cardinality(members) # 0
    BY <1>1, FS_CardinalityType, FS_EmptySet
  <1>5. Drift \in Nat
    <2>1. PICK m \in members : TRUE
      BY <1>1
    <2>2. members \in SUBSET members
      OBVIOUS
    <2>3. SumFunctionOnSet(QpsOf, members) \in Nat /\ QpsOf[m] <= SumFunctionOnSet(QpsOf, members)
      BY <1>3, <2>1, <2>2
    <2>4. QpsOf[m] \in Nat /\ QpsOf[m] >= 1
      BY <1>2, <2>1
    <2> QED
      BY <2>3, <2>4 DEF Drift
  <1> QED
    BY <1>3, <1>4, <1>5

\* A pick raises the ready nodes of a set, and takes all that was given from
\* the best of them.
LEMMA SumAfterPick ==
  ASSUME BucketTypes, NEW R \in SUBSET members, R # {}, NEW A \in SUBSET members
  PROVE  LET all == SumFunctionOnSet(QpsOf, R) IN
         SumFunctionOnSet(Pool!CurrentAfter(R), A)
           = (SumFunctionOnSet(current, A) + SumFunctionOnSet(QpsOf, A \cap R))
             - (IF Pool!Best(R) \in A THEN all ELSE 0)
  <1> DEFINE all == SumFunctionOnSet(QpsOf, R)
             b == Pool!Best(R)
             up == Pool!Raised(R)
             new == Pool!CurrentAfter(R)
             raised == SumFunctionOnSet(current, A) + SumFunctionOnSet(QpsOf, A \cap R)
  <1>1. members \subseteq Nodes1N /\ A \subseteq Nodes1N /\ R \in SUBSET Nodes1N
    BY SomeMembers
  <1>2. all \in Int /\ b \in R
    BY <1>1, CurrentAfterIs, BestIs
  <1>3. \A m \in Nodes1N :
          /\ up[m] \in Int /\ new[m] \in Int
          /\ up[m] = IF m \in R THEN current[m] + QpsOf[m] ELSE current[m]
          /\ new[m] = IF m = b THEN up[m] - all ELSE up[m]
    <2>1. /\ up \in [Nodes1N -> Int] /\ new \in [Nodes1N -> Int]
          /\ \A m \in Nodes1N : up[m] = IF m \in R THEN current[m] + QpsOf[m] ELSE current[m]
      BY <1>1, RaisedIs, CurrentAfterIs
    <2>2. new = [up EXCEPT ![b] = @ - all]
      BY PoolSums, Zenon DEF Pool!CurrentAfter
    <2> HIDE DEF all, b, up, new
    <2> QED
      BY <2>1, <2>2
  <1>4. /\ IsFiniteSet(A) /\ Integral(current, A) /\ \A x \in A : QpsOf[x] \in Int
        /\ SumFunctionOnSet(current, A) \in Int /\ SumFunctionOnSet(QpsOf, A \cap R) \in Int
    <2>1. A \cap R \in SUBSET members
      OBVIOUS
    <2> QED
      BY <2>1, SpreadNumbers DEF Integral
  <1>5. SumFunctionOnSet(up, A) = raised
    <2>1. \A x \in A : up[x] = IF x \in R THEN current[x] + QpsOf[x] ELSE current[x]
      BY <1>1, <1>3
    <2>2. Integral(current, A) /\ \A x \in A : QpsOf[x] \in Int
      BY <1>4
    <2> HIDE DEF up
    <2>3. SumFunctionOnSet(up, A) = SumFunctionOnSet(current, A) + SumFunctionOnSet(QpsOf, A \cap R)
      BY <2>1, <2>2, SumOfRaised
    <2> QED
      BY <2>3
  <1>6. raised \in Int
    BY <1>4
  <1>7. Integral(up, A) /\ Integral(new, A)
    BY <1>1, <1>3, <1>4 DEF Integral
  <1>8. CASE b \in A
    <2> DEFINE V == A \ {b}
    <2>1. Integral(up, V) /\ Integral(new, V)
      BY <1>7, FS_Subset DEF Integral
    <2>2. \A x \in V : new[x] = up[x]
      BY <1>1, <1>3
    <2>3. /\ SumFunctionOnSet(up, A) = up[b] + SumFunctionOnSet(up, V)
          /\ SumFunctionOnSet(new, A) = new[b] + SumFunctionOnSet(new, V)
      BY <1>7, <1>8, SumOfOne
    <2>4. new[b] = up[b] - all /\ up[b] \in Int
      BY <1>1, <1>3, <1>8
    <2> HIDE DEF V, up, new, b, all, raised
    <2>5. SumFunctionOnSet(new, V) = SumFunctionOnSet(up, V)
      BY <2>1, <2>2, SumOfSame, Zenon
    <2>6. SumFunctionOnSet(up, V) \in Int
      BY <2>1, SumOfSome
    <2>7. SumFunctionOnSet(new, A) = raised - all
      BY <1>2, <1>5, <1>6, <2>3, <2>4, <2>5, <2>6
    <2> QED
      BY <1>8, <2>7 DEF raised, new, b, all
  <1>9. CASE b \notin A
    <2>1. \A x \in A : new[x] = up[x]
      BY <1>1, <1>3, <1>9
    <2> HIDE DEF up, new, raised
    <2>2. SumFunctionOnSet(new, A) = raised - 0
      <3>1. SumFunctionOnSet(new, A) = SumFunctionOnSet(up, A)
        BY <1>7, <2>1, SumOfSame, Zenon
      <3> QED
        BY <1>5, <1>6, <3>1
    <2> QED
      BY <1>9, <2>2 DEF raised, new
  <1> QED
    BY <1>8, <1>9

\* A part of the ready nodes weighs no more than all of them, and with a node
\* that is not in the part less.
LEMMA PartOfReady ==
  ASSUME BucketTypes, NEW R \in SUBSET members, NEW A \in SUBSET members
  PROVE  /\ SumFunctionOnSet(QpsOf, A \cap R) <= SumFunctionOnSet(QpsOf, R)
         /\ \A b \in R \ A :
              SumFunctionOnSet(QpsOf, A \cap R) + QpsOf[b] <= SumFunctionOnSet(QpsOf, R)
  <1>1. A \cap R \in SUBSET R /\ A \cap R \in SUBSET members /\ R \ (A \cap R) \in SUBSET members
    OBVIOUS
  <1>2. SumFunctionOnSet(QpsOf, R)
          = SumFunctionOnSet(QpsOf, A \cap R) + SumFunctionOnSet(QpsOf, R \ (A \cap R))
    BY <1>1, SpreadNumbers, SumOfParts
  <1>3. /\ SumFunctionOnSet(QpsOf, A \cap R) \in Nat
        /\ SumFunctionOnSet(QpsOf, R \ (A \cap R)) \in Nat
        /\ \A b \in R \ (A \cap R) : QpsOf[b] <= SumFunctionOnSet(QpsOf, R \ (A \cap R))
    BY <1>1, SpreadNumbers
  <1>4. \A b \in R \ A : b \in R \ (A \cap R) /\ QpsOf[b] \in Nat
    BY SomeMembers, PoolNumbers
  <1> DEFINE all == SumFunctionOnSet(QpsOf, R)
             part == SumFunctionOnSet(QpsOf, A \cap R)
             rest == SumFunctionOnSet(QpsOf, R \ (A \cap R))
  <1>5. all = part + rest /\ part \in Nat /\ rest \in Nat
    BY <1>2, <1>3
  <1>6. \A b \in R \ A : QpsOf[b] <= rest /\ QpsOf[b] \in Nat
    BY <1>3, <1>4
  <1> HIDE DEF all, part, rest
  <1>7. part <= all /\ \A b \in R \ A : part + QpsOf[b] <= all
    BY <1>5, <1>6
  <1> QED
    BY <1>7 DEF all, part

\* The bound of a set and the bounds of a set with one node more and with one
\* less: the mean of the latter is less than the former, by the drift.
LEMMA AheadIsConcave ==
  ASSUME NEW d \in Int, NEW k \in Int, NEW n \in Int
  PROVE  d * ((k + 1) * (n - (k + 1))) + d * ((k - 1) * (n - (k - 1)))
           = 2 * (d * (k * (n - k))) - 2 * d
  <1> DEFINE x == k * (n - k)
  <1>1. /\ (k + 1) * (n - (k + 1)) = (x + n) - (2 * k + 1)
        /\ (k - 1) * (n - (k - 1)) = (x - n) + (2 * k - 1)
    <2>1. /\ (k + 1) * (n - (k + 1)) = k * (n - (k + 1)) + (n - (k + 1))
          /\ (k - 1) * (n - (k - 1)) = k * (n - (k - 1)) - (n - (k - 1))
      OBVIOUS
    <2>2. k * (n - (k + 1)) = k * (n - k) - k /\ k * (n - (k - 1)) = k * (n - k) + k
      OBVIOUS
    <2>3. x \in Int
      OBVIOUS
    <2> HIDE DEF x
    <2>4. k * (n - k) = x
      BY DEF x
    <2> QED
      BY <2>1, <2>2, <2>3, <2>4
  <1>2. x \in Int
    OBVIOUS
  <1> HIDE DEF x
  <1>3. (k + 1) * (n - (k + 1)) + (k - 1) * (n - (k - 1)) = 2 * x - 2
    BY <1>1, <1>2
  <1> DEFINE more == (k + 1) * (n - (k + 1))
             less == (k - 1) * (n - (k - 1))
  <1>4. more \in Int /\ less \in Int /\ less = (2 * x - 2) - more
    BY <1>2, <1>3
  <1> HIDE DEF more, less
  <1>5. d * more + d * less = 2 * (d * x) - 2 * d
    <2>1. d * less = d * (2 * x - 2) - d * more
      BY <1>2, <1>4
    <2>2. d * (2 * x - 2) = 2 * (d * x) - 2 * d
      BY <1>2
    <2>3. d * more \in Int /\ d * x \in Int
      BY <1>2, <1>4
    <2> QED
      BY <2>1, <2>2, <2>3
  <1> QED
    BY <1>5 DEF more, less, x

\* Whichever nodes were ready, the set with the best of them falls behind, and
\* one without it comes closer, but no further than its bound.
LEMMA PickSpread ==
  ASSUME BucketTypes, CurrentsSpread, NEW R \in SUBSET members, R # {}, NEW A \in SUBSET members
  PROVE  SumFunctionOnSet(Pool!CurrentAfter(R), A) <= Ahead(Cardinality(A))
  <1> DEFINE all == SumFunctionOnSet(QpsOf, R)
             w == SumFunctionOnSet(QpsOf, A \cap R)
             s == SumFunctionOnSet(current, A)
             new == SumFunctionOnSet(Pool!CurrentAfter(R), A)
             b == Pool!Best(R)
             k == Cardinality(A)
             n == Cardinality(members)
  <1>1. new = (s + w) - (IF b \in A THEN all ELSE 0)
    BY SumAfterPick
  <1>2. A \cap R \in SUBSET members /\ R \in SUBSET Nodes1N /\ members \subseteq Nodes1N
    BY SomeMembers
  <1>3. b \in R /\ \A m \in R : Pool!Raised(R)[m] <= Pool!Raised(R)[b]
    BY <1>2, BestIs
  <1>4. /\ s \in Int /\ w \in Nat /\ all \in Nat /\ k \in Nat /\ n \in Nat /\ Drift \in Nat
        /\ IsFiniteSet(A) /\ s <= Ahead(k)
    BY <1>2, SpreadNumbers DEF CurrentsSpread
  <1>5. w <= all /\ (b \notin A => w + QpsOf[b] <= all)
    BY <1>3, PartOfReady
  <1>6. Ahead(k) \in Int
    BY <1>4 DEF Ahead
  <1>7. CASE b \in A
    <2>1. new = (s + w) - all
      BY <1>1, <1>7
    <2> HIDE DEF all, w, s, new, b, k
    <2>2. new <= Ahead(k)
      BY <1>4, <1>5, <1>6, <2>1
    <2> QED
      BY <2>2 DEF new, k
  <1>8. CASE b \notin A /\ A \cap R = {}
    <2>1. w = 0
      BY <1>2, <1>8, SpreadNumbers, SumOfSome
    <2>2. new = (s + w) - 0
      BY <1>1, <1>8
    <2> HIDE DEF all, w, s, new, b, k
    <2>3. new <= Ahead(k)
      BY <1>4, <1>6, <2>1, <2>2
    <2> QED
      BY <2>3 DEF new, k
  <1>9. CASE b \notin A /\ A \cap R # {}
    <2>1. PICK m \in A : m \in R
      BY <1>9
    <2>2. m \in members /\ b \in members /\ m \in Nodes1N /\ b \in Nodes1N /\ m # b
      BY <1>2, <1>3, <1>9, <2>1
    <2>3. /\ current[m] \in Int /\ current[b] \in Int
          /\ QpsOf[m] \in Nat \ {0} /\ QpsOf[b] \in Nat \ {0}
      BY <2>2, PoolNumbers DEF BucketTypes
    <2>4. current[m] + QpsOf[m] <= current[b] + QpsOf[b]
      <3>1. /\ Pool!Raised(R)[m] = current[m] + QpsOf[m]
            /\ Pool!Raised(R)[b] = current[b] + QpsOf[b]
        BY <1>2, <1>3, <2>1, <2>2, RaisedIs
      <3> QED
        BY <1>3, <2>1, <3>1
    <2>5. /\ A \cup {b} \in SUBSET members /\ A \ {m} \in SUBSET members
          /\ Cardinality(A \cup {b}) = k + 1 /\ Cardinality(A \ {m}) = k - 1
      <3>1. Cardinality(A \cup {b}) = k + 1
        BY <1>4, <1>9, FS_AddElement
      <3>2. Cardinality(A \ {m}) = k - 1
        BY <1>4, <2>1, FS_RemoveElement
      <3> QED
        BY <2>2, <3>1, <3>2
    <2>6. current[b] + s <= Ahead(k + 1)
      <3>1. Integral(current, A \cup {b})
        BY <2>5, SpreadNumbers
      <3>2. SumFunctionOnSet(current, A \cup {b}) = current[b] + s
        BY <1>9, <3>1, SumOfMore
      <3>3. SumFunctionOnSet(current, A \cup {b}) <= Ahead(Cardinality(A \cup {b}))
        BY <2>5, Zenon DEF CurrentsSpread
      <3> QED
        BY <2>5, <3>2, <3>3
    <2>7. s - current[m] <= Ahead(k - 1)
      <3>1. s = current[m] + SumFunctionOnSet(current, A \ {m})
        BY <2>1, SpreadNumbers, SumOfOne
      <3>2. SumFunctionOnSet(current, A \ {m}) \in Int
        BY <2>5, SpreadNumbers
      <3>3. s - current[m] = SumFunctionOnSet(current, A \ {m})
        BY <2>3, <3>1, <3>2
      <3>4. SumFunctionOnSet(current, A \ {m}) <= Ahead(Cardinality(A \ {m}))
        BY <2>5, Zenon DEF CurrentsSpread
      <3> QED
        BY <2>5, <3>3, <3>4
    <2>8. all <= Drift + 1
      <3> DEFINE round == SumFunctionOnSet(QpsOf, members)
      <3>1. members \in SUBSET members /\ R \cap members = R /\ members \cap R = R
        OBVIOUS
      <3>2. SumFunctionOnSet(QpsOf, R \cap members) <= round
        BY <3>1, PartOfReady
      <3>3. round \in Nat /\ all <= round
        BY <3>1, <3>2, SpreadNumbers
      <3> HIDE DEF round, all
      <3>4. Drift + 1 = round
        BY <3>3 DEF Drift, round
      <3> QED
        BY <3>3, <3>4
    <2>9. Ahead(k + 1) + Ahead(k - 1) = 2 * Ahead(k) - 2 * Drift
      <3> HIDE DEF k
      <3> QED
        BY <1>4, AheadIsConcave DEF Ahead
    <2>10. Ahead(k + 1) \in Int /\ Ahead(k - 1) \in Int
      <3> HIDE DEF k, n
      <3>1. /\ (k + 1) * (n - (k + 1)) \in Int /\ (k - 1) * (n - (k - 1)) \in Int
        BY <1>4
      <3> QED
        BY <1>4, <3>1 DEF Ahead, n
    <2>11. new = (s + w) - 0
      BY <1>1, <1>9
    <2>12. w + QpsOf[b] <= all
      BY <1>5, <1>9
    <2> HIDE DEF all, w, s, new, b, k
    <2> DEFINE qb == QpsOf[b]
               qm == QpsOf[m]
               cb == current[b]
               cm == current[m]
               up == Ahead(k + 1)
               down == Ahead(k - 1)
               here == Ahead(k)
    <2>13. /\ qb \in Nat /\ qm \in Nat /\ qb >= 1 /\ qm >= 1 /\ cb \in Int /\ cm \in Int
           /\ cm + qm <= cb + qb
      BY <2>3, <2>4
    <2>14. /\ up \in Int /\ down \in Int /\ here \in Int /\ up + down = 2 * here - 2 * Drift
           /\ cb + s <= up /\ s - cm <= down /\ w + qb <= all
      BY <1>6, <2>6, <2>7, <2>9, <2>10, <2>12
    <2> HIDE DEF qb, qm, cb, cm, up, down, here
    <2>15. s + w <= here
      BY <1>4, <2>8, <2>13, <2>14
    <2>16. new <= here
      BY <1>4, <2>11, <2>15
    <2> QED
      BY <2>16 DEF new, k, here
  <1> QED
    BY <1>7, <1>8, <1>9

\* Nobody is ahead at the start.
LEMMA InitSpread == ASSUME Pool!Init PROVE CurrentsSpread
  <1>1. BucketTypes
    BY InitTypes DEF PoolTypes
  <1>2. members \subseteq Nodes1N /\ \A m \in Nodes1N : current[m] = 0
    BY <1>1, SomeMembers, PoolNumbers DEF Pool!Init
  <1>3. ASSUME NEW A \in SUBSET members
        PROVE  SumFunctionOnSet(current, A) = 0 /\ 0 <= Ahead(Cardinality(A))
    <2>1. IsFiniteSet(A) /\ \A m \in A : current[m] = 0
      BY <1>1, <1>2, SpreadNumbers
    <2>2. SumFunctionOnSet(current, A) = 0
      BY <2>1, SumOfZeros
    <2> DEFINE k == Cardinality(A)
               n == Cardinality(members)
    <2>3. k \in 0 .. n /\ n \in Nat /\ Drift \in Nat
      BY <1>1, SpreadNumbers
    <2> HIDE DEF k, n
    <2>4. k * (n - k) \in Nat
      BY <2>3
    <2>5. Drift * (k * (n - k)) \in Nat
      BY <2>3, <2>4
    <2> QED
      BY <2>2, <2>5 DEF Ahead, k, n
  <1>4. members \in SUBSET members
    OBVIOUS
  <1>5. SumFunctionOnSet(current, members) = 0
    BY <1>3, <1>4
  <1>6. \A A \in SUBSET members : SumFunctionOnSet(current, A) <= Ahead(Cardinality(A))
    BY <1>3
  <1> QED
    BY <1>2, <1>5, <1>6 DEF CurrentsSpread

\* Only a pick changes the currents.
LEMMA NextSpread ==
  ASSUME PoolTypes, CurrentsSpread, [Pool!Next]_(Pool!vars)
  PROVE  CurrentsSpread'
  <1>1. CASE current' = current /\ members' = members
    BY <1>1, Zenon DEF CurrentsSpread, Ahead, Drift
  <1>2. ASSUME NEW c \in Callers, Pool!Acquire(c) PROVE CurrentsSpread'
    <2> DEFINE R == Pool!Ready(caller[c].ticks)
    <2>1. members' = members
      BY <1>2, Zenon DEF Pool!Acquire
    <2>2. \/ R # {} /\ current' = Pool!CurrentAfter(R)
          \/ current' = current
      BY <1>2, Zenon DEF Pool!Acquire
    <2>3. BucketTypes /\ caller[c].ticks \in 0 .. MaxLag
      BY <1>2 DEF PoolTypes, CallerTypes, Pool!Acquire
    <2>4. R \in SUBSET members /\ members \subseteq Nodes1N
      BY <2>3, ReadyIs, SomeMembers
    <2> HIDE DEF R
    <2>5. CASE R # {} /\ current' = Pool!CurrentAfter(R)
      <3> DEFINE new == Pool!CurrentAfter(R)
      <3>1. \A m \in Nodes1N \ members : new[m] = 0
        <4>1. \A m \in Nodes1N \ members : current[m] = 0
          BY DEF CurrentsSpread
        <4>2. Pool!Best(R) \in R /\ R \in SUBSET Nodes1N
          BY <2>3, <2>4, <2>5, BestIs
        <4> QED
          BY <2>3, <2>4, <2>5, <4>1, <4>2, CurrentAfterIs
      <3>2. SumFunctionOnSet(new, members) = 0
        <4> DEFINE all == SumFunctionOnSet(QpsOf, R)
        <4>1. members \in SUBSET members /\ members \cap R = R
          BY <2>4
        <4>2. Pool!Best(R) \in members
          BY <2>3, <2>4, <2>5, BestIs
        <4>3. SumFunctionOnSet(new, members)
                = (SumFunctionOnSet(current, members) + SumFunctionOnSet(QpsOf, members \cap R))
                  - (IF Pool!Best(R) \in members THEN all ELSE 0)
          BY <2>3, <2>4, <2>5, <4>1, SumAfterPick
        <4>4. SumFunctionOnSet(current, members) = 0
          BY DEF CurrentsSpread
        <4>5. all \in Nat
          BY <2>3, <2>4, SpreadNumbers
        <4> HIDE DEF all, new
        <4>6. SumFunctionOnSet(new, members) = (0 + all) - all
          BY <4>1, <4>2, <4>3, <4>4 DEF all
        <4> QED
          BY <4>5, <4>6
      <3>3. \A A \in SUBSET members : SumFunctionOnSet(new, A) <= Ahead(Cardinality(A))
        BY <2>3, <2>4, <2>5, PickSpread
      <3> HIDE DEF new
      <3>4. current' = new
        BY <2>5 DEF new
      <3> QED
        BY <2>1, <3>1, <3>2, <3>3, <3>4, Zenon DEF CurrentsSpread, Ahead, Drift
    <2> QED
      BY <1>1, <2>1, <2>2, <2>5
  <1>3. ASSUME NEW c \in Callers,
               \/ Pool!Begin(c) \/ Pool!GiveUp(c) \/ Pool!ReadNow(c) \/ Pool!Wake(c)
               \/ \E a \in Pool!Answers : Pool!Answered(c, a)
        PROVE  current' = current /\ members' = members
    BY <1>3 DEF Pool!Begin, Pool!GiveUp, Pool!ReadNow, Pool!Wake, Pool!Answered, Pool!poolVars
  <1>4. Pool!Tick \/ UNCHANGED Pool!vars => current' = current /\ members' = members
    BY DEF Pool!Tick, Pool!vars, Pool!poolVars
  <1> QED
    BY <1>1, <1>2, <1>3, <1>4, PoolSteps

\* A node alone, and all the others together.
LEMMA SpreadIsBalance == ASSUME PoolTypes, CurrentsSpread PROVE Pool!WeightsBalance
  <1>1. BucketTypes
    BY DEF PoolTypes
  <1>2. members \subseteq Nodes1N /\ IsFiniteSet(members) /\ Pool!Endpoints = Nodes1N
    BY <1>1, SomeMembers, PoolNumbers
  <1> DEFINE n == Cardinality(members)
             far == Drift * (n - 1)
  <1>3. n \in Nat \ {0} /\ Drift \in Nat
    BY <1>1, SpreadNumbers
  <1>4. far \in Nat
    BY <1>3
  <1>5. SumFunctionOnSet(current, Nodes1N) = 0
    <2>1. \A m \in Nodes1N : current[m] \in Int
      BY <1>1 DEF BucketTypes
    <2>2. IsFiniteSet(Nodes1N) /\ IsFiniteSet(Nodes1N \ members)
      BY PoolNumbers, FS_Subset
    <2>3. Integral(current, Nodes1N)
      BY <2>1, <2>2 DEF Integral
    <2>4. SumFunctionOnSet(current, Nodes1N)
            = SumFunctionOnSet(current, members) + SumFunctionOnSet(current, Nodes1N \ members)
      BY <1>2, <2>3, SumOfParts
    <2>5. SumFunctionOnSet(current, Nodes1N \ members) = 0
      BY <2>2, SumOfZeros DEF CurrentsSpread
    <2>6. SumFunctionOnSet(current, members) = 0
      BY DEF CurrentsSpread
    <2> QED
      BY <2>4, <2>5, <2>6
  <1>6. ASSUME NEW m \in Nodes1N PROVE current[m] \in -far .. far
    <2>1. CASE m \notin members
      <3>1. current[m] = 0
        BY <2>1 DEF CurrentsSpread
      <3> HIDE DEF far
      <3> QED
        BY <1>4, <3>1
    <2>2. CASE m \in members
      <3> DEFINE V == members \ {m}
                 one == {m}
      <3>1. one \in SUBSET members /\ V \in SUBSET members /\ m \in one /\ one \ {m} = {}
            /\ Cardinality(one) = 1 /\ Cardinality(V) = n - 1 /\ {} \in SUBSET members
        <4>1. Cardinality(V) = n - 1
          BY <1>2, <2>2, FS_RemoveElement
        <4>2. Cardinality(one) = 1
          BY FS_Singleton
        <4> QED
          BY <2>2, <4>1, <4>2
      <3>2. current[m] \in Int
        BY <1>1 DEF BucketTypes
      <3>3. SumFunctionOnSet(current, one) = current[m]
        <4>1. Integral(current, one) /\ Integral(current, {})
          BY <1>1, <3>1, SpreadNumbers
        <4> HIDE DEF one
        <4>2. SumFunctionOnSet(current, one) = current[m] + SumFunctionOnSet(current, one \ {m})
          BY <3>1, <4>1, SumOfOne
        <4>3. SumFunctionOnSet(current, {}) = 0
          BY <4>1, SumOfSome
        <4> QED
          BY <3>1, <3>2, <4>2, <4>3
      <3>4. 0 = current[m] + SumFunctionOnSet(current, V)
        <4>1. members \in SUBSET members
          OBVIOUS
        <4>2. Integral(current, members)
          BY <1>1, <4>1, SpreadNumbers
        <4>3. SumFunctionOnSet(current, members) = current[m] + SumFunctionOnSet(current, V)
          BY <2>2, <4>2, SumOfOne
        <4> QED
          BY <4>3 DEF CurrentsSpread
      <3>5. /\ SumFunctionOnSet(current, one) <= Ahead(1)
            /\ SumFunctionOnSet(current, V) <= Ahead(n - 1)
        BY <3>1 DEF CurrentsSpread
      <3>6. SumFunctionOnSet(current, V) \in Int
        BY <1>1, <3>1, SpreadNumbers
      <3> HIDE DEF V, one, n
      <3>7. Ahead(1) = far /\ Ahead(n - 1) = far
        <4>1. 1 * (n - 1) = n - 1 /\ (n - 1) * (n - (n - 1)) = n - 1
          BY <1>3
        <4> QED
          BY <4>1 DEF Ahead, n
      <3> HIDE DEF far
      <3> QED
        BY <1>4, <3>2, <3>3, <3>4, <3>5, <3>6, <3>7
    <2> QED
      BY <2>1, <2>2
  <1>7. DOMAIN current = Nodes1N
    BY <1>1 DEF BucketTypes
  <1>8. Pool!SumFunction(current) = 0
    BY <1>5, <1>7, PoolSums, Zenon DEF Pool!SumFunction
  <1>9. far = (Pool!SumFunctionOnSet(QpsOf, members) - 1) * (Pool!Cardinality(members) - 1)
    BY PoolSums, Zenon DEF Drift
  <1> HIDE DEF far
  <1> QED
    BY <1>2, <1>6, <1>8, <1>9, Zenon DEF Pool!WeightsBalance

-----------------------------------------------------------------------------
(* What the pool promises, and both components together *)

PoolInv == PoolTypes /\ BurstInv /\ CurrentsSpread

LEMMA PoolInvInit == Pool!Init => PoolInv
  BY InitTypes, InitBurst, InitSpread DEF PoolInv

LEMMA PoolInvNext == PoolInv /\ [Pool!Next]_(Pool!vars) => PoolInv'
  BY NextTypes, NextBurst, NextSpread DEF PoolInv

\* The types of RpcPool are among those of its invariant.
LEMMA PoolTypesHold == ASSUME PoolTypes PROVE Pool!TypeOK
  <1>1. /\ Pool!Endpoints = Nodes1N /\ Pool!OldestAge = Sec + MaxLag /\ Pool!None = 0
        /\ \A m \in Nodes1N : Pool!Qps(m) = QpsOf[m]
        /\ QpsOf \in [Nodes1N -> Nat \ {0}] /\ Sec \in Nat
    BY PoolNumbers
  <1>2. BucketTypes /\ CallerTypes
    BY DEF PoolTypes
  <1>3. ASSUME NEW m \in Nodes1N PROVE tokens[m] \in 0 .. Pool!Qps(m) * Sec
    <2> DEFINE full == QpsOf[m] * Sec
    <2>1. tokens[m] \in Nat /\ tokens[m] <= full /\ full \in Nat
      BY <1>1, <1>2 DEF BucketTypes
    <2> HIDE DEF full
    <2>2. tokens[m] \in 0 .. full
      BY <2>1
    <2> QED
      BY <1>1, <2>2 DEF full
  <1>4. ASSUME NEW c \in Callers
        PROVE  /\ caller[c].pc \in {"idle", "waiting", "locking", "asleep", "calling"}
               /\ caller[c].ticks \in 0 .. Sec + MaxLag
               /\ caller[c].at \in members \cup {0}
               /\ (caller[c].at = 0) <=> (caller[c].pc # "calling")
    BY <1>2 DEF CallerTypes
  <1>5. members \in (SUBSET Nodes1N) \ {{}}
    BY <1>2, Zenon DEF BucketTypes
  <1>6. /\ current \in [Nodes1N -> Int] /\ age \in [Nodes1N -> 0 .. Sec + MaxLag]
        /\ cool \in [Nodes1N -> -MaxLag .. Sec] /\ calls \in 0 .. MaxCalls
    BY <1>2 DEF BucketTypes
  <1> QED
    BY <1>1, <1>3, <1>4, <1>5, <1>6, Zenon DEF Pool!TypeOK

\* A caller that takes a node finds it no longer cooling, at a time that is not
\* later than the present.
LEMMA TakenIsNotCooling ==
  ASSUME PoolTypes, [Pool!Next]_(Pool!vars), NEW c \in Callers,
         caller'[c].pc = "calling", caller[c].pc # "calling"
  PROVE  cool[caller'[c].at] <= 0
  <1>1. BucketTypes /\ CallerTypes
    BY DEF PoolTypes
  <1>2. ASSUME NEW d \in Callers, Pool!Acquire(d) PROVE cool[caller'[c].at] <= 0
    <2> DEFINE lag == caller[d].ticks
               R == Pool!Ready(lag)
               b == Pool!Best(R)
    <2>1. lag \in 0 .. MaxLag /\ lag \in Nat
      BY <1>1, <1>2, PoolNumbers DEF CallerTypes, Pool!Acquire
    <2>2. \/ R # {} /\ caller' = [caller EXCEPT ![d] = [pc |-> "calling", ticks |-> 0, at |-> b]]
          \/ caller' = [caller EXCEPT ![d] =
                          [pc |-> "asleep", ticks |-> Pool!MinWait(lag), at |-> Pool!None]]
      BY <1>2, Zenon DEF Pool!Acquire
    <2>3. R # {} => b \in R /\ ~Pool!Cooling(b, lag) /\ b \in Nodes1N
      BY <1>1, <2>1, ReadyIs, SomeMembers
    <2> HIDE DEF lag, R, b
    <2>4. R # {} /\ caller'[c].at = b
      BY <1>1, <2>2 DEF CallerTypes
    <2>5. cool[b] \in Int
      BY <1>1, <2>3, <2>4, PoolNumbers DEF BucketTypes
    <2>6. ~(-lag < cool[b])
      BY <2>3, <2>4 DEF Pool!Cooling
    <2> QED
      BY <2>1, <2>4, <2>5, <2>6
  <1>3. ASSUME NEW d \in Callers,
               \/ Pool!Begin(d) \/ Pool!GiveUp(d) \/ Pool!ReadNow(d) \/ Pool!Wake(d)
               \/ \E a \in Pool!Answers : Pool!Answered(d, a)
        PROVE  caller'[c].pc # "calling"
    BY <1>1, <1>3 DEF CallerTypes, Pool!Begin, Pool!GiveUp, Pool!ReadNow, Pool!Wake,
                      Pool!Answered, Pool!Idle
  <1>4. Pool!Tick => caller'[c].pc # "calling"
    <2> SUFFICES ASSUME Pool!Tick PROVE caller'[c].pc = caller[c].pc
      OBVIOUS
    <2>1. caller'[c] = CASE caller[c].pc = "locking" -> [caller[c] EXCEPT !.ticks = @ + 1]
              [] caller[c].pc = "asleep" -> [caller[c] EXCEPT !.ticks = Pool!Larger(0, @ - 1)]
              [] OTHER -> caller[c]
      BY DEF Pool!Tick
    <2> QED
      BY <1>1, <2>1 DEF CallerTypes
  <1>5. UNCHANGED Pool!vars => caller' = caller
    BY DEF Pool!vars
  <1> QED
    BY <1>2, <1>3, <1>4, <1>5, PoolSteps

\* A step of both is a step of each, or leaves it alone.
LEMMA NodesSteps ==
  ASSUME [NodesNext]_nodesVars
  PROVE  [Next]_vars /\ [Pool!Next]_(Pool!vars)
  <1>1. UNCHANGED poolVars => UNCHANGED Pool!vars
    BY DEF poolVars, Pool!vars, Pool!poolVars
  <1>2. CASE runs = "fetch" /\ Next /\ UNCHANGED <<runs, poolVars>>
    BY <1>1, <1>2
  <1>3. CASE runs = "pool" /\ Pool!Next /\ UNCHANGED <<runs, vars>>
    BY <1>3
  <1>4. CASE UNCHANGED nodesVars
    BY <1>1, <1>4 DEF nodesVars
  <1> QED
    BY <1>2, <1>3, <1>4 DEF NodesNext

NodesInv == FetchInv /\ FetchPlaces /\ FetchFlags /\ PoolInv

LEMMA NodesInvHolds == NodesSpec => []NodesInv
  <1>1. NodesInit => NodesInv
    BY InitFetch, InitPlaces, PoolInvInit DEF NodesInit, NodesInv
  <1>2. NodesInv /\ [NodesNext]_nodesVars => NodesInv'
    BY NodesSteps, NextFetch, NextPlaces, NextFlags, PoolInvNext DEF NodesInv
  <1> QED
    BY <1>1, <1>2, PTL DEF NodesSpec

\* No bucket is overdrawn or over its capacity, callers are where acquire and
\* post can be, and a fetch that returned has left no goroutine behind.
THEOREM NodesTypes == NodesSpec => []NodesTypeOK
  <1>1. NodesInv => NodesTypeOK
    BY FetchTypesHold, PoolTypesHold DEF NodesInv, PoolInv, NodesTypeOK
  <1> QED
    BY <1>1, NodesInvHolds, PTL

\* Whatever subset of the nodes is ready at each pick (weightedPick), no node
\* gets ahead of the others by more than a round, less one, for each of them;
\* and no node is given more calls in a second than its bucket holds and gains
\* (refill, take, penalize), for any nodes, rates, callers and clocks.
THEOREM EachGetsItsShare == NodesSpec => []SharesAreKept
  <1>1. NodesInv => SharesAreKept
    BY BurstIsBounded, SpreadIsBalance
       DEF NodesInv, PoolInv, SharesAreKept, Pool!SharesAreKept
  <1> QED
    BY <1>1, NodesInvHolds, PTL

\* A node that answered 429 is given no call until its cool-down is over, by
\* whichever caller, however old its reading of the clock (penalize,
\* waitDuration).
THEOREM RestIsRespected == NodesSpec => NoCallWhileCooling
  <1> DEFINE Rested == \A c \in Callers :
        caller'[c].pc = "calling" /\ caller[c].pc # "calling" => cool[caller'[c].at] <= 0
  <1>1. NodesInv /\ [NodesNext]_nodesVars => [Rested]_(Pool!vars)
    BY NodesSteps, TakenIsNotCooling DEF NodesInv, PoolInv
  <1>2. NoCallWhileCooling <=> [][Rested]_(Pool!vars)
    BY DEF NoCallWhileCooling, Pool!NoCallWhileCooling
  <1> HIDE DEF Rested
  <1> QED
    BY <1>1, <1>2, NodesInvHolds, PTL DEF NodesSpec

\* A block is returned whole also where the pool is at work.
THEOREM BlocksAreWholeBeside == NodesSpec => []ReturnedWhole
  <1>1. NodesInv => ReturnedWhole
    BY DEF NodesInv, FetchInv, Whole, ReturnedWhole
  <1> QED
    BY <1>1, NodesInvHolds, PTL
=============================================================================
