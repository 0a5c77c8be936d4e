------------------------------- MODULE Nodes --------------------------------
(***************************************************************************)
(* What lies between the scanner and the nodes (internal/chain): the pool  *)
(* of nodes (RpcPool) and the fetch of a block with its receipts           *)
(* (Receipts). A fetch asks the pool for a node per call and assumes       *)
(* nothing of which one it is; the pool knows nothing of what is asked. So *)
(* neither reads what the other writes, a property of one depends on its   *)
(* own steps only, and one of them runs in each behaviour: the sum of the  *)
(* two state spaces is explored, not their product.                        *)
(***************************************************************************)
EXTENDS Receipts, TLC

CONSTANTS N, QpsOf, Callers, Sec, MaxLag, MaxCalls  \* of RpcPool

VARIABLES
  runs,                                                        \* who moves
  members, current, tokens, age, cool, caller, calls, recent   \* of RpcPool

poolVars == <<members, current, tokens, age, cool, caller, calls, recent>>

Pool == INSTANCE RpcPool

ASSUME NodesAssumption == Pool!PoolAssumption

nodesVars == <<runs, vars, poolVars>>

NodesInit ==
  /\ runs \in {"fetch", "pool"}
  /\ Init /\ Pool!Init
  /\ runs # "fetch" => ~batch
  /\ runs # "pool" => members = Pool!Endpoints

NodesNext ==
  \/ runs = "fetch" /\ Next /\ UNCHANGED <<runs, poolVars>>
  \/ runs = "pool" /\ Pool!Next /\ UNCHANGED <<runs, vars>>

NodesSpec ==
  /\ NodesInit /\ [][NodesNext]_nodesVars
  /\ \/ runs = "fetch" /\ Fairness
     \/ runs = "pool" /\ Pool!Fairness

-----------------------------------------------------------------------------
\* Types of both; a fetch that has returned has left no goroutine behind.
NodesTypeOK == TypeOK /\ Pool!TypeOK

\* See RpcPool: the weighted round robin stays in balance, and no bucket is
\* overdrawn (weightedPick, refill, take).
SharesAreKept == Pool!SharesAreKept

\* See RpcPool: a node that answered 429 rests for its second (penalize).
NoCallWhileCooling == Pool!NoCallWhileCooling

\* Whoever asked gets an answer: a call waits for a node only so long (acquire),
\* and FetchBlock, with its goroutines, channel and cancellation, returns.
CallsReturn == FetchReturns /\ Pool!EveryCallReturns

-----------------------------------------------------------------------------
(* Instances *)

CONSTANTS t1, t2, t3, fA, fB, fE

\* Two forks that share transactions at different indices, one of them with more
\* transactions than there are workers, and an empty block.
MCTxsOf == (fA :> <<t1, t2, t3>>) @@ (fB :> <<t2, t1>>) @@ (fE :> <<>>)

MCQps == <<2, 1>>
=============================================================================
