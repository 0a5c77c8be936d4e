---------------------------- MODULE TraceNative -----------------------------
(***************************************************************************)
(* TraceNativeAmount and accumulateNativeNet (internal/chain/trace.go):    *)
(* what an account gained or paid in ETH by a transaction, from the tree   *)
(* of calls that debug_traceTransaction returns. The transaction runs here *)
(* on a small EVM, which moves ETH with calls and takes everything back    *)
(* that a failed call and its children did; the tree, a sequence of frames *)
(* in the order they were entered, is what the code is given.              *)
(***************************************************************************)
EXTENDS Naturals, Integers, SequencesExt, FiniteSetsExt

CONSTANTS
  Accounts, Target,  \* the fill's user is one of the accounts
  Values,            \* what a call may carry in wei, where it may carry ETH at all
  MaxTraceNodes, MaxTraceDepth,  \* 10000, 128
  MaxFrames          \* bound: calls of the transaction

TraceAssumption ==
  /\ Target \in Accounts /\ IsFiniteSet(Accounts) /\ Values \subseteq Nat \ {0}
  /\ {MaxTraceNodes, MaxTraceDepth, MaxFrames} \subseteq Nat \ {0}

\* CREATE and CREATE2 are like CALL here.
Kinds == {"CALL", "STATICCALL", "DELEGATECALL", "CALLCODE", "SELFDESTRUCT"}
None  == -1

VARIABLES
  frames,   \* [parent, kind, from, to, value, failed]; 0 is no parent
  stack,    \* the frames entered and not left, the outermost first
  saved,    \* the balances when each of them was entered
  balance,  \* what each account has gained so far
  answer    \* TraceNativeAmount for a "buy" and a "sell", once it was called

vars == <<frames, stack, saved, balance, answer>>

-----------------------------------------------------------------------------
(* The EVM and callTracer *)

\* The account a frame acts as: code that is only borrowed acts as its borrower.
Acts(f) == IF f.kind \in {"DELEGATECALL", "CALLCODE"} THEN f.from ELSE f.to

\* A borrowed frame repeats the value of the one it was called from, or moves it
\* from an account to itself.
Moves(f) == f.kind \in {"CALL", "SELFDESTRUCT"}

Enter(f) ==
  /\ frames' = Append(frames, f)
  /\ stack' = Append(stack, Len(frames'))
  /\ saved' = Append(saved, balance)
  /\ balance' = IF Moves(f)
                  THEN [a \in Accounts |-> balance[a] + (IF a = f.to THEN f.value ELSE 0)
                                                      - (IF a = f.from THEN f.value ELSE 0)]
                  ELSE balance
  /\ UNCHANGED answer

\* The transaction itself.
Begin ==
  /\ frames = <<>>
  /\ \E from, to \in Accounts, value \in Values :
       Enter([parent |-> 0, kind |-> "CALL", from |-> from, to |-> to, value |-> value, failed |-> FALSE])

Static == \E i \in ToSet(stack) : frames[i].kind = "STATICCALL"

Call ==
  /\ stack # <<>> /\ Len(frames) < MaxFrames
  /\ LET parent == Last(stack) IN
     /\ frames[parent].kind # "SELFDESTRUCT"
     /\ \E kind \in Kinds, to \in Accounts, value \in Values \cup {0} :
          /\ kind = "DELEGATECALL" => value = frames[parent].value
          /\ kind # "DELEGATECALL" => (value = 0 <=> kind = "STATICCALL" \/ Static)
          /\ Enter([parent |-> parent, kind |-> kind, from |-> Acts(frames[parent]), to |-> to,
                    value |-> value, failed |-> FALSE])

Leave(failed) ==
  /\ stack # <<>>
  /\ frames' = [frames EXCEPT ![Last(stack)].failed = failed]
  /\ balance' = IF failed THEN Last(saved) ELSE balance
  /\ stack' = Front(stack) /\ saved' = Front(saved)
  /\ UNCHANGED answer

-----------------------------------------------------------------------------
(* accumulateNativeNet *)

\* A frame and everything below a failed one is not counted.
Reverted[i \in 0 .. Len(frames)] == i # 0 /\ (frames[i].failed \/ Reverted[frames[i].parent])

Depth[i \in 0 .. Len(frames)] == IF i = 0 THEN 0 ELSE 1 + Depth[frames[i].parent]

CountsAlone(i) == ~frames[i].failed /\ frames[i].value > 0 /\ frames[i].kind = "CALL"

Counts(i) == ~Reverted[i] /\ frames[i].value > 0 /\ frames[i].kind = "CALL"

Delta(f) == (IF f.to = Target THEN f.value ELSE 0) - (IF f.from = Target THEN f.value ELSE 0)

NativeNet ==
  SumFunctionOnSet([i \in DOMAIN frames |-> Delta(frames[i])], {i \in 1 .. Len(frames) : Counts(i)})

TooDeepOnly == \E i \in 1 .. Len(frames) : Depth[i] > MaxTraceDepth

TooLarge == Len(frames) > MaxTraceNodes \/ \E i \in 1 .. Len(frames) : Depth[i] > MaxTraceDepth

FitsSide(side) == (side = "buy" /\ NativeNet < 0) \/ (side = "sell" /\ NativeNet > 0)

\* The amount, or None with an error.
TraceNativeAmount(side) ==
  IF TooLarge \/ ~FitsSide(side) THEN None ELSE IF NativeNet < 0 THEN -NativeNet ELSE NativeNet

Trace ==
  /\ frames # <<>> /\ stack = <<>> /\ answer = <<>>
  /\ answer' = [side \in {"buy", "sell"} |-> TraceNativeAmount(side)]
  /\ UNCHANGED <<frames, stack, saved, balance>>

Init ==
  /\ frames = <<>> /\ stack = <<>> /\ saved = <<>>
  /\ balance = [a \in Accounts |-> 0] /\ answer = <<>>

Next == Begin \/ Call \/ (\E failed \in BOOLEAN : Leave(failed)) \/ Trace

Spec == Init /\ [][Next]_vars

-----------------------------------------------------------------------------
Answered == answer # <<>>

\* The code does not count what a destroyed contract left to, or had from, the
\* user (docs/调研/11): where that happened its amount is another one.
Inherits ==
  \E i \in 1 .. Len(frames) :
    frames[i].kind = "SELFDESTRUCT" /\ ~Reverted[i] /\ Target \in {frames[i].from, frames[i].to}

Told == Answered /\ ~Inherits

\* Types; and a trace beyond the limits has no amount.
TypeOK ==
  /\ Len(frames) <= MaxFrames /\ Len(saved) = Len(stack)
  /\ \A i \in 1 .. Len(frames) : frames[i].parent < i
  /\ SumFunctionOnSet(balance, Accounts) = 0
  /\ Answered => \A side \in {"buy", "sell"} :
       answer[side] # None => answer[side] > 0 /\ Len(frames) <= MaxTraceNodes

\* The net of the user, from the tree, is what his balance changed by, whatever
\* calls failed, were caught and went on below which others, and whichever code
\* was borrowed (accumulateNativeNet).
NetIsBalanceChange == Told => NativeNet = balance[Target]

\* A buyer's amount is what he paid, a seller's is what he got; the other
\* direction has none (TraceNativeAmount).
AmountFitsSide ==
  Told =>
    /\ answer["buy"] # None => balance[Target] = -answer["buy"]
    /\ answer["sell"] # None => balance[Target] = answer["sell"]

\* Within the limits an amount is missing only when there was none.
AmountIsFound ==
  Told /\ ~TooLarge /\ balance[Target] # 0 => \E side \in {"buy", "sell"} : answer[side] # None
=============================================================================
