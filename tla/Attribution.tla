---------------------------- MODULE Attribution -----------------------------
(***************************************************************************)
(* Who traded, and for how much: DecodeSwap and completeUnattributedFill   *)
(* (internal/venue/v4fill/swap.go), AttributeUser and netAmountFor         *)
(* (internal/venue/v4fill/transfer.go) and enrichNativeQuote               *)
(* (internal/app/native_quote.go), over the receipt of one transaction. It *)
(* is built by what happens on the chain: trades in the registered pool,   *)
(* which a router passes on and may take a fee of, trades in other pools   *)
(* of the PoolManager, and whatever else moves the token or the quote:     *)
(* transfers, trades with curves and on other exchanges.                   *)
(* AttributeUser goes through a Go map: in any order.                      *)
(* The amount in native ETH is what TraceNative models.                    *)
(***************************************************************************)
EXTENDS Naturals, Integers, SequencesExt, FiniteSetsExt

CONSTANTS
  Users,      \* addresses that are not the protocol's
  PM, Router, \* PoolManager, and the router of the transaction
  NoUser,
  MaxAmount,  \* bound: units of a trade
  MaxSteps    \* bound: trades and transfers of a transaction

AttributionAssumption ==
  /\ {PM, Router} \cap Users = {} /\ NoUser \notin Users /\ IsFiniteSet(Users)
  /\ MaxAmount \in Nat \ {0} /\ MaxSteps \in Nat \ {0}

\* Catalog.ProtocolAddresses; the zero address is left out in the same way.
Protocol == {PM, Router}

VARIABLES
  native,     \* the pool's quote is ETH, not a token
  transfers,  \* what was moved: ETH by calls, the rest with a Transfer log each
  swaps,      \* the Swap logs: registered or not, the pool's change of the token
  trades,     \* what happened: the trade behind each Swap log
  steps,
  fills       \* what DecodeSwap made of the receipt, once it is there

vars == <<native, transfers, swaps, trades, steps, fills>>

Size(n) == IF n < 0 THEN -n ELSE n

\* The Transfer logs of one token.
DecodeTransfers(token) == {i \in DOMAIN transfers : transfers[i].token = token}

\* What a transfer moves to an address, less what it moves from it.
Delta(t, a) == (IF t.to = a THEN t.amount ELSE 0) - (IF t.from = a THEN t.amount ELSE 0)

Net(token, a) ==
  SumFunctionOnSet([i \in DOMAIN transfers |-> Delta(transfers[i], a)], DecodeTransfers(token))

-----------------------------------------------------------------------------
(* The transaction *)

Move(token, from, to, amount) == [token |-> token, from |-> from, to |-> to, amount |-> amount]

Executing == fills = {} /\ steps < MaxSteps /\ steps' = steps + 1

\* What the registered pool trades the token for.
Quote == IF native THEN "eth" ELSE "quote"

\* A trade in the registered pool; the router keeps a fee of what it passes on.
Trade(user, side, meme, quote, fee) ==
  /\ Executing
  /\ IF side = "buy"
       THEN /\ fee < meme
            /\ transfers' = transfers \o
                 <<Move(Quote, user, PM, quote),
                   Move("meme", PM, Router, meme), Move("meme", Router, user, meme - fee)>>
       ELSE /\ fee < quote
            /\ transfers' = transfers \o
                 <<Move("meme", user, PM, meme),
                   Move(Quote, PM, Router, quote), Move(Quote, Router, user, quote - fee)>>
  /\ swaps' = Append(swaps, [registered |-> TRUE, tokenDelta |-> IF side = "buy" THEN -meme ELSE meme])
  /\ trades' = Append(trades, [user |-> user, side |-> side,
                               meme |-> IF side = "buy" THEN meme - fee ELSE meme,
                               quote |-> IF side = "buy" THEN quote ELSE quote - fee])
  /\ UNCHANGED <<native, fills>>

\* A trade of something else for the quote, in a pool that is not registered.
TradeElsewhere(user, side, quote) ==
  /\ Executing
  /\ transfers' = Append(transfers, IF side = "buy" THEN Move(Quote, user, PM, quote)
                                                    ELSE Move(Quote, PM, user, quote))
  /\ swaps' = Append(swaps, [registered |-> FALSE, tokenDelta |-> 0])
  /\ trades' = Append(trades, [user |-> user, side |-> side, meme |-> 0, quote |-> quote])
  /\ UNCHANGED <<native, fills>>

\* A transfer, or one leg of a trade with a curve or on another exchange, whose
\* addresses are like any other and of which the PoolManager logs nothing.
Send(token, from, to, amount) ==
  /\ Executing
  /\ transfers' = Append(transfers, Move(token, from, to, amount))
  /\ UNCHANGED <<native, swaps, trades, fills>>

\* What TraceNativeAmount adds up: all ETH that the transaction moved.
EthNet(a) == Net("eth", a)

-----------------------------------------------------------------------------
(* AttributeUser *)

Addresses    == Users \cup Protocol
Nets(token)  == [a \in Addresses |-> Net(token, a)]
Nobody       == [user |-> NoUser, size |-> 0, tied |-> FALSE]

ConsiderAndStayTied(net, best, a) ==
  IF a \in Protocol \/ net[a] = 0 \/ Size(net[a]) < best.size THEN best
  ELSE IF Size(net[a]) = best.size THEN [best EXCEPT !.tied = TRUE]
  ELSE [best EXCEPT !.user = a, !.size = Size(net[a])]

\* One turn of the loop over the map of nets.
Consider(net, best, a) ==
  IF a \in Protocol \/ net[a] = 0 \/ Size(net[a]) < best.size THEN best
  ELSE IF Size(net[a]) = best.size THEN [best EXCEPT !.tied = TRUE]
  ELSE [user |-> a, size |-> Size(net[a]), tied |-> FALSE]

\* The result, or Nobody. The map has the touched addresses only; the net of the
\* others is zero, and zero is passed over.
AttributeUser(net, order) ==
  LET best == FoldLeft(LAMBDA s, a : Consider(net, s, a), Nobody, order)
  IN IF best.user = NoUser \/ best.tied THEN Nobody ELSE best

-----------------------------------------------------------------------------
(* DecodeSwap and enrichNativeQuote *)

\* TraceNativeAmount, demanded of a receipt with one Swap log only; 0 for none,
\* also when the ETH did not go against the token.
NativeQuote(user) ==
  IF Len(swaps) = 1 /\ EthNet(user) * Net("meme", user) < 0 THEN Size(EthNet(user)) ELSE 0

\* The nets of the user decide, not the pool's numbers, which are only compared.
AttributedFill(swap, u) ==
  [user |-> u.user, side |-> IF Net("meme", u.user) > 0 THEN "buy" ELSE "sell",
   meme |-> u.size,
   quote |-> IF native THEN NativeQuote(u.user) ELSE Size(Net("quote", u.user))]

\* completeUnattributedFill: a price, and no trade of anybody.
UnattributedFills(swap, q) ==
  IF native \/ swap.tokenDelta = 0 \/ Len(swaps) # 1 \/ q.user = NoUser THEN {}
  ELSE {[user |-> NoUser, side |-> NoUser, meme |-> Size(swap.tokenDelta), quote |-> q.size]}

\* The fill of a Swap log, if there is one.
DecodeSwap(swap, u, q) ==
  IF u.user # NoUser THEN {AttributedFill(swap, u)} ELSE UnattributedFills(swap, q)

Orders == [S \in SUBSET Addresses |-> SetToSeqs(S)]

\* What AttributeUser may return, for all orders of those that it considers.
Attributions(net) ==
  {AttributeUser(net, order) : order \in Orders[{a \in Addresses : net[a] # 0}]}

\* The loop over the receipt's logs; other pools are not routed here.
ProcessReceipt ==
  /\ fills = {} /\ swaps # <<>>
  /\ \E memeNet \in {Nets("meme")}, quoteNet \in {Nets("quote")} :
     \E u \in Attributions(memeNet), q \in Attributions(quoteNet) :
       fills' = {[log |-> i, got |-> DecodeSwap(swaps[i], u, q)] :
                   i \in {j \in 1 .. Len(swaps) : swaps[j].registered}}
  /\ UNCHANGED <<native, transfers, swaps, trades, steps>>

Init ==
  /\ native \in BOOLEAN /\ transfers = <<>> /\ swaps = <<>> /\ trades = <<>>
  /\ steps = 0 /\ fills = {}

Amounts == 1 .. MaxAmount

Next ==
  \/ \E user \in Users, side \in {"buy", "sell"}, meme, quote \in Amounts, fee \in 0 .. 1 :
       Trade(user, side, meme, quote, fee)
  \/ \E user \in Users, side \in {"buy", "sell"}, quote \in Amounts :
       TradeElsewhere(user, side, quote)
  \/ \E token \in {"meme", Quote}, from, to \in Users, amount \in Amounts :
       from # to /\ Send(token, from, to, amount)
  \/ ProcessReceipt

Spec == Init /\ [][Next]_vars

-----------------------------------------------------------------------------
Got(log) == UNION {f.got : f \in {g \in fills : g.log = log}}
AllFills == UNION {f.got : f \in fills}

\* Those who gained or gave away most of the token.
Largest ==
  LET net == Nets("meme")
  IN {a \in Users : net[a] # 0 /\ \A b \in Users : Size(net[b]) <= Size(net[a])}

\* Types; and amounts are never negative and never zero where they are demanded.
TypeOK ==
  /\ steps \in 0 .. MaxSteps /\ Len(trades) = Len(swaps)
  /\ \A f \in AllFills :
       /\ f.meme > 0 /\ f.quote >= 0 /\ f.user \in Users \cup {NoUser}
       /\ f.user = NoUser => ~native /\ f.quote > 0

\* Whatever the order of Go's map, a receipt is attributed to the one who gained
\* or gave away most, never to a router that kept a fee, and to nobody exactly
\* when two did equally (AttributeUser).
AttributionIsUnique ==
  \A f \in fills : f.got # {} =>
    IF Cardinality(Largest) = 1
      THEN \A got \in f.got :
             /\ got.user \in Largest
             /\ got.meme = Size(Net("meme", got.user))
             /\ got.side = "buy" <=> Net("meme", got.user) > 0
      ELSE \A got \in f.got : got.user = NoUser

\* A transaction that is one trade is recorded as what its user got and gave,
\* the router's fee taken off (DecodeSwap; the pool's numbers contain the fee).
OneTradeIsOneFill ==
  steps = 1 => \A f \in fills : f.got = {trades[1]}

\* What a trade moved of the quote to or from an address.
Paid(d, a) == IF d.user # a THEN 0 ELSE IF d.side = "buy" THEN -d.quote ELSE d.quote

\* The ETH that went past the PoolManager.
Besides(a) ==
  SumFunctionOnSet([i \in DOMAIN transfers |-> Delta(transfers[i], a)],
                   {i \in DecodeTransfers("eth") : {transfers[i].from, transfers[i].to} \cap Protocol = {}})

\* An amount in ETH never contains what another swap of the transaction moved:
\* it is what the fill's swap moved for its user, and with it the ETH that he
\* sent, got, or traded where the PoolManager logs no Swap, which the count of
\* the Swaps does not see. Without such ETH it is the amount of his trade
\* (enrichNativeQuote, countReceiptPoolManagerSwaps, accumulateNativeNet).
NativeIsOfOneSwap ==
  native => \A i \in 1 .. Len(swaps) : \A got \in Got(i) : got.quote # 0 =>
    /\ got.quote = Size(Paid(trades[i], got.user) + Besides(got.user))
    /\ Besides(got.user) = 0 => got.user = trades[i].user /\ got.quote = trades[i].quote

\* "本笔用户实际得到/交出的净额": the fills of a user in a transaction are, taken
\* together, what he gained or gave away in it.
FillsAddUp ==
  \A u \in Users :
    MapThenSumSet(LAMBDA f : MapThenSumSet(LAMBDA got : IF got.user = u THEN got.meme ELSE 0, f.got), fills)
      <= Size(Net("meme", u))
=============================================================================
