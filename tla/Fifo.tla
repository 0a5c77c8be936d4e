-------------------------------- MODULE Fifo --------------------------------
(***************************************************************************)
(* Realised profit: ReplayFIFO and humanQuantity (internal/domain/fifo.go) *)
(* over the trades of one wallet in one token that FIFOEvents reads        *)
(* (internal/store/wallet_events.go), as logWalletEvent uses it after a    *)
(* block's commit (internal/app/process_block.go) and samplesFromEvents in *)
(* a recalculation (internal/score/score.go), while the retention purge    *)
(* takes expired trades away. A missing dollar price is NoPrice.           *)
(***************************************************************************)
EXTENDS Naturals, Integers, SequencesExt, FiniteSetsExt

CONSTANTS
  MaxRaw,    \* bound: smallest units of a trade
  Prices,    \* dollar prices
  Decimals,  \* what events say of the token's decimals
  Base,      \* 10
  MaxEvents  \* bound: trades

FifoAssumption ==
  /\ MaxRaw \in Nat /\ Prices \subseteq Nat \ {0} /\ Decimals \subseteq Nat /\ Decimals # {}
  /\ IsFiniteSet(Decimals)
  /\ Base \in Nat \ {0} /\ MaxEvents \in Nat

NoPrice == 0

\* Stored buys and sells with units. One without has no price (ExecQuotePerToken
\* refuses it), and the replay passes over it before it tests the quantity.
Trades  == [id : 1 .. MaxEvents, direction : {"buy", "sell"}, raw : 1 .. MaxRaw,
            decimals : Decimals, price : Prices \cup {NoPrice}]

VARIABLES
  events,    \* wallet_events of the pair, in the order of their ids
  inserted,  \* how many there were; the id of an event is its number
  unlogged,  \* the sells of committed blocks that have still to be logged
  log,       \* what the line of a sell said of its profit
  steady     \* the logged sells no purge has happened since

vars == <<events, inserted, unlogged, log, steady>>

-----------------------------------------------------------------------------
(* ReplayFIFO *)

Lesser(a, b) == IF a < b THEN a ELSE b

Power(n) == LET p[k \in 0 .. n] == IF k = 0 THEN 1 ELSE Base * p[k - 1] IN p[n]

\* humanQuantity, in units of the finest decimals, so that it is an integer.
Quantity(e) == e.raw * Power(Max(Decimals) - e.decimals)

NewestFirst(lots) == Reverse(lots)

OldestFirst(lots) == lots

\* One turn of the loop over the lots: what a sell takes of the lot. Nothing when
\* there is nothing remaining; and what is taken whole is gone.
Match(e, s, lot) ==
  LET take == Lesser(s.remaining, lot.qty)
  IN IF s.remaining = 0 \/ s.failed THEN [s EXCEPT !.lots = Append(@, lot)]
     ELSE IF lot.decimals # e.decimals THEN [s EXCEPT !.failed = TRUE]
     ELSE [s EXCEPT !.lots = IF take = lot.qty THEN @ ELSE Append(@, [lot EXCEPT !.qty = @ - take]),
                    !.remaining = @ - take,
                    !.matched = @ + take,
                    !.pnl = @ + take * (e.price - lot.price)]

Sell(e, lots) ==
  FoldLeft(LAMBDA s, lot : Match(e, s, lot),
           [lots |-> <<>>, remaining |-> Quantity(e), matched |-> 0, pnl |-> 0, failed |-> FALSE],
           OldestFirst(lots))

Step(s, e) ==
  IF s.failed \/ e.price = NoPrice THEN s
  ELSE IF e.direction = "buy"
    THEN [s EXCEPT !.lots = Append(@, [qty |-> Quantity(e), price |-> e.price, decimals |-> e.decimals])]
  ELSE LET sold == Sell(e, s.lots)
       IN [lots |-> sold.lots, failed |-> sold.failed,
           results |-> Append(s.results, [id |-> e.id, matched |-> sold.matched,
                                          pnl |-> sold.pnl, overflow |-> sold.remaining])]

ReplayFIFO(es) == FoldLeft(Step, [lots |-> <<>>, results |-> <<>>, failed |-> FALSE], es)

\* FIFOEvents and ScoreEvents: ORDER BY id.
InOrder(es) == es

\* The results, or none when the replay fails.
Results(es) ==
  LET replay == ReplayFIFO(InOrder(es))
  IN IF replay.failed THEN {} ELSE ToSet(replay.results)

ResultOf(id) == {r \in Results(events) : r.id = id}

-----------------------------------------------------------------------------
(* Commits, log lines and purges *)

Insert(t) ==
  /\ inserted' = inserted + 1 /\ t.id = inserted'
  /\ events' = Append(events, t)
  /\ unlogged' = IF t.direction = "sell" THEN Append(unlogged, t.id) ELSE unlogged
  /\ UNCHANGED <<log, steady>>

\* logWalletEvent replays everything that is stored by now.
LogWalletEvent ==
  /\ unlogged # <<>> /\ unlogged' = Tail(unlogged)
  /\ log' = [log EXCEPT ![Head(unlogged)] = ResultOf(Head(unlogged))]
  /\ steady' = steady \cup {Head(unlogged)}
  /\ UNCHANGED <<events, inserted>>

\* One batch of the purge: the oldest of the expired rows.
Remaining(expired, n) == SubSeq(events, n + 1, Len(events))

Purge(expired, n) ==
  /\ events' = Remaining(expired, n)
  /\ steady' = {}
  /\ UNCHANGED <<inserted, unlogged, log>>

Init ==
  /\ events = <<>> /\ inserted = 0 /\ unlogged = <<>>
  /\ log = [id \in 1 .. MaxEvents |-> {}] /\ steady = {}

Next ==
  \/ \E t \in Trades : Insert(t)
  \/ LogWalletEvent
  \/ \E expired \in 1 .. Len(events) : \E n \in 1 .. expired : Purge(expired, n)

Spec == Init /\ [][Next]_vars

-----------------------------------------------------------------------------
(* What profit is: the i-th unit matched is the i-th unit bought. *)

Priced(k, direction) == events[k].price # NoPrice /\ events[k].direction = direction

\* The units bought by the first k trades.
BoughtBefore[k \in 0 .. Len(events)] ==
  IF k = 0 THEN 0 ELSE BoughtBefore[k - 1] + IF Priced(k, "buy") THEN Quantity(events[k]) ELSE 0

\* The units matched by the first k trades: each sell takes what is there.
MatchedBefore[k \in 0 .. Len(events)] ==
  IF k = 0 THEN 0
  ELSE IF Priced(k, "sell") THEN Lesser(MatchedBefore[k - 1] + Quantity(events[k]), BoughtBefore[k])
  ELSE MatchedBefore[k - 1]

\* The price the u-th unit was bought at.
PriceOfUnit(u) == events[Min({k \in 1 .. Len(events) : BoughtBefore[k] >= u})].price

Profit(k) ==
  LET units == MatchedBefore[k - 1] + 1 .. MatchedBefore[k]
  IN SumFunctionOnSet([u \in units |-> events[k].price - PriceOfUnit(u)], units)

\* The rows have one decimals value, as those of a registered token do.
OneDecimals == \A i, j \in 1 .. Len(events) : events[i].decimals = events[j].decimals

\* Types; and each result accounts for the whole sell.
TypeOK ==
  /\ \A i \in 1 .. Len(events) : events[i].id = inserted - Len(events) + i
  /\ \A i \in 1 .. Len(events) : \A r \in ResultOf(events[i].id) :
       events[i].direction = "sell" /\ r.matched + r.overflow = Quantity(events[i])
  /\ ToSet(unlogged) \cup steady \subseteq 1 .. inserted

\* The profit of every priced sell is that of the units bought first among the
\* rows that are there, and nothing is matched twice (ReplayFIFO).
ReplayIsFifo ==
  OneDecimals =>
    \A k \in 1 .. Len(events) : Priced(k, "sell") =>
      ResultOf(events[k].id) =
        {[id |-> events[k].id, matched |-> MatchedBefore[k] - MatchedBefore[k - 1],
          pnl |-> Profit(k),
          overflow |-> Quantity(events[k]) - (MatchedBefore[k] - MatchedBefore[k - 1])]}

\* What a sell's line said of its profit stays what a replay says, whatever
\* trades of its own or later blocks were stored when it was written and come
\* after it, as long as nothing is purged (logWalletEvent).
LogStaysTrue == OneDecimals => \A id \in steady : log[id] = ResultOf(id)

\* No step, not even the purge of a buy that was sold from, makes a stored sell
\* match more than it did: what expires never turns into profit.
PurgeAddsNoMatch ==
  [][OneDecimals /\ OneDecimals' =>
     \A r \in Results(events), s \in Results(events') : r.id = s.id => s.matched <= r.matched]_vars
=============================================================================
