------------------------------ MODULE Records -------------------------------
(***************************************************************************)
(* What is recorded of a trade, and how it is read again: the transaction  *)
(* is traced (TraceNative) and attributed (Attribution), its event gets an *)
(* id (EventIds), the replay of a wallet's events gives its profit (Fifo), *)
(* clients walk through the launches (Queries), and all of it lives in a   *)
(* schema that is migrated at start (Migrations). Each of these computes   *)
(* from what the one before has made final, and keeps no state the others  *)
(* read, so one of them runs in each behaviour, as in Nodes.               *)
(***************************************************************************)
EXTENDS Migrations

CONSTANTS
  Base,
  MaxRaw, Prices, Decimals, MaxEvents,                             \* of Fifo
  BlockWidth, TxWidth, LogWidth, Blocks, TxIndexes, LogIndexes, MaxIds,  \* of EventIds
  Tokens, Categories, PageLimit, HealthLagWarn, BlocksPerSecond, MaxHead,  \* of Queries
  Accounts, Target, Values, MaxTraceNodes, MaxTraceDepth, MaxFrames,  \* of TraceNative
  Users, PM, Router, NoUser, MaxAmount, MaxSteps                     \* of Attribution

VARIABLES
  runs,  \* who moves
  events, inserted, unlogged, lines, steady,
  rows, seen, warned,
  head, last, launches, walk, listed, atStart, health,
  frames, stack, saved, balance, answer,
  native, transfers, swaps, trades, steps, fills

fifoVars  == <<events, inserted, unlogged, lines, steady>>
idVars    == <<rows, seen, warned>>
queryVars == <<head, last, launches, walk, listed, atStart, health>>
traceVars == <<frames, stack, saved, balance, answer>>
fillVars  == <<native, transfers, swaps, trades, steps, fills>>

Profit == INSTANCE Fifo WITH log <- lines
Ids    == INSTANCE EventIds WITH MaxEvents <- MaxIds
Query  == INSTANCE Queries
Tracer == INSTANCE TraceNative
Fill   == INSTANCE Attribution

ASSUME RecordsAssumption ==
  /\ Profit!FifoAssumption /\ Ids!EventIdAssumption /\ Query!QueriesAssumption
  /\ Tracer!TraceAssumption /\ Fill!AttributionAssumption

recordsVars == <<runs, vars, fifoVars, idVars, queryVars, traceVars, fillVars>>

RecordsInit ==
  /\ runs \in {"migrations", "profit", "ids", "queries", "trace", "fills"}
  /\ Init /\ Profit!Init /\ Ids!Init /\ Query!Init /\ Tracer!Init /\ Fill!Init
  /\ runs # "fills" => ~native

RecordsNext ==
  \/ /\ runs = "migrations" /\ Next
     /\ UNCHANGED <<runs, fifoVars, idVars, queryVars, traceVars, fillVars>>
  \/ /\ runs = "profit" /\ Profit!Next
     /\ UNCHANGED <<runs, vars, idVars, queryVars, traceVars, fillVars>>
  \/ /\ runs = "ids" /\ Ids!Next
     /\ UNCHANGED <<runs, vars, fifoVars, queryVars, traceVars, fillVars>>
  \/ /\ runs = "queries" /\ Query!Next
     /\ UNCHANGED <<runs, vars, fifoVars, idVars, traceVars, fillVars>>
  \/ /\ runs = "trace" /\ Tracer!Next
     /\ UNCHANGED <<runs, vars, fifoVars, idVars, queryVars, fillVars>>
  \/ /\ runs = "fills" /\ Fill!Next
     /\ UNCHANGED <<runs, vars, fifoVars, idVars, queryVars, traceVars>>

RecordsSpec == RecordsInit /\ [][RecordsNext]_recordsVars

-----------------------------------------------------------------------------
\* Types of all of them; each result of a replay accounts for the whole sell.
RecordsTypeOK ==
  /\ TypeOK /\ Profit!TypeOK /\ Ids!TypeOK /\ Query!TypeOK /\ Tracer!TypeOK /\ Fill!TypeOK

\* See Fifo: the profit of a sell is that of the units bought first, and what was
\* logged of it stays true (ReplayFIFO, logWalletEvent).
ProfitIsFifo == Profit!ReplayIsFifo /\ Profit!LogStaysTrue

\* See EventIds: as long as the numbers fit, the order of ids is that of the chain
\* and no event is taken for another (CalcEventID).
NarrowIdsAreTrue == Ids!NarrowIdsFollowChain /\ Ids!NarrowEventsStored

\* See Queries: a client that follows the pages gets all launches, newest first,
\* none twice, and /health tells the truth (ListLaunches, health).
AnswersAreTrue == Query!WalkDescends /\ Query!WalkIsComplete /\ Query!HealthIsTrue

\* See TraceNative: the amount in ETH is what the user's balance changed by
\* (accumulateNativeNet).
TraceIsTrue == Tracer!NetIsBalanceChange /\ Tracer!AmountFitsSide /\ Tracer!AmountIsFound

\* See Attribution: a fill is of the one who traded, one trade is recorded as it
\* was, and an amount in ETH is not that of another swap (AttributeUser,
\* DecodeSwap, enrichNativeQuote).
FillsAreTrue == Fill!AttributionIsUnique /\ Fill!OneTradeIsOneFill /\ Fill!NativeIsOfOneSwap

\* The purge never makes a sell match more (see Fifo), and a start that failed
\* leaves the schema as it was (see Migrations).
NothingIsInvented == AllOrNothing /\ Profit!PurgeAddsNoMatch

-----------------------------------------------------------------------------
\* The users are interchangeable.
Symmetry == Permutations(Users)
=============================================================================
