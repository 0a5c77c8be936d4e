------------------------------ MODULE DirtySet ------------------------------
(***************************************************************************)
(* internal/price/dirty.go and store.UpdateLaunchPrice: the poller marks   *)
(* the price of the last fill of each token in a bounded map with a FIFO   *)
(* order; the tick goroutine flushes a snapshot of it to launch_index, one *)
(* write of the serial writer per token, while marks keep coming.          *)
(***************************************************************************)
EXTENDS Naturals, Sequences, FiniteSets

CONSTANTS
  Tokens,     \* stored tokens: Mark refuses the others
  Txs,        \* the transactions a fill can be of
  Prices,
  Cap,        \* RH_DIRTY_TOKEN_CAP
  MaxMarks,   \* bound: marks over all processes
  MaxFaults,  \* bound: failed calls and restarts
  NoPoint, NoQuote

\* What a flush compares with the row, and stores in it.
Quotes == [tx : Txs, price : Prices]
\* nr counts the marks of all processes; the code has no such number.
Points == [token : Tokens, version : 1 .. MaxMarks, quote : Quotes, nr : 1 .. MaxMarks]

ASSUME DirtySetAssumption ==
  /\ Cap \in Nat \ {0} /\ {MaxMarks, MaxFaults} \subseteq Nat
  /\ NoPoint \notin Points /\ NoQuote \notin Quotes

VARIABLES
  items,         \* DirtySet.items: the point of each dirty token
  order,         \* DirtySet.order: the dirty tokens, oldest first
  nextID,
  todo, inHand,  \* the points of the snapshot still to do, and the one being done
  step,          \* where Flush is with it
  row,           \* launch_index: the displayed quote of each token
  shown,         \* and the nr of the mark it was written for
  latest,        \* the last mark of each token
  dropped,       \* tokens evicted or lost in a restart since that mark
  marks, faults

memVars   == <<items, order, nextID>>
flushVars == <<todo, inHand, step>>
rowVars   == <<row, shown>>
vars      == <<memVars, flushVars, rowVars, latest, dropped, marks, faults>>

Dirty == DOMAIN items

-----------------------------------------------------------------------------
(* Mark: one critical section *)

\* The token a new one pushes out of the full map.
Evicted(t) == IF t \notin Dirty /\ Cardinality(Dirty) >= Cap THEN {Head(order)} ELSE {}

\* list.Remove of the element that the entry of a token keeps.
Without(t) ==
  LET at == CHOOSE i \in 1 .. Len(order) : order[i] = t
  IN  [i \in 1 .. Len(order) - 1 |-> IF i < at THEN order[i] ELSE order[i + 1]]

EvictedStaysInOrder(t) == Append(IF t \in Dirty THEN Without(t) ELSE order, t)

\* MoveToBack of a dirty token, PushBack of a new one.
OrderAfter(t) ==
  Append(IF t \in Dirty THEN Without(t) ELSE IF Evicted(t) = {} THEN order ELSE Tail(order), t)

Mark(t, q) ==
  /\ marks < MaxMarks
  /\ LET p == [token |-> t, version |-> nextID + 1, quote |-> q, nr |-> marks + 1] IN
     /\ items' = [u \in (Dirty \cup {t}) \ Evicted(t) |-> IF u = t THEN p ELSE items[u]]
     /\ latest' = [latest EXCEPT ![t] = p]
  /\ order' = OrderAfter(t)
  /\ nextID' = nextID + 1 /\ marks' = marks + 1
  /\ dropped' = (dropped \ {t}) \cup Evicted(t)
  /\ UNCHANGED <<flushVars, rowVars, faults>>

-----------------------------------------------------------------------------
(* Flush *)

\* One goroutine runs every tick: the previous flush is over.
FlushIdle == todo = {} /\ inHand = NoPoint

FlushBegin ==
  /\ FlushIdle /\ Dirty # {}
  /\ todo' = todo \cup {items[t] : t \in Dirty}
  /\ UNCHANGED <<memVars, inHand, step, rowVars, latest, dropped, marks, faults>>

\* The snapshot was taken from a map: any order.
NextPoint(p) ==
  /\ inHand = NoPoint
  /\ todo' = todo \ {p} /\ inHand' = p /\ step' = "read"
  /\ UNCHANGED <<memVars, rowVars, latest, dropped, marks, faults>>

UpToDateByTx(p) == row[p.token] # NoQuote /\ row[p.token].tx = p.quote.tx

UpToDate(p) == row[p.token] = p.quote

ReadRow ==
  /\ step = "read"
  /\ step' = IF UpToDate(inHand) THEN "remove" ELSE "write"
  /\ UNCHANGED <<memVars, todo, inHand, rowVars, latest, dropped, marks, faults>>

UpdateLaunchPrice ==
  /\ step = "write"
  /\ row' = [row EXCEPT ![inHand.token] = inHand.quote]
  /\ shown' = [shown EXCEPT ![inHand.token] = inHand.nr]
  /\ step' = "remove"
  /\ UNCHANGED <<memVars, todo, inHand, latest, dropped, marks, faults>>

SameToken(p) == p.token \in Dirty

\* A mark made during the flush has another version.
SameVersion(p) == p.token \in Dirty /\ items[p.token].version = p.version

\* removeVersion
Remove ==
  /\ step = "remove"
  /\ LET gone == IF SameVersion(inHand) THEN {inHand.token} ELSE {} IN
     /\ items' = [u \in Dirty \ gone |-> items[u]]
     /\ order' = IF gone = {} THEN order ELSE Without(inHand.token)
  /\ step' = "none" /\ inHand' = NoPoint
  /\ UNCHANGED <<nextID, todo, rowVars, latest, dropped, marks, faults>>

\* A point that could not be read or written stays dirty for the next flush.
CallFails ==
  /\ step \in {"read", "write"}
  /\ faults < MaxFaults /\ faults' = faults + 1
  /\ step' = "none" /\ inHand' = NoPoint
  /\ UNCHANGED <<memVars, todo, rowVars, latest, dropped, marks>>

-----------------------------------------------------------------------------
\* The dirty set is not persisted.
Restart ==
  /\ faults < MaxFaults /\ faults' = faults + 1
  /\ items' = <<>> /\ order' = <<>> /\ nextID' = 0
  /\ todo' = {} /\ inHand' = NoPoint /\ step' = "none"
  /\ dropped' = dropped \cup Dirty
  /\ UNCHANGED <<rowVars, latest, marks>>

Init ==
  /\ items = <<>> /\ order = <<>> /\ nextID = 0
  /\ todo = {} /\ inHand = NoPoint /\ step = "none"
  /\ row = [t \in Tokens |-> NoQuote] /\ shown = [t \in Tokens |-> 0]
  /\ latest = [t \in Tokens |-> NoPoint] /\ dropped = {}
  /\ marks = 0 /\ faults = 0

Flush == FlushBegin \/ (\E p \in todo : NextPoint(p)) \/ ReadRow \/ UpdateLaunchPrice \/ Remove

Next == (\E t \in Tokens, q \in Quotes : Mark(t, q)) \/ Flush \/ CallFails \/ Restart

Spec == Init /\ [][Next]_vars

\* The tick goroutine keeps flushing, and takes every point of a snapshot.
Fairness == WF_vars(Flush)

FairSpec == Spec /\ Fairness

-----------------------------------------------------------------------------
\* Types, and the map within its capacity.
TypeOK ==
  /\ Dirty \subseteq Tokens /\ \A t \in Dirty : items[t] \in Points /\ items[t].token = t
  /\ Cardinality(Dirty) <= Cap
  /\ order \in Seq(Tokens) /\ nextID \in 0 .. MaxMarks
  /\ todo \subseteq Points /\ inHand \in Points \cup {NoPoint}
  /\ step \in {"none", "read", "write", "remove"} /\ (step = "none" <=> inHand = NoPoint)
  /\ row \in [Tokens -> Quotes \cup {NoQuote}] /\ shown \in [Tokens -> 0 .. MaxMarks]
  /\ latest \in [Tokens -> Points \cup {NoPoint}] /\ dropped \subseteq Tokens
  /\ marks \in 0 .. MaxMarks /\ faults \in 0 .. MaxFaults

\* The list holds exactly the map's tokens, each once: eviction always finds
\* an oldest token, and removes one that is in the map (Mark, removeVersion).
OrderMatchesItems ==
  /\ {order[i] : i \in 1 .. Len(order)} = Dirty
  /\ Len(order) = Cardinality(Dirty)

\* The last price of a token is on display or still dirty, unless the map
\* overflowed or the process restarted: a mark made while the flush writes an
\* older one is never thrown away with it (Mark against Flush).
LatestNeverLost ==
  \A t \in Tokens \ dropped :
    \/ latest[t] = NoPoint
    \/ t \in Dirty /\ items[t] = latest[t]
    \/ row[t] = latest[t].quote

\* A displayed price is never replaced by the price of an older fill.
DisplayMovesForward == [][\A t \in Tokens : shown'[t] >= shown[t]]_vars

\* Once marks stop, every token that was not dropped displays its last price.
LatestIsShown ==
  \A t \in Tokens : <>[](latest[t] = NoPoint \/ t \in dropped \/ row[t] = latest[t].quote)
=============================================================================
