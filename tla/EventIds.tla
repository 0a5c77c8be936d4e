------------------------------ MODULE EventIds ------------------------------
(***************************************************************************)
(* The ids of wallet_events: CalcEventID (internal/domain/event_id.go),    *)
(* INSERT OR IGNORE (internal/store/writer.go) and the ORDER BY id of      *)
(* FIFOEvents, ScoreEvents and the purge. An id is the text of the block,  *)
(* transaction and log numbers, each padded with zeros to its width and    *)
(* never cut. Base and widths are small here; they are 10, 8, 4 and 4.     *)
(***************************************************************************)
EXTENDS Naturals, Sequences, FiniteSetsExt

CONSTANTS
  Base,
  BlockWidth, TxWidth, LogWidth,
  Blocks, TxIndexes, LogIndexes,  \* the numbers that occur
  MaxEvents                       \* bound: events

EventIdAssumption ==
  /\ Base \in Nat \ {0, 1} /\ {BlockWidth, TxWidth, LogWidth} \subseteq Nat \ {0}
  /\ Blocks \cup TxIndexes \cup LogIndexes \subseteq Nat /\ MaxEvents \in Nat

VARIABLES
  rows,    \* wallet_events: the positions stored, by id
  seen,    \* the events of all committed blocks
  warned   \* those whose id was reported as too wide

vars == <<rows, seen, warned>>

Positions == [block : Blocks, tx : TxIndexes, log : LogIndexes]

\* The order of the chain.
Precedes(p, q) ==
  \/ p.block < q.block
  \/ p.block = q.block /\ p.tx < q.tx
  \/ p.block = q.block /\ p.tx = q.tx /\ p.log < q.log

-----------------------------------------------------------------------------
Power(n) == LET p[k \in 0 .. n] == IF k = 0 THEN 1 ELSE Base * p[k - 1] IN p[n]

\* The last digits of n, the highest first.
LastDigits(n, length) == [i \in 1 .. length |-> (n \div Power(length - i)) % Base]

\* How many digits n has: one, if it is zero.
Length(n) == Min({k \in 1 .. n + 1 : n < Power(k)})

Unpadded(n, width) == LastDigits(n, Length(n))

\* %0<width>d
Padded(n, width) == LastDigits(n, IF Length(n) < width THEN width ELSE Length(n))

CalcEventID(p) ==
  Padded(p.block, BlockWidth) \o Padded(p.tx, TxWidth) \o Padded(p.log, LogWidth)

TooWide(p) ==
  p.block >= Power(BlockWidth) \/ p.tx >= Power(TxWidth) \/ p.log >= Power(LogWidth)

\* The order of SQLite's text comparison.
TextBefore(a, b) ==
  \/ Len(a) < Len(b) /\ a = SubSeq(b, 1, Len(a))
  \/ \E i \in 1 .. Len(a) \cap 1 .. Len(b) :
       /\ a[i] < b[i]
       /\ \A j \in 1 .. i - 1 : a[j] = b[j]

-----------------------------------------------------------------------------
\* The scanner reaches events in the order of the chain, and a block again when
\* it was fetched again after a failure.
InsertEvent(p) ==
  /\ \A q \in seen : q = p \/ Precedes(q, p)
  /\ seen' = seen \cup {p}
  /\ rows' = IF CalcEventID(p) \in DOMAIN rows THEN rows
             ELSE [id \in DOMAIN rows \cup {CalcEventID(p)} |->
                     IF id \in DOMAIN rows THEN rows[id] ELSE p]
  /\ warned' = IF TooWide(p) THEN warned \cup {p} ELSE warned

Init == rows = [id \in {} |-> 0] /\ seen = {} /\ warned = {}

Next ==
  \E p \in Positions : Cardinality(seen \cup {p}) <= MaxEvents /\ InsertEvent(p)

Spec == Init /\ [][Next]_vars

-----------------------------------------------------------------------------
Stored == {rows[id] : id \in DOMAIN rows}

\* Types; and the events reported are exactly those whose id is longer than an
\* id should be (the bounds of CalcEventID against the widths it pads to).
TypeOK ==
  /\ seen \subseteq Positions /\ Stored \subseteq seen
  /\ \A id \in DOMAIN rows : id = CalcEventID(rows[id])
  /\ warned = {p \in seen : Len(CalcEventID(p)) # BlockWidth + TxWidth + LogWidth}

\* Among events whose numbers fit their widths, the text order of the ids is the
\* order of the chain (CalcEventID), so that a replay by id is one in order.
NarrowIdsFollowChain ==
  \A a, b \in DOMAIN rows :
    ~TooWide(rows[a]) /\ ~TooWide(rows[b])
      => (TextBefore(a, b) <=> Precedes(rows[a], rows[b]))

\* No event whose numbers fit is taken for another one, wide or not, and
\* ignored (INSERT OR IGNORE).
NarrowEventsStored == seen \ warned \subseteq Stored

\* "顺序：`id` 升序（链上顺序）": the order of the ids is the order of the chain,
\* whatever the width of the numbers (ReplayFIFO relies on it).
IdsFollowChain ==
  \A a, b \in DOMAIN rows : TextBefore(a, b) <=> Precedes(rows[a], rows[b])
=============================================================================
