-------------------------- MODULE BackgroundProofs --------------------------
(***************************************************************************)
(* What the goroutines beside the scanner must not lose or undo, for any   *)
(* values of the constants. BackgroundSpec lets one of them move, so each  *)
(* part is proved from the steps of its own component and carried over.    *)
(***************************************************************************)
EXTENDS Background, SequenceTheorems, Sums

-----------------------------------------------------------------------------
(* Display prices: the last price of a token is never lost, and the display *)
(* never goes back. Neither needs the order of the list: whatever token is  *)
(* evicted, it is counted as dropped.                                       *)

\* The points the running flush still holds.
Flight == IF inHand = NoPoint THEN todo ELSE todo \cup {inHand}

Types ==
  /\ Dirty \subseteq Tokens /\ \A t \in Dirty : items[t] \in Points /\ items[t].token = t
  /\ nextID \in Nat /\ marks \in 0 .. MaxMarks /\ nextID <= marks
  /\ todo \subseteq Points /\ inHand \in Points \cup {NoPoint}
  /\ step \in {"none", "read", "write", "remove"} /\ (step = "none" <=> inHand = NoPoint)
  /\ row \in [Tokens -> Quotes \cup {NoQuote}] /\ shown \in [Tokens -> Nat]
  /\ latest \in [Tokens -> Points \cup {NoPoint}]

\* What is dirty is the last mark of its token; versions only grow.
DirtyIsLatest == \A t \in Dirty : items[t] = latest[t] /\ items[t].version <= nextID

\* A snapshot has one point of a token, so nobody else writes its row.
OnePerToken == inHand \notin todo /\ \A p, q \in Flight : p.token = q.token => p = q

\* A point in flight that was replaced has another version than what replaced
\* it; its token stays dirty until the flush is through with it, or is dropped.
FlightInv ==
  \A p \in Flight :
    /\ p.version <= nextID
    /\ p.token \in Dirty \cup dropped
    /\ p.token \in Dirty /\ items[p.token].version = p.version => items[p.token] = p

\* Only what the row shows is removed from the set.
WrittenFirst == step = "remove" => row[inHand.token] = inHand.quote

LatestInv == Types /\ DirtyIsLatest /\ OnePerToken /\ FlightInv /\ WrittenFirst /\ LatestNeverLost

-----------------------------------------------------------------------------
\* Nothing was marked.
LEMMA InitLatest == Init => LatestInv
  BY DirtySetAssumption
     DEF Init, LatestInv, Types, DirtyIsLatest, OnePerToken, FlightInv, Flight, WrittenFirst,
         LatestNeverLost, Dirty

\* A mark replaces the entry of its token and evicts at most one other, which is dropped.
LEMMA MarkLatest ==
  ASSUME LatestInv, NEW t \in Tokens, NEW q \in Quotes, Mark(t, q)
  PROVE  LatestInv'
  <1> DEFINE p == [token |-> t, version |-> nextID + 1, quote |-> q, nr |-> marks + 1]
             E == Evicted(t)
  <1>1. /\ items' = [u \in (Dirty \cup {t}) \ E |-> IF u = t THEN p ELSE items[u]]
        /\ latest' = [latest EXCEPT ![t] = p]
        /\ nextID' = nextID + 1 /\ marks' = marks + 1 /\ marks < MaxMarks
        /\ dropped' = (dropped \ {t}) \cup E
        /\ todo' = todo /\ inHand' = inHand /\ step' = step /\ row' = row /\ shown' = shown
    BY DEF Mark, flushVars, rowVars
  <1> HIDE DEF E
  <1>2. p \in Points /\ p.token = t /\ p.version = nextID + 1
    BY <1>1, DirtySetAssumption DEF LatestInv, Types, Points
  <1> HIDE DEF p
  <1>3. Dirty' = (Dirty \cup {t}) \ E
        /\ \A u \in Dirty' : items'[u] = IF u = t THEN p ELSE items[u]
    BY <1>1 DEF Dirty
  <1>4. latest'[t] = p /\ \A u \in Tokens : u # t => latest'[u] = latest[u]
    BY <1>1 DEF LatestInv, Types
  <1>5. Types'
    <2>1. Dirty' \subseteq Tokens /\ \A u \in Dirty' : items'[u] \in Points /\ items'[u].token = u
      BY <1>2, <1>3 DEF LatestInv, Types
    <2>2. latest' \in [Tokens -> Points \cup {NoPoint}]
      BY <1>1, <1>2 DEF LatestInv, Types
    <2>3. nextID' \in Nat /\ marks' \in 0 .. MaxMarks /\ nextID' <= marks'
      BY <1>1, DirtySetAssumption DEF LatestInv, Types
    <2> QED
      BY <1>1, <2>1, <2>2, <2>3 DEF LatestInv, Types
  <1>6. DirtyIsLatest'
    <2> SUFFICES ASSUME NEW u \in Dirty'
                 PROVE  items'[u] = latest'[u] /\ items'[u].version <= nextID'
      BY DEF DirtyIsLatest
    <2>1. CASE u = t
      BY <2>1, <1>1, <1>2, <1>3, <1>4 DEF LatestInv, Types
    <2>2. CASE u # t
      <3>1. u \in Dirty /\ u \in Tokens /\ items'[u] = items[u] /\ latest'[u] = latest[u]
        BY <2>2, <1>3, <1>4 DEF LatestInv, Types
      <3>2. items[u] \in Points /\ items[u] = latest[u] /\ items[u].version <= nextID
        BY <3>1 DEF LatestInv, Types, DirtyIsLatest
      <3> QED
        BY <3>1, <3>2, <1>1 DEF LatestInv, Types, Points
    <2> QED
      BY <2>1, <2>2
  <1>7. OnePerToken'
    BY <1>1 DEF LatestInv, OnePerToken, Flight
  <1>8. FlightInv'
    <2> SUFFICES ASSUME NEW f \in Flight'
                 PROVE  /\ f.version <= nextID'
                        /\ f.token \in Dirty' \cup dropped'
                        /\ f.token \in Dirty' /\ items'[f.token].version = f.version
                             => items'[f.token] = f
      BY DEF FlightInv
    <2>1. f \in Flight /\ f \in Points
      BY <1>1 DEF Flight, LatestInv, Types
    <2>2. /\ f.version <= nextID /\ f.version \in Nat
          /\ f.token \in Dirty \cup dropped
          /\ f.token \in Dirty /\ items[f.token].version = f.version => items[f.token] = f
      BY <2>1 DEF LatestInv, FlightInv, Points
    <2>3. f.version < nextID' /\ f.version <= nextID'
      BY <2>2, <1>1 DEF LatestInv, Types
    <2>4. CASE f.token = t
      BY <2>4, <2>2, <2>3, <1>1, <1>2, <1>3 DEF LatestInv, Types
    <2>5. CASE f.token # t
      BY <2>5, <2>2, <2>3, <1>1, <1>3
    <2> QED
      BY <2>4, <2>5
  <1>9. WrittenFirst'
    BY <1>1 DEF LatestInv, WrittenFirst
  <1>10. LatestNeverLost'
    <2> SUFFICES ASSUME NEW u \in Tokens \ dropped'
                 PROVE  \/ latest'[u] = NoPoint
                        \/ u \in Dirty' /\ items'[u] = latest'[u]
                        \/ row'[u] = latest'[u].quote
      BY DEF LatestNeverLost
    <2>1. u \notin E
      BY <1>1
    <2>2. CASE u = t
      BY <2>1, <2>2, <1>3, <1>4
    <2>3. CASE u # t
      <3>1. u \in Tokens \ dropped /\ latest'[u] = latest[u]
        BY <2>3, <1>1, <1>4
      <3>2. u \in Dirty => u \in Dirty' /\ items'[u] = items[u]
        BY <2>1, <2>3, <1>3
      <3> QED
        BY <3>1, <3>2, <1>1 DEF LatestInv, LatestNeverLost
    <2> QED
      BY <2>2, <2>3
  <1> QED
    BY <1>5, <1>6, <1>7, <1>8, <1>9, <1>10 DEF LatestInv

\* A flush takes the points of all dirty tokens.
LEMMA FlushBeginLatest == ASSUME LatestInv, FlushBegin PROVE LatestInv'
  <1>1. /\ todo = {} /\ inHand = NoPoint /\ todo' = {items[t] : t \in Dirty}
        /\ items' = items /\ nextID' = nextID /\ inHand' = inHand /\ step' = step /\ row' = row
        /\ shown' = shown /\ latest' = latest /\ dropped' = dropped /\ marks' = marks
    BY DEF FlushBegin, FlushIdle, memVars, rowVars
  <1>2. Dirty' = Dirty
    BY <1>1 DEF Dirty
  <1>3. Flight' = {items[t] : t \in Dirty}
    BY <1>1 DEF Flight
  <1>4. Types' /\ DirtyIsLatest' /\ WrittenFirst' /\ LatestNeverLost'
    BY <1>1, <1>2 DEF LatestInv, Types, DirtyIsLatest, WrittenFirst, LatestNeverLost
  <1>5. NoPoint \notin Points
    BY DirtySetAssumption
  <1>6. OnePerToken'
    BY <1>1, <1>3, <1>5 DEF LatestInv, Types, OnePerToken
  <1>7. FlightInv'
    BY <1>1, <1>2, <1>3 DEF LatestInv, Types, DirtyIsLatest, FlightInv
  <1> QED
    BY <1>4, <1>6, <1>7 DEF LatestInv

\* A point goes from the snapshot into the hand.
LEMMA NextPointLatest == ASSUME LatestInv, NEW p \in todo, NextPoint(p) PROVE LatestInv'
  <1>1. /\ inHand = NoPoint /\ todo' = todo \ {p} /\ inHand' = p /\ step' = "read"
        /\ items' = items /\ nextID' = nextID /\ row' = row
        /\ shown' = shown /\ latest' = latest /\ dropped' = dropped /\ marks' = marks
    BY DEF NextPoint, memVars, rowVars
  <1>2. Dirty' = Dirty
    BY <1>1 DEF Dirty
  <1>3. p \in Points /\ p # NoPoint
    BY DirtySetAssumption DEF LatestInv, Types
  <1>4. Flight' = todo /\ Flight = todo
    BY <1>1, <1>3 DEF Flight
  <1>5. Types'
    BY <1>1, <1>2, <1>3 DEF LatestInv, Types
  <1>6. DirtyIsLatest' /\ WrittenFirst' /\ LatestNeverLost'
    BY <1>1, <1>2 DEF LatestInv, DirtyIsLatest, WrittenFirst, LatestNeverLost
  <1>7. OnePerToken' /\ FlightInv'
    BY <1>1, <1>2, <1>4 DEF LatestInv, OnePerToken, FlightInv
  <1> QED
    BY <1>5, <1>6, <1>7 DEF LatestInv

\* ReadRow, and a call that fails: the point stays, or leaves, and no row changes.
LEMMA ReadRowLatest == ASSUME LatestInv, ReadRow \/ CallFails PROVE LatestInv'
  <1>1. /\ todo' = todo /\ items' = items /\ nextID' = nextID /\ row' = row
        /\ shown' = shown /\ latest' = latest /\ dropped' = dropped /\ marks' = marks
    BY DEF ReadRow, CallFails, memVars, rowVars
  <1>2. Dirty' = Dirty
    BY <1>1 DEF Dirty
  <1>3. \/ inHand' = inHand /\ step = "read" /\ step' \in {"remove", "write"}
           /\ (step' = "remove" => row[inHand.token] = inHand.quote)
        \/ inHand' = NoPoint /\ step' = "none"
    BY DEF ReadRow, CallFails, UpToDate
  <1>4. Types'
    BY <1>1, <1>2, <1>3 DEF LatestInv, Types
  <1>5. DirtyIsLatest' /\ WrittenFirst' /\ LatestNeverLost'
    BY <1>1, <1>2, <1>3 DEF LatestInv, DirtyIsLatest, WrittenFirst, LatestNeverLost
  <1>6. Flight' \subseteq Flight
    BY <1>1, <1>3 DEF Flight
  <1>7. OnePerToken'
    <2>1. inHand' \notin todo'
      BY <1>1, <1>3, DirtySetAssumption DEF LatestInv, Types, OnePerToken
    <2> QED
      BY <2>1, <1>6 DEF LatestInv, OnePerToken
  <1>8. FlightInv'
    BY <1>1, <1>2, <1>6 DEF LatestInv, FlightInv
  <1> QED
    BY <1>4, <1>5, <1>7, <1>8 DEF LatestInv

\* A write puts the price in hand into its row; the token is still dirty, or dropped.
LEMMA UpdateLatest == ASSUME LatestInv, UpdateLaunchPrice PROVE LatestInv'
  <1> DEFINE t == inHand.token
  <1>1. /\ step = "write" /\ step' = "remove" /\ row' = [row EXCEPT ![t] = inHand.quote]
        /\ shown' = [shown EXCEPT ![t] = inHand.nr]
        /\ todo' = todo /\ inHand' = inHand /\ items' = items /\ nextID' = nextID
        /\ latest' = latest /\ dropped' = dropped /\ marks' = marks
    BY DEF UpdateLaunchPrice, memVars
  <1>2. Dirty' = Dirty
    BY <1>1 DEF Dirty
  <1>3. /\ inHand \in Points /\ inHand # NoPoint /\ t \in Tokens
        /\ inHand.quote \in Quotes /\ inHand.nr \in Nat
    BY <1>1 DEF LatestInv, Types, Points
  <1>4. Flight' = Flight /\ inHand \in Flight
    BY <1>1, <1>3 DEF Flight
  <1>5. Types'
    BY <1>1, <1>2, <1>3 DEF LatestInv, Types
  <1>6. DirtyIsLatest' /\ OnePerToken' /\ FlightInv'
    BY <1>1, <1>2, <1>4 DEF LatestInv, DirtyIsLatest, OnePerToken, FlightInv
  <1>7. WrittenFirst'
    BY <1>1, <1>3 DEF LatestInv, Types, WrittenFirst
  <1>8. t \in Dirty \cup dropped
    BY <1>4 DEF LatestInv, FlightInv
  <1>9. LatestNeverLost'
    <2> SUFFICES ASSUME NEW u \in Tokens \ dropped
                 PROVE  \/ latest[u] = NoPoint
                        \/ u \in Dirty /\ items[u] = latest[u]
                        \/ row'[u] = latest[u].quote
      BY <1>1, <1>2 DEF LatestNeverLost
    <2>1. CASE u \in Dirty
      BY <2>1 DEF LatestInv, DirtyIsLatest
    <2>2. CASE u \notin Dirty
      <3>1. row'[u] = row[u]
        BY <2>2, <1>1, <1>8 DEF LatestInv, Types
      <3> QED
        BY <3>1, <2>2 DEF LatestInv, LatestNeverLost
    <2> QED
      BY <2>1, <2>2
  <1> QED
    BY <1>5, <1>6, <1>7, <1>9 DEF LatestInv

\* A removal takes away what the row shows, or nothing if it was replaced.
LEMMA RemoveLatest == ASSUME LatestInv, Remove PROVE LatestInv'
  <1> DEFINE t == inHand.token
             gone == IF SameVersion(inHand) THEN {t} ELSE {}
  <1>1. /\ step = "remove" /\ step' = "none" /\ inHand' = NoPoint
        /\ items' = [u \in Dirty \ gone |-> items[u]]
        /\ nextID' = nextID /\ todo' = todo /\ row' = row /\ shown' = shown
        /\ latest' = latest /\ dropped' = dropped /\ marks' = marks
    BY DEF Remove, rowVars
  <1>2. inHand \in Points /\ inHand # NoPoint /\ inHand \in Flight
    BY <1>1 DEF LatestInv, Types, Flight
  <1>3. SameVersion(inHand) => t \in Dirty /\ items[t] = inHand
    BY <1>2 DEF SameVersion, LatestInv, FlightInv
  <1> HIDE DEF gone
  <1>4. Dirty' = Dirty \ gone /\ \A u \in Dirty' : items'[u] = items[u]
    BY <1>1 DEF Dirty
  <1>5. Types'
    BY <1>1, <1>4 DEF LatestInv, Types
  <1>6. DirtyIsLatest'
    BY <1>1, <1>4 DEF LatestInv, DirtyIsLatest
  <1>7. Flight' = todo /\ todo \subseteq Flight
    BY <1>1 DEF Flight
  <1>8. OnePerToken'
    BY <1>1, <1>7, DirtySetAssumption DEF LatestInv, Types, OnePerToken
  <1>9. FlightInv'
    <2> SUFFICES ASSUME NEW f \in todo
                 PROVE  /\ f.version <= nextID
                        /\ f.token \in Dirty' \cup dropped
                        /\ f.token \in Dirty' /\ items'[f.token].version = f.version
                             => items'[f.token] = f
      BY <1>1, <1>7 DEF FlightInv
    <2>1. f \in Flight /\ f # inHand
      BY <1>7 DEF LatestInv, OnePerToken
    <2>2. f.token # t
      BY <2>1, <1>2 DEF LatestInv, OnePerToken
    <2>3. f.token \notin gone
      BY <2>2 DEF gone
    <2> QED
      BY <2>1, <2>3, <1>4 DEF LatestInv, FlightInv
  <1>10. WrittenFirst'
    BY <1>1 DEF WrittenFirst
  <1>11. LatestNeverLost'
    <2> SUFFICES ASSUME NEW u \in Tokens \ dropped
                 PROVE  \/ latest[u] = NoPoint
                        \/ u \in Dirty' /\ items'[u] = latest[u]
                        \/ row[u] = latest[u].quote
      BY <1>1 DEF LatestNeverLost
    <2>1. CASE u \in gone
      <3>1. u = t /\ items[t] = inHand /\ t \in Dirty
        BY <2>1, <1>3 DEF gone
      <3>2. latest[u] = inHand
        BY <3>1 DEF LatestInv, DirtyIsLatest
      <3>3. row[t] = inHand.quote
        BY <1>1 DEF LatestInv, WrittenFirst
      <3> QED
        BY <3>1, <3>2, <3>3
    <2>2. CASE u \notin gone
      BY <2>2, <1>4 DEF LatestInv, LatestNeverLost
    <2> QED
      BY <2>1, <2>2
  <1> QED
    BY <1>5, <1>6, <1>8, <1>9, <1>10, <1>11 DEF LatestInv

\* A restart drops what was dirty.
LEMMA RestartLatest == ASSUME LatestInv, Restart PROVE LatestInv'
  <1>1. /\ items' = <<>> /\ nextID' = 0 /\ todo' = {} /\ inHand' = NoPoint /\ step' = "none"
        /\ dropped' = dropped \cup Dirty
        /\ row' = row /\ shown' = shown /\ latest' = latest /\ marks' = marks
    BY DEF Restart, rowVars
  <1>2. Dirty' = {}
    BY <1>1 DEF Dirty
  <1>3. Flight' = {}
    BY <1>1 DEF Flight
  <1>4. Types'
    BY <1>1, <1>2 DEF LatestInv, Types
  <1>5. DirtyIsLatest' /\ OnePerToken' /\ FlightInv' /\ WrittenFirst'
    BY <1>1, <1>2, <1>3 DEF DirtyIsLatest, OnePerToken, FlightInv, WrittenFirst
  <1>6. LatestNeverLost'
    BY <1>1, <1>2 DEF LatestInv, LatestNeverLost
  <1> QED
    BY <1>4, <1>5, <1>6 DEF LatestInv

\* Every step preserves the invariant.
LEMMA NextLatest == LatestInv /\ [Next]_vars => LatestInv'
  <1> SUFFICES ASSUME LatestInv, [Next]_vars PROVE LatestInv'
    OBVIOUS
  <1>1. ASSUME NEW t \in Tokens, NEW q \in Quotes, Mark(t, q) PROVE LatestInv'
    BY <1>1, MarkLatest
  <1>2. CASE Flush
    BY <1>2, FlushBeginLatest, NextPointLatest, ReadRowLatest, UpdateLatest, RemoveLatest DEF Flush
  <1>3. CASE CallFails
    BY <1>3, ReadRowLatest
  <1>4. CASE Restart
    BY <1>4, RestartLatest
  <1>5. CASE UNCHANGED vars
    BY <1>5 DEF vars, memVars, flushVars, rowVars, LatestInv, Types, DirtyIsLatest, OnePerToken,
                FlightInv, Flight, WrittenFirst, LatestNeverLost, Dirty
  <1> QED
    BY <1>1, <1>2, <1>3, <1>4, <1>5 DEF Next

\* The last price of a token is displayed or still dirty unless it was dropped,
\* however marks, flushes, failures and restarts interleave (Mark against Flush).
THEOREM LastPriceIsKept == Spec => []LatestNeverLost
  <1>1. LatestInv => LatestNeverLost
    BY DEF LatestInv
  <1> QED
    BY <1>1, InitLatest, NextLatest, PTL DEF Spec

-----------------------------------------------------------------------------
(* The display never goes back *)

\* A row shows no later mark than the last one, and no later one than the flush
\* still holds for it.
Forward ==
  /\ \A t \in Tokens :
       /\ shown[t] <= marks
       /\ latest[t] # NoPoint => latest[t].nr <= marks /\ shown[t] <= latest[t].nr
  /\ \A p \in Flight :
       /\ shown[p.token] <= p.nr
       /\ latest[p.token] # NoPoint /\ p.nr <= latest[p.token].nr

\* No row shows a mark.
LEMMA InitForward == Init => Forward
  BY DirtySetAssumption DEF Init, Forward, Flight

\* A mark is later than all before, and changes no row.
LEMMA MarkForward ==
  ASSUME LatestInv, Forward, NEW t \in Tokens, NEW q \in Quotes, Mark(t, q)
  PROVE  Forward' /\ shown' = shown
  <1> DEFINE p == [token |-> t, version |-> nextID + 1, quote |-> q, nr |-> marks + 1]
  <1>1. /\ latest' = [latest EXCEPT ![t] = p] /\ marks' = marks + 1 /\ marks < MaxMarks
        /\ todo' = todo /\ inHand' = inHand /\ shown' = shown
    BY DEF Mark, flushVars, rowVars
  <1>2. p \in Points /\ p.nr = marks + 1
    BY <1>1, DirtySetAssumption DEF LatestInv, Types, Points
  <1> HIDE DEF p
  <1>3. latest'[t] = p /\ \A u \in Tokens : u # t => latest'[u] = latest[u]
    BY <1>1 DEF LatestInv, Types
  <1>4. p # NoPoint
    BY <1>2, DirtySetAssumption
  <1>5. \A u \in Tokens : shown[u] \in Nat /\ shown[u] <= marks /\ (latest[u] # NoPoint => latest[u] \in Points)
    BY DEF LatestInv, Types, Forward
  <1>6. \A u \in Tokens :
          /\ shown'[u] <= marks'
          /\ latest'[u] # NoPoint => latest'[u].nr <= marks' /\ shown'[u] <= latest'[u].nr
    <2> SUFFICES ASSUME NEW u \in Tokens
                 PROVE  /\ shown'[u] <= marks'
                        /\ latest'[u] # NoPoint => latest'[u].nr <= marks' /\ shown'[u] <= latest'[u].nr
      OBVIOUS
    <2>1. CASE u = t
      BY <2>1, <1>1, <1>2, <1>3, <1>5 DEF LatestInv, Types
    <2>2. CASE u # t
      BY <2>2, <1>1, <1>3, <1>5 DEF LatestInv, Types, Forward, Points
    <2> QED
      BY <2>1, <2>2
  <1>7. \A f \in Flight' :
          /\ shown'[f.token] <= f.nr
          /\ latest'[f.token] # NoPoint /\ f.nr <= latest'[f.token].nr
    <2> SUFFICES ASSUME NEW f \in Flight'
                 PROVE  /\ shown[f.token] <= f.nr
                        /\ latest'[f.token] # NoPoint /\ f.nr <= latest'[f.token].nr
      BY <1>1
    <2>1. f \in Flight /\ f \in Points /\ f.token \in Tokens /\ f.nr \in Nat
      BY <1>1 DEF Flight, LatestInv, Types, Points
    <2>2. /\ shown[f.token] <= f.nr /\ latest[f.token] # NoPoint
          /\ f.nr <= latest[f.token].nr /\ latest[f.token].nr <= marks
      BY <2>1 DEF Forward
    <2>3. latest[f.token].nr \in Nat
      BY <2>1, <2>2, <1>5 DEF Points
    <2>4. CASE f.token = t
      BY <2>1, <2>2, <2>3, <2>4, <1>2, <1>3, <1>4 DEF LatestInv, Types
    <2>5. CASE f.token # t
      BY <2>1, <2>2, <2>5, <1>3
    <2> QED
      BY <2>4, <2>5
  <1> QED
    BY <1>1, <1>6, <1>7 DEF Forward

\* Only the point in hand is shown, which is no earlier than what its row shows.
LEMMA FlushForward ==
  ASSUME LatestInv, Forward, Flush \/ CallFails \/ Restart
  PROVE  Forward' /\ \A t \in Tokens : shown'[t] >= shown[t]
  <1>1. latest' = latest /\ marks' = marks
    BY DEF Flush, FlushBegin, NextPoint, ReadRow, UpdateLaunchPrice, Remove, CallFails, Restart
  <1>2. \A t \in Tokens : shown[t] \in Nat
    BY DEF LatestInv, Types
  <1>3. CASE FlushBegin
    <2>1. shown' = shown /\ todo' = {items[t] : t \in Dirty} /\ inHand' = NoPoint
      BY <1>3 DEF FlushBegin, FlushIdle, rowVars
    <2>2. Flight' = {items[t] : t \in Dirty}
      BY <2>1 DEF Flight
    <2>3. \A t \in Dirty : /\ t \in Tokens /\ items[t] = latest[t] /\ items[t].token = t
                           /\ items[t] # NoPoint /\ items[t].nr \in Nat
      BY DirtySetAssumption DEF LatestInv, Types, DirtyIsLatest, Points
    <2> QED
      BY <1>1, <1>2, <2>1, <2>2, <2>3 DEF Forward
  <1>4. CASE UpdateLaunchPrice
    <2> DEFINE u == inHand.token
    <2>1. /\ inHand \in Points /\ inHand \in Flight /\ u \in Tokens /\ inHand.nr \in Nat
      BY <1>4 DEF UpdateLaunchPrice, LatestInv, Types, Points, Flight
    <2>2. shown' = [shown EXCEPT ![u] = inHand.nr] /\ Flight' = Flight
      BY <1>4 DEF UpdateLaunchPrice, Flight
    <2>3. /\ shown[u] <= inHand.nr /\ latest[u] # NoPoint
          /\ inHand.nr <= latest[u].nr /\ latest[u].nr <= marks
      BY <2>1 DEF Forward
    <2>4. shown'[u] = inHand.nr /\ \A t \in Tokens : t # u => shown'[t] = shown[t]
      BY <2>1, <2>2 DEF LatestInv, Types
    <2>5. latest[u].nr \in Nat /\ marks \in Nat
      BY <2>1, <2>3 DEF LatestInv, Types, Points
    <2>6. \A f \in Flight : f = inHand \/ f.token # u
      BY <2>1 DEF LatestInv, OnePerToken
    <2>7. \A f \in Flight : f.token \in Tokens
      BY DEF Flight, LatestInv, Types, Points
    <2>8. \A t \in Tokens : shown'[t] >= shown[t] /\ shown'[t] <= marks
                            /\ (latest[t] # NoPoint => latest[t].nr <= marks /\ shown'[t] <= latest[t].nr)
      BY <2>1, <2>3, <2>4, <2>5, <1>2 DEF Forward
    <2>9. \A f \in Flight : /\ shown'[f.token] <= f.nr
                            /\ latest[f.token] # NoPoint /\ f.nr <= latest[f.token].nr
      BY <2>1, <2>3, <2>4, <2>6, <2>7 DEF Forward
    <2> QED
      BY <1>1, <2>2, <2>8, <2>9 DEF Forward
  <1>5. CASE (\E p \in todo : NextPoint(p)) \/ ReadRow \/ Remove \/ CallFails \/ Restart
    <2>1. shown' = shown /\ todo' \subseteq todo /\ inHand' \in todo \cup {inHand, NoPoint}
      BY <1>5 DEF NextPoint, ReadRow, Remove, CallFails, Restart, rowVars
    <2>2. Flight' \subseteq Flight
      BY <2>1 DEF Flight
    <2> QED
      BY <1>1, <1>2, <2>1, <2>2 DEF Forward
  <1> QED
    BY <1>3, <1>4, <1>5 DEF Flush

\* A displayed price never gives way to that of an older fill: flushes do not
\* overlap, and each has the latest mark of a token when it begins (Flush).
THEOREM DisplayNeverGoesBack == Spec => DisplayMovesForward
  <1>1. LatestInv /\ Forward /\ [Next]_vars
          => Forward' /\ [\A t \in Tokens : shown'[t] >= shown[t]]_vars
    <2> SUFFICES ASSUME LatestInv, Forward, [Next]_vars
                 PROVE  Forward' /\ [\A t \in Tokens : shown'[t] >= shown[t]]_vars
      OBVIOUS
    <2>1. \A t \in Tokens : shown[t] \in Nat
      BY DEF LatestInv, Types
    <2>2. ASSUME NEW t \in Tokens, NEW q \in Quotes, Mark(t, q)
          PROVE  Forward' /\ \A u \in Tokens : shown'[u] >= shown[u]
      BY <2>1, <2>2, MarkForward
    <2>3. CASE Flush \/ CallFails \/ Restart
      BY <2>3, FlushForward
    <2>4. CASE UNCHANGED vars
      BY <2>4 DEF vars, memVars, flushVars, rowVars, Forward, Flight
    <2> QED
      BY <2>2, <2>3, <2>4 DEF Next
  <1> QED
    BY <1>1, InitLatest, NextLatest, InitForward, PTL DEF Spec, DisplayMovesForward

-----------------------------------------------------------------------------
(* The list of tokens agrees with the map *)

Listed(s) == {s[i] : i \in 1 .. Len(s)}

Distinct(s) == \A i, j \in 1 .. Len(s) : s[i] = s[j] => i = j

\* The list has each dirty token once, so it is as long as the map is large.
OrderInv ==
  /\ order \in Seq(Tokens) /\ Distinct(order) /\ Listed(order) = Dirty
  /\ IsFiniteSet(Dirty) /\ Cardinality(Dirty) = Len(order) /\ Len(order) <= Cap

\* What no other invariant needs.
Rest ==
  /\ nextID <= MaxMarks /\ shown \in [Tokens -> 0 .. MaxMarks]
  /\ dropped \subseteq Tokens /\ faults \in 0 .. MaxFaults

\* PushBack of a token that is not in the list.
LEMMA PushBack ==
  ASSUME NEW s \in Seq(Tokens), Distinct(s), NEW t \in Tokens, t \notin Listed(s)
  PROVE  /\ Append(s, t) \in Seq(Tokens) /\ Len(Append(s, t)) = Len(s) + 1
         /\ Distinct(Append(s, t)) /\ Listed(Append(s, t)) = Listed(s) \cup {t}
  <1> DEFINE n == Len(s)
             a == Append(s, t)
  <1>1. /\ n \in Nat /\ a \in Seq(Tokens) /\ Len(a) = n + 1 /\ a[n + 1] = t
        /\ \A i \in 1 .. n : a[i] = s[i]
    OBVIOUS
  <1> HIDE DEF a
  <1>2. \A i \in 1 .. n : s[i] # t
    BY DEF Listed
  <1>3. Distinct(a)
    BY <1>1, <1>2 DEF Distinct
  <1>4. Listed(a) = Listed(s) \cup {t}
    <2>1. \A i \in 1 .. n + 1 : i = n + 1 \/ i \in 1 .. n
      BY <1>1
    <2>2. 1 .. n \subseteq 1 .. n + 1 /\ n + 1 \in 1 .. n + 1
      BY <1>1
    <2> QED
      BY <1>1, <2>1, <2>2 DEF Listed
  <1> QED
    BY <1>1, <1>3, <1>4 DEF a

\* Remove of one element leaves the others, in their order.
LEMMA RemoveOne ==
  ASSUME NEW s \in Seq(Tokens), Distinct(s), NEW at \in 1 .. Len(s), NEW r,
         r = [i \in 1 .. Len(s) - 1 |-> IF i < at THEN s[i] ELSE s[i + 1]]
  PROVE  /\ r \in Seq(Tokens) /\ Len(r) = Len(s) - 1
         /\ Distinct(r) /\ Listed(r) = Listed(s) \ {s[at]}
  <1> DEFINE n == Len(s)
  <1>1. n \in Nat /\ n - 1 \in Nat /\ \A i \in 1 .. n : s[i] \in Tokens
    OBVIOUS
  <1>2. \A i \in 1 .. n - 1 : i \in 1 .. n /\ i + 1 \in 1 .. n
    BY <1>1
  <1>3. r \in [1 .. n - 1 -> Tokens]
    BY <1>1, <1>2
  <1>4. r \in Seq(Tokens) /\ Len(r) = n - 1
    <2>1. r \in Seq(Tokens)
      BY <1>1, <1>3, SeqDef
    <2>2. DOMAIN r = 1 .. n - 1
      BY <1>3
    <2> QED
      BY <1>1, <2>1, <2>2, LenProperties
  <1>5. \A i \in 1 .. n - 1 : r[i] = IF i < at THEN s[i] ELSE s[i + 1]
    OBVIOUS
  <1>6. Distinct(r)
    BY <1>1, <1>2, <1>4, <1>5 DEF Distinct
  <1>7. ASSUME NEW i \in 1 .. n - 1 PROVE r[i] \in Listed(s) \ {s[at]}
    <2> DEFINE j == IF i < at THEN i ELSE i + 1
    <2>1. r[i] = s[j] /\ j \in 1 .. n /\ j # at
      BY <1>1, <1>2, <1>5
    <2> HIDE DEF j
    <2>2. s[j] # s[at]
      BY <2>1 DEF Distinct
    <2> QED
      BY <2>1, <2>2 DEF Listed
  <1>8. ASSUME NEW j \in 1 .. n, s[j] # s[at] PROVE s[j] \in Listed(r)
    <2>1. CASE j < at
      <3>1. j \in 1 .. n - 1 /\ r[j] = s[j]
        BY <1>1, <1>5, <2>1
      <3> QED
        BY <1>4, <3>1 DEF Listed
    <2>2. CASE j > at
      <3>1. j - 1 \in 1 .. n - 1 /\ ~(j - 1 < at) /\ (j - 1) + 1 = j
        BY <1>1, <2>2
      <3>2. r[j - 1] = s[j]
        BY <1>5, <3>1
      <3> QED
        BY <1>4, <3>1, <3>2 DEF Listed
    <2> QED
      BY <1>1, <1>8, <2>1, <2>2
  <1>9. Listed(r) = Listed(s) \ {s[at]}
    <2>1. ASSUME NEW x \in Listed(r) PROVE x \in Listed(s) \ {s[at]}
      <3>1. PICK i \in 1 .. n - 1 : x = r[i]
        BY <1>4, <2>1 DEF Listed
      <3> QED
        BY <1>7, <3>1
    <2>2. ASSUME NEW x \in Listed(s), x # s[at] PROVE x \in Listed(r)
      <3>1. PICK j \in 1 .. n : x = s[j]
        BY <2>2 DEF Listed
      <3> QED
        BY <1>8, <2>2, <3>1
    <2> QED
      BY <2>1, <2>2
  <1> QED
    BY <1>4, <1>6, <1>9

\* The element of a dirty token is found, and only it goes.
LEMMA WithoutOne ==
  ASSUME OrderInv, NEW t \in Dirty
  PROVE  /\ Without(t) \in Seq(Tokens) /\ Len(Without(t)) = Len(order) - 1
         /\ Distinct(Without(t)) /\ Listed(Without(t)) = Dirty \ {t}
  <1> DEFINE at == CHOOSE i \in 1 .. Len(order) : order[i] = t
  <1>1. \E i \in 1 .. Len(order) : order[i] = t
    BY DEF OrderInv, Listed
  <1>2. at \in 1 .. Len(order) /\ order[at] = t
    BY <1>1
  <1>3. Without(t) = [i \in 1 .. Len(order) - 1 |-> IF i < at THEN order[i] ELSE order[i + 1]]
    BY Zenon DEF Without
  <1> HIDE DEF at
  <1>4. order \in Seq(Tokens) /\ Distinct(order) /\ Listed(order) = Dirty
    BY DEF OrderInv
  <1> QED
    BY <1>2, <1>3, <1>4, RemoveOne

\* The head is the element of a dirty token, and the tail has all others.
LEMMA WithoutHead ==
  ASSUME OrderInv, order # <<>>
  PROVE  /\ Head(order) \in Dirty
         /\ Tail(order) \in Seq(Tokens) /\ Len(Tail(order)) = Len(order) - 1
         /\ Distinct(Tail(order)) /\ Listed(Tail(order)) = Dirty \ {Head(order)}
  <1> DEFINE r == [i \in 1 .. Len(order) - 1 |-> IF i < 1 THEN order[i] ELSE order[i + 1]]
  <1>1. order \in Seq(Tokens) /\ Distinct(order) /\ Listed(order) = Dirty
    BY DEF OrderInv
  <1>2. Len(order) \in Nat /\ 1 \in 1 .. Len(order) /\ Head(order) = order[1]
    BY <1>1
  <1>3. /\ r \in Seq(Tokens) /\ Len(r) = Len(order) - 1
        /\ Distinct(r) /\ Listed(r) = Dirty \ {Head(order)}
    BY <1>1, <1>2, RemoveOne
  <1>4. Tail(order) = r
    <2>1. Tail(order) \in Seq(Tokens) /\ Len(Tail(order)) = Len(order) - 1
      BY <1>1, HeadTailProperties
    <2>2. \A i \in 1 .. Len(order) - 1 : Tail(order)[i] = order[i + 1] /\ r[i] = order[i + 1]
      BY <1>1, <1>2
    <2> QED
      BY <1>3, <2>1, <2>2, SeqEqual
  <1>5. Head(order) \in Dirty
    BY <1>1, <1>2 DEF Listed
  <1> HIDE DEF r
  <1> QED
    BY <1>3, <1>4, <1>5

\* The list is empty, and so is the map.
LEMMA InitOrder == Init => OrderInv /\ Rest
  <1> SUFFICES ASSUME Init PROVE OrderInv /\ Rest
    OBVIOUS
  <1>1. Dirty = {} /\ order = <<>>
    BY DEF Init, Dirty
  <1>2. IsFiniteSet(Dirty) /\ Cardinality(Dirty) = 0
    BY <1>1, FS_EmptySet
  <1>3. OrderInv
    BY <1>1, <1>2, DirtySetAssumption DEF OrderInv, Distinct, Listed
  <1>4. Rest
    BY DirtySetAssumption DEF Init, Rest
  <1> QED
    BY <1>3, <1>4

\* A dirty token moves to the back; a new one is put there, and the oldest goes
\* if the map is full.
LEMMA MarkOrder ==
  ASSUME LatestInv, OrderInv, Rest, NEW t \in Tokens, NEW q \in Quotes, Mark(t, q)
  PROVE  OrderInv' /\ Rest'
  <1>1. /\ Dirty' = (Dirty \cup {t}) \ Evicted(t) /\ order' = OrderAfter(t)
        /\ dropped' = (dropped \ {t}) \cup Evicted(t)
        /\ nextID' = nextID + 1 /\ nextID + 1 \in Nat /\ nextID + 1 <= MaxMarks
        /\ shown' = shown /\ faults' = faults
    BY DirtySetAssumption DEF Mark, Dirty, rowVars, LatestInv, Types
  <1>2. /\ order \in Seq(Tokens) /\ Distinct(order) /\ Listed(order) = Dirty
        /\ IsFiniteSet(Dirty) /\ Cardinality(Dirty) = Len(order) /\ Len(order) <= Cap
        /\ Len(order) \in Nat /\ Cap \in Nat /\ Cap >= 1
    BY DirtySetAssumption DEF OrderInv
  \* what is left of the list once t, or the oldest, is out of it
  <1> DEFINE s == IF t \in Dirty THEN Without(t) ELSE IF Evicted(t) = {} THEN order ELSE Tail(order)
             D == (Dirty \ {t}) \ Evicted(t)
  <1>3. /\ s \in Seq(Tokens) /\ Distinct(s) /\ Listed(s) = D
        /\ IsFiniteSet(D) /\ Cardinality(D) = Len(s) /\ Len(s) + 1 <= Cap
        /\ Evicted(t) \subseteq Dirty /\ t \notin Evicted(t)
    <2>1. CASE t \in Dirty
      <3>1. Evicted(t) = {} /\ D = Dirty \ {t} /\ s = Without(t)
        BY <2>1 DEF Evicted
      <3>2. IsFiniteSet(D) /\ Cardinality(D) = Len(order) - 1
        BY <1>2, <2>1, <3>1, FS_RemoveElement
      <3> HIDE DEF s, D
      <3>3. /\ s \in Seq(Tokens) /\ Len(s) = Len(order) - 1 /\ Distinct(s) /\ Listed(s) = D
        BY <2>1, <3>1, WithoutOne
      <3> QED
        BY <1>2, <3>1, <3>2, <3>3
    <2>2. CASE t \notin Dirty /\ Cardinality(Dirty) >= Cap
      <3>1. Evicted(t) = {Head(order)}
        BY <2>2 DEF Evicted
      <3>2. order # <<>>
        BY <1>2, <2>2
      <3>3. /\ Head(order) \in Dirty
            /\ Tail(order) \in Seq(Tokens) /\ Len(Tail(order)) = Len(order) - 1
            /\ Distinct(Tail(order)) /\ Listed(Tail(order)) = Dirty \ {Head(order)}
        BY <3>2, WithoutHead
      <3>4. D = Dirty \ {Head(order)} /\ s = Tail(order)
        BY <2>2, <3>1
      <3>5. IsFiniteSet(D) /\ Cardinality(D) = Len(order) - 1
        BY <1>2, <3>3, <3>4, FS_RemoveElement
      <3> HIDE DEF s, D
      <3> QED
        BY <1>2, <2>2, <3>1, <3>3, <3>4, <3>5
    <2>3. CASE t \notin Dirty /\ ~(Cardinality(Dirty) >= Cap)
      <3>1. Evicted(t) = {} /\ D = Dirty /\ s = order
        BY <2>3 DEF Evicted
      <3> HIDE DEF s, D
      <3> QED
        BY <1>2, <2>3, <3>1
    <2> QED
      BY <2>1, <2>2, <2>3
  <1>4. order' = Append(s, t)
    BY <1>1 DEF OrderAfter
  <1>5. Dirty' = D \cup {t} /\ t \notin D
    BY <1>1, <1>3
  <1> HIDE DEF s, D
  <1>6. /\ order' \in Seq(Tokens) /\ Len(order') = Len(s) + 1
        /\ Distinct(order') /\ Listed(order') = D \cup {t}
    BY <1>3, <1>4, <1>5, PushBack
  <1>7. IsFiniteSet(D \cup {t}) /\ Cardinality(D \cup {t}) = Cardinality(D) + 1
    BY <1>3, <1>5, FS_AddElement
  <1>8. OrderInv'
    BY <1>3, <1>5, <1>6, <1>7 DEF OrderInv, Distinct, Listed
  <1>9. Rest'
    BY <1>1, <1>2, <1>3 DEF Rest, LatestInv, Types
  <1> QED
    BY <1>8, <1>9

\* What leaves the map leaves the list.
LEMMA RemoveOrder == ASSUME LatestInv, OrderInv, Rest, Remove PROVE OrderInv' /\ Rest'
  <1> DEFINE t == inHand.token
  <1>1. /\ nextID' = nextID /\ shown' = shown /\ dropped' = dropped /\ faults' = faults
        /\ Dirty' = Dirty \ (IF SameVersion(inHand) THEN {t} ELSE {})
        /\ order' = IF SameVersion(inHand) THEN Without(t) ELSE order
    <2>1. {t} # {}
      OBVIOUS
    <2> QED
      BY <2>1 DEF Remove, rowVars, Dirty
  <1>2. Rest'
    BY <1>1 DEF Rest
  <1>3. CASE SameVersion(inHand)
    <2>1. t \in Dirty /\ Dirty' = Dirty \ {t} /\ order' = Without(t)
      BY <1>1, <1>3 DEF SameVersion
    <2>2. IsFiniteSet(Dirty \ {t}) /\ Cardinality(Dirty \ {t}) = Cardinality(Dirty) - 1
      BY <2>1, FS_RemoveElement DEF OrderInv
    <2>3. /\ order' \in Seq(Tokens) /\ Len(order') = Len(order) - 1
          /\ Distinct(order') /\ Listed(order') = Dirty \ {t}
      BY <2>1, WithoutOne
    <2>4. Len(order) \in Nat /\ Cap \in Nat /\ Cardinality(Dirty) = Len(order) /\ Len(order) <= Cap
      BY DirtySetAssumption DEF OrderInv
    <2>5. OrderInv'
      BY <2>1, <2>2, <2>3, <2>4 DEF OrderInv, Distinct, Listed
    <2> QED
      BY <1>2, <2>5
  <1>4. CASE ~SameVersion(inHand)
    <2>1. Dirty' = Dirty /\ order' = order
      BY <1>1, <1>4
    <2> QED
      BY <1>2, <2>1 DEF OrderInv, Distinct, Listed
  <1> QED
    BY <1>3, <1>4

\* Every step keeps the list and the map in agreement.
LEMMA NextOrder == LatestInv /\ OrderInv /\ Rest /\ [Next]_vars => OrderInv' /\ Rest'
  <1> SUFFICES ASSUME LatestInv, OrderInv, Rest, [Next]_vars PROVE OrderInv' /\ Rest'
    OBVIOUS
  <1>1. ASSUME NEW t \in Tokens, NEW q \in Quotes, Mark(t, q) PROVE OrderInv' /\ Rest'
    BY <1>1, MarkOrder
  <1>2. CASE Remove
    BY <1>2, RemoveOrder
  <1>3. CASE UpdateLaunchPrice
    <2>1. /\ items' = items /\ order' = order /\ nextID' = nextID
          /\ dropped' = dropped /\ faults' = faults
          /\ shown' = [shown EXCEPT ![inHand.token] = inHand.nr]
      BY <1>3 DEF UpdateLaunchPrice, memVars
    <2>2. inHand.nr \in 0 .. MaxMarks
      BY <1>3 DEF UpdateLaunchPrice, LatestInv, Types, Points
    <2>3. Rest'
      BY <2>1, <2>2 DEF Rest
    <2>4. Dirty' = Dirty
      BY <2>1 DEF Dirty
    <2> QED
      BY <2>1, <2>3, <2>4 DEF OrderInv, Distinct, Listed
  <1>4. CASE Restart
    <2>1. /\ Dirty' = {} /\ order' = <<>> /\ nextID' = 0 /\ dropped' = dropped \cup Dirty
          /\ shown' = shown /\ faults < MaxFaults /\ faults' = faults + 1
      BY <1>4 DEF Restart, Dirty, rowVars
    <2>2. IsFiniteSet({}) /\ Cardinality({}) = 0
      BY FS_EmptySet
    <2>3. OrderInv'
      BY <2>1, <2>2, DirtySetAssumption DEF OrderInv, Distinct, Listed
    <2>4. Rest'
      BY <2>1, DirtySetAssumption DEF Rest, LatestInv, Types
    <2> QED
      BY <2>3, <2>4
  <1>5. CASE FlushBegin \/ (\E p \in todo : NextPoint(p)) \/ ReadRow \/ CallFails \/ UNCHANGED vars
    <2>1. /\ items' = items /\ order' = order /\ nextID' = nextID
          /\ dropped' = dropped /\ shown' = shown
      BY <1>5 DEF FlushBegin, NextPoint, ReadRow, CallFails, vars, memVars, rowVars
    <2>2. faults' = faults \/ (faults < MaxFaults /\ faults' = faults + 1)
      BY <1>5 DEF FlushBegin, NextPoint, ReadRow, CallFails, vars
    <2>3. Rest'
      BY <2>1, <2>2, DirtySetAssumption DEF Rest
    <2>4. Dirty' = Dirty
      BY <2>1 DEF Dirty
    <2> QED
      BY <2>1, <2>3, <2>4 DEF OrderInv, Distinct, Listed
  <1> QED
    BY <1>1, <1>2, <1>3, <1>4, <1>5 DEF Next, Flush

\* The types, and the agreement, follow.
LEMMA PriceTypesHold == LatestInv /\ OrderInv /\ Rest => TypeOK /\ OrderMatchesItems
  <1> SUFFICES ASSUME LatestInv, OrderInv, Rest PROVE TypeOK /\ OrderMatchesItems
    OBVIOUS
  <1>1. OrderMatchesItems
    BY DEF OrderInv, Listed, OrderMatchesItems
  <1>2. Cardinality(Dirty) <= Cap /\ order \in Seq(Tokens)
    BY DEF OrderInv
  <1>3. nextID \in 0 .. MaxMarks
    BY DirtySetAssumption DEF Rest, LatestInv, Types
  <1> QED
    BY <1>1, <1>2, <1>3 DEF TypeOK, LatestInv, Types, Rest

-----------------------------------------------------------------------------
(* Scores *)

ScoreTypes ==
  /\ sells \in [Wallets -> 0 .. MaxSells] /\ score \in [Wallets -> Nat] /\ due \in [Wallets -> Nat]
  /\ uncounted \in Nat /\ toScore \subseteq Wallets /\ wallet \in Wallets \cup {Nobody}
  /\ level \in [Wallets -> Score!Levels] /\ locked \in [Wallets -> BOOLEAN]
  /\ events \in 0 .. Score!NoEvents

\* What was read of a wallet is no less than what its score was computed from.
ScoreReadIsNew ==
  /\ \A w \in Wallets : score[w] <= sells[w] /\ due[w] <= sells[w]
  /\ wallet = Nobody => events = Score!NoEvents
  /\ events # Score!NoEvents => score[wallet] <= events /\ events <= sells[wallet]

ScoresInv == ScoreTypes /\ ScoreReadIsNew /\ Score!PendingCovers /\ Score!LockedLevelStays

-----------------------------------------------------------------------------
\* Nothing is sold and nothing is due.
LEMMA InitScores == ASSUME Score!ScoresAssumption, Score!Init PROVE ScoresInv
  <1>1. MaxSells \in Nat
    BY DEF Score!ScoresAssumption
  <1> DEFINE zero == [w \in Wallets |-> 0]
  <1>2. /\ sells = zero /\ score = zero /\ due = zero
        /\ uncounted = 0 /\ toScore \subseteq Wallets /\ wallet = Nobody /\ events = Score!NoEvents
    BY Zenon DEF Score!Init
  <1>3. /\ zero \in [Wallets -> 0 .. MaxSells] /\ zero \in [Wallets -> Nat]
        /\ \A w \in Wallets : zero[w] = 0
    BY <1>1
  <1> HIDE DEF zero
  <1>4. /\ level \in [Wallets -> Score!Levels] /\ locked \in [Wallets -> BOOLEAN]
        /\ \A w \in Wallets : ~locked[w]
    BY Zenon DEF Score!Init, Score!Levels
  <1>5. ScoreTypes
    BY <1>1, <1>2, <1>3, <1>4 DEF ScoreTypes, Score!NoEvents
  <1>6. ScoreReadIsNew
    BY <1>2, <1>3 DEF ScoreReadIsNew
  <1>7. Score!PendingCovers
    BY <1>2, <1>3 DEF Score!PendingCovers
  <1>8. Score!LockedLevelStays
    BY <1>4 DEF Score!LockedLevelStays
  <1> QED
    BY <1>5, <1>6, <1>7, <1>8 DEF ScoresInv

\* A block adds sells; only at the threshold they become due, with a signal.
LEMMA ScanScores ==
  ASSUME Score!ScoresAssumption, ScoresInv,
         Score!RequestScoreAfter \/ \E w \in Wallets, n \in 1 .. MaxBlock : Score!CommitBlock(w, n)
  PROVE  ScoresInv'
  <1>1. CASE Score!RequestScoreAfter
    <2>1. /\ sells' = sells /\ toScore' = toScore /\ wallet' = wallet /\ events' = events
          /\ score' = score /\ level' = level /\ locked' = locked /\ uncounted' = 0
      BY <1>1 DEF Score!RequestScoreAfter, Score!loopVars, Score!rowVars
    <2>2. \/ due' = due /\ scoreTrigger' = scoreTrigger /\ excused' = excused
          \/ due' = sells /\ scoreTrigger'
      BY <1>1 DEF Score!RequestScoreAfter
    <2>3. sells \in [Wallets -> Nat]
      BY DEF Score!ScoresAssumption, ScoresInv, ScoreTypes
    <2>4. ScoreTypes' /\ ScoreReadIsNew'
      BY <2>1, <2>2, <2>3 DEF ScoresInv, ScoreTypes, ScoreReadIsNew
    <2>5. Score!PendingCovers'
      <3>1. CASE due' = sells /\ scoreTrigger'
        BY <3>1 DEF Score!PendingCovers
      <3>2. CASE due' = due /\ scoreTrigger' = scoreTrigger /\ excused' = excused
        BY <2>1, <3>2 DEF ScoresInv, Score!PendingCovers
      <3> QED
        BY <2>2, <3>1, <3>2
    <2>6. Score!LockedLevelStays'
      BY <2>1 DEF ScoresInv, Score!LockedLevelStays
    <2> QED
      BY <2>4, <2>5, <2>6 DEF ScoresInv
  <1>2. ASSUME NEW w \in Wallets, NEW n \in 1 .. MaxBlock, Score!CommitBlock(w, n) PROVE ScoresInv'
    <2>1. /\ toScore' = toScore /\ wallet' = wallet /\ events' = events
          /\ score' = score /\ level' = level /\ locked' = locked /\ uncounted' = n
          /\ due' = due /\ scoreTrigger' = scoreTrigger /\ excused' = excused
          /\ sells' = [sells EXCEPT ![w] = @ + n] /\ sells[w] + n <= MaxSells
      BY <1>2 DEF Score!CommitBlock, Score!loopVars, Score!rowVars
    <2>2. n \in Nat /\ MaxSells \in Nat
      BY DEF Score!ScoresAssumption
    <2>3. sells' \in [Wallets -> 0 .. MaxSells] /\ \A u \in Wallets : sells[u] <= sells'[u]
      BY <2>1, <2>2 DEF ScoresInv, ScoreTypes
    <2>4. ScoreTypes'
      BY <2>1, <2>2, <2>3 DEF ScoresInv, ScoreTypes
    <2>5. ScoreReadIsNew'
      <3>1. \A u \in Wallets : sells[u] \in Nat /\ sells'[u] \in Nat /\ score[u] \in Nat /\ due[u] \in Nat
        BY <2>2, <2>3 DEF ScoresInv, ScoreTypes
      <3>2. events # Score!NoEvents => wallet \in Wallets /\ events \in Nat
        BY <2>2 DEF ScoresInv, ScoreTypes, ScoreReadIsNew
      <3> QED
        BY <2>1, <2>3, <3>1, <3>2 DEF ScoresInv, ScoreReadIsNew
    <2>6. Score!PendingCovers' /\ Score!LockedLevelStays'
      BY <2>1 DEF ScoresInv, Score!PendingCovers, Score!LockedLevelStays
    <2> QED
      BY <2>4, <2>5, <2>6 DEF ScoresInv
  <1> QED
    BY <1>1, <1>2

\* The signal is taken: every wallet is on the list, or none could be read.
LEMMA TakeScores == ASSUME ScoresInv, Score!ScoreOnTrigger \/ Score!ScoreOnTick PROVE ScoresInv'
  <1>1. /\ sells' = sells /\ wallet' = wallet /\ events' = events /\ uncounted' = uncounted
        /\ score' = score /\ level' = level /\ locked' = locked /\ due' = due
    BY DEF Score!ScoreOnTrigger, Score!ScoreOnTick, Score!scanVars, Score!rowVars
  <1>2. toScore' = Wallets \/ (toScore' = toScore /\ excused' = Wallets)
    BY DEF Score!ScoreOnTrigger, Score!ScoreOnTick, Score!LoadSmartWallets, Score!Listed
  <1>3. ScoreTypes' /\ ScoreReadIsNew' /\ Score!LockedLevelStays'
    BY <1>1, <1>2 DEF ScoresInv, ScoreTypes, ScoreReadIsNew, Score!LockedLevelStays
  <1>4. Score!PendingCovers'
    BY <1>2 DEF Score!PendingCovers
  <1> QED
    BY <1>3, <1>4 DEF ScoresInv

\* A wallet goes through the steps of RecalculateAll, and its score forward.
LEMMA RecalculateScores ==
  ASSUME Score!ScoresAssumption, ScoresInv, Score!Recalculate \/ Score!WalletFails
  PROVE  ScoresInv' /\ \A w \in Wallets : score'[w] >= score[w]
  <1>1. /\ sells' = sells /\ due' = due /\ uncounted' = uncounted /\ scoreTrigger' = scoreTrigger
        /\ locked' = locked
    BY DEF Score!Recalculate, Score!NextWallet, Score!ScoreEvents, Score!UpdateWalletScore, Score!RecalculateAllReturns,
           Score!WalletFails, Score!SignalAfterRun, Score!scanVars, Score!rowVars
  <1>2. MaxSells \in Nat /\ Score!NoEvents \in Nat /\ Score!NoEvents > MaxSells
    BY DEF Score!ScoresAssumption, Score!NoEvents
  <1>3. \A w \in Wallets : sells[w] \in 0 .. MaxSells /\ score[w] \in Nat /\ due[w] \in Nat
    BY DEF ScoresInv, ScoreTypes
  <1>4. ASSUME NEW w \in toScore, Score!NextWallet(w)
        PROVE  ScoresInv' /\ \A u \in Wallets : score'[u] >= score[u]
    <2>1. /\ wallet = Nobody /\ wallet' = w /\ toScore' = toScore \ {w} /\ events' = events
          /\ score' = score /\ level' = level /\ excused' = excused
      BY <1>4 DEF Score!NextWallet, Score!rowVars
    <2>2. events = Score!NoEvents /\ w \in Wallets /\ Nobody \notin Wallets
      BY <2>1 DEF Score!ScoresAssumption, ScoresInv, ScoreTypes, ScoreReadIsNew
    <2>3. ScoreTypes' /\ ScoreReadIsNew' /\ Score!LockedLevelStays'
      BY <1>1, <2>1, <2>2 DEF ScoresInv, ScoreTypes, ScoreReadIsNew, Score!LockedLevelStays
    <2>4. Score!PendingCovers'
      BY <1>1, <2>1, <2>2 DEF ScoresInv, Score!PendingCovers
    <2> QED
      BY <1>3, <2>1, <2>3, <2>4 DEF ScoresInv
  <1>5. CASE Score!ScoreEvents
    <2>1. /\ wallet \in Wallets /\ wallet' = wallet /\ toScore' = toScore /\ events' = sells[wallet]
          /\ score' = score /\ level' = level /\ excused' = excused /\ wallet # Nobody
      BY <1>5 DEF Score!ScoreEvents, Score!rowVars, ScoresInv, ScoreTypes
    <2>2. sells[wallet] \in 0 .. MaxSells /\ sells[wallet] \in 0 .. Score!NoEvents
      BY <1>2, <1>3, <2>1
    <2>3. ScoreTypes'
      BY <1>1, <2>1, <2>2 DEF ScoresInv, ScoreTypes
    <2>4. ScoreReadIsNew'
      BY <1>1, <1>3, <2>1, <2>2 DEF ScoresInv, ScoreReadIsNew
    <2>5. Score!PendingCovers'
      BY <1>1, <1>3, <2>1 DEF ScoresInv, ScoreReadIsNew, Score!PendingCovers
    <2>6. Score!LockedLevelStays'
      BY <1>1, <2>1 DEF ScoresInv, Score!LockedLevelStays
    <2> QED
      BY <1>3, <2>1, <2>3, <2>4, <2>5, <2>6 DEF ScoresInv
  <1>6. CASE Score!UpdateWalletScore
    <2>1. /\ wallet \in Wallets /\ wallet' = Nobody /\ toScore' = toScore /\ events' = Score!NoEvents
          /\ score' = [score EXCEPT ![wallet] = events] /\ excused' = excused
          /\ level' = [level EXCEPT ![wallet] = Score!LevelAfter(wallet)] /\ events # Score!NoEvents
      BY <1>6 DEF Score!UpdateWalletScore, ScoresInv, ScoreTypes
    <2>2. events \in Nat /\ score[wallet] <= events /\ events <= sells[wallet]
      BY <1>2, <2>1 DEF ScoresInv, ScoreTypes, ScoreReadIsNew
    <2>3. /\ score' \in [Wallets -> Nat] /\ score'[wallet] = events
          /\ \A u \in Wallets : u # wallet => score'[u] = score[u]
      BY <2>1, <2>2 DEF ScoresInv, ScoreTypes
    <2>4. level' \in [Wallets -> Score!Levels] /\ Score!LockedLevelStays'
      BY <1>1, <2>1 DEF ScoresInv, ScoreTypes, Score!LevelAfter, Score!Levels, Score!LockedLevelStays
    <2>5. ScoreTypes' /\ ScoreReadIsNew'
      BY <1>1, <1>2, <1>3, <2>1, <2>2, <2>3, <2>4 DEF ScoresInv, ScoreTypes, ScoreReadIsNew
    <2>6. Score!PendingCovers'
      <3> SUFFICES ASSUME NEW u \in Wallets \ excused, score'[u] < due[u]
                   PROVE  scoreTrigger \/ u \in toScore
        BY <1>1, <2>1 DEF Score!PendingCovers
      <3>1. CASE u = wallet
        BY <3>1, <1>3, <2>1, <2>2, <2>3 DEF ScoresInv, Score!PendingCovers
      <3>2. CASE u # wallet
        BY <3>2, <2>3 DEF ScoresInv, Score!PendingCovers
      <3> QED
        BY <3>1, <3>2
    <2>7. \A u \in Wallets : score'[u] >= score[u]
      BY <1>3, <2>2, <2>3
    <2> QED
      BY <2>4, <2>5, <2>6, <2>7 DEF ScoresInv
  <1>7. CASE Score!RecalculateAllReturns \/ Score!WalletFails
    <2>1. /\ score' = score /\ level' = level /\ toScore' = toScore
          /\ \/ wallet' = wallet /\ events' = events /\ excused' = excused
             \/ wallet' = Nobody /\ events' = Score!NoEvents /\ excused' = excused \cup {wallet}
      BY <1>7 DEF Score!RecalculateAllReturns, Score!WalletFails, Score!ScoreKept, Score!rowVars
    <2>2. Score!NoEvents \in 0 .. Score!NoEvents
      BY <1>2
    <2>3. ScoreTypes'
      BY <1>1, <2>1, <2>2 DEF ScoresInv, ScoreTypes
    <2>4. ScoreReadIsNew' /\ Score!LockedLevelStays'
      BY <1>1, <2>1 DEF ScoresInv, ScoreReadIsNew, Score!LockedLevelStays
    <2>5. Score!PendingCovers'
      BY <1>1, <2>1 DEF ScoresInv, Score!PendingCovers
    <2> QED
      BY <1>3, <2>1, <2>3, <2>4, <2>5 DEF ScoresInv
  <1> QED
    BY <1>4, <1>5, <1>6, <1>7 DEF Score!Recalculate

\* The operator locks a level, or the process restarts and excuses everyone.
LEMMA OutsideScores ==
  ASSUME Score!ScoresAssumption, ScoresInv, Score!Restart \/ \E w \in Wallets : Score!LockLevel(w)
  PROVE  ScoresInv'
  <1>1. MaxSells \in Nat /\ Score!NoEvents \in 0 .. Score!NoEvents
    BY DEF Score!ScoresAssumption, Score!NoEvents
  <1>2. CASE Score!Restart
    BY <1>1, <1>2 DEF Score!Restart, Score!rowVars, ScoresInv, ScoreTypes, ScoreReadIsNew,
                      Score!PendingCovers, Score!LockedLevelStays
  <1>3. ASSUME NEW w \in Wallets, Score!LockLevel(w) PROVE ScoresInv'
    <2>1. /\ locked' = [locked EXCEPT ![w] = TRUE] /\ level' = [level EXCEPT ![w] = "by operator"]
          /\ sells' = sells /\ uncounted' = uncounted /\ scoreTrigger' = scoreTrigger
          /\ toScore' = toScore /\ wallet' = wallet /\ events' = events /\ score' = score
          /\ due' = due /\ excused' = excused
      BY <1>3 DEF Score!LockLevel, Score!scanVars, Score!loopVars
    <2>2. ScoreTypes' /\ Score!LockedLevelStays'
      BY <2>1 DEF ScoresInv, ScoreTypes, Score!LockedLevelStays, Score!Levels
    <2>3. ScoreReadIsNew' /\ Score!PendingCovers'
      BY <2>1 DEF ScoresInv, ScoreReadIsNew, Score!PendingCovers
    <2> QED
      BY <2>2, <2>3 DEF ScoresInv
  <1> QED
    BY <1>2, <1>3

\* Every step preserves the invariant, and no score goes back.
LEMMA NextScores ==
  ASSUME Score!ScoresAssumption
  PROVE  ScoresInv /\ [Score!Next]_(Score!vars)
           => ScoresInv' /\ [\A w \in Wallets : score'[w] >= score[w]]_(Score!vars)
  <1> SUFFICES ASSUME ScoresInv, [Score!Next]_(Score!vars)
               PROVE  /\ ScoresInv'
                      /\ Score!vars' = Score!vars \/ \A w \in Wallets : score'[w] >= score[w]
    OBVIOUS
  <1>1. \A w \in Wallets : score[w] \in Nat
    BY DEF ScoresInv, ScoreTypes
  <1>2. CASE UNCHANGED Score!vars
    BY <1>2 DEF Score!vars, Score!scanVars, Score!loopVars, Score!rowVars, ScoresInv, ScoreTypes,
                ScoreReadIsNew, Score!PendingCovers, Score!LockedLevelStays
  <1>3. CASE Score!Recalculate \/ Score!WalletFails
    BY <1>3, RecalculateScores
  <1>4. CASE Score!RequestScoreAfter \/ \E w \in Wallets, n \in 1 .. MaxBlock : Score!CommitBlock(w, n)
    <2>1. score' = score
      BY <1>4 DEF Score!RequestScoreAfter, Score!CommitBlock, Score!rowVars
    <2> QED
      BY <1>1, <1>4, <2>1, ScanScores
  <1>5. CASE Score!ScoreOnTrigger \/ Score!ScoreOnTick
    <2>1. score' = score
      BY <1>5 DEF Score!ScoreOnTrigger, Score!ScoreOnTick, Score!rowVars
    <2> QED
      BY <1>1, <1>5, <2>1, TakeScores
  <1>6. CASE Score!Restart \/ \E w \in Wallets : Score!LockLevel(w)
    <2>1. score' = score
      BY <1>6 DEF Score!Restart, Score!LockLevel, Score!rowVars
    <2> QED
      BY <1>1, <1>6, <2>1, OutsideScores
  <1> QED
    BY <1>2, <1>3, <1>4, <1>5, <1>6 DEF Score!Next

\* The counts and places that no other invariant needs.
ScoreRest ==
  /\ uncounted \in 0 .. MaxBlock /\ sellSince \in 0 .. Threshold - 1
  /\ ticking \in {"select", "scoring"} /\ excused \subseteq Wallets
  /\ scoreFaults \in 0 .. MaxFaults

\* What is counted stays below the threshold, and a failure is counted.
LEMMA NextScoreRest ==
  ASSUME Score!ScoresAssumption, ScoresInv, ScoreRest, [Score!Next]_(Score!vars)
  PROVE  ScoreRest'
  <1>1. /\ Threshold \in Nat \ {0} /\ MaxBlock \in Nat /\ MaxFaults \in Nat
        /\ sellSince \in Nat /\ uncounted \in Nat
    BY DEF Score!ScoresAssumption, ScoresInv, ScoreTypes, ScoreRest
  <1>2. ASSUME NEW w \in Wallets, NEW n \in 1 .. MaxBlock, Score!CommitBlock(w, n) PROVE ScoreRest'
    BY <1>1, <1>2 DEF ScoreRest, Score!CommitBlock, Score!loopVars
  <1>3. CASE Score!RequestScoreAfter
    BY <1>1, <1>3 DEF ScoreRest, Score!RequestScoreAfter, Score!loopVars, Score!CountAfterCrossing
  <1>4. CASE Score!ScoreOnTrigger \/ Score!ScoreOnTick
    BY <1>1, <1>4 DEF ScoreRest, Score!ScoreOnTrigger, Score!ScoreOnTick, Score!LoadSmartWallets,
                      Score!scanVars
  <1>5. CASE Score!Recalculate
    BY <1>5 DEF ScoreRest, Score!Recalculate, Score!NextWallet, Score!ScoreEvents,
                Score!UpdateWalletScore, Score!RecalculateAllReturns, Score!SignalAfterRun,
                Score!scanVars
  <1>6. CASE Score!WalletFails
    <2>1. wallet \in Wallets
      BY <1>6 DEF Score!WalletFails, ScoresInv, ScoreTypes
    <2> QED
      BY <1>1, <1>6, <2>1 DEF ScoreRest, Score!WalletFails, Score!scanVars
  <1>7. CASE Score!Restart \/ \E w \in Wallets : Score!LockLevel(w)
    <2>1. CASE Score!Restart
      <3>1. /\ uncounted' = 0 /\ sellSince' = 0 /\ ticking' = "select" /\ excused' = Wallets
            /\ scoreFaults' = scoreFaults + 1 /\ scoreFaults < MaxFaults
        BY <2>1, Zenon DEF Score!Restart
      <3> QED
        BY <1>1, <3>1 DEF ScoreRest
    <2>2. CASE \E w \in Wallets : Score!LockLevel(w)
      <3>1. /\ uncounted' = uncounted /\ sellSince' = sellSince /\ ticking' = ticking
            /\ excused' = excused /\ scoreFaults' = scoreFaults + 1 /\ scoreFaults < MaxFaults
        BY <2>2, Zenon DEF Score!LockLevel, Score!scanVars, Score!loopVars
      <3> QED
        BY <1>1, <3>1 DEF ScoreRest
    <2> QED
      BY <1>7, <2>1, <2>2
  <1>8. CASE UNCHANGED Score!vars
    BY <1>8 DEF ScoreRest, Score!vars, Score!scanVars, Score!loopVars
  <1> QED
    BY <1>2, <1>3, <1>4, <1>5, <1>6, <1>7, <1>8 DEF Score!Next

\* All of it holds at the start.
LEMMA InitScoreRest == ASSUME Score!ScoresAssumption, Score!Init PROVE ScoreRest
  <1>1. /\ uncounted = 0 /\ sellSince = 0 /\ ticking = "select"
        /\ excused = {} /\ scoreFaults = 0
    BY Zenon DEF Score!Init
  <1> QED
    BY <1>1 DEF ScoreRest, Score!ScoresAssumption

\* The channel of one place is empty or full.
LEMMA NextTrigger ==
  ASSUME scoreTrigger \in BOOLEAN, [Score!Next]_(Score!vars) PROVE scoreTrigger' \in BOOLEAN
  <1>1. scoreTrigger' = scoreTrigger \/ scoreTrigger' = TRUE \/ scoreTrigger' = FALSE
    BY Zenon DEF Score!Next, Score!CommitBlock, Score!RequestScoreAfter, Score!ScoreOnTrigger,
         Score!ScoreOnTick, Score!Recalculate, Score!NextWallet, Score!ScoreEvents,
         Score!UpdateWalletScore, Score!RecalculateAllReturns, Score!SignalAfterRun,
         Score!WalletFails, Score!LockLevel, Score!Restart, Score!vars
  <1> QED
    BY <1>1, Zenon

\* Both together say what TypeOK does.
LEMMA ScoreTypesHold ==
  ASSUME Score!ScoresAssumption, ScoresInv, ScoreRest, scoreTrigger \in BOOLEAN
  PROVE  Score!TypeOK
  BY DEF ScoresInv, ScoreTypes, ScoreReadIsNew, ScoreRest, Score!TypeOK

\* A step of anyone is a step of the scores or leaves them alone.
LEMMA StepOfScores == ASSUME [BackgroundNext]_backgroundVars PROVE [Score!Next]_(Score!vars)
  BY DEF BackgroundNext, backgroundVars, scoreVars, Score!vars, Score!scanVars, Score!loopVars,
         Score!rowVars

\* A dropped signal loses no recalculation: the pending one, or the run in
\* progress, covers the sells of every time the threshold was reached; and a
\* recalculation that read the list before never undoes the operator's lock of a
\* level (requestScoreAfter against RecalculateAll, UpdateWalletScore).
THEOREM NoSignalIsLost == BackgroundSpec => []ScoresKeepUp
  <1>1. BackgroundInit => ScoresInv
    BY InitScores, BackgroundAssumption DEF BackgroundInit
  <1>2. ScoresInv /\ [BackgroundNext]_backgroundVars => ScoresInv'
    BY NextScores, StepOfScores, BackgroundAssumption
  <1>3. ScoresInv => ScoresKeepUp
    BY DEF ScoresInv, ScoresKeepUp
  <1> QED
    BY <1>1, <1>2, <1>3, PTL DEF BackgroundSpec

-----------------------------------------------------------------------------
(* Followed wallets *)

\* The table: every version is a whole list, and what is shown was well formed.
ListTypes ==
  /\ lists \in Seq([Followed!Addresses -> Followed!Rows]) /\ listAge \in Seq(0 .. Followed!LongAgo)
  /\ Len(listAge) = Len(lists)
  /\ shownList \in 1 .. Len(lists) /\ Followed!WellFormed(shownList)
  /\ read \in [Followed!Callers -> 1 .. Len(lists)]

\* The callers: who loads holds refreshMu, so at most one does.
CallerTypes ==
  /\ tryAge \in 0 .. Followed!LongAgo /\ okAge \in tryAge .. Followed!LongAgo /\ failed \in BOOLEAN
  /\ refreshMu \in Followed!Callers \cup {Nobody}
  /\ pc \in [Followed!Callers -> {"idle", "calls", "loads", "builds", "from", "contract"}]
  /\ \A c \in Followed!Callers : refreshMu = c <=> pc[c] \in {"loads", "builds"}
  /\ launch \in Followed!Addresses \cup {Nobody, "missed"}
  /\ listFaults \in 0 .. MaxFaults

\* What was read is no older than what is shown, and lacks only edits made since
\* the load began; without a failure what is shown lacks only edits made since
\* the last load began, which took Slow at most.
ReadIsNewer ==
  /\ \A c \in Followed!Callers :
       pc[c] = "builds" => /\ shownList <= read[c]
                           /\ \A v \in read[c] + 1 .. Len(lists) : listAge[v] <= tryAge
  /\ refreshMu # Nobody => tryAge <= Slow
  /\ ~failed /\ refreshMu = Nobody
       => \A v \in shownList + 1 .. Len(lists) : listAge[v] <= tryAge + Slow

ListsInv == ListTypes /\ CallerTypes /\ ReadIsNewer

\* Each version has an age.
LEMMA AgesOfLists ==
  ASSUME Followed!WalletAssumption, ListsInv
  PROVE  /\ Len(lists) \in Nat /\ Followed!LongAgo \in Nat
         /\ \A v \in 1 .. Len(lists) : listAge[v] \in 0 .. Followed!LongAgo
  <1>1. listAge \in Seq(0 .. Followed!LongAgo) /\ Len(listAge) = Len(lists)
    BY DEF ListsInv, ListTypes
  <1>2. Followed!LongAgo \in Nat
    BY DEF Followed!WalletAssumption, Followed!LongAgo
  <1> HIDE DEF Followed!LongAgo
  <1> QED
    BY <1>1, <1>2

\* The first list is shown.
LEMMA InitLists == ASSUME Followed!WalletAssumption, Followed!Init PROVE ListsInv
  <1>1. /\ Interval \in Nat /\ Slow \in Nat /\ MaxFaults \in Nat /\ 0 \in 0 .. Followed!LongAgo
        /\ Nobody \notin Followed!Callers
    BY DEF Followed!WalletAssumption, Followed!LongAgo, Followed!Callers
  <1>2. PICK first \in [Followed!Addresses -> {"active", "paused"}] : lists = <<first>>
    BY DEF Followed!Init
  <1>3. /\ lists \in Seq([Followed!Addresses -> Followed!Rows]) /\ Len(lists) = 1
        /\ lists[1] = first
    BY <1>2 DEF Followed!Rows
  <1>4. /\ listAge = <<0>> /\ shownList = 1 /\ tryAge = 0 /\ okAge = 0 /\ refreshMu = Nobody
        /\ pc = [c \in Followed!Callers |-> "idle"] /\ read = [c \in Followed!Callers |-> 1]
        /\ launch = Nobody /\ listFaults = 0
    BY Zenon DEF Followed!Init
  <1>5. failed \in BOOLEAN
    BY Zenon DEF Followed!Init
  <1>6. ListTypes
    BY <1>1, <1>2, <1>3, <1>4 DEF ListTypes, Followed!WellFormed
  <1>7. CallerTypes
    BY <1>1, <1>4, <1>5 DEF CallerTypes
  <1>8. ReadIsNewer
    BY <1>3, <1>4 DEF ReadIsNewer
  <1> QED
    BY <1>6, <1>7, <1>8 DEF ListsInv

\* An edit is the newest version.
LEMMA EditLists ==
  ASSUME Followed!WalletAssumption, ListsInv,
         NEW a \in Followed!Addresses, NEW new \in Followed!Rows, Followed!Edit(a, new)
  PROVE  ListsInv'
  <1>1. /\ Interval \in Nat /\ Slow \in Nat /\ Followed!LongAgo \in Nat
    BY DEF Followed!WalletAssumption, Followed!LongAgo
  <1> DEFINE n == Len(lists)
             edited == [lists[n] EXCEPT ![a] = new]
  <1>2. /\ lists' = Append(lists, edited) /\ listAge' = Append(listAge, 0)
        /\ shownList' = shownList /\ tryAge' = tryAge /\ okAge' = okAge /\ failed' = failed
        /\ refreshMu' = refreshMu /\ read' = read /\ pc' = pc /\ launch' = launch
        /\ listFaults' = listFaults
    BY DEF Followed!Edit, Followed!Current, Followed!loadVars, Followed!tryVars
  <1>3. n \in Nat /\ n >= 1 /\ shownList \in 1 .. n /\ Len(listAge) = n
    BY DEF ListsInv, ListTypes
  <1>4. edited \in [Followed!Addresses -> Followed!Rows]
    BY <1>3 DEF ListsInv, ListTypes
  <1> HIDE DEF edited
  <1>5. /\ lists' \in Seq([Followed!Addresses -> Followed!Rows]) /\ Len(lists') = n + 1
        /\ \A v \in 1 .. n : lists'[v] = lists[v]
    BY <1>2, <1>3, <1>4 DEF ListsInv, ListTypes
  <1>6. /\ listAge' \in Seq(0 .. Followed!LongAgo) /\ Len(listAge') = n + 1
        /\ \A v \in 1 .. n : listAge'[v] = listAge[v]
        /\ listAge'[n + 1] = 0
    BY <1>1, <1>2, <1>3 DEF ListsInv, ListTypes
  <1>7. ListTypes'
    <2>1. read' \in [Followed!Callers -> 1 .. Len(lists')] /\ shownList' \in 1 .. Len(lists')
      BY <1>2, <1>3, <1>5 DEF ListsInv, ListTypes
    <2>2. Followed!WellFormed(shownList)'
      BY <1>2, <1>3, <1>5 DEF ListsInv, ListTypes, Followed!WellFormed
    <2> QED
      BY <1>5, <1>6, <2>1, <2>2 DEF ListTypes
  <1>8. CallerTypes'
    BY <1>2 DEF ListsInv, CallerTypes
  <1>9. ReadIsNewer'
    <2>1. tryAge \in Nat /\ \A c \in Followed!Callers : read[c] \in 1 .. n
      BY <1>1 DEF ListsInv, ListTypes, CallerTypes
    <2>2. ASSUME NEW c \in Followed!Callers, pc[c] = "builds"
          PROVE  shownList <= read[c] /\ \A v \in read[c] + 1 .. n + 1 : listAge'[v] <= tryAge
      BY <2>1, <2>2, <1>3, <1>6 DEF ListsInv, ReadIsNewer
    <2>3. ASSUME ~failed, refreshMu = Nobody, NEW v \in shownList + 1 .. n + 1
          PROVE  listAge'[v] <= tryAge + Slow
      <3>1. CASE v = n + 1
        BY <3>1, <2>1, <1>1, <1>6
      <3>2. CASE v \in shownList + 1 .. n
        <4>1. listAge[v] <= tryAge + Slow
          BY <3>2, <2>3, <1>3 DEF ListsInv, ReadIsNewer
        <4> QED
          BY <4>1, <3>2, <1>3, <1>6
      <3> QED
        BY <3>1, <3>2, <1>3
    <2> QED
      BY <1>2, <1>5, <2>2, <2>3 DEF ListsInv, ReadIsNewer
  <1> QED
    BY <1>7, <1>8, <1>9 DEF ListsInv

\* Time passes; a load that takes longer than Slow has ended.
LEMMA PassLists ==
  ASSUME Followed!WalletAssumption, ListsInv, Followed!Pass PROVE ListsInv'
  <1>1. /\ Interval \in Nat /\ Slow \in Nat /\ Followed!LongAgo = Interval + Slow + 1
    BY DEF Followed!WalletAssumption, Followed!LongAgo
  <1> DEFINE n == Len(lists)
             old == Followed!LongAgo
  <1>2. /\ lists' = lists /\ listAge' = [v \in 1 .. n |-> Followed!Older(listAge[v])]
        /\ tryAge' = Followed!Older(tryAge) /\ okAge' = Followed!Older(okAge)
        /\ shownList' = shownList /\ failed' = failed /\ refreshMu' = refreshMu /\ read' = read
        /\ pc' = pc /\ launch' = launch /\ listFaults' = listFaults
        /\ refreshMu # Nobody => tryAge < Slow
    BY DEF Followed!Pass, Followed!Current
  <1>3. /\ n \in Nat /\ tryAge \in 0 .. old /\ okAge \in tryAge .. old
        /\ \A v \in 1 .. n : listAge[v] \in 0 .. old
    BY AgesOfLists DEF ListsInv, CallerTypes
  <1>4. \A a \in 0 .. old : /\ Followed!Older(a) \in 0 .. old
                              /\ Followed!Older(a) = IF a < old THEN a + 1 ELSE old
    BY <1>1 DEF Followed!Older
  <1>5. listAge' \in [1 .. n -> 0 .. old] /\ \A v \in 1 .. n : listAge'[v] = Followed!Older(listAge[v])
    BY <1>2, <1>3, <1>4
  <1>6. listAge' \in Seq(0 .. old) /\ Len(listAge') = n
    <2>1. listAge' \in Seq(0 .. old)
      BY <1>3, <1>5, SeqDef
    <2>2. DOMAIN listAge' = 1 .. n
      BY <1>5
    <2> QED
      BY <1>3, <2>1, <2>2, LenProperties
  <1>7. ListTypes'
    BY <1>2, <1>6 DEF ListsInv, ListTypes, Followed!WellFormed
  <1>8. tryAge' \in 0 .. old /\ okAge' \in tryAge' .. old
    BY <1>1, <1>2, <1>3, <1>4, SMTT(20)
  <1>9. CallerTypes'
    BY <1>2, <1>8 DEF ListsInv, CallerTypes
  <1>10. ReadIsNewer'
    <2>1. \A c \in Followed!Callers : read[c] \in 1 .. n /\ shownList \in 1 .. n
      BY DEF ListsInv, ListTypes
    <2>2. ASSUME NEW c \in Followed!Callers, pc[c] = "builds"
          PROVE  shownList <= read[c] /\ \A v \in read[c] + 1 .. n : listAge'[v] <= tryAge'
      <3>1. refreshMu # Nobody
        BY <2>2 DEF ListsInv, CallerTypes, Followed!WalletAssumption, Followed!Callers
      <3>2. tryAge' = tryAge + 1
        BY <3>1, <1>1, <1>2, <1>3, <1>4
      <3>3. ASSUME NEW v \in read[c] + 1 .. n PROVE listAge'[v] <= tryAge'
        <4>1. v \in 1 .. n /\ listAge[v] <= tryAge
          BY <2>1, <2>2, <1>3 DEF ListsInv, ReadIsNewer
        <4>2. listAge[v] \in 0 .. old /\ listAge'[v] = Followed!Older(listAge[v])
          BY <4>1, <1>3, <1>5
        <4>3. listAge'[v] <= listAge[v] + 1
          BY <4>2, <1>1, <1>4
        <4> QED
          BY <4>1, <4>2, <4>3, <3>2, <1>1, <1>3, <1>4
      <3> QED
        BY <2>2, <3>3 DEF ListsInv, ReadIsNewer
    <2>3. ASSUME ~failed, refreshMu = Nobody, NEW v \in shownList + 1 .. n
          PROVE  listAge'[v] <= tryAge' + Slow
      <3>1. v \in 1 .. n /\ listAge[v] <= tryAge + Slow
        BY <2>1, <2>3, <1>3 DEF ListsInv, ListTypes, ReadIsNewer
      <3>2. listAge'[v] <= old /\ listAge'[v] <= listAge[v] + 1 /\ listAge'[v] \in Nat
        BY <3>1, <1>1, <1>3, <1>4, <1>5
      <3>3. tryAge' = tryAge + 1 \/ tryAge' = old
        BY <1>1, <1>2, <1>3, <1>4
      <3> QED
        BY <3>1, <3>2, <3>3, <1>1, <1>3
    <2>4. refreshMu' # Nobody => tryAge' <= Slow
      BY <1>1, <1>2, <1>3, <1>4
    <2> QED
      BY <1>2, <2>2, <2>3, <2>4 DEF ReadIsNewer
  <1> QED
    BY <1>7, <1>9, <1>10 DEF ListsInv

\* The steps of a caller outside of the critical section, and into it.
LEMMA CallLists ==
  ASSUME Followed!WalletAssumption, ListsInv,
         \/ \E c \in Followed!Callers : Followed!Call(c) \/ Followed!NotDue(c) \/ Followed!Try(c)
         \/ Followed!ActiveFrom \/ Followed!ActiveContract
  PROVE  ListsInv' /\ shownList' = shownList
  <1>1. /\ Interval \in Nat /\ Slow \in Nat /\ 0 \in 0 .. Followed!LongAgo
        /\ Nobody \notin Followed!Callers
    BY DEF Followed!WalletAssumption, Followed!LongAgo, Followed!Callers
  <1>2. lists' = lists /\ listAge' = listAge /\ shownList' = shownList /\ read' = read
    BY DEF Followed!Call, Followed!NotDue, Followed!Try, Followed!ActiveFrom,
           Followed!ActiveContract, Followed!listVars, Followed!loadVars, Followed!tryVars
  <1>3. ListTypes'
    BY <1>2 DEF ListsInv, ListTypes, Followed!WellFormed
  <1>4. ASSUME NEW c \in Followed!Callers, Followed!Try(c) PROVE CallerTypes' /\ ReadIsNewer'
    <2>1. /\ refreshMu = Nobody /\ refreshMu' = c /\ tryAge' = 0 /\ okAge' = okAge
          /\ failed' = failed /\ launch' = launch /\ listFaults' = listFaults
          /\ pc' = [pc EXCEPT ![c] = "loads"]
      BY <1>4 DEF Followed!Try, Followed!MutexFree, Followed!At
    <2>2. \A d \in Followed!Callers : pc[d] \notin {"loads", "builds"}
      BY <1>1, <2>1 DEF ListsInv, CallerTypes
    <2>3. CallerTypes'
      BY <1>1, <2>1, <2>2 DEF ListsInv, CallerTypes
    <2>4. \A d \in Followed!Callers : pc'[d] # "builds"
      BY <2>1, <2>2 DEF ListsInv, CallerTypes
    <2> QED
      BY <1>1, <2>1, <2>3, <2>4 DEF ReadIsNewer
  <1>5. ASSUME \/ \E c \in Followed!Callers : Followed!Call(c) \/ Followed!NotDue(c)
               \/ Followed!ActiveFrom \/ Followed!ActiveContract
        PROVE  CallerTypes' /\ ReadIsNewer'
    <2>1. /\ refreshMu' = refreshMu /\ tryAge' = tryAge /\ okAge' = okAge
          /\ failed' = failed /\ listFaults' = listFaults
          /\ launch' \in Followed!Addresses \cup {Nobody, "missed", launch}
      BY <1>5 DEF Followed!Call, Followed!NotDue, Followed!ActiveFrom, Followed!ActiveContract,
                  Followed!loadVars, Followed!tryVars, Followed!Addresses
    <2>2. PICK d \in Followed!Callers : \E p \in {"idle", "calls", "from", "contract"} :
            pc' = [pc EXCEPT ![d] = p] /\ pc[d] \notin {"loads", "builds"}
      BY <1>5, Zenon DEF Followed!Call, Followed!NotDue, Followed!ActiveFrom, Followed!ActiveContract,
                         Followed!At, Followed!After, Followed!Callers
    <2>3. CallerTypes'
      BY <2>1, <2>2 DEF ListsInv, CallerTypes
    <2>4. \A e \in Followed!Callers : pc'[e] = "builds" => pc[e] = "builds"
      BY <2>2 DEF ListsInv, CallerTypes
    <2> QED
      BY <1>2, <2>1, <2>3, <2>4 DEF ListsInv, ReadIsNewer
  <1> QED
    BY <1>2, <1>3, <1>4, <1>5 DEF ListsInv

\* The holder of refreshMu reads the last version, shows it or fails; none of
\* it replaces what is shown by an older one.
LEMMA LoadLists ==
  ASSUME Followed!WalletAssumption, ListsInv, NEW c \in Followed!Callers,
         Followed!LoadSmartWallets(c) \/ Followed!Swap(c) \/ Followed!LoadFails(c)
  PROVE  ListsInv' /\ shownList' >= shownList
  <1>1. /\ Interval \in Nat /\ Slow \in Nat /\ MaxFaults \in Nat /\ 0 \in 0 .. Followed!LongAgo
        /\ Nobody \notin Followed!Callers
    BY DEF Followed!WalletAssumption, Followed!LongAgo, Followed!Callers
  <1>2. lists' = lists /\ listAge' = listAge /\ launch' = launch
    BY DEF Followed!LoadSmartWallets, Followed!Swap, Followed!LoadFails, Followed!listVars
  <1>3. pc[c] \in {"loads", "builds"} /\ refreshMu = c /\ refreshMu # Nobody
    BY <1>1 DEF Followed!LoadSmartWallets, Followed!Swap, Followed!LoadFails, ListsInv, CallerTypes
  <1>4. \A d \in Followed!Callers : d # c => pc[d] \notin {"loads", "builds"}
    BY <1>3 DEF ListsInv, CallerTypes
  <1>5. /\ shownList \in 1 .. Len(lists) /\ read[c] \in 1 .. Len(lists) /\ tryAge \in Nat
        /\ tryAge <= Slow /\ Len(lists) \in Nat
    BY <1>3 DEF ListsInv, ListTypes, CallerTypes, ReadIsNewer
  <1>6. Followed!After(c) \in {"idle", "from"}
    BY DEF Followed!After
  <1>7. CASE Followed!LoadSmartWallets(c)
    <2>1. /\ read' = [read EXCEPT ![c] = Len(lists)] /\ pc' = [pc EXCEPT ![c] = "builds"]
          /\ shownList' = shownList /\ tryAge' = tryAge /\ okAge' = okAge /\ failed' = failed
          /\ refreshMu' = refreshMu /\ listFaults' = listFaults
      BY <1>7 DEF Followed!LoadSmartWallets, Followed!Current, Followed!At, Followed!tryVars
    <2>2. ListTypes'
      BY <1>2, <1>5, <2>1 DEF ListsInv, ListTypes, Followed!WellFormed
    <2>3. CallerTypes'
      BY <1>2, <1>3, <2>1 DEF ListsInv, CallerTypes
    <2>4. /\ read'[c] = Len(lists) /\ pc'[c] = "builds"
          /\ \A d \in Followed!Callers : d # c => pc'[d] # "builds"
      BY <1>4, <2>1 DEF ListsInv, ListTypes, CallerTypes
    <2>5. ReadIsNewer'
      BY <1>2, <1>3, <1>5, <2>1, <2>4 DEF ListsInv, ReadIsNewer
    <2> QED
      BY <1>5, <2>1, <2>2, <2>3, <2>5 DEF ListsInv
  <1>8. CASE Followed!Swap(c)
    <2>1. /\ pc[c] = "builds" /\ Followed!WellFormed(read[c]) /\ shownList' = read[c]
          /\ tryAge' = 0 /\ okAge' = 0 /\ refreshMu' = Nobody
          /\ pc' = [pc EXCEPT ![c] = Followed!After(c)] /\ read' = read /\ listFaults' = listFaults
      BY <1>8 DEF Followed!Swap, Followed!At
    <2>2. failed' \in BOOLEAN
      BY <1>8, Zenon DEF Followed!Swap
    <2>3. ListTypes'
      BY <1>2, <1>5, <2>1 DEF ListsInv, ListTypes, Followed!WellFormed
    <2>4. \A d \in Followed!Callers : pc'[d] \notin {"loads", "builds"}
      BY <1>4, <1>6, <2>1 DEF ListsInv, CallerTypes
    <2>5. CallerTypes'
      BY <1>1, <1>2, <1>6, <2>1, <2>2, <2>4 DEF ListsInv, CallerTypes
    <2>6. shownList <= read[c] /\ \A v \in read[c] + 1 .. Len(lists) : listAge[v] <= tryAge
      BY <2>1 DEF ListsInv, ReadIsNewer
    <2>7. \A v \in read[c] + 1 .. Len(lists) : listAge[v] \in Nat
      BY <1>5, AgesOfLists
    <2>8. ReadIsNewer'
      BY <1>1, <1>2, <1>5, <2>1, <2>4, <2>6, <2>7 DEF ReadIsNewer
    <2> QED
      BY <1>5, <2>1, <2>3, <2>5, <2>6, <2>8 DEF ListsInv
  <1>9. CASE Followed!LoadFails(c)
    <2>1. /\ shownList' = shownList /\ tryAge' = tryAge /\ okAge' = okAge /\ refreshMu' = Nobody
          /\ pc' = [pc EXCEPT ![c] = Followed!After(c)] /\ read' = read
      BY <1>9 DEF Followed!LoadFails, Followed!At, Followed!SnapshotKept, Followed!Unlocked
    <2>2. listFaults' \in 0 .. MaxFaults
      BY <1>1, <1>9 DEF Followed!LoadFails, ListsInv, CallerTypes
    <2>3. failed' = TRUE
      BY <1>9, Zenon DEF Followed!LoadFails
    <2>4. \A d \in Followed!Callers : pc'[d] \notin {"loads", "builds"}
      BY <1>4, <1>6, <2>1 DEF ListsInv, CallerTypes
    <2>5. ListTypes'
      BY <1>2, <2>1 DEF ListsInv, ListTypes, Followed!WellFormed
    <2>6. CallerTypes'
      BY <1>1, <1>2, <1>6, <2>1, <2>2, <2>3, <2>4 DEF ListsInv, CallerTypes
    <2>7. ReadIsNewer'
      BY <2>1, <2>3, <2>4 DEF ReadIsNewer
    <2> QED
      BY <1>5, <2>1, <2>5, <2>6, <2>7 DEF ListsInv
  <1> QED
    BY <1>7, <1>8, <1>9

\* Every step preserves the invariant, and no newer list gives way to an older.
LEMMA NextLists ==
  ASSUME Followed!WalletAssumption, ListsInv, [Followed!Next]_(Followed!vars)
  PROVE  ListsInv' /\ shownList' >= shownList
  <1>1. shownList \in Nat
    BY AgesOfLists DEF ListsInv, ListTypes
  <1>2. ASSUME NEW a \in Followed!Addresses, NEW new \in Followed!Rows, Followed!Edit(a, new)
        PROVE  ListsInv' /\ shownList' = shownList
    BY <1>2, EditLists DEF Followed!Edit, Followed!loadVars
  <1>3. CASE Followed!Pass
    BY <1>1, <1>3, PassLists DEF Followed!Pass
  <1>4. CASE \/ \E c \in Followed!Callers : Followed!Call(c) \/ Followed!NotDue(c) \/ Followed!Try(c)
             \/ Followed!ActiveFrom \/ Followed!ActiveContract
    BY <1>1, <1>4, CallLists
  <1>5. CASE \E c \in Followed!Callers :
               Followed!LoadSmartWallets(c) \/ Followed!Swap(c) \/ Followed!LoadFails(c)
    BY <1>5, LoadLists
  <1>6. CASE UNCHANGED Followed!vars
    BY <1>1, <1>6 DEF Followed!vars, Followed!listVars, Followed!loadVars, Followed!tryVars,
                      ListsInv, ListTypes, CallerTypes, ReadIsNewer, Followed!WellFormed
  <1> QED
    BY <1>1, <1>2, <1>3, <1>4, <1>5, <1>6 DEF Followed!Next, Followed!RefreshIfDue

\* The invariant says what TypeOK does.
LEMMA ListTypesHold == ASSUME Followed!WalletAssumption, ListsInv PROVE Followed!TypeOK
  <1>1. \A v \in 1 .. Len(lists) : lists[v] \in [Followed!Addresses -> Followed!Rows]
    BY DEF ListsInv, ListTypes
  <1> QED
    BY <1>1, AgesOfLists DEF ListsInv, ListTypes, CallerTypes, Followed!TypeOK, Followed!Current

\* A scanner that goes on to match its block found no load due, or has just
\* loaded: what is shown then lacks only edits younger than Interval + Slow.
LEMMA BlockLists ==
  ASSUME Followed!WalletAssumption, ListsInv, [Followed!Next]_(Followed!vars),
         pc["scan"] # "from", pc'["scan"] = "from", ~failed'
  PROVE  \A v \in shownList' + 1 .. Len(lists) : listAge[v] < Interval + Slow
  <1>1. /\ Interval \in Nat \ {0} /\ Slow \in Nat /\ Nobody \notin Followed!Callers
        /\ "scan" \in Followed!Callers
    BY DEF Followed!WalletAssumption, Followed!Callers
  <1>2. /\ shownList \in 1 .. Len(lists) /\ tryAge \in Nat
        /\ pc \in [Followed!Callers -> {"idle", "calls", "loads", "builds", "from", "contract"}]
    BY AgesOfLists DEF ListsInv, ListTypes, CallerTypes
  <1>3. \A v \in 1 .. Len(lists) : listAge[v] \in Nat
    BY AgesOfLists
  <1>4. ASSUME NEW c \in Followed!Callers, c # "scan" \/ Followed!LoadSmartWallets(c)
                                           \/ Followed!Try(c) \/ Followed!Call(c),
               Followed!Call(c) \/ Followed!RefreshIfDue(c)
        PROVE  FALSE
    <2>1. \E p \in {"idle", "calls", "loads", "builds", "from", "contract"} :
            pc' = [pc EXCEPT ![c] = p] /\ (c = "scan" => p # "from")
      BY <1>4 DEF Followed!RefreshIfDue, Followed!Call, Followed!NotDue, Followed!Try,
                  Followed!LoadSmartWallets, Followed!Swap, Followed!LoadFails, Followed!At,
                  Followed!After
    <2> QED
      BY <1>1, <1>2, <2>1
  <1>5. CASE Followed!NotDue("scan")
    <2>1. refreshMu = Nobody /\ tryAge < Interval /\ shownList' = shownList /\ failed' = failed
      BY <1>5, <1>1, <1>2 DEF Followed!NotDue, Followed!MutexFree, Followed!Due, Followed!loadVars,
                         Followed!tryVars
    <2>2. \A v \in shownList + 1 .. Len(lists) : listAge[v] <= tryAge + Slow
      BY <2>1 DEF ListsInv, ReadIsNewer
    <2> QED
      BY <1>1, <1>2, <1>3, <2>1, <2>2, AgesOfLists
  <1>6. CASE Followed!Swap("scan")
    <2>1. pc["scan"] = "builds" /\ shownList' = read["scan"]
      BY <1>6 DEF Followed!Swap
    <2>2. tryAge <= Slow /\ \A v \in read["scan"] + 1 .. Len(lists) : listAge[v] <= tryAge
      BY <1>1, <2>1 DEF ListsInv, CallerTypes, ReadIsNewer
    <2>3. read["scan"] \in 1 .. Len(lists)
      BY <1>1 DEF ListsInv, ListTypes
    <2> QED
      BY <1>1, <1>2, <1>3, <2>1, <2>2, <2>3, AgesOfLists
  <1>7. CASE Followed!LoadFails("scan")
    BY <1>7, Zenon DEF Followed!LoadFails
  <1>8. CASE UNCHANGED pc \/ Followed!ActiveFrom \/ Followed!ActiveContract
    <2>1. \/ UNCHANGED pc
          \/ \E p \in {"idle", "contract"} : pc' = [pc EXCEPT !["scan"] = p]
      BY <1>8 DEF Followed!ActiveFrom, Followed!ActiveContract, Followed!At
    <2> QED
      BY <1>1, <1>2, <2>1
  <1>9. CASE \E c \in Followed!Callers : Followed!Call(c) \/ Followed!RefreshIfDue(c)
    BY <1>4, <1>5, <1>6, <1>7, <1>9 DEF Followed!RefreshIfDue
  <1> QED
    BY <1>8, <1>9 DEF Followed!Next, Followed!vars, Followed!Edit, Followed!Pass

\* A step of anyone is a step of the followed wallets or leaves them alone.
LEMMA StepOfLists == ASSUME [BackgroundNext]_backgroundVars PROVE [Followed!Next]_(Followed!vars)
  BY DEF BackgroundNext, backgroundVars, listVars, Followed!vars, Followed!listVars,
         Followed!loadVars, Followed!tryVars

-----------------------------------------------------------------------------
(* Price of ETH *)

FeedTypes ==
  /\ known \in BOOLEAN /\ lastFailed \in BOOLEAN /\ fetching \in BOOLEAN
  /\ age \in 0 .. Feed!TooOld /\ elapsed \in 0 .. Timeout
  /\ backoff \in FirstBackoff .. MaxBackoff /\ delay \in Nat /\ delay <= Poll + MaxBackoff
  /\ delay <= Poll \/ delay <= MaxBackoff
  /\ service \in {"up", "down"} /\ upFor \in 0 .. Feed!Back + 1
  /\ service = "down" => upFor = 0

\* As long as no request has failed, the next answer comes before the last one
\* is too old: the timer and the request end within Poll + Timeout of it.
AnswerIsNew ==
  known /\ ~lastFailed => IF fetching THEN age <= Poll + elapsed ELSE age + delay <= Poll

\* What the service still has to make good when it is up: a request that began
\* before, the longest delay after it, and one request.
Recovers ==
  service = "up" =>
    \/ known /\ ~lastFailed /\ (fetching => elapsed <= upFor)
    \/ fetching /\ upFor < elapsed
    \/ ~fetching /\ upFor + delay <= Timeout + Poll + MaxBackoff
    \/ fetching /\ elapsed <= upFor /\ upFor <= Timeout + Poll + MaxBackoff + elapsed

FeedInv == FeedTypes /\ AnswerIsNew /\ Recovers

\* The assumption, as arithmetic.
LEMMA FeedNumbers ==
  ASSUME Feed!FeedAssumption
  PROVE  /\ Poll \in Nat \ {0} /\ Timeout \in Nat \ {0} /\ TTL \in Nat /\ Stale \in Nat
         /\ FirstBackoff \in Nat \ {0} /\ MaxBackoff \in Nat /\ FirstBackoff <= MaxBackoff
         /\ Poll + Timeout <= TTL /\ TTL <= Stale
         /\ Feed!TooOld = Stale + 1 /\ Feed!Back = MaxBackoff + Poll + 2 * Timeout
  BY DEF Feed!FeedAssumption, Feed!TooOld, Feed!Back

\* Nothing is known, and a request is due.
LEMMA InitFeed == ASSUME Feed!FeedAssumption, Feed!Init PROVE FeedInv /\ Feed!OnlyStaleLosesPrices
  <1>1. ~known /\ ~lastFailed /\ ~fetching /\ known \in BOOLEAN /\ lastFailed \in BOOLEAN
        /\ fetching \in BOOLEAN
    BY Zenon DEF Feed!Init
  <1>2. age = Feed!TooOld /\ delay = 0 /\ elapsed = 0 /\ backoff = FirstBackoff
        /\ service \in {"up", "down"} /\ upFor = 0
    BY Zenon DEF Feed!Init
  <1>3. FeedTypes
    BY <1>1, <1>2, FeedNumbers DEF FeedTypes
  <1>4. AnswerIsNew
    BY <1>1 DEF AnswerIsNew
  <1>5. Recovers
    BY <1>1, <1>2, FeedNumbers DEF Recovers
  <1>6. priced = [kind |-> "unknown", whole |-> FALSE, usd |-> FALSE, known |-> FALSE, age |-> Feed!TooOld]
    BY Zenon DEF Feed!Init
  <1>7. Feed!OnlyStaleLosesPrices
    BY <1>6, Zenon DEF Feed!OnlyStaleLosesPrices
  <1> QED
    BY <1>3, <1>4, <1>5, <1>7 DEF FeedInv

\* The loop: a request begins, answers or fails.
LEMMA FetchFeed ==
  ASSUME Feed!FeedAssumption, FeedInv,
         Feed!BeginFetch \/ Feed!FetchOK \/ Feed!FetchLimited \/ Feed!FetchFails
  PROVE  FeedInv'
  <1>1. CASE Feed!BeginFetch
    <2>1. /\ ~fetching /\ delay = 0 /\ elapsed' = 0 /\ age' = age /\ delay' = delay
          /\ backoff' = backoff /\ service' = service /\ upFor' = upFor
      BY <1>1, Zenon DEF Feed!BeginFetch, Feed!cacheVars
    <2>2. (known' <=> known) /\ (lastFailed' <=> lastFailed) /\ fetching'
          /\ known' \in BOOLEAN /\ lastFailed' \in BOOLEAN /\ fetching' \in BOOLEAN
      BY <1>1, Zenon DEF Feed!BeginFetch, Feed!cacheVars, FeedInv, FeedTypes
    <2> QED
      BY <2>1, <2>2, FeedNumbers DEF FeedInv, FeedTypes, AnswerIsNew, Recovers
  <1>2. CASE Feed!FetchOK
    <2>1. /\ service = "up" /\ age' = 0 /\ delay' = Poll /\ backoff' = FirstBackoff
          /\ elapsed' = elapsed /\ service' = service /\ upFor' = upFor
      BY <1>2, Zenon DEF Feed!FetchOK
    <2>2. known' /\ ~lastFailed' /\ ~fetching'
          /\ known' \in BOOLEAN /\ lastFailed' \in BOOLEAN /\ fetching' \in BOOLEAN
      BY <1>2, Zenon DEF Feed!FetchOK
    <2> QED
      BY <2>1, <2>2, FeedNumbers DEF FeedInv, FeedTypes, AnswerIsNew, Recovers
  <1>3. CASE Feed!FetchLimited \/ Feed!FetchFails
    <2>1. /\ Feed!MayFail /\ age' = age /\ elapsed' = elapsed /\ service' = service /\ upFor' = upFor
          /\ \/ delay' = backoff /\ backoff' = Feed!NextBackoff
             \/ delay' = Poll /\ backoff' = FirstBackoff
      BY <1>3, Zenon DEF Feed!FetchLimited, Feed!FetchFails
    <2>2. (known' <=> known) /\ lastFailed' /\ ~fetching' /\ fetching
          /\ known' \in BOOLEAN /\ lastFailed' \in BOOLEAN /\ fetching' \in BOOLEAN
      <3>1. known' = known /\ lastFailed' = TRUE /\ fetching' = FALSE /\ fetching
        BY <1>3, Zenon DEF Feed!FetchLimited, Feed!FetchFails, Feed!FailedWhenLimited
      <3>2. known \in BOOLEAN
        BY DEF FeedInv, FeedTypes
      <3> QED
        BY <3>1, <3>2, Zenon
    <2>3. Feed!NextBackoff \in FirstBackoff .. MaxBackoff
      BY FeedNumbers DEF FeedInv, FeedTypes, Feed!NextBackoff, Feed!Lesser
    <2>4. service = "up" => upFor < elapsed
      BY <2>1 DEF Feed!MayFail
    <2>5. FeedTypes'
      BY <2>1, <2>2, <2>3, FeedNumbers DEF FeedInv, FeedTypes
    <2>6. Recovers'
      BY <2>1, <2>2, <2>3, <2>4, FeedNumbers DEF FeedInv, FeedTypes, Recovers
    <2> QED
      BY <2>2, <2>5, <2>6 DEF FeedInv, AnswerIsNew
  <1> QED
    BY <1>1, <1>2, <1>3

\* Time passes, the service comes and goes, the process restarts.
LEMMA OutsideFeed ==
  ASSUME Feed!FeedAssumption, FeedInv,
         Feed!Pass \/ Feed!Restart \/ \E s \in {"up", "down"} : Feed!Service(s)
  PROVE  FeedInv'
  <1>1. CASE Feed!Pass
    <2>1. /\ (known' <=> known) /\ (lastFailed' <=> lastFailed) /\ (fetching' <=> fetching)
          /\ known' \in BOOLEAN /\ lastFailed' \in BOOLEAN /\ fetching' \in BOOLEAN
      BY <1>1, Zenon DEF Feed!Pass, FeedInv, FeedTypes
    <2>2. /\ age' = Feed!Older(age, Feed!TooOld) /\ backoff' = backoff /\ service' = service
          /\ upFor' = IF service = "up" THEN Feed!Older(upFor, Feed!Back + 1) ELSE 0
          /\ \/ fetching /\ elapsed < Timeout /\ elapsed' = elapsed + 1 /\ delay' = delay
             \/ ~fetching /\ delay > 0 /\ elapsed' = elapsed /\ delay' = delay - 1
      BY <1>1 DEF Feed!Pass
    <2>3. FeedTypes'
      BY <2>1, <2>2, FeedNumbers DEF FeedInv, FeedTypes, Feed!Older
    <2>4. AnswerIsNew'
      BY <2>1, <2>2, FeedNumbers DEF FeedInv, FeedTypes, AnswerIsNew, Feed!Older
    <2>5. Recovers'
      BY <2>1, <2>2, FeedNumbers DEF FeedInv, FeedTypes, Recovers, Feed!Older
    <2> QED
      BY <2>3, <2>4, <2>5 DEF FeedInv
  <1>2. CASE Feed!Restart
    <2>1. ~known' /\ ~lastFailed' /\ ~fetching' /\ known' \in BOOLEAN /\ lastFailed' \in BOOLEAN
          /\ fetching' \in BOOLEAN
      BY <1>2, Zenon DEF Feed!Restart
    <2>2. age' = Feed!TooOld /\ delay' = 0 /\ elapsed' = 0 /\ backoff' = FirstBackoff
          /\ upFor' = 0 /\ service' = service
      BY <1>2, Zenon DEF Feed!Restart
    <2> QED
      BY <2>1, <2>2, FeedNumbers DEF FeedInv, FeedTypes, AnswerIsNew, Recovers
  <1>3. CASE \E s \in {"up", "down"} : Feed!Service(s)
    <2>1. /\ (known' <=> known) /\ (lastFailed' <=> lastFailed) /\ (fetching' <=> fetching)
          /\ known' \in BOOLEAN /\ lastFailed' \in BOOLEAN /\ fetching' \in BOOLEAN
      <3>1. known' = known /\ lastFailed' = lastFailed /\ fetching' = fetching
        BY <1>3 DEF Feed!Service, Feed!cacheVars, Feed!loopVars
      <3>2. known \in BOOLEAN /\ lastFailed \in BOOLEAN /\ fetching \in BOOLEAN
        BY DEF FeedInv, FeedTypes
      <3> QED
        BY <3>1, <3>2, Zenon
    <2>2. age' = age /\ delay' = delay /\ elapsed' = elapsed /\ backoff' = backoff
          /\ upFor' = 0 /\ service' \in {"up", "down"}
      BY <1>3, Zenon DEF Feed!Service, Feed!cacheVars, Feed!loopVars
    <2> QED
      BY <2>1, <2>2, FeedNumbers DEF FeedInv, FeedTypes, AnswerIsNew, Recovers
  <1> QED
    BY <1>1, <1>2, <1>3

\* A fill is priced by a price that is known and not stale: it is never one of
\* those that ETHUSD takes for unconfirmed.
LEMMA PriceFill ==
  ASSUME Feed!FeedAssumption, FeedInv,
         NEW kind \in Feed!Kinds, NEW whole \in BOOLEAN, Feed!CollectFill(kind, whole)
  PROVE  Feed!OnlyStaleLosesPrices'
  <1>1. Feed!Usable <=> known /\ age <= Stale
    <2>1. /\ age \in Nat /\ delay \in Nat /\ elapsed \in 0 .. Timeout
      BY FeedNumbers DEF FeedInv, FeedTypes
    <2>2. known /\ ~lastFailed => age <= TTL
      BY <2>1, FeedNumbers DEF FeedInv, AnswerIsNew
    <2> QED
      BY <2>1, <2>2, FeedNumbers DEF Feed!Usable
  <1>2. /\ priced'.kind = kind /\ priced'.whole = whole /\ priced'.known = known
        /\ priced'.age = age /\ priced'.usd = (whole /\ Feed!QuoteUSD(kind))
    BY DEF Feed!CollectFill
  <1>3. (whole /\ Feed!QuoteUSD(kind))
          <=> whole /\ (kind = "usdg" \/ (kind = "eth" /\ known /\ age <= Stale))
    BY <1>1 DEF Feed!QuoteUSD
  <1>4. priced'.usd <=> whole /\ (kind = "usdg" \/ (kind = "eth" /\ known /\ age <= Stale))
    BY <1>2, <1>3, Zenon
  <1> QED
    BY <1>2, <1>4, Zenon DEF Feed!OnlyStaleLosesPrices

\* Every step preserves the invariant, and prices a fill truly.
LEMMA NextFeed ==
  ASSUME Feed!FeedAssumption, FeedInv, Feed!OnlyStaleLosesPrices, [Feed!Next]_(Feed!vars)
  PROVE  FeedInv' /\ Feed!OnlyStaleLosesPrices'
  <1>1. ASSUME NEW kind \in Feed!Kinds, NEW whole \in BOOLEAN, Feed!CollectFill(kind, whole)
        PROVE  FeedInv' /\ Feed!OnlyStaleLosesPrices'
    <2>1. UNCHANGED <<known, age, lastFailed, fetching, delay, elapsed, backoff, service, upFor>>
      BY <1>1 DEF Feed!CollectFill, Feed!cacheVars, Feed!loopVars
    <2>2. FeedInv'
      BY <2>1, Zenon DEF FeedInv, FeedTypes, AnswerIsNew, Recovers
    <2> QED
      BY <1>1, <2>2, PriceFill
  <1>2. CASE Feed!BeginFetch \/ Feed!FetchOK \/ Feed!FetchLimited \/ Feed!FetchFails
    BY <1>2, FetchFeed, Zenon DEF Feed!BeginFetch, Feed!FetchOK, Feed!FetchLimited,
         Feed!FetchFails, Feed!OnlyStaleLosesPrices
  <1>3. CASE Feed!Pass \/ Feed!Restart \/ \E s \in {"up", "down"} : Feed!Service(s)
    BY <1>3, OutsideFeed, Zenon DEF Feed!Pass, Feed!Restart, Feed!Service,
         Feed!OnlyStaleLosesPrices
  <1>4. CASE UNCHANGED Feed!vars
    <2>1. UNCHANGED <<known, age, lastFailed, fetching, delay, elapsed, backoff, service, upFor,
                      priced>>
      BY <1>4 DEF Feed!vars, Feed!cacheVars, Feed!loopVars
    <2> QED
      BY <2>1, Zenon DEF FeedInv, FeedTypes, AnswerIsNew, Recovers, Feed!OnlyStaleLosesPrices
  <1> QED
    BY <1>1, <1>2, <1>3, <1>4 DEF Feed!Next

\* When the service has been up for longer than all of that, the last request
\* has answered.
LEMMA FeedRecovers == ASSUME Feed!FeedAssumption, FeedInv PROVE Feed!NewAfterOutage
  <1>1. /\ age \in Nat /\ delay \in Nat /\ elapsed \in 0 .. Timeout /\ upFor \in Nat
        /\ service \in {"up", "down"} /\ (service = "down" => upFor = 0)
    BY FeedNumbers DEF FeedInv, FeedTypes
  <1> SUFFICES ASSUME upFor > Feed!Back PROVE known /\ age <= TTL
    BY DEF Feed!NewAfterOutage
  <1>2. service = "up" /\ upFor > MaxBackoff + Poll + 2 * Timeout
    BY <1>1, FeedNumbers
  <1>3. known /\ ~lastFailed
    BY <1>1, <1>2, FeedNumbers DEF FeedInv, Recovers
  <1> QED
    BY <1>1, <1>3, FeedNumbers DEF FeedInv, AnswerIsNew

\* The invariant says what TypeOK does.
LEMMA FeedTypesHold == ASSUME Feed!FeedAssumption, FeedInv PROVE Feed!TypeOK
  <1>1. {known, lastFailed, fetching} \subseteq BOOLEAN
    BY Zenon DEF FeedInv, FeedTypes
  <1> QED
    BY <1>1 DEF FeedInv, FeedTypes, Feed!TypeOK

\* A step of anyone is a step of the feed or leaves it alone.
LEMMA StepOfFeed == ASSUME [BackgroundNext]_backgroundVars PROVE [Feed!Next]_(Feed!vars)
  BY DEF BackgroundNext, backgroundVars, feedVars, Feed!vars, Feed!cacheVars, Feed!loopVars

\* A fill in ETH is without its dollar price only when the last answer is older
\* than Stale, or there was none; and the price is new again as soon as the
\* service has been up for the longest delay and two requests (Run, ETHUSD).
THEOREM PricesAreKept == BackgroundSpec => []PricesSurvive
  <1>1. BackgroundInit => FeedInv /\ Feed!OnlyStaleLosesPrices
    BY InitFeed, BackgroundAssumption DEF BackgroundInit
  <1>2. FeedInv /\ Feed!OnlyStaleLosesPrices /\ [BackgroundNext]_backgroundVars
          => FeedInv' /\ Feed!OnlyStaleLosesPrices'
    BY NextFeed, StepOfFeed, BackgroundAssumption
  <1>3. FeedInv /\ Feed!OnlyStaleLosesPrices => PricesSurvive
    BY FeedRecovers, BackgroundAssumption DEF PricesSurvive
  <1> QED
    BY <1>1, <1>2, <1>3, PTL DEF BackgroundSpec

-----------------------------------------------------------------------------
(* Retention: the rows in the order of DELETE ... ORDER BY chain_time, id *)

RowSet == [time : Nat, id : Nat]

DistinctIds(S) == \A r, s \in S : r.id = s.id => r = s

Rank(S, r) == Cardinality({s \in S : Purge!Before(s, r)})

\* Ranks are numbers.
LEMMA RankIsNat ==
  ASSUME NEW S, IsFiniteSet(S), NEW r
  PROVE  Rank(S, r) \in Nat /\ IsFiniteSet({s \in S : Purge!Before(s, r)})
  BY FS_Subset, FS_CardinalityType DEF Rank

\* Of two rows one is before the other, and has the smaller rank.
LEMMA RankIncreases ==
  ASSUME NEW S \in SUBSET RowSet, IsFiniteSet(S), NEW r \in S, NEW s \in S, Purge!Before(r, s)
  PROVE  Rank(S, r) < Rank(S, s)
  <1> DEFINE R == {u \in S : Purge!Before(u, r)}
             Q == {u \in S : Purge!Before(u, s)}
  <1>1. \A u \in S : Purge!Before(u, r) => Purge!Before(u, s)
    BY DEF Purge!Before, RowSet
  <1>2. R \subseteq Q /\ r \in Q /\ r \notin R
    BY <1>1 DEF Purge!Before, RowSet
  <1>3. Rank(S, r) \in Nat /\ Rank(S, s) \in Nat /\ IsFiniteSet(Q)
    BY RankIsNat
  <1>4. Rank(S, r) = Cardinality(R) /\ Rank(S, s) = Cardinality(Q)
    BY DEF Rank
  <1> HIDE DEF R, Q
  <1> QED
    BY <1>2, <1>3, <1>4, FS_Subset

\* The order is total when no two rows share an id.
LEMMA BeforeIsTotal ==
  ASSUME NEW S \in SUBSET RowSet, DistinctIds(S), NEW r \in S, NEW s \in S, r # s
  PROVE  Purge!Before(r, s) \/ Purge!Before(s, r)
  <1>1. r.id # s.id
    BY DEF DistinctIds
  <1> QED
    BY <1>1 DEF Purge!Before, RowSet

\* The oldest n rows are those of a rank below n.
LEMMA OldestByRank ==
  ASSUME NEW S, NEW n PROVE Purge!OldestOf(S, n) = {r \in S : Rank(S, r) < n}
  BY Zenon DEF Purge!OldestOf, Rank, Purge!Cardinality, Cardinality

\* What is before one of the oldest is one of them.
LEMMA OldestAreFirst ==
  ASSUME NEW S \in SUBSET RowSet, IsFiniteSet(S), NEW n \in Nat,
         NEW r \in Purge!OldestOf(S, n), NEW s \in S, Purge!Before(s, r)
  PROVE  s \in Purge!OldestOf(S, n)
  <1>1. r \in S /\ Rank(S, r) < n
    BY OldestByRank
  <1>2. Rank(S, r) \in Nat /\ Rank(S, s) \in Nat
    BY RankIsNat
  <1>3. Rank(S, s) < Rank(S, r)
    BY <1>1, RankIncreases
  <1>4. Rank(S, s) < n
    BY <1>1, <1>2, <1>3
  <1> QED
    BY <1>4, OldestByRank

\* There are no more than n of them: the last of them has all others before it.
LEMMA OldestAreFew ==
  ASSUME NEW S \in SUBSET RowSet, IsFiniteSet(S), DistinctIds(S), NEW n \in Nat
  PROVE  /\ IsFiniteSet(Purge!OldestOf(S, n)) /\ Purge!OldestOf(S, n) \subseteq S
         /\ Cardinality(Purge!OldestOf(S, n)) \in 0 .. n
  <1> DEFINE O == Purge!OldestOf(S, n)
  <1>1. O \subseteq S /\ \A r \in O : Rank(S, r) < n
    BY OldestByRank
  <1>2. IsFiniteSet(O) /\ Cardinality(O) \in Nat
    BY <1>1, FS_Subset, FS_CardinalityType
  <1> HIDE DEF O
  <1>0. \A r : Rank(S, r) \in Nat
    BY RankIsNat
  <1>3. ASSUME O # {} PROVE Cardinality(O) <= n
    <2> DEFINE T == {n - Rank(S, r) : r \in O}
    <2>1. T \in SUBSET Nat /\ T # {}
      <3>1. \A r \in O : n - Rank(S, r) \in Nat
        BY <1>0, <1>1
      <3> QED
        BY <1>3, <3>1
    <2>2. PICK m \in T : \A k \in T : m <= k
      BY <2>1, SmallestOf, Zenon
    <2>3. PICK r \in O : m = n - Rank(S, r)
      BY <2>2
    <2>4. \A s \in O : n - Rank(S, r) <= n - Rank(S, s)
      BY <2>2, <2>3
    <2>5. \A s \in O : Rank(S, s) <= Rank(S, r)
      BY <2>4, <1>0
    <2>6. \A s \in O : s # r => Purge!Before(s, r)
      <3> SUFFICES ASSUME NEW s \in O, s # r, Purge!Before(r, s) PROVE FALSE
        BY <1>1, BeforeIsTotal
      <3>1. Rank(S, r) < Rank(S, s) /\ Rank(S, s) <= Rank(S, r)
        BY <1>1, <2>5, RankIncreases
      <3> QED
        BY <3>1, <1>0
    <2> DEFINE B == {s \in S : Purge!Before(s, r)}
    <2>7. O \subseteq B \cup {r}
      BY <1>1, <2>6
    <2>8. IsFiniteSet(B) /\ Cardinality(B) \in Nat /\ Cardinality(B) < n
      BY <1>1, RankIsNat DEF Rank
    <2> HIDE DEF B
    <2>9. IsFiniteSet(B \cup {r}) /\ Cardinality(B \cup {r}) \in {Cardinality(B), Cardinality(B) + 1}
      BY <2>8, FS_AddElement
    <2> QED
      BY <1>2, <2>7, <2>8, <2>9, FS_Subset, FS_CardinalityType
  <1> QED
    BY <1>1, <1>2, <1>3, FS_EmptySet DEF O

\* When there are fewer, they are all.
LEMMA FewerAreAll ==
  ASSUME NEW S \in SUBSET RowSet, IsFiniteSet(S), DistinctIds(S), NEW n \in Nat,
         Cardinality(Purge!OldestOf(S, n)) < n
  PROVE  Purge!OldestOf(S, n) = S
  <1> DEFINE O == Purge!OldestOf(S, n)
             L == S \ O
  <1>1. /\ O \subseteq S /\ \A r \in O : Rank(S, r) < n
        /\ \A r \in L : ~(Rank(S, r) < n)
    BY OldestByRank
  <1>2. IsFiniteSet(O) /\ Cardinality(O) \in Nat
    BY OldestAreFew
  <1> HIDE DEF O
  <1> SUFFICES ASSUME L # {} PROVE FALSE
    BY <1>1 DEF O
  <1> DEFINE T == {Rank(S, r) : r \in L}
  <1>3. T \in SUBSET Nat /\ T # {}
    BY RankIsNat
  <1>4. PICK m \in T : \A k \in T : m <= k
    BY <1>3, SmallestOf, Zenon
  <1>5. PICK r \in L : m = Rank(S, r)
    BY <1>4
  <1>6. \A s \in L : Rank(S, r) <= Rank(S, s)
    BY <1>4, <1>5
  <1>7. ASSUME NEW s \in S, Purge!Before(s, r) PROVE s \in O
    <2>1. Rank(S, s) < Rank(S, r) /\ Rank(S, s) \in Nat /\ Rank(S, r) \in Nat
      BY <1>5, <1>7, RankIncreases, RankIsNat
    <2> QED
      BY <1>6, <2>1
  <1>8. {s \in S : Purge!Before(s, r)} \subseteq O
    BY <1>7
  <1>9. Rank(S, r) <= Cardinality(O)
    BY <1>2, <1>8, FS_Subset DEF Rank
  <1>10. Rank(S, r) \in Nat /\ ~(Rank(S, r) < n)
    BY <1>1, <1>5, RankIsNat
  <1>11. Cardinality(O) < n
    BY DEF O
  <1> QED
    BY <1>2, <1>9, <1>10, <1>11

\* The instance counts as everyone does.
LEMMA PurgeCardinality == \A S : Purge!Cardinality(S) = Cardinality(S)
  BY Zenon DEF Purge!Cardinality, Cardinality

\* Rows are finitely many, with ids given in turn.
PurgeInv ==
  /\ Purge!TypeOK /\ Purge!LimitedIsTrue
  /\ IsFiniteSet(rows) /\ DistinctIds(rows) /\ \A r \in rows : r.id <= inserted

\* There are no rows, and nothing was purged.
LEMMA InitPurge == ASSUME Purge!RetentionAssumption, Purge!Init PROVE PurgeInv
  <1>1. /\ clock = 0 /\ chainTime = 0 /\ rows = {} /\ inserted = 0 /\ cutoff = 0 /\ deleted = 0
        /\ outcome = "done" /\ left = {} /\ purgeFaults = 0
    BY Zenon DEF Purge!Init
  <1>2. running \in BOOLEAN
    BY Zenon DEF Purge!Init
  <1>3. Purge!TypeOK
    BY <1>1, <1>2 DEF Purge!RetentionAssumption, Purge!TypeOK, Purge!Times
  <1>4. Purge!LimitedIsTrue
    BY <1>1 DEF Purge!LimitedIsTrue
  <1>5. IsFiniteSet(rows)
    BY <1>1, FS_EmptySet
  <1> QED
    BY <1>1, <1>3, <1>4, <1>5 DEF PurgeInv, DistinctIds

\* A new row has an id of its own.
LEMMA CommitPurge ==
  ASSUME Purge!RetentionAssumption, PurgeInv, NEW t \in Purge!Times, Purge!CommitBlock(t)
  PROVE  PurgeInv' /\ rows \subseteq rows'
  <1> DEFINE new == [time |-> t, id |-> inserted + 1]
  <1>1. /\ inserted < MaxRows /\ t \in chainTime .. clock /\ chainTime' = t
        /\ inserted' = inserted + 1 /\ rows' = rows \cup {new}
        /\ UNCHANGED <<clock, running, cutoff, deleted, outcome, left, purgeFaults>>
    BY DEF Purge!CommitBlock, Purge!runVars
  <1>2. /\ MaxRows \in Nat /\ MaxTime \in Nat /\ inserted \in 0 .. MaxRows /\ chainTime \in Nat
        /\ rows \subseteq [time : Purge!Times, id : 1 .. MaxRows]
    BY DEF Purge!RetentionAssumption, PurgeInv, Purge!TypeOK, Purge!Times
  <1>3. new \in [time : Purge!Times, id : 1 .. MaxRows] /\ new.id = inserted + 1
    BY <1>1, <1>2
  <1> HIDE DEF new
  <1>4. /\ running' = running /\ clock' = clock /\ cutoff' = cutoff /\ deleted' = deleted
        /\ outcome' = outcome /\ left' = left /\ purgeFaults' = purgeFaults
    BY <1>1, Zenon
  <1>5. running' \in BOOLEAN
    BY <1>4 DEF PurgeInv, Purge!TypeOK
  <1>6. Purge!TypeOK'
    BY <1>1, <1>2, <1>3, <1>4, <1>5 DEF PurgeInv, Purge!TypeOK
  <1>7. Purge!LimitedIsTrue'
    BY <1>4 DEF PurgeInv, Purge!LimitedIsTrue
  <1>8. IsFiniteSet(rows')
    BY <1>1, FS_AddElement DEF PurgeInv
  <1>9. DistinctIds(rows') /\ \A r \in rows' : r.id <= inserted'
    <2>1. \A r \in rows : r.id \in Nat /\ r.id <= inserted
      BY <1>2 DEF PurgeInv
    <2> QED
      BY <1>1, <1>2, <1>3, <2>1 DEF PurgeInv, DistinctIds
  <1> QED
    BY <1>1, <1>6, <1>7, <1>8, <1>9 DEF PurgeInv

\* A run begins or is cut off; time passes.
LEMMA RunPurge ==
  ASSUME Purge!RetentionAssumption, PurgeInv, Purge!Pass \/ Purge!Begin \/ Purge!Aborted
  PROVE  PurgeInv' /\ rows' = rows
  <1>1. /\ MaxTime \in Nat /\ RetentionDays \in Nat /\ MaxPerRun \in Nat /\ MaxFaults \in Nat
        /\ clock \in 0 .. MaxTime /\ chainTime \in 0 .. clock
    BY DEF Purge!RetentionAssumption, PurgeInv, Purge!TypeOK, Purge!Times
  <1>2. rows' = rows /\ inserted' = inserted /\ chainTime' = chainTime
    BY DEF Purge!Pass, Purge!Begin, Purge!Aborted
  <1>3. running' \in BOOLEAN
    <2>1. running' = running \/ running' = TRUE \/ running' = FALSE
      BY Zenon DEF Purge!Pass, Purge!Begin, Purge!Aborted, Purge!runVars
    <2> QED
      BY <2>1, Zenon DEF PurgeInv, Purge!TypeOK
  <1>4. Purge!TypeOK' /\ Purge!LimitedIsTrue'
    <2>1. CASE Purge!Pass
      <3>1. /\ clock' = clock + 1 /\ clock < MaxTime /\ cutoff' = cutoff /\ deleted' = deleted
            /\ outcome' = outcome /\ left' = left /\ purgeFaults' = purgeFaults
            /\ running' = running
        BY <2>1 DEF Purge!Pass, Purge!runVars
      <3>2. Purge!TypeOK'
        BY <1>1, <1>2, <1>3, <3>1 DEF PurgeInv, Purge!TypeOK, Purge!Times
      <3> QED
        BY <3>1, <3>2 DEF PurgeInv, Purge!LimitedIsTrue
    <2>2. CASE Purge!Begin
      <3>1. /\ clock' = clock /\ clock >= RetentionDays /\ cutoff' = clock - RetentionDays
            /\ deleted' = 0 /\ left' = {} /\ outcome' = outcome /\ purgeFaults' = purgeFaults
        BY <2>2, Zenon DEF Purge!Begin, Purge!NewCutoff
      <3>2. running'
        BY <2>2, Zenon DEF Purge!Begin
      <3>3. Purge!TypeOK'
        BY <1>1, <1>2, <1>3, <3>1 DEF PurgeInv, Purge!TypeOK, Purge!Times
      <3> QED
        BY <3>2, <3>3 DEF Purge!LimitedIsTrue
    <2>3. CASE Purge!Aborted
      <3>1. /\ clock' = clock /\ cutoff' = cutoff /\ deleted' = deleted /\ outcome' = "failed"
            /\ purgeFaults' = purgeFaults + 1 /\ purgeFaults < MaxFaults
        BY <2>3, Zenon DEF Purge!Aborted
      <3>2. Purge!TypeOK'
        BY <1>1, <1>2, <1>3, <3>1 DEF PurgeInv, Purge!TypeOK, Purge!Times
      <3> QED
        BY <3>1, <3>2 DEF Purge!LimitedIsTrue
    <2> QED
      BY <2>1, <2>2, <2>3
  <1> QED
    BY <1>2, <1>4 DEF PurgeInv

\* A batch takes the oldest expired rows, no more than the run may, and the run
\* says truly whether it leaves some.
LEMMA BatchPurge ==
  ASSUME Purge!RetentionAssumption, PurgeInv, Purge!DeleteBatch
  PROVE  /\ PurgeInv'
         /\ \A r \in rows \ rows' :
              r.time < cutoff /\ \A s \in rows : Purge!Before(s, r) => s \notin rows'
  <1> DEFINE old == Purge!Expired(cutoff)
             size == Purge!Size
             gone == Purge!OldestOf(old, size)
             stay == old \ gone
  <1>1. /\ MaxTime \in Nat /\ Batch \in Nat \ {0} /\ MaxPerRun \in Nat \ {0} /\ deleted \in 0 .. MaxPerRun
        /\ rows \subseteq [time : Purge!Times, id : 1 .. MaxRows] /\ cutoff \in 0 .. MaxTime
        /\ Purge!Times = 0 .. MaxTime /\ MaxRows \in Nat
    BY DEF Purge!RetentionAssumption, PurgeInv, Purge!TypeOK, Purge!Times
  <1>2. size \in Nat /\ size <= MaxPerRun - deleted
    BY <1>1 DEF Purge!Size, Purge!Smaller
  <1>3. old \subseteq rows /\ \A r \in rows : r \in old <=> r.time < cutoff
    BY DEF Purge!Expired
  <1>4. old \in SUBSET RowSet /\ IsFiniteSet(old) /\ DistinctIds(old)
    BY <1>1, <1>3, FS_Subset DEF PurgeInv, RowSet, DistinctIds
  <1>5. /\ rows' = rows \ gone /\ deleted' = deleted + Cardinality(gone) /\ left' = stay
        /\ UNCHANGED <<clock, chainTime, inserted, cutoff, purgeFaults>>
    BY PurgeCardinality DEF Purge!DeleteBatch
  <1>6. \/ Cardinality(gone) < size /\ running' = FALSE /\ outcome' = "done"
        \/ running' = FALSE /\ outcome' = (IF stay # {} THEN "limited" ELSE "done")
        \/ running' = running /\ outcome' = outcome
    BY PurgeCardinality DEF Purge!DeleteBatch, Purge!More
  <1> HIDE DEF old, size
  <1>7. gone \subseteq old /\ IsFiniteSet(gone) /\ Cardinality(gone) \in 0 .. size
    BY <1>2, <1>4, OldestAreFew
  <1>8. Cardinality(gone) < size => stay = {}
    BY <1>2, <1>4, FewerAreAll
  <1>9. ASSUME NEW r \in gone, NEW s \in rows, Purge!Before(s, r) PROVE s \in gone
    <2>1. r \in old /\ r.time < cutoff /\ s.time \in Nat /\ r.time \in Nat
      BY <1>1, <1>3, <1>7, <1>9
    <2>2. s \in old
      BY <1>1, <1>3, <1>9, <2>1 DEF Purge!Before
    <2> QED
      BY <1>2, <1>4, <1>9, <2>2, OldestAreFirst
  <1> HIDE DEF gone, stay
  <1>10. running' \in BOOLEAN
    BY <1>6, Zenon DEF PurgeInv, Purge!TypeOK
  <1>11. running /\ outcome' \in {"done", "limited", "failed"}
    BY <1>6 DEF Purge!DeleteBatch, PurgeInv, Purge!TypeOK
  <1>12. Purge!TypeOK'
    BY <1>1, <1>2, <1>5, <1>7, <1>10, <1>11 DEF PurgeInv, Purge!TypeOK
  <1>13. Purge!LimitedIsTrue'
    <2>1. CASE running' = FALSE
      BY <1>5, <1>6, <1>8, <1>11, <2>1 DEF Purge!LimitedIsTrue
    <2>2. CASE running' = running
      BY <1>11, <2>2 DEF Purge!LimitedIsTrue
    <2> QED
      BY <1>6, <2>1, <2>2
  <1>14. IsFiniteSet(rows') /\ DistinctIds(rows') /\ \A r \in rows' : r.id <= inserted'
    BY <1>5, FS_Subset DEF PurgeInv, DistinctIds
  <1>15. \A r \in rows \ rows' :
           r.time < cutoff /\ \A s \in rows : Purge!Before(s, r) => s \notin rows'
    BY <1>3, <1>5, <1>7, <1>9
  <1> QED
    BY <1>12, <1>13, <1>14, <1>15 DEF PurgeInv

\* Every step preserves the invariant, and takes the oldest expired rows only.
LEMMA NextPurge ==
  ASSUME Purge!RetentionAssumption, PurgeInv, [Purge!Next]_(Purge!vars)
  PROVE  /\ PurgeInv'
         /\ \A r \in rows \ rows' :
              r.time < cutoff /\ \A s \in rows : Purge!Before(s, r) => s \notin rows'
  <1>1. CASE UNCHANGED Purge!vars
    <2>1. UNCHANGED <<clock, chainTime, rows, inserted, running, cutoff, deleted, outcome, left,
                      purgeFaults>>
      BY <1>1 DEF Purge!vars, Purge!runVars
    <2> QED
      BY <2>1 DEF PurgeInv, Purge!TypeOK, Purge!LimitedIsTrue, DistinctIds
  <1>2. CASE Purge!DeleteBatch
    BY <1>2, BatchPurge
  <1>3. CASE Purge!Pass \/ Purge!Begin \/ Purge!Aborted
    BY <1>3, RunPurge
  <1>4. ASSUME NEW t \in Purge!Times, Purge!CommitBlock(t)
        PROVE  PurgeInv' /\ rows \ rows' = {}
    BY <1>4, CommitPurge
  <1> QED
    BY <1>1, <1>2, <1>3, <1>4 DEF Purge!Next

\* A step of anyone is a step of the purge or leaves it alone.
LEMMA StepOfPurge == ASSUME [BackgroundNext]_backgroundVars PROVE [Purge!Next]_(Purge!vars)
  BY DEF BackgroundNext, backgroundVars, purgeVars, Purge!vars, Purge!runVars

\* A purge deletes expired rows only, and the oldest of them first, batch by
\* batch (PurgeExpiredWalletEvents).
THEOREM PurgeTakesTheOldest == BackgroundSpec => OldestExpiredGo
  <1> DEFINE Oldest == \A r \in rows \ rows' :
                         /\ r.time < cutoff
                         /\ \A s \in rows : Purge!Before(s, r) => s \notin rows'
  <1>1. BackgroundInit => PurgeInv
    BY InitPurge, BackgroundAssumption DEF BackgroundInit
  <1>2. PurgeInv /\ [BackgroundNext]_backgroundVars => PurgeInv' /\ [Oldest]_(Purge!vars)
    BY NextPurge, StepOfPurge, BackgroundAssumption
  <1> HIDE DEF Oldest
  <1>3. BackgroundSpec => [][Oldest]_(Purge!vars)
    BY <1>1, <1>2, PTL DEF BackgroundSpec
  <1> QED
    BY <1>3 DEF OldestExpiredGo, Purge!OldestExpiredGo, Oldest

-----------------------------------------------------------------------------
(* Signals *)

\* The instance counts as everyone does.
LEMMA SignalCardinality == \A S : Signal!Cardinality(S) = Cardinality(S)
  BY Zenon DEF Signal!Cardinality, Cardinality

Logged == {k \in Signal!Keys : lastLog[k] > 0}

\* The keys that were logged and are forgotten were pushed out by Cap others.
SignalInv ==
  /\ now \in 0 .. MaxRounds /\ found \subseteq {Signal!Day} \X Subjects
  /\ found # {} => now > 0
  /\ Signal!Remembered \subseteq Signal!Keys /\ IsFiniteSet(Signal!Remembered)
  /\ Cardinality(Signal!Remembered) <= SignalCap
  /\ \A k \in Signal!Remembered : signalSeen[k] = lastLog[k] /\ lastLog[k] > 0
  /\ lastLog \in [Signal!Keys -> 0 .. now] /\ IsFiniteSet(Logged)
  /\ \A k \in Logged \ Signal!Remembered : Cardinality(Signal!Others(k)) >= SignalCap

\* A later round is of no earlier day.
LEMMA DaysPass ==
  ASSUME NEW a \in Nat, NEW b \in Nat, a <= b, NEW c \in Nat \ {0}
  PROVE  a \div c \in Nat /\ a \div c <= b \div c
  OBVIOUS

\* Nothing is remembered.
LEMMA InitSignals == ASSUME Signal!SignalsAssumption, Signal!Init PROVE SignalInv
  <1> DEFINE zero == [k \in Signal!Keys |-> 0]
  <1>1. now = 0 /\ found = {} /\ signalSeen = [k \in {} |-> 0] /\ lastLog = zero
    BY Zenon DEF Signal!Init
  <1>2. zero \in [Signal!Keys -> 0 .. 0] /\ \A k \in Signal!Keys : zero[k] = 0
    OBVIOUS
  <1> HIDE DEF zero
  <1>3. Signal!Remembered = {} /\ Logged = {}
    BY <1>1, <1>2 DEF Signal!Remembered, Logged
  <1> QED
    BY <1>1, <1>2, <1>3, FS_EmptySet DEF SignalInv, Signal!SignalsAssumption

\* The keys that are no older than a logged one are finitely many.
LEMMA OthersAreLogged ==
  ASSUME SignalInv, NEW k \in Logged
  PROVE  Signal!Others(k) \subseteq Logged /\ IsFiniteSet(Signal!Others(k))
  <1>1. \A l \in Signal!Keys : lastLog[l] \in Nat
    BY DEF SignalInv
  <1>2. Signal!Others(k) \subseteq Logged
    BY <1>1 DEF Signal!Others, Logged
  <1> QED
    BY <1>2, FS_Subset DEF SignalInv

\* A key that is not remembered is logged, and takes the place of an oldest one
\* when the memory is full; the one that goes has Cap others after it then.
LEMMA RememberSignals ==
  ASSUME Signal!SignalsAssumption, SignalInv, NEW k \in found, k \notin Signal!Remembered,
         Signal!RememberSignal(k)
  PROVE  SignalInv'
  <1> DEFINE M == Signal!Remembered
  <1>1. SignalCap \in Nat \ {0} /\ RoundsPerDay \in Nat \ {0} /\ MaxRounds \in Nat
    BY DEF Signal!SignalsAssumption
  <1>2. now \in Nat /\ now <= MaxRounds /\ now > 0
    BY <1>1 DEF SignalInv
  <1>3. k \in Signal!Keys
    BY <1>1, <1>2, DaysPass DEF SignalInv, Signal!Keys, Signal!Day
  <1>4. PICK kept \in Signal!Kept(k) :
          signalSeen' = [l \in kept \cup {k} |-> IF l = k THEN now ELSE signalSeen[l]]
    BY DEF Signal!RememberSignal
  <1>5. found' \subseteq found /\ now' = now /\ lastLog' = [lastLog EXCEPT ![k] = now]
    BY DEF Signal!RememberSignal
  <1>6. /\ M \subseteq Signal!Keys /\ IsFiniteSet(M) /\ Cardinality(M) \in Nat
        /\ Cardinality(M) <= SignalCap
        /\ \A l \in M : signalSeen[l] = lastLog[l] /\ lastLog[l] > 0
    BY FS_CardinalityType DEF SignalInv
  <1>7. \/ Cardinality(M) < SignalCap /\ kept = M
        \/ /\ Cardinality(M) = SignalCap
           /\ \E o \in M : kept = M \ {o} /\ \A l \in M : signalSeen[o] <= signalSeen[l]
    BY <1>1, <1>4, <1>6, SignalCardinality DEF Signal!Kept, Signal!OldestKeys
  <1>8. Signal!Remembered' = kept \cup {k} /\ kept \subseteq M
    BY <1>4, <1>7 DEF Signal!Remembered
  <1>9. /\ lastLog'[k] = now /\ lastLog' \in [Signal!Keys -> 0 .. now]
        /\ \A l \in Signal!Keys : /\ l # k => lastLog'[l] = lastLog[l]
                                  /\ lastLog[l] \in 0 .. now /\ lastLog[l] <= lastLog'[l]
    BY <1>2, <1>3, <1>5 DEF SignalInv
  <1>10. Logged' = Logged \cup {k}
    BY <1>2, <1>3, <1>9 DEF Logged, Signal!Keys
  <1>11. IsFiniteSet(Logged')
    BY <1>10, FS_AddElement DEF SignalInv
  <1>12. IsFiniteSet(kept \cup {k}) /\ Cardinality(kept \cup {k}) <= SignalCap
    <2>1. CASE kept = M /\ Cardinality(M) < SignalCap
      <3>1. k \notin kept /\ IsFiniteSet(kept) /\ Cardinality(kept) = Cardinality(M)
        BY <1>6, <2>1
      <3>2. IsFiniteSet(kept \cup {k}) /\ Cardinality(kept \cup {k}) = Cardinality(M) + 1
        BY <3>1, FS_AddElement
      <3> QED
        BY <1>1, <1>6, <2>1, <3>2
    <2>2. ASSUME Cardinality(M) = SignalCap, NEW o \in M, kept = M \ {o}
          PROVE  IsFiniteSet(kept \cup {k}) /\ Cardinality(kept \cup {k}) <= SignalCap
      <3>1. IsFiniteSet(kept) /\ Cardinality(kept) = SignalCap - 1 /\ k \notin kept
        BY <1>6, <1>8, <2>2, FS_RemoveElement
      <3>2. IsFiniteSet(kept \cup {k}) /\ Cardinality(kept \cup {k}) = (SignalCap - 1) + 1
        BY <3>1, FS_AddElement
      <3> QED
        BY <1>1, <3>2
    <2> QED
      BY <1>7, <2>1, <2>2
  <1>13. \A l \in Signal!Remembered' : signalSeen'[l] = lastLog'[l] /\ lastLog'[l] > 0
    BY <1>2, <1>4, <1>6, <1>8, <1>9
  <1>14. ASSUME NEW x \in Logged' \ Signal!Remembered' PROVE Cardinality(Signal!Others(x)') >= SignalCap
    <2>1. x \in Logged /\ x # k /\ x \in Signal!Keys /\ x \notin kept /\ lastLog'[x] = lastLog[x]
      BY <1>8, <1>9, <1>10 DEF Logged
    <2>2. Signal!Others(x)' = {l \in Signal!Keys \ {x} : lastLog'[l] >= lastLog'[x]}
      BY DEF Signal!Others, Signal!Keys
    <2>3. Signal!Others(x) \subseteq Signal!Others(x)'
      BY <1>9, <2>1, <2>2 DEF Signal!Others
    <2>4. Signal!Others(x)' \subseteq Logged'
      BY <1>9, <2>1, <2>2 DEF Logged, Signal!Keys
    <2>5. IsFiniteSet(Signal!Others(x)') /\ Cardinality(Signal!Others(x)') \in Nat
      BY <1>11, <2>4, FS_Subset, FS_CardinalityType
    <2>6. CASE x \notin M
      <3>1. Cardinality(Signal!Others(x)) >= SignalCap
        BY <2>1, <2>6 DEF SignalInv
      <3>2. IsFiniteSet(Signal!Others(x)) /\ Cardinality(Signal!Others(x)) \in Nat
        BY <2>1, OthersAreLogged, FS_CardinalityType
      <3>3. Cardinality(Signal!Others(x)) <= Cardinality(Signal!Others(x)')
        BY <2>3, <2>5, FS_Subset
      <3> QED
        BY <1>1, <2>5, <3>1, <3>2, <3>3
    <2>7. CASE x \in M
      <3>1. /\ Cardinality(M) = SignalCap /\ kept = M \ {x}
            /\ \A l \in M : signalSeen[x] <= signalSeen[l]
        BY <1>7, <2>1, <2>7
      <3>2. IsFiniteSet(kept) /\ Cardinality(kept) = SignalCap - 1 /\ k \notin kept
        BY <1>6, <1>8, <2>7, <3>1, FS_RemoveElement
      <3>3. IsFiniteSet(kept \cup {k}) /\ Cardinality(kept \cup {k}) = SignalCap
        BY <1>1, <3>2, FS_AddElement
      <3>4. \A l \in kept : l \in Signal!Keys /\ l # x /\ l # k /\ lastLog[x] <= lastLog[l]
        BY <1>6, <1>8, <2>7, <3>1
      <3>5. kept \subseteq Signal!Others(x)'
        BY <1>9, <2>1, <2>2, <3>4
      <3>6. k \in Signal!Others(x)'
        BY <1>3, <1>9, <2>1, <2>2
      <3>7. Cardinality(kept \cup {k}) <= Cardinality(Signal!Others(x)')
        BY <2>5, <3>5, <3>6, FS_Subset
      <3> QED
        BY <1>1, <2>5, <3>3, <3>7
    <2> QED
      BY <2>6, <2>7
  <1>15. Signal!Day' = Signal!Day /\ Signal!Keys' = Signal!Keys
    BY <1>5 DEF Signal!Day, Signal!Keys
  <1>16. found' \subseteq {Signal!Day'} \X Subjects /\ Signal!Remembered' \subseteq Signal!Keys'
    BY <1>3, <1>5, <1>6, <1>8, <1>15 DEF SignalInv
  <1> QED
    BY <1>2, <1>5, <1>8, <1>9, <1>11, <1>12, <1>13, <1>14, <1>15, <1>16 DEF SignalInv

\* Every step preserves the invariant, and logs a key again on its day only when
\* it was pushed out.
LEMMA NextSignals ==
  ASSUME Signal!SignalsAssumption, SignalInv, [Signal!Next]_(Signal!vars)
  PROVE  /\ SignalInv'
         /\ \A k \in Signal!Keys :
              lastLog[k] > 0 /\ lastLog'[k] # lastLog[k] /\ lastLog'[k] # 0
                => Signal!Cardinality(Signal!Others(k)) >= SignalCap
  <1> DEFINE Repeats == \A k \in Signal!Keys :
                          lastLog[k] > 0 /\ lastLog'[k] # lastLog[k] /\ lastLog'[k] # 0
                            => Signal!Cardinality(Signal!Others(k)) >= SignalCap
  <1>1. SignalCap \in Nat \ {0} /\ RoundsPerDay \in Nat \ {0} /\ MaxRounds \in Nat
    BY DEF Signal!SignalsAssumption
  <1>2. now \in Nat /\ now <= MaxRounds
    BY <1>1 DEF SignalInv
  <1>3. ASSUME NEW new \in SUBSET Subjects, Signal!LogSignals(new) PROVE SignalInv' /\ Repeats
    <2>1. /\ now' = now + 1 /\ now < MaxRounds /\ signalSeen' = signalSeen /\ lastLog' = lastLog
          /\ found' = {(now + 1) \div RoundsPerDay} \X new
      BY <1>3 DEF Signal!LogSignals
    <2>2. Signal!Day' = (now + 1) \div RoundsPerDay
      BY <2>1 DEF Signal!Day
    <2>3. Signal!Remembered' = Signal!Remembered /\ Logged' = Logged
      BY <2>1 DEF Signal!Remembered, Logged, Signal!Keys
    <2>4. \A k : Signal!Others(k)' = Signal!Others(k)
      BY <2>1 DEF Signal!Others, Signal!Keys
    <2>5. lastLog' \in [Signal!Keys -> 0 .. now']
      BY <1>2, <2>1 DEF SignalInv
    <2>6. found' \subseteq {Signal!Day'} \X Subjects
      BY <2>1, <2>2
    <2>7. now' \in 0 .. MaxRounds /\ now' > 0
      BY <1>1, <1>2, <2>1
    <2>8. Signal!Keys' = Signal!Keys
      BY DEF Signal!Keys
    <2>9. SignalInv'
      BY <2>1, <2>3, <2>4, <2>5, <2>6, <2>7, <2>8 DEF SignalInv
    <2> QED
      BY <2>1, <2>9
  <1>4. ASSUME NEW k \in found, Signal!RememberSignal(k) PROVE SignalInv' /\ Repeats
    <2>1. CASE k \in Signal!Remembered
      <3>1. /\ now' = now /\ signalSeen' = signalSeen /\ lastLog' = lastLog /\ found' \subseteq found
        BY <1>4, <2>1 DEF Signal!RememberSignal
      <3>2. /\ Signal!Remembered' = Signal!Remembered /\ Logged' = Logged
            /\ Signal!Keys' = Signal!Keys /\ Signal!Day' = Signal!Day
        BY <3>1 DEF Signal!Remembered, Logged, Signal!Keys, Signal!Day
      <3>3. \A x : Signal!Others(x)' = Signal!Others(x)
        BY <3>1 DEF Signal!Others, Signal!Keys
      <3>4. SignalInv'
        BY <3>1, <3>2, <3>3 DEF SignalInv
      <3> QED
        BY <3>1, <3>4
    <2>2. CASE k \notin Signal!Remembered
      <3>1. SignalInv'
        BY <1>4, <2>2, RememberSignals
      <3>2. lastLog' = [lastLog EXCEPT ![k] = now]
        BY <1>4, <2>2 DEF Signal!RememberSignal
      <3>3. \A x \in Signal!Keys : x # k => lastLog'[x] = lastLog[x]
        BY <3>2 DEF SignalInv
      <3>4. k \in Signal!Keys /\ lastLog[k] > 0 => Cardinality(Signal!Others(k)) >= SignalCap
        BY <2>2 DEF SignalInv, Logged
      <3> QED
        BY <3>1, <3>3, <3>4, SignalCardinality
    <2> QED
      BY <2>1, <2>2
  <1>5. CASE Signal!Restart
    <2> DEFINE zero == [k \in Signal!Keys |-> 0]
    <2>1. now' = now /\ found' = {} /\ signalSeen' = [k \in {} |-> 0] /\ lastLog' = zero
      BY <1>5, Zenon DEF Signal!Restart
    <2>2. zero \in [Signal!Keys -> 0 .. now] /\ \A k \in Signal!Keys : zero[k] = 0
      BY <1>2
    <2> HIDE DEF zero
    <2>3. Signal!Remembered' = {} /\ Logged' = {} /\ Signal!Keys' = Signal!Keys
      BY <2>1, <2>2 DEF Signal!Remembered, Logged, Signal!Keys
    <2>4. SignalInv'
      BY <1>1, <1>2, <2>1, <2>2, <2>3, FS_EmptySet DEF SignalInv
    <2> QED
      BY <2>1, <2>2, <2>4
  <1>6. CASE UNCHANGED Signal!vars
    <2>1. now' = now /\ signalSeen' = signalSeen /\ lastLog' = lastLog /\ found' = found
      BY <1>6 DEF Signal!vars
    <2>2. SignalInv'
      BY <2>1 DEF SignalInv, Signal!Remembered, Logged, Signal!Keys, Signal!Day, Signal!Others
    <2> QED
      BY <2>1, <2>2
  <1> QED
    BY <1>3, <1>4, <1>5, <1>6 DEF Signal!Next

\* The invariant says what TypeOK does.
LEMMA SignalTypesHold == ASSUME Signal!SignalsAssumption, SignalInv PROVE Signal!TypeOK
  <1>1. \A k \in Signal!Remembered : signalSeen[k] = lastLog[k] /\ lastLog[k] \in 1 .. now
    BY DEF SignalInv
  <1> QED
    BY <1>1, SignalCardinality DEF SignalInv, Signal!TypeOK

\* A step of anyone is a step of the signals or leaves them alone.
LEMMA StepOfSignals == ASSUME [BackgroundNext]_backgroundVars PROVE [Signal!Next]_(Signal!vars)
  BY DEF BackgroundNext, backgroundVars, signalVars, Signal!vars

\* A signal is logged twice on its day only when at least Cap others were logged
\* no earlier than it (the eviction of rememberSignal).
THEOREM SignalsRepeatOnlyOverCap == BackgroundSpec => RepeatsOnlyOverCap
  <1> DEFINE Repeats == \A k \in Signal!Keys :
                          lastLog[k] > 0 /\ lastLog'[k] # lastLog[k] /\ lastLog'[k] # 0
                            => Signal!Cardinality(Signal!Others(k)) >= SignalCap
  <1>1. BackgroundInit => SignalInv
    BY InitSignals, BackgroundAssumption DEF BackgroundInit
  <1>2. SignalInv /\ [BackgroundNext]_backgroundVars => SignalInv' /\ [Repeats]_(Signal!vars)
    BY NextSignals, StepOfSignals, BackgroundAssumption
  <1> HIDE DEF Repeats
  <1>3. BackgroundSpec => [][Repeats]_(Signal!vars)
    BY <1>1, <1>2, PTL DEF BackgroundSpec
  <1> QED
    BY <1>3 DEF RepeatsOnlyOverCap, Signal!RepeatsOnlyOverCap, Repeats

-----------------------------------------------------------------------------
(* All of them *)

\* A step of anyone is a step of the prices or leaves them alone.
LEMMA StepOfPrices == ASSUME [BackgroundNext]_backgroundVars PROVE [Next]_vars
  BY DEF BackgroundNext, backgroundVars

PriceInv == LatestInv /\ Forward /\ OrderInv /\ Rest

\* The prices keep their invariant, and the display moves forward.
LEMMA NextPrices ==
  ASSUME PriceInv, [Next]_vars
  PROVE  PriceInv' /\ [\A t \in Tokens : shown'[t] >= shown[t]]_vars
  <1>1. LatestInv' /\ OrderInv' /\ Rest'
    BY NextLatest, NextOrder DEF PriceInv
  <1>2. CASE \E t \in Tokens, q \in Quotes : Mark(t, q)
    <2>1. Forward' /\ shown' = shown
      BY <1>2, MarkForward DEF PriceInv
    <2> QED
      BY <1>1, <2>1 DEF PriceInv, LatestInv, Types
  <1>3. CASE Flush \/ CallFails \/ Restart
    BY <1>1, <1>3, FlushForward DEF PriceInv
  <1>4. CASE UNCHANGED vars
    BY <1>1, <1>4 DEF PriceInv, vars, memVars, flushVars, rowVars, Forward, Flight
  <1> QED
    BY <1>2, <1>3, <1>4 DEF Next

BackgroundInv ==
  /\ PriceInv /\ ListsInv /\ PurgeInv /\ SignalInv
  /\ ScoresInv /\ ScoreRest /\ scoreTrigger \in BOOLEAN
  /\ FeedInv /\ Feed!OnlyStaleLosesPrices

\* Each component starts in its invariant.
LEMMA InitBackground == BackgroundInit => BackgroundInv
  <1> SUFFICES ASSUME BackgroundInit PROVE BackgroundInv
    OBVIOUS
  <1>1. Init /\ Score!Init /\ Followed!Init /\ Purge!Init /\ Signal!Init /\ Feed!Init
    BY DEF BackgroundInit
  <1>2. scoreTrigger \in BOOLEAN
    BY <1>1, Zenon DEF Score!Init
  <1> QED
    BY <1>1, <1>2, InitLatest, InitForward, InitOrder, InitLists, InitPurge, InitSignals,
       InitScores, InitScoreRest, InitFeed, BackgroundAssumption DEF BackgroundInv, PriceInv

\* Each keeps it, whoever moves.
LEMMA NextBackground == BackgroundInv /\ [BackgroundNext]_backgroundVars => BackgroundInv'
  <1> SUFFICES ASSUME BackgroundInv, [BackgroundNext]_backgroundVars PROVE BackgroundInv'
    OBVIOUS
  <1>1. PriceInv'
    BY NextPrices, StepOfPrices DEF BackgroundInv
  <1>2. ScoresInv' /\ ScoreRest' /\ scoreTrigger' \in BOOLEAN
    BY NextScores, NextScoreRest, NextTrigger, StepOfScores, BackgroundAssumption
       DEF BackgroundInv
  <1>3. ListsInv'
    BY NextLists, StepOfLists, BackgroundAssumption DEF BackgroundInv
  <1>4. PurgeInv'
    BY NextPurge, StepOfPurge, BackgroundAssumption DEF BackgroundInv
  <1>5. SignalInv'
    BY NextSignals, StepOfSignals, BackgroundAssumption DEF BackgroundInv
  <1>6. FeedInv' /\ Feed!OnlyStaleLosesPrices'
    BY NextFeed, StepOfFeed, BackgroundAssumption DEF BackgroundInv
  <1> QED
    BY <1>1, <1>2, <1>3, <1>4, <1>5, <1>6 DEF BackgroundInv

\* All goroutines keep their types; the bounded map of dirty prices holds
\* exactly the tokens of its list, within its capacity (Mark, removeVersion), and
\* a purge says truly whether it stopped early (PurgeExpiredWalletEvents).
THEOREM BackgroundTypes == BackgroundSpec => []BackgroundTypeOK
  <1>1. BackgroundInv => BackgroundTypeOK
    <2> SUFFICES ASSUME BackgroundInv PROVE BackgroundTypeOK
      OBVIOUS
    <2>1. TypeOK /\ OrderMatchesItems
      BY PriceTypesHold DEF BackgroundInv, PriceInv
    <2>2. Score!TypeOK
      BY ScoreTypesHold, BackgroundAssumption DEF BackgroundInv
    <2>3. Followed!TypeOK
      BY ListTypesHold, BackgroundAssumption DEF BackgroundInv
    <2>4. Purge!TypeOK /\ Purge!LimitedIsTrue
      BY DEF BackgroundInv, PurgeInv
    <2>5. Signal!TypeOK
      BY SignalTypesHold, BackgroundAssumption DEF BackgroundInv
    <2>6. Feed!TypeOK
      BY FeedTypesHold, BackgroundAssumption DEF BackgroundInv
    <2> QED
      BY <2>1, <2>2, <2>3, <2>4, <2>5, <2>6 DEF BackgroundTypeOK
  <1> QED
    BY <1>1, InitBackground, NextBackground, PTL DEF BackgroundSpec

\* Beside all that runs in the background, too, the last price of a token is on
\* display or dirty until it is dropped (Mark against Flush).
THEOREM LastPriceIsKeptBeside == BackgroundSpec => []LatestNeverLost
  <1>1. BackgroundInv => LatestNeverLost
    BY DEF BackgroundInv, PriceInv, LatestInv
  <1> QED
    BY <1>1, InitBackground, NextBackground, PTL DEF BackgroundSpec

\* A displayed price, a score and the list of followed wallets are never replaced
\* by an older one that another goroutine still held; and a block is matched
\* against a list that lacks only edits younger than the interval and one slow
\* load (Flush, RecalculateAll, RefreshIfDue).
THEOREM NothingOlderReturns == BackgroundSpec => NothingGoesBack
  <1> DEFINE Display == \A t \in Tokens : shown'[t] >= shown[t]
             Rises == \A w \in Wallets : score'[w] >= score[w]
             Lists == shownList' >= shownList
             Block == pc["scan"] # "from" /\ pc'["scan"] = "from"
                        => failed' \/ \A v \in shownList' + 1 .. Followed!Current :
                                        listAge[v] < Interval + Slow
  <1>1. BackgroundInv /\ [BackgroundNext]_backgroundVars
          => /\ [Display]_vars /\ [Rises]_(Score!vars)
             /\ [Lists]_(Followed!vars) /\ [Block]_(Followed!vars)
    <2> SUFFICES ASSUME BackgroundInv, [BackgroundNext]_backgroundVars
                 PROVE  /\ [Display]_vars /\ [Rises]_(Score!vars)
                        /\ [Lists]_(Followed!vars) /\ [Block]_(Followed!vars)
      OBVIOUS
    <2>1. [Display]_vars
      BY NextPrices, StepOfPrices DEF BackgroundInv
    <2>2. [Rises]_(Score!vars)
      BY NextScores, StepOfScores, BackgroundAssumption DEF BackgroundInv
    <2>3. Lists
      BY NextLists, StepOfLists, BackgroundAssumption DEF BackgroundInv
    <2>4. Block
      BY BlockLists, StepOfLists, BackgroundAssumption DEF BackgroundInv, Followed!Current
    <2> HIDE DEF Display, Rises, Lists, Block
    <2> QED
      BY <2>1, <2>2, <2>3, <2>4
  <1> HIDE DEF Display, Rises, Lists, Block
  <1>2. BackgroundSpec => /\ [][Display]_vars /\ [][Rises]_(Score!vars)
                          /\ [][Lists]_(Followed!vars) /\ [][Block]_(Followed!vars)
    BY <1>1, InitBackground, NextBackground, PTL DEF BackgroundSpec
  <1> QED
    BY <1>2 DEF NothingGoesBack, DisplayMovesForward, Score!ScoreMovesForward, Followed!NeverBack,
                Followed!BlockSeesOldEdits, Display, Rises, Lists, Block
=============================================================================
