------------------------------ MODULE Queries -------------------------------
(***************************************************************************)
(* Two of the read-only requests (internal/httpsvc) against the scanner's  *)
(* commits: the walk of a client through the pages of GET /launches        *)
(* (launches, parseLaunchCursor and ListLaunches of                        *)
(* internal/store/launch_index.go), each page a request of its own, and    *)
(* GET /health, which reads the watermark and then asks a node for its     *)
(* head. Tokens are numbers, ordered as their addresses; times are         *)
(* seconds, of several blocks each; "" asks for every category.            *)
(***************************************************************************)
EXTENDS Naturals, SequencesExt, FiniteSetsExt

CONSTANTS
  Tokens, Categories,
  PageLimit,        \* the limit of the client's requests, 1 .. 200
  HealthLagWarn,
  BlocksPerSecond,
  MaxHead           \* bound: blocks

QueriesAssumption ==
  /\ Tokens \subseteq Nat \ {0} /\ IsFiniteSet(Tokens) /\ "" \notin Categories
  /\ {PageLimit, BlocksPerSecond, MaxHead} \subseteq Nat \ {0} /\ HealthLagWarn \in Nat

Width == 2 * MaxHead + 1   \* 2^64: above every difference of two blocks
None  == [at |-> 0, token |-> 0]

VARIABLES
  head,      \* the chain's head
  last,      \* the watermark, committed
  launches,  \* launch_index: rows [token, category, at]
  walk,      \* the client: category, next_cursor, whether there is one
  listed,    \* the tokens it was given, in order
  atStart,   \* the tokens of its category when it began
  health     \* the request: "idle" or the watermark read; its last answer

vars == <<head, last, launches, walk, listed, atStart, health>>

-----------------------------------------------------------------------------
(* The scanner *)

NewBlock ==
  /\ head < MaxHead /\ head' = head + 1
  /\ UNCHANGED <<last, launches, walk, listed, atStart, health>>

\* CommitBlock, with the launches of the block.
Commit ==
  /\ last < head /\ last' = last + 1
  /\ \E new \in SUBSET (Tokens \ {r.token : r \in launches}) :
       \E category \in [new -> Categories] :
         launches' = launches \cup
           {[token |-> t, category |-> category[t], at |-> last' \div BlocksPerSecond] : t \in new}
  /\ UNCHANGED <<head, walk, listed, atStart, health>>

-----------------------------------------------------------------------------
(* GET /launches *)

BeforeOrAt(r, c) == r.at < c.at \/ (r.at = c.at /\ r.token <= c.token)

\* created_at<? OR (created_at=? AND token_address<?)
Before(r, c) == r.at < c.at \/ (r.at = c.at /\ r.token < c.token)

\* ORDER BY created_at DESC, token_address DESC
Newer(r, s) == r.at > s.at \/ (r.at = s.at /\ r.token > s.token)

OfCategory(category) == {r \in launches : category \in {"", r.category}}

\* LIMIT ?: the newest of them in that order.
ListLaunches(category, cursor, limit) ==
  LET found == {r \in OfCategory(category) : cursor = None \/ Before(r, cursor)}
      n     == Min({limit, Cardinality(found)})
  IN CHOOSE rows \in [1 .. n -> found] :
       /\ \A i, j \in 1 .. n : i < j => Newer(rows[i], rows[j])
       /\ \A r \in found \ Range(rows) : \A i \in 1 .. n : Newer(rows[i], r)

\* next_cursor is omitted on a page that is not full.
HasNext(rows) == Len(rows) = PageLimit

StartWalk ==
  /\ ~walk.more
  /\ \E category \in Categories \cup {""} :
       /\ walk' = [category |-> category, cursor |-> None, more |-> TRUE]
       /\ atStart' = {r.token : r \in OfCategory(category)}
  /\ listed' = <<>>
  /\ UNCHANGED <<head, last, launches, health>>

\* One request. The cursor is the time and the token of the page's last row.
Page ==
  /\ walk.more
  /\ LET rows == ListLaunches(walk.category, walk.cursor, PageLimit) IN
       /\ listed' = listed \o [i \in 1 .. Len(rows) |-> rows[i].token]
       /\ walk' = IF HasNext(rows)
                    THEN [walk EXCEPT !.cursor = [at |-> Last(rows).at, token |-> Last(rows).token]]
                    ELSE [walk EXCEPT !.more = FALSE]
  /\ UNCHANGED <<head, last, launches, atStart, health>>

-----------------------------------------------------------------------------
(* GET /health *)

HealthState ==
  /\ ~health.asking
  /\ health' = [health EXCEPT !.asking = TRUE, !.last = last, !.answer = {}]
  /\ UNCHANGED <<head, last, launches, walk, listed, atStart>>

Lag(h) == IF h > health.last THEN h - health.last ELSE 0

\* The node may be behind the one that served the scanner. When no node answers,
\* the service is still said to be up.
HealthHead ==
  /\ health.asking
  /\ health' \in
       {[health EXCEPT !.asking = FALSE,
                       !.answer = {[head |-> h, ok |-> Lag(h) <= HealthLagWarn]}] : h \in 0 .. head}
       \cup {[health EXCEPT !.asking = FALSE, !.answer = {}]}
  /\ UNCHANGED <<head, last, launches, walk, listed, atStart>>

Init ==
  /\ head = 0 /\ last = 0 /\ launches = {}
  /\ walk = [category |-> "", cursor |-> None, more |-> FALSE]
  /\ listed = <<>> /\ atStart = {}
  /\ health = [asking |-> FALSE, last |-> 0, answer |-> {}]

Next == NewBlock \/ Commit \/ StartWalk \/ Page \/ HealthState \/ HealthHead

Spec == Init /\ [][Next]_vars

-----------------------------------------------------------------------------
RowOf(t) == CHOOSE r \in launches : r.token = t

\* Types; and a launch of another category is never given.
TypeOK ==
  /\ last <= head /\ head <= MaxHead
  /\ \A r \in launches : r.token \in Tokens /\ r.category \in Categories
  /\ \A r, s \in launches : r.token = s.token => r = s
  /\ \A r \in launches :
       r.token \in ToSet(listed) \cup atStart => walk.category \in {"", r.category}
  /\ ToSet(listed) \cup atStart \subseteq {r.token : r \in launches}

\* The client is given the rows of its category from the newest to the oldest and
\* none twice, whatever is committed between two pages (ListLaunches; launches of
\* one second are told apart by their addresses).
WalkDescends ==
  \A i, j \in 1 .. Len(listed) : i < j => Newer(RowOf(listed[i]), RowOf(listed[j]))

\* No page skips a launch that was there when the client began: all down to the
\* cursor, and all of them when there is no next page, have been given.
WalkIsComplete ==
  \A t \in atStart :
    /\ walk.more => walk.cursor = None \/ Newer(walk.cursor, RowOf(t)) \/ t \in ToSet(listed)
    /\ ~walk.more => t \in ToSet(listed)

\* A service said to be well is so: it is within HealthLagWarn of the head it
\* names. One that is at or past the head of the node asked is always well,
\* however far the node is behind.
HealthIsTrue ==
  \A a \in health.answer :
    /\ a.ok => a.head <= last + HealthLagWarn
    /\ a.head <= health.last => a.ok
=============================================================================
