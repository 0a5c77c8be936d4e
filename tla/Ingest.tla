------------------------------- MODULE Ingest -------------------------------
(***************************************************************************)
(* What the block scanner promises to the rest of the service, without     *)
(* prefetching, RPC nodes, queues or crashes: a durable watermark and the  *)
(* set of blocks whose business rows were written, which move only by      *)
(* recording the next block, by passing over heights, or by re-anchoring   *)
(* the watermark on the parent a reorganisation left.                      *)
(***************************************************************************)
EXTENDS Integers

CONSTANTS
  Heights,  \* block numbers
  Hashes,   \* block hashes; two blocks of one height have different hashes
  NoHash    \* the empty last_hash

\* Heights are numbers, and no block has the empty hash.
IngestAssumption == Heights \subseteq Nat /\ NoHash \notin Hashes

VARIABLES
  wm,          \* the sync_state row
  committed,   \* the blocks written by CommitBlock, in any process
  passedOver,  \* heights a start or a skip decided not to scan
  logged       \* heights announced as a start, a skip or a reorganisation

ingestVars == <<wm, committed, passedOver, logged>>

Blocks == [num : Heights, hash : Hashes, parent : Hashes \cup {NoHash}]
Marks  == [found : BOOLEAN, last : Heights, hash : Hashes \cup {NoHash}]

\* The lowest height of which nothing has been decided yet. An empty hash
\* says that the watermark's own height is still to be scanned.
Frontier(w) ==
  IF ~w.found THEN 0 ELSE IF w.hash = NoHash THEN w.last ELSE w.last + 1

-----------------------------------------------------------------------------
Init ==
  /\ wm \in {w \in Marks : ~w.found}
  /\ committed = {} /\ passedOver = {} /\ logged = {}

\* Rows and watermark of the frontier block, in one transaction.
Record(b) ==
  /\ wm.found
  /\ b.num = Frontier(wm)
  /\ wm.hash # NoHash => b.parent = wm.hash
  /\ wm' = [found |-> TRUE, last |-> b.num, hash |-> b.hash]
  /\ committed' = committed \cup {b}
  /\ UNCHANGED <<passedOver, logged>>

\* The first start, or a skip of history: scanning resumes at s.
PassOver(s) ==
  /\ s >= Frontier(wm)
  /\ wm' = [found |-> TRUE, last |-> s, hash |-> NoHash]
  /\ passedOver' = passedOver \cup (Frontier(wm) .. s - 1)
  /\ logged' = logged \cup {s}
  /\ UNCHANGED committed

\* A reorganisation replaced the watermark's block: only its hash changes.
Reanchor(h) ==
  /\ wm.found /\ wm.hash # NoHash
  /\ wm' = [found |-> TRUE, last |-> wm.last, hash |-> h]
  /\ logged' = logged \cup {wm.last + 1}
  /\ UNCHANGED <<committed, passedOver>>

Next ==
  \/ \E b \in Blocks : Record(b)
  \/ \E s \in Heights : PassOver(s)
  \/ \E h \in Hashes : Reanchor(h)

Spec == Init /\ [][Next]_ingestVars

-----------------------------------------------------------------------------
CommittedHeights == {b.num : b \in committed}

\* Heights below the watermark are either recorded or were passed over by a
\* decision, never both, and nothing at or above it is recorded: a restart
\* resumes exactly where the last process stopped (poller.go PollOnce).
NoSilentGap ==
  /\ CommittedHeights \subseteq 0 .. Frontier(wm) - 1
  /\ passedOver = (0 .. Frontier(wm) - 1) \ CommittedHeights

\* A height is recorded at most once, whatever was retried, reorganised,
\* skipped or restarted: its rows are never written from two blocks.
CommittedOnce ==
  \A b, c \in committed : b.num = c.num => b = c

\* Two recorded blocks of adjacent heights are parent and child, unless a
\* reorganisation or a new start was announced at the child (processRange).
ForksAreLogged ==
  \A b, c \in committed :
    c.num = b.num + 1 => c.parent = b.hash \/ c.num \in logged

\* The watermark names the block recorded at its height, or the difference
\* was announced: what the next block is compared with is never a guess.
WatermarkIsLinked ==
  /\ wm.found /\ wm.hash = NoHash => wm.last \in logged
  /\ wm.found /\ wm.hash # NoHash =>
       \A b \in committed :
         b.num = wm.last => b.hash = wm.hash \/ wm.last + 1 \in logged

\* Types of the abstract state.
TypeOK ==
  /\ wm \in Marks
  /\ committed \subseteq Blocks
  /\ passedOver \subseteq Int /\ logged \subseteq Int

\* Inductive: the next block's parent is compared with the watermark only,
\* so ForksAreLogged needs to know whose hash the watermark holds.
IngestInv == TypeOK /\ NoSilentGap /\ CommittedOnce /\ ForksAreLogged /\ WatermarkIsLinked
=============================================================================
