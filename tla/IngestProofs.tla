---------------------------- MODULE IngestProofs ----------------------------
(***************************************************************************)
(* The invariants of Ingest hold for every set of heights and hashes.      *)
(***************************************************************************)
EXTENDS Ingest, TLAPS

\* Before the first poll nothing is recorded or decided.
LEMMA InitInv == Init => IngestInv
  <1> SUFFICES ASSUME Init PROVE IngestInv
    OBVIOUS
  <1>1. TypeOK
    BY DEF Init, TypeOK
  <1>2. Frontier(wm) = 0 /\ CommittedHeights = {}
    BY DEF Init, Frontier, CommittedHeights
  <1>3. NoSilentGap
    BY <1>2 DEF Init, NoSilentGap
  <1>4. CommittedOnce /\ ForksAreLogged /\ WatermarkIsLinked
    BY DEF Init, CommittedOnce, ForksAreLogged, WatermarkIsLinked
  <1> QED
    BY <1>1, <1>3, <1>4 DEF IngestInv

\* The frontier is a number: the height to scan next.
LEMMA FrontierType ==
  ASSUME IngestAssumption, NEW w \in Marks
  PROVE  /\ Frontier(w) \in Nat
         /\ w.found /\ w.hash = NoHash => Frontier(w) = w.last
         /\ w.found /\ w.hash # NoHash => Frontier(w) = w.last + 1
  <1>1. w.found \in BOOLEAN /\ w.last \in Nat
    BY DEF IngestAssumption, Marks
  <1> QED
    BY <1>1 DEF Frontier

\* Recording the frontier block extends what is recorded by one height.
LEMMA RecordInv ==
  ASSUME IngestAssumption, IngestInv, NEW b \in Blocks, Record(b)
  PROVE  IngestInv'
  <1> DEFINE F == Frontier(wm)
  <1>1. wm \in Marks /\ F \in Nat /\ b.num = F
    BY FrontierType DEF IngestInv, TypeOK, Record
  <1>2. wm' = [found |-> TRUE, last |-> b.num, hash |-> b.hash] /\ committed' = committed \cup {b}
        /\ passedOver' = passedOver /\ logged' = logged
    BY DEF Record
  <1>3. b.num \in Heights /\ b.hash \in Hashes /\ b.hash # NoHash
    BY DEF IngestAssumption, Blocks
  <1>4. TypeOK'
    BY <1>2, <1>3 DEF IngestInv, TypeOK, Marks
  <1>5. Frontier(wm') = F + 1
    BY <1>1, <1>2, <1>3, <1>4, FrontierType DEF TypeOK
  <1>6. \A c \in committed : c.num \in 0 .. F - 1
    BY DEF IngestInv, NoSilentGap, CommittedHeights
  <1>7. NoSilentGap'
    <2>1. CommittedHeights' = CommittedHeights \cup {F}
      BY <1>1, <1>2 DEF CommittedHeights
    <2>2. CommittedHeights \subseteq 0 .. F - 1 /\ passedOver = (0 .. F - 1) \ CommittedHeights
      BY DEF IngestInv, NoSilentGap
    <2>3. 0 .. (F + 1) - 1 = (0 .. F - 1) \cup {F} /\ F \notin 0 .. F - 1
      BY <1>1
    <2> HIDE DEF F
    <2> QED
      BY <2>1, <2>2, <2>3, <1>2, <1>5 DEF NoSilentGap
  <1>8. CommittedOnce'
    BY <1>1, <1>2, <1>6 DEF IngestInv, CommittedOnce
  <1>9. ForksAreLogged'
    <2> SUFFICES ASSUME NEW c \in committed', NEW d \in committed', d.num = c.num + 1
                 PROVE  d.parent = c.hash \/ d.num \in logged'
      BY DEF ForksAreLogged
    <2>1. CASE c \in committed /\ d \in committed
      BY <2>1, <1>2 DEF IngestInv, ForksAreLogged
    <2>2. CASE c = b
      BY <2>2, <1>1, <1>2, <1>6
    <2>3. CASE c \in committed /\ d = b
      <3>1. c.num + 1 = F /\ c.num \in Nat
        BY <2>3, <1>1, <1>6
      <3>2. CASE wm.hash = NoHash
        BY <3>2, <2>3, <1>1, <1>2, FrontierType DEF IngestInv, WatermarkIsLinked, Record
      <3>3. CASE wm.hash # NoHash
        <4>1. b.parent = wm.hash /\ F = wm.last + 1 /\ wm.last \in Nat
          BY <3>3, <1>1, FrontierType DEF IngestAssumption, Record, Marks
        <4>2. c.num = wm.last
          BY <3>1, <4>1
        <4>3. c.hash = wm.hash \/ wm.last + 1 \in logged
          BY <4>2, <3>3, <2>3 DEF IngestInv, WatermarkIsLinked, Record
        <4> QED
          BY <4>1, <4>3, <2>3, <1>1, <1>2
      <3> QED
        BY <3>2, <3>3
    <2> QED
      BY <2>1, <2>2, <2>3, <1>2
  <1>10. WatermarkIsLinked'
    BY <1>1, <1>2, <1>3, <1>6 DEF WatermarkIsLinked
  <1> QED
    BY <1>4, <1>7, <1>8, <1>9, <1>10 DEF IngestInv

\* Passing over heights decides exactly the heights up to the new start.
LEMMA PassOverInv ==
  ASSUME IngestAssumption, IngestInv, NEW s \in Heights, PassOver(s)
  PROVE  IngestInv'
  <1> DEFINE F == Frontier(wm)
  <1>1. wm \in Marks /\ F \in Nat /\ s \in Nat /\ F <= s
    BY FrontierType DEF IngestAssumption, IngestInv, TypeOK, PassOver
  <1>2. /\ wm' = [found |-> TRUE, last |-> s, hash |-> NoHash] /\ committed' = committed
        /\ passedOver' = passedOver \cup (F .. s - 1) /\ logged' = logged \cup {s}
    BY DEF PassOver
  <1>3. TypeOK'
    <2>1. F .. s - 1 \subseteq Int /\ s \in Int
      BY <1>1
    <2> QED
      BY <2>1, <1>2 DEF IngestInv, TypeOK, Marks
  <1>4. Frontier(wm') = s
    BY <1>2, <1>3, FrontierType DEF TypeOK
  <1>5. NoSilentGap'
    <2>1. CommittedHeights' = CommittedHeights
      BY <1>2 DEF CommittedHeights
    <2>2. CommittedHeights \subseteq 0 .. F - 1 /\ passedOver = (0 .. F - 1) \ CommittedHeights
      BY DEF IngestInv, NoSilentGap
    <2>3. 0 .. s - 1 = (0 .. F - 1) \cup (F .. s - 1) /\ (0 .. F - 1) \cap (F .. s - 1) = {}
      BY <1>1
    <2> HIDE DEF F
    <2> QED
      BY <2>1, <2>2, <2>3, <1>2, <1>4 DEF NoSilentGap
  <1>6. CommittedOnce' /\ ForksAreLogged'
    BY <1>2 DEF IngestInv, CommittedOnce, ForksAreLogged
  <1>7. WatermarkIsLinked'
    BY <1>2 DEF WatermarkIsLinked
  <1> QED
    BY <1>3, <1>5, <1>6, <1>7 DEF IngestInv

\* Re-anchoring leaves the frontier where it is and announces the child.
LEMMA ReanchorInv ==
  ASSUME IngestAssumption, IngestInv, NEW h \in Hashes, Reanchor(h)
  PROVE  IngestInv'
  <1>1. wm \in Marks /\ wm.last \in Nat /\ h # NoHash
    BY DEF IngestAssumption, IngestInv, TypeOK, Marks
  <1>2. /\ wm' = [found |-> TRUE, last |-> wm.last, hash |-> h] /\ committed' = committed
        /\ passedOver' = passedOver /\ logged' = logged \cup {wm.last + 1}
    BY DEF Reanchor
  <1>3. wm'.found = wm.found /\ wm'.last = wm.last /\ wm'.hash = h /\ wm' \in Marks
    BY <1>1, <1>2 DEF Marks, Reanchor
  <1>4. TypeOK'
    BY <1>1, <1>2, <1>3 DEF IngestInv, TypeOK
  <1>5. Frontier(wm') = Frontier(wm)
    BY <1>1, <1>3, FrontierType DEF Reanchor
  <1>6. NoSilentGap'
    BY <1>2, <1>5 DEF IngestInv, NoSilentGap, CommittedHeights
  <1>7. CommittedOnce' /\ ForksAreLogged'
    BY <1>2 DEF IngestInv, CommittedOnce, ForksAreLogged
  <1>8. WatermarkIsLinked'
    BY <1>1, <1>2, <1>3 DEF WatermarkIsLinked
  <1> QED
    BY <1>4, <1>6, <1>7, <1>8 DEF IngestInv

\* IngestInv is inductive.
LEMMA NextInv == IngestAssumption /\ IngestInv /\ [Next]_ingestVars => IngestInv'
  <1> SUFFICES ASSUME IngestAssumption, IngestInv, [Next]_ingestVars PROVE IngestInv'
    OBVIOUS
  <1>1. ASSUME NEW b \in Blocks, Record(b) PROVE IngestInv'
    BY <1>1, RecordInv
  <1>2. ASSUME NEW s \in Heights, PassOver(s) PROVE IngestInv'
    BY <1>2, PassOverInv
  <1>3. ASSUME NEW h \in Hashes, Reanchor(h) PROVE IngestInv'
    BY <1>3, ReanchorInv
  <1>4. CASE UNCHANGED ingestVars
    BY <1>4 DEF IngestInv, TypeOK, NoSilentGap, CommittedHeights, CommittedOnce,
                ForksAreLogged, WatermarkIsLinked, ingestVars
  <1> QED
    BY <1>1, <1>2, <1>3, <1>4 DEF Next

\* Whatever order records, skips and re-anchorings come in, no height is lost
\* or recorded twice and no fork is silent.
THEOREM IngestCorrect ==
  ASSUME IngestAssumption
  PROVE  Spec => []IngestInv
  <1> QED
    BY InitInv, NextInv, PTL DEF Spec
=============================================================================
