--------------------------- MODULE RecordsProofs ----------------------------
(***************************************************************************)
(* What the database's schema is, is known from schema_migrations, for any *)
(* names, contents and deployments; the order in which the files of one    *)
(* start are visited does not matter to it. The net that is read from a    *)
(* tree of calls is what the account's balance changed by, for any calls   *)
(* and any depth. A client that walks through the pages of /launches is    *)
(* given all of them, whatever is committed between two pages. A fill is   *)
(* of the one who traded, in whatever order the transfers' map is visited. *)
(* The profit of a sell is that of the units bought first, for any trades, *)
(* and neither a replay nor a purge makes units of nothing. The ids of     *)
(* events are in the order of the chain while the numbers fit. And all of  *)
(* this has its types at all times.                                        *)
(***************************************************************************)
EXTENDS Records, Sums, SequenceTheorems

-----------------------------------------------------------------------------
(* Migrations *)

\* A schema_migrations and the files executed on the database tell the same.
Agree(executed, sums) ==
  /\ executed \in Seq(Names \X Versions) /\ IsFiniteSet(DOMAIN sums)
  /\ Cardinality(DOMAIN sums) = Len(executed)
  /\ \A i \in 1 .. Len(executed) :
       executed[i][1] \in DOMAIN sums /\ sums[executed[i][1]] = executed[i][2]

\* Every file this start has visited was compared with its checksum.
ReadAgrees(sums) == \A n \in DOMAIN read : n \in DOMAIN sums /\ sums[n] = read[n]

\* The open transaction needs the same as what is committed, since a commit
\* makes the one the other.
SchemaInv ==
  /\ DOMAIN dir \subseteq Names /\ \A n \in DOMAIN dir : dir[n] \in Versions
  /\ Agree(log, applied) /\ Agree(txLog, txApplied)
  /\ pc = "migrating" => ReadAgrees(txApplied)
  /\ pc = "up" => ReadAgrees(applied)

-----------------------------------------------------------------------------
\* An executed file that was recorded under a new name keeps the agreement.
LEMMA ExecuteAgrees ==
  ASSUME NEW executed, NEW sums, Agree(executed, sums),
         NEW n \in Names, NEW v \in Versions, n \notin DOMAIN sums
  PROVE  Agree(Append(executed, <<n, v>>), Put(sums, n, v))
  <1> DEFINE more == Append(executed, <<n, v>>)
             put == Put(sums, n, v)
  <1>1. DOMAIN put = DOMAIN sums \cup {n} /\ put[n] = v
        /\ \A m \in DOMAIN sums : put[m] = sums[m]
    BY DEF Put
  <1>2. executed \in Seq(Names \X Versions) /\ Len(executed) \in Nat
    BY DEF Agree
  <1>3. /\ more \in Seq(Names \X Versions) /\ Len(more) = Len(executed) + 1
        /\ more[Len(executed) + 1] = <<n, v>>
        /\ \A i \in 1 .. Len(executed) : more[i] = executed[i]
    BY <1>2
  <1>4. IsFiniteSet(DOMAIN put) /\ Cardinality(DOMAIN put) = Cardinality(DOMAIN sums) + 1
    BY <1>1, FS_AddElement DEF Agree
  <1> HIDE DEF more, put
  <1>5. \A i \in 1 .. Len(more) : more[i][1] \in DOMAIN put /\ put[more[i][1]] = more[i][2]
    <2> SUFFICES ASSUME NEW i \in 1 .. Len(more)
                 PROVE  more[i][1] \in DOMAIN put /\ put[more[i][1]] = more[i][2]
      OBVIOUS
    <2>1. CASE i = Len(executed) + 1
      BY <2>1, <1>1, <1>3
    <2>2. CASE i \in 1 .. Len(executed)
      BY <2>2, <1>1, <1>3 DEF Agree
    <2> QED
      BY <2>1, <2>2, <1>2, <1>3
  <1>6. Agree(more, put)
    BY <1>3, <1>4, <1>5 DEF Agree
  <1> QED
    BY <1>6 DEF more, put

\* No file was executed and none recorded.
LEMMA InitSchema == Init => SchemaInv
  <1> SUFFICES ASSUME Init PROVE SchemaInv
    OBVIOUS
  <1>1. DOMAIN Empty = {}
    BY DEF Empty
  <1>2. Agree(<<>>, Empty)
    BY <1>1, FS_EmptySet DEF Agree
  <1> QED
    BY <1>1, <1>2 DEF Init, SchemaInv

\* An operator changes the files of the directory only.
LEMMA DeploySchema == ASSUME SchemaInv, Deploy PROVE SchemaInv'
  <1>1. /\ log' = log /\ applied' = applied /\ pc' = pc /\ txLog' = txLog
        /\ txApplied' = txApplied /\ read' = read
    BY DEF Deploy
  <1>2. DOMAIN dir' \subseteq Names /\ \A n \in DOMAIN dir' : dir'[n] \in Versions
    <2>1. CASE \E n \in Names, v \in Versions : dir' = Put(dir, n, v)
      BY <2>1 DEF Put, SchemaInv
    <2>2. CASE \E n \in DOMAIN dir : dir' = [m \in DOMAIN dir \ {n} |-> dir[m]]
      BY <2>2 DEF SchemaInv
    <2> QED
      BY <2>1, <2>2 DEF Deploy
  <1> QED
    BY <1>1, <1>2 DEF SchemaInv, Agree, ReadAgrees

\* Start, Fail and Crash: the transaction starts from what is committed.
LEMMA DownSchema == ASSUME SchemaInv, Start \/ Fail \/ Crash PROVE SchemaInv'
  <1>1. /\ dir' = dir /\ log' = log /\ applied' = applied /\ txLog' = log /\ txApplied' = applied
        /\ read' = Empty
    BY DEF Start, Fail, Crash, Down
  <1>2. DOMAIN read' = {}
    BY <1>1 DEF Empty
  <1>3. Agree(log, applied)' /\ Agree(txLog, txApplied)'
    BY <1>1 DEF SchemaInv, Agree
  <1>4. ReadAgrees(txApplied)' /\ ReadAgrees(applied)'
    BY <1>2 DEF ReadAgrees
  <1> QED
    BY <1>1, <1>3, <1>4 DEF SchemaInv

\* One file: refused when it changed, executed and recorded when it is new.
LEMMA VisitSchema == ASSUME SchemaInv, Visit PROVE SchemaInv'
  <1> DEFINE n == Head(todo)
  <1>1. /\ pc = "migrating" /\ pc' = pc /\ n \in DOMAIN dir /\ ~Refuses(n)
        /\ dir' = dir /\ log' = log /\ applied' = applied /\ read' = Put(read, n, dir[n])
    BY DEF Visit
  <1>2. n \in Names /\ dir[n] \in Versions
    BY <1>1 DEF SchemaInv
  <1>3. DOMAIN read' = DOMAIN read \cup {n} /\ read'[n] = dir[n]
        /\ \A m \in DOMAIN read \ {n} : read'[m] = read[m]
    BY <1>1 DEF Put
  <1>4. CASE n \in DOMAIN txApplied
    <2>1. txLog' = txLog /\ txApplied' = txApplied
      BY <1>4 DEF Visit
    <2>2. txApplied[n] = dir[n]
      BY <1>1, <1>4 DEF Refuses
    <2>3. ReadAgrees(txApplied)'
      BY <1>1, <1>3, <1>4, <2>1, <2>2 DEF SchemaInv, ReadAgrees
    <2> QED
      BY <1>1, <2>1, <2>3 DEF SchemaInv, Agree
  <1>5. CASE n \notin DOMAIN txApplied
    <2>1. txLog' = Append(txLog, <<n, dir[n]>>) /\ txApplied' = Put(txApplied, n, dir[n])
      BY <1>5 DEF Visit, Execute
    <2>2. Agree(txLog, txApplied)'
      <3>1. Agree(Append(txLog, <<n, dir[n]>>), Put(txApplied, n, dir[n]))
        BY <1>2, <1>5, ExecuteAgrees DEF SchemaInv
      <3> QED
        BY <2>1, <3>1 DEF Agree
    <2>3. DOMAIN txApplied' = DOMAIN txApplied \cup {n} /\ txApplied'[n] = dir[n]
          /\ \A m \in DOMAIN txApplied : txApplied'[m] = txApplied[m]
      BY <1>5, <2>1 DEF Put
    <2>4. ReadAgrees(txApplied)'
      BY <1>1, <1>3, <1>5, <2>3 DEF SchemaInv, ReadAgrees
    <2> QED
      BY <1>1, <2>2, <2>4 DEF SchemaInv, Agree
  <1> QED
    BY <1>4, <1>5

\* What is committed becomes what the transaction agreed on.
LEMMA CommitSchema == ASSUME SchemaInv, Commit PROVE SchemaInv'
  BY DEF Commit, SchemaInv, Agree, ReadAgrees

\* Every step preserves the invariant.
LEMMA NextSchema == SchemaInv /\ [Next]_vars => SchemaInv'
  <1> SUFFICES ASSUME SchemaInv, [Next]_vars PROVE SchemaInv'
    OBVIOUS
  <1>1. CASE Next
    BY <1>1, DeploySchema, DownSchema, VisitSchema, CommitSchema DEF Next
  <1>2. CASE UNCHANGED vars
    BY <1>2 DEF vars, SchemaInv, Agree, ReadAgrees
  <1> QED
    BY <1>1, <1>2

\* No file runs twice, its checksum is of what ran, and the running program has
\* the schema of the files it read, through crashes and failed starts (Migrate).
THEOREM SchemaIsAlwaysKnown == Spec => []SchemaIsKnown
  <1>1. SchemaInv => SchemaIsKnown
    BY DEF SchemaInv, Agree, ReadAgrees, SchemaIsKnown, ExecutedOnce, UpOnWhatWasRead
  <1> QED
    BY <1>1, InitSchema, NextSchema, PTL DEF Spec

-----------------------------------------------------------------------------
(* The tree of calls *)

Frames == [parent : Nat, kind : Tracer!Kinds, from : Accounts, to : Accounts,
           value : Nat, failed : BOOLEAN]

\* A frame is entered after its parent.
Tree(fs) == fs \in Seq(Frames) /\ \A i \in 1 .. Len(fs) : fs[i].parent < i

RevertedIn(fs) ==
  CHOOSE g : g = [i \in 0 .. Len(fs) |-> i # 0 /\ (fs[i].failed \/ g[fs[i].parent])]

\* What a frame brings the account, unless it is reverted.
Gain(f) == IF Tracer!Moves(f) THEN Tracer!Delta(f) ELSE 0

\* The same for the first n frames.
GainIn(fs, n) ==
  SumFunctionOnSet([i \in DOMAIN fs |-> Gain(fs[i])], {i \in 1 .. n : ~RevertedIn(fs)[i]})

\* Every frame of a tree has a parent before it, if only the 0 of the outermost.
LEMMA TreeFacts ==
  ASSUME NEW fs, Tree(fs)
  PROVE  /\ Len(fs) \in Nat /\ DOMAIN fs = 1 .. Len(fs)
         /\ \A i \in 1 .. Len(fs) : /\ fs[i] \in Frames /\ fs[i].parent \in 0 .. Len(fs)
                                  /\ fs[i].parent \in Nat /\ fs[i].parent < i
  <1>1. Len(fs) \in Nat /\ DOMAIN fs = 1 .. Len(fs) /\ \A i \in 1 .. Len(fs) : fs[i] \in Frames
    <2> HIDE DEF Frames
    <2> QED
      BY DEF Tree
  <1>2. \A f \in Frames : f.parent \in Nat
    BY DEF Frames
  <1>3. \A i \in 1 .. Len(fs) : fs[i].parent < i
    BY DEF Tree
  <1> QED
    BY <1>1, <1>2, <1>3

\* The recursion determines which frames are reverted.
LEMMA RevertedUnfolds ==
  ASSUME NEW fs, Tree(fs)
  PROVE  /\ ~RevertedIn(fs)[0]
         /\ \A i \in 1 .. Len(fs) :
              RevertedIn(fs)[i] <=> fs[i].failed \/ RevertedIn(fs)[fs[i].parent]
  <1> DEFINE n == Len(fs)
             H == {m \in Nat : \E R \in SUBSET (0 .. n) : 0 \notin R /\ \A i \in 1 .. n :
                                 i <= m => (i \in R <=> fs[i].failed \/ fs[i].parent \in R)}
  <1>1. n \in Nat /\ \A i \in 1 .. n : fs[i].parent \in 0 .. n /\ fs[i].parent < i
    BY TreeFacts
  <1>2. 0 \in H
    BY DEF H
  <1>3. ASSUME NEW m \in Nat, m \in H PROVE m + 1 \in H
    <2>1. PICK R \in SUBSET (0 .. n) : 0 \notin R /\ \A i \in 1 .. n :
                 i <= m => (i \in R <=> fs[i].failed \/ fs[i].parent \in R)
      BY <1>3
    <2>2. CASE m + 1 \in 1 .. n /\ (fs[m + 1].failed \/ fs[m + 1].parent \in R)
      <3> DEFINE Q == R \cup {m + 1}
      <3>1. Q \in SUBSET (0 .. n) /\ 0 \notin Q
        BY <2>1, <2>2
      <3>2. ASSUME NEW i \in 1 .. n, i <= m + 1
            PROVE  i \in Q <=> fs[i].failed \/ fs[i].parent \in Q
        <4>1. fs[i].parent # m + 1 /\ fs[i].parent < i
          BY <1>1, <3>2
        <4> QED
          BY <2>1, <2>2, <3>2, <4>1
      <3> HIDE DEF Q
      <3> QED
        BY <3>1, <3>2
    <2>3. CASE ~(m + 1 \in 1 .. n /\ (fs[m + 1].failed \/ fs[m + 1].parent \in R))
      <3> DEFINE Q == R \ {m + 1}
      <3>1. Q \in SUBSET (0 .. n) /\ 0 \notin Q
        BY <2>1
      <3>2. ASSUME NEW i \in 1 .. n, i <= m + 1
            PROVE  i \in Q <=> fs[i].failed \/ fs[i].parent \in Q
        <4>1. fs[i].parent # m + 1 /\ fs[i].parent < i
          BY <1>1, <3>2
        <4> QED
          BY <2>1, <2>3, <3>2, <4>1
      <3> HIDE DEF Q
      <3> QED
        BY <3>1, <3>2
    <2> QED
      BY <2>2, <2>3
  <1>4. n \in H
    <2>1. Nat \subseteq H
      <3> HIDE DEF H
      <3> QED
        BY <1>2, <1>3, EveryNat
    <2> QED
      BY <1>1, <2>1
  <1>5. PICK R \in SUBSET (0 .. n) : 0 \notin R /\ \A i \in 1 .. n :
               i \in R <=> fs[i].failed \/ fs[i].parent \in R
    BY <1>1, <1>4
  <1> DEFINE r == [i \in 0 .. n |-> i \in R]
  <1>6. \A i \in 0 .. n : (i \in R) <=> i # 0 /\ (fs[i].failed \/ r[fs[i].parent])
    <2> SUFFICES ASSUME NEW i \in 0 .. n
                 PROVE  (i \in R) <=> i # 0 /\ (fs[i].failed \/ r[fs[i].parent])
      OBVIOUS
    <2>1. CASE i = 0
      BY <1>5, <2>1
    <2>2. CASE i \in 1 .. n
      <3>1. \A j \in 0 .. n : r[j] = (j \in R)
        <4> HIDE DEF n
        <4> QED
          BY Zenon
      <3>2. i # 0 /\ (r[fs[i].parent] <=> fs[i].parent \in R)
        <4>1. fs[i].parent \in 0 .. n /\ i # 0
          BY <1>1, <2>2
        <4> HIDE DEF r, n
        <4> QED
          BY <3>1, <4>1
      <3> QED
        BY <1>5, <2>2, <3>2
    <2> QED
      BY <1>1, <2>1, <2>2
  <1>7. r = [i \in 0 .. n |-> i # 0 /\ (fs[i].failed \/ r[fs[i].parent])]
    <2>1. \A i \in 0 .. n : (i \in R) = (i # 0 /\ (fs[i].failed \/ r[fs[i].parent]))
      <3> HIDE DEF r, n
      <3> QED
        BY <1>6
    <2> HIDE DEF n
    <2> QED
      BY <2>1, Zenon
  <1>8. RevertedIn(fs) = [i \in 0 .. n |-> i # 0 /\ (fs[i].failed \/ RevertedIn(fs)[fs[i].parent])]
    <2> HIDE DEF r
    <2> QED
      BY <1>7, Zenon DEF RevertedIn
  <1> HIDE DEF n
  <1>9. \A i \in 0 .. n :
          RevertedIn(fs)[i] <=> i # 0 /\ (fs[i].failed \/ RevertedIn(fs)[fs[i].parent])
    BY <1>8, Zenon
  <1>10. 0 \in 0 .. n /\ \A i \in 1 .. n : i \in 0 .. n /\ i # 0
    BY <1>1
  <1> QED
    BY <1>9, <1>10, Zenon DEF n

\* Which of the first n frames are reverted does not depend on the others.
LEMMA RevertedAlike ==
  ASSUME NEW fs, NEW gs, Tree(fs), Tree(gs), NEW n \in Nat, n <= Len(fs), n <= Len(gs),
         \A i \in 1 .. n : fs[i] = gs[i]
  PROVE  \A i \in 1 .. n : RevertedIn(fs)[i] <=> RevertedIn(gs)[i]
  <1> DEFINE B == {i \in 0 .. n : ~(RevertedIn(fs)[i] <=> RevertedIn(gs)[i])}
  <1>1. /\ ~RevertedIn(fs)[0] /\ ~RevertedIn(gs)[0]
        /\ \A i \in 1 .. n : /\ RevertedIn(fs)[i] <=> fs[i].failed \/ RevertedIn(fs)[fs[i].parent]
                             /\ RevertedIn(gs)[i] <=> gs[i].failed \/ RevertedIn(gs)[gs[i].parent]
    <2>1. Len(fs) \in Nat /\ Len(gs) \in Nat
      BY TreeFacts
    <2>2. \A i \in 1 .. n : i \in 1 .. Len(fs) /\ i \in 1 .. Len(gs)
      BY <2>1
    <2> QED
      BY <2>2, RevertedUnfolds
  <1>2. \A i \in 1 .. n : fs[i].parent \in 0 .. n /\ fs[i].parent < i /\ gs[i] = fs[i]
    BY TreeFacts
  <1>3. ASSUME B # {} PROVE FALSE
    <2>1. B \in SUBSET Nat
      OBVIOUS
    <2>2. PICK b \in B : \A k \in B : b <= k
      <3> HIDE DEF B
      <3> QED
        BY <1>3, <2>1, SmallestOf
    <2>3. b \in 1 .. n
      BY <1>1
    <2>4. fs[b].parent \in 0 .. n /\ fs[b].parent \notin B
      BY <1>2, <2>2, <2>3
    <2> QED
      BY <1>1, <2>3, <2>4
  <1> QED
    BY <1>3

\* All of a failed frame's descendants are reverted with it.
LEMMA RevertedBelow ==
  ASSUME NEW fs, Tree(fs), NEW f \in 1 .. Len(fs), fs[f].failed,
         \A i \in 1 .. Len(fs) : f < i => f <= fs[i].parent
  PROVE  \A i \in f .. Len(fs) : RevertedIn(fs)[i]
  <1> DEFINE B == {i \in f .. Len(fs) : ~RevertedIn(fs)[i]}
  <1>1. Len(fs) \in Nat /\ \A i \in 1 .. Len(fs) : fs[i].parent \in Nat /\ fs[i].parent < i
    BY TreeFacts
  <1>2. \A i \in 1 .. Len(fs) : RevertedIn(fs)[i] <=> fs[i].failed \/ RevertedIn(fs)[fs[i].parent]
    BY RevertedUnfolds
  <1>3. ASSUME B # {} PROVE FALSE
    <2>1. B \in SUBSET Nat
      BY <1>1
    <2>2. PICK b \in B : \A k \in B : b <= k
      <3> HIDE DEF B
      <3> QED
        BY <1>3, <2>1, SmallestOf
    <2>3. b \in 1 .. Len(fs) /\ f < b
      BY <1>1, <1>2
    <2>4. fs[b].parent \in f .. Len(fs) /\ fs[b].parent \notin B
      BY <1>1, <2>2, <2>3
    <2> QED
      BY <1>2, <2>3, <2>4
  <1> QED
    BY <1>3

\* What a frame brings is an integer, and so are the sums.
LEMMA GainIsInt ==
  ASSUME NEW fs, Tree(fs), NEW n \in Nat, n <= Len(fs), NEW S \in SUBSET (1 .. n)
  PROVE  /\ Integral([i \in DOMAIN fs |-> Gain(fs[i])], S)
         /\ \A i \in S : [j \in DOMAIN fs |-> Gain(fs[j])][i] = Gain(fs[i])
  <1>1. Len(fs) \in Nat /\ DOMAIN fs = 1 .. Len(fs) /\ \A i \in 1 .. Len(fs) : fs[i] \in Frames
    BY TreeFacts
  <1>2. \A f \in Frames : Gain(f) \in Int
    BY DEF Frames, Gain, Tracer!Delta
  <1>3. IsFiniteSet(S)
    <2>1. IsFiniteSet(1 .. n)
      BY FS_Interval
    <2> QED
      BY <2>1, FS_Subset
  <1>4. \A i \in S : i \in 1 .. Len(fs)
    BY <1>1
  <1> QED
    BY <1>1, <1>2, <1>3, <1>4 DEF Integral

\* What the first n frames bring does not depend on the others.
LEMMA GainAlike ==
  ASSUME NEW fs, NEW gs, Tree(fs), Tree(gs), NEW n \in Nat, n <= Len(fs), n <= Len(gs),
         \A i \in 1 .. n : fs[i] = gs[i]
  PROVE  GainIn(gs, n) = GainIn(fs, n)
  <1> DEFINE S == {i \in 1 .. n : ~RevertedIn(fs)[i]}
             f == [i \in DOMAIN fs |-> Gain(fs[i])]
             g == [i \in DOMAIN gs |-> Gain(gs[i])]
  <1>1. S = {i \in 1 .. n : ~RevertedIn(gs)[i]} /\ S \in SUBSET (1 .. n)
    <2>1. \A i \in 1 .. n : RevertedIn(fs)[i] <=> RevertedIn(gs)[i]
      BY RevertedAlike
    <2> QED
      BY <2>1
  <1>2. Integral(f, S) /\ \A i \in S : g[i] = f[i]
    <2>1. Integral(f, S) /\ \A i \in S : f[i] = Gain(fs[i]) /\ g[i] = Gain(gs[i]) /\ gs[i] = fs[i]
      BY <1>1, GainIsInt
    <2> QED
      BY <2>1
  <1> HIDE DEF f, g, S
  <1>3. SumFunctionOnSet(g, S) = SumFunctionOnSet(f, S)
    BY <1>2, SumOfSame
  <1> QED
    BY <1>1, <1>3 DEF GainIn, f, g, S

\* One more frame, not reverted, brings what it moves.
LEMMA GainOfMore ==
  ASSUME NEW fs, Tree(fs), NEW n \in Nat, n + 1 = Len(fs), ~RevertedIn(fs)[n + 1]
  PROVE  GainIn(fs, n) \in Int /\ GainIn(fs, n + 1) = Gain(fs[n + 1]) + GainIn(fs, n)
  <1> DEFINE S == {i \in 1 .. n : ~RevertedIn(fs)[i]}
             T == {i \in 1 .. n + 1 : ~RevertedIn(fs)[i]}
             f == [i \in DOMAIN fs |-> Gain(fs[i])]
  <1>1. T = S \cup {n + 1} /\ n + 1 \notin S /\ T \in SUBSET (1 .. n + 1) /\ n + 1 \in T
    OBVIOUS
  <1>2. Integral(f, T) /\ f[n + 1] = Gain(fs[n + 1])
    BY <1>1, GainIsInt
  <1> HIDE DEF f, S, T
  <1>3. SumFunctionOnSet(f, S) \in Int /\ SumFunctionOnSet(f, S \cup {n + 1}) = f[n + 1] + SumFunctionOnSet(f, S)
    BY <1>1, <1>2, SumOfMore
  <1> QED
    BY <1>1, <1>2, <1>3 DEF GainIn, f, S, T

\* Reverted frames bring nothing.
LEMMA GainOfReverted ==
  ASSUME NEW fs, NEW n \in Nat, NEW m \in Nat, n <= m, \A i \in n + 1 .. m : RevertedIn(fs)[i]
  PROVE  GainIn(fs, m) = GainIn(fs, n)
  <1>1. {i \in 1 .. m : ~RevertedIn(fs)[i]} = {i \in 1 .. n : ~RevertedIn(fs)[i]}
    OBVIOUS
  <1> QED
    BY <1>1 DEF GainIn

-----------------------------------------------------------------------------
\* The frames that are open, each within the one before, and the balances they
\* would be taken back to; all that was entered after one of them is below it.
StackInv ==
  /\ stack \in Seq(Nat) /\ saved \in Seq([Accounts -> Int]) /\ Len(saved) = Len(stack)
  /\ \A k \in 1 .. Len(stack) :
       /\ stack[k] \in 1 .. Len(frames) /\ ~frames[stack[k]].failed
       /\ ~RevertedIn(frames)[stack[k]]
       /\ saved[k][Target] = GainIn(frames, stack[k] - 1)
       /\ \A l \in 1 .. Len(stack) : k < l => stack[k] < stack[l]
       /\ \A i \in 1 .. Len(frames) : stack[k] < i => stack[k] <= frames[i].parent

\* The balance is what the frames that are not reverted brought.
TraceInv ==
  /\ Tree(frames) /\ StackInv
  /\ balance \in [Accounts -> Int] /\ balance[Target] = GainIn(frames, Len(frames))
  /\ answer # <<>> =>
       /\ frames # <<>> /\ stack = <<>>
       /\ answer = [side \in {"buy", "sell"} |-> Tracer!TraceNativeAmount(side)]

\* An open frame is one of the tree.
LEMMA OpenFrames ==
  ASSUME TraceInv
  PROVE  Len(stack) \in Nat /\ \A k \in 1 .. Len(stack) : stack[k] \in 1 .. Len(frames)
  <1>1. StackInv
    BY DEF TraceInv
  <1>2. stack \in Seq(Nat)
    BY <1>1 DEF StackInv
  <1>3. \A k \in 1 .. Len(stack) : stack[k] \in 1 .. Len(frames)
    BY <1>1, Zenon DEF StackInv
  <1>4. Len(stack) \in Nat
    BY <1>2
  <1> QED
    BY <1>3, <1>4

\* Nothing was called.
LEMMA InitTrace == ASSUME Tracer!TraceAssumption, Tracer!Init PROVE TraceInv
  <1>1. /\ frames = <<>> /\ stack = <<>> /\ saved = <<>> /\ answer = <<>>
        /\ balance = [a \in Accounts |-> 0] /\ Target \in Accounts
    BY DEF Tracer!Init, Tracer!TraceAssumption
  <1>2. Tree(frames)
    BY <1>1 DEF Tree
  <1>3. GainIn(frames, Len(frames)) = 0
    <2> DEFINE f == [i \in DOMAIN frames |-> Gain(frames[i])]
    <2>1. {i \in 1 .. Len(frames) : ~RevertedIn(frames)[i]} = {}
      BY <1>1
    <2>2. Integral(f, {})
      BY FS_EmptySet DEF Integral
    <2> HIDE DEF f
    <2>3. SumFunctionOnSet(f, {}) = 0
      BY <2>2, SumOfSome
    <2> QED
      BY <2>1, <2>3 DEF GainIn, f
  <1> QED
    BY <1>1, <1>2, <1>3 DEF TraceInv, StackInv

\* A frame is entered below the one that is open.
LEMMA EnterTrace ==
  ASSUME Tracer!TraceAssumption, TraceInv, answer = <<>>, NEW f \in Frames, Tracer!Enter(f), ~f.failed,
         f.parent = IF stack = <<>> THEN 0 ELSE stack[Len(stack)]
  PROVE  TraceInv'
  <1>1. PICK n \in Nat : n = Len(frames)
    BY TreeFacts DEF TraceInv
  <1>2. PICK m \in Nat : m = Len(stack)
    BY DEF TraceInv, StackInv
  <1>3. PICK fs : fs = frames'
    OBVIOUS
  <1>4. \A i \in 1 .. n : frames[i] \in Frames /\ frames[i].parent < i
    BY <1>1, TreeFacts DEF TraceInv
  <1>5. /\ Len(fs) = n + 1 /\ fs[n + 1] = f /\ \A i \in 1 .. n : fs[i] = frames[i]
        /\ fs \in Seq(Frames)
    <2>1. frames \in Seq(Frames) /\ fs = Append(frames, f)
      BY <1>3 DEF TraceInv, Tree, Tracer!Enter
    <2> HIDE DEF Frames
    <2> QED
      BY <1>1, <2>1
  <1>6. /\ stack' \in Seq(Nat) /\ saved' \in Seq([Accounts -> Int])
        /\ Len(stack') = m + 1 /\ Len(saved') = m + 1
        /\ stack'[m + 1] = n + 1 /\ saved'[m + 1] = balance
        /\ \A k \in 1 .. m : stack'[k] = stack[k] /\ saved'[k] = saved[k]
    <2>1. stack' = Append(stack, n + 1) /\ saved' = Append(saved, balance)
      BY <1>3, <1>5 DEF Tracer!Enter
    <2>2. /\ stack \in Seq(Nat) /\ saved \in Seq([Accounts -> Int])
          /\ Len(saved) = m /\ balance \in [Accounts -> Int]
      BY <1>2 DEF TraceInv, StackInv
    <2> QED
      BY <1>2, <2>1, <2>2
  <1>7. f.parent \in Nat /\ f.parent < n + 1
        /\ \A k \in 1 .. m : stack[k] <= f.parent
    <2>1. CASE stack = <<>>
      BY <1>2, <2>1
    <2>2. CASE stack # <<>>
      <3>1. m \in 1 .. m
        BY <1>2, <2>2 DEF TraceInv, StackInv
      <3>2. f.parent = stack[m] /\ stack[m] \in 1 .. n
        BY <1>1, <1>2, <2>2, <3>1 DEF TraceInv, StackInv
      <3>3. \A k \in 1 .. m : stack[k] \in 1 .. n /\ (k < m => stack[k] < stack[m])
        BY <1>1, <1>2, <3>1 DEF TraceInv, StackInv
      <3>4. \A k \in 1 .. m : k < m \/ k = m
        OBVIOUS
      <3> QED
        BY <3>2, <3>3, <3>4
    <2> QED
      BY <2>1, <2>2
  <1>8. Tree(frames) /\ Tree(fs)
    <2>1. \A i \in 1 .. Len(fs) : fs[i].parent < i
      <3>1. \A i \in 1 .. n + 1 : i \in 1 .. n \/ i = n + 1
        OBVIOUS
      <3> QED
        BY <1>4, <1>5, <1>7, <3>1
    <2> QED
      BY <1>5, <2>1 DEF Tree, TraceInv
  <1>9. \A j \in 0 .. n : GainIn(fs, j) = GainIn(frames, j)
    <2> SUFFICES ASSUME NEW j \in 0 .. n PROVE GainIn(fs, j) = GainIn(frames, j)
      OBVIOUS
    <2>1. j \in Nat /\ j <= Len(frames) /\ j <= Len(fs) /\ \A i \in 1 .. j : frames[i] = fs[i]
      BY <1>1, <1>5
    <2> QED
      BY <1>8, <2>1, GainAlike
  <1>10. \A i \in 1 .. n : RevertedIn(fs)[i] <=> RevertedIn(frames)[i]
    <2>1. n <= Len(frames) /\ n <= Len(fs) /\ \A i \in 1 .. n : fs[i] = frames[i]
      BY <1>1, <1>5
    <2> QED
      BY <1>8, <2>1, RevertedAlike
  <1>11. ~RevertedIn(fs)[n + 1]
    <2>1. /\ ~RevertedIn(fs)[0]
          /\ RevertedIn(fs)[n + 1] <=> fs[n + 1].failed \/ RevertedIn(fs)[fs[n + 1].parent]
      BY <1>5, <1>8, RevertedUnfolds
    <2>2. CASE stack = <<>>
      BY <1>5, <2>1, <2>2
    <2>3. CASE stack # <<>>
      <3>1. m \in 1 .. m
        BY <1>2, <2>3 DEF TraceInv, StackInv
      <3>2. f.parent = stack[m] /\ stack[m] \in 1 .. n /\ ~RevertedIn(frames)[stack[m]]
        BY <1>1, <1>2, <2>3, <3>1 DEF TraceInv, StackInv
      <3> QED
        BY <1>5, <1>10, <2>1, <3>2
    <2> QED
      BY <2>2, <2>3
  <1>12. GainIn(fs, n + 1) = Gain(f) + GainIn(fs, n) /\ GainIn(fs, n) \in Int
    BY <1>5, <1>8, <1>11, GainOfMore
  <1>13. balance' \in [Accounts -> Int] /\ balance'[Target] = balance[Target] + Gain(f)
    <2>1. balance \in [Accounts -> Int] /\ Target \in Accounts /\ f.value \in Nat
      BY DEF TraceInv, Tracer!TraceAssumption, Frames
    <2> HIDE DEF Frames
    <2> QED
      BY <2>1 DEF Tracer!Enter, Gain, Tracer!Delta
  <1>14. balance'[Target] = GainIn(fs, n + 1) /\ balance[Target] = GainIn(frames, n)
    <2>1. balance[Target] = GainIn(frames, n) /\ GainIn(fs, n) = GainIn(frames, n)
      BY <1>1, <1>9 DEF TraceInv
    <2>2. Gain(f) \in Int
      <3>1. f.value \in Nat
        BY DEF Frames
      <3> QED
        BY <3>1 DEF Gain, Tracer!Delta
    <2> QED
      BY <1>12, <1>13, <2>1, <2>2
  <1>15. StackInv'
    <2>1. ASSUME NEW k \in 1 .. m + 1
          PROVE  /\ stack'[k] \in 1 .. n + 1 /\ ~fs[stack'[k]].failed
                 /\ ~RevertedIn(fs)[stack'[k]]
                 /\ saved'[k][Target] = GainIn(fs, stack'[k] - 1)
                 /\ \A l \in 1 .. m + 1 : k < l => stack'[k] < stack'[l]
                 /\ \A i \in 1 .. n + 1 : stack'[k] < i => stack'[k] <= fs[i].parent
      <3>1. CASE k \in 1 .. m
        <4>1. /\ stack'[k] = stack[k] /\ saved'[k] = saved[k]
              /\ stack[k] \in 1 .. n /\ ~frames[stack[k]].failed
              /\ ~RevertedIn(frames)[stack[k]]
              /\ saved[k][Target] = GainIn(frames, stack[k] - 1)
              /\ \A l \in 1 .. m : k < l => stack[k] < stack[l]
              /\ \A i \in 1 .. n : stack[k] < i => stack[k] <= frames[i].parent
          BY <1>1, <1>2, <1>6, <3>1 DEF TraceInv, StackInv
        <4>2. stack[k] - 1 \in 0 .. n /\ stack[k] <= n
          BY <4>1
        <4>3. \A l \in 1 .. m + 1 : k < l => stack'[k] < stack'[l]
          <5>1. ASSUME NEW l \in 1 .. m, k < l PROVE stack'[k] < stack'[l]
            <6>1. stack'[k] = stack[k] /\ stack'[l] = stack[l] /\ stack[k] < stack[l]
              BY <1>6, <4>1, <5>1
            <6> QED
              BY <6>1
          <5>2. stack'[k] < stack'[m + 1]
            BY <1>6, <4>1, <4>2
          <5>3. \A l \in 1 .. m + 1 : l \in 1 .. m \/ l = m + 1
            BY <3>1
          <5> QED
            BY <5>1, <5>2, <5>3
        <4>4. \A i \in 1 .. n + 1 : stack'[k] < i => stack'[k] <= fs[i].parent
          BY <1>5, <1>7, <3>1, <4>1
        <4>5. saved'[k][Target] = GainIn(fs, stack'[k] - 1)
          BY <1>9, <4>1, <4>2
        <4>6. ~fs[stack'[k]].failed /\ ~RevertedIn(fs)[stack'[k]] /\ stack'[k] \in 1 .. n + 1
          BY <1>5, <1>10, <4>1, <4>2
        <4> QED
          BY <4>3, <4>4, <4>5, <4>6
      <3>2. CASE k = m + 1
        <4>1. stack'[k] = n + 1 /\ saved'[k][Target] = balance[Target]
          BY <1>6, <3>2
        <4>2. saved'[k][Target] = GainIn(fs, stack'[k] - 1)
          <5>1. (n + 1) - 1 = n /\ n \in 0 .. n
            OBVIOUS
          <5> QED
            BY <1>9, <1>14, <4>1, <5>1
        <4> QED
          BY <1>5, <1>11, <3>2, <4>1, <4>2
      <3> QED
        BY <3>1, <3>2
    <2>2. frames' = fs
      BY <1>3
    <2> QED
      BY <1>5, <1>6, <2>1, <2>2 DEF StackInv
  <1> QED
    BY <1>3, <1>5, <1>8, <1>13, <1>14, <1>15 DEF TraceInv, Tracer!Enter

\* A frame is left. When it failed, all that was entered since is reverted.
LEMMA LeaveTrace ==
  ASSUME TraceInv, NEW failed \in BOOLEAN, Tracer!Leave(failed)
  PROVE  TraceInv'
  <1>1. PICK n \in Nat : n = Len(frames)
    BY TreeFacts DEF TraceInv
  <1>2. PICK m \in Nat : m = Len(stack)
    BY DEF TraceInv, StackInv
  <1>3. PICK fs : fs = frames'
    OBVIOUS
  <1>4. m \in 1 .. m /\ m - 1 \in Nat /\ stack # <<>>
    BY <1>2 DEF Tracer!Leave, TraceInv, StackInv
  <1>5. PICK f \in 1 .. n : f = stack[m]
    BY <1>1, <1>2, <1>4 DEF TraceInv, StackInv
  <1>6. /\ ~frames[f].failed /\ ~RevertedIn(frames)[f]
        /\ saved[m][Target] = GainIn(frames, f - 1)
        /\ \A i \in 1 .. n : f < i => f <= frames[i].parent
        /\ \A k \in 1 .. m - 1 : stack[k] \in 1 .. f - 1
    <2>1. \A k \in 1 .. m - 1 : k \in 1 .. m /\ k < m
      BY <1>4
    <2>2. \A k \in 1 .. m - 1 : stack[k] \in 1 .. n /\ stack[k] < f
      BY <1>1, <1>2, <1>4, <1>5, <2>1 DEF TraceInv, StackInv
    <2> QED
      BY <1>1, <1>2, <1>4, <1>5, <2>2, SMTT(20) DEF TraceInv, StackInv
  <1>7. \A i \in 1 .. n : frames[i] \in Frames /\ frames[i].parent < i
    BY <1>1, TreeFacts DEF TraceInv
  <1>8. /\ Len(fs) = n /\ fs \in Seq(Frames) /\ \A i \in 1 .. n : i # f => fs[i] = frames[i]
        /\ fs[f].parent = frames[f].parent /\ fs[f].failed = failed
        /\ failed \/ fs = frames
    <2>1. fs = [frames EXCEPT ![f].failed = failed] /\ frames \in Seq(Frames)
      BY <1>2, <1>3, <1>5 DEF Tracer!Leave, TraceInv, Tree, Tracer!Last
    <2>2. /\ [frames[f] EXCEPT !.failed = failed] \in Frames
          /\ [frames[f] EXCEPT !.failed = failed].parent = frames[f].parent
          /\ [frames[f] EXCEPT !.failed = failed].failed = failed
          /\ failed \/ ([frames[f] EXCEPT !.failed = failed] = frames[f])
      <3>1. frames[f] \in Frames /\ ~frames[f].failed
        BY <1>6, <1>7
      <3> QED
        BY <3>1 DEF Frames
    <2> HIDE DEF Frames
    <2>3. fs = [frames EXCEPT ![f] = [frames[f] EXCEPT !.failed = failed]]
      BY <2>1
    <2>4. Len(fs) = n /\ fs \in Seq(Frames) /\ \A i \in 1 .. n : i # f => fs[i] = frames[i]
      BY <1>1, <2>1, <2>2, <2>3
    <2>5. fs[f] = [frames[f] EXCEPT !.failed = failed]
      BY <1>1, <2>1, <2>3
    <2>6. failed \/ fs = frames
      <3>1. CASE ~failed
        <4>1. [frames[f] EXCEPT !.failed = failed] = frames[f]
          BY <2>2, <3>1
        <4> QED
          BY <1>1, <2>1, <2>3, <4>1
      <3> QED
        BY <3>1
    <2> QED
      BY <2>2, <2>4, <2>5, <2>6
  <1>9. Tree(frames) /\ Tree(fs)
    BY <1>7, <1>8 DEF Tree, TraceInv
  <1>10. \A j \in 0 .. f - 1 : GainIn(fs, j) = GainIn(frames, j)
    <2> SUFFICES ASSUME NEW j \in 0 .. f - 1 PROVE GainIn(fs, j) = GainIn(frames, j)
      OBVIOUS
    <2>1. j \in Nat /\ j <= Len(frames) /\ j <= Len(fs) /\ \A i \in 1 .. j : frames[i] = fs[i]
      BY <1>1, <1>8
    <2> QED
      BY <1>9, <2>1, GainAlike
  <1>11. \A i \in 1 .. f - 1 : RevertedIn(fs)[i] <=> RevertedIn(frames)[i]
    <2>1. f - 1 \in Nat /\ f - 1 <= Len(frames) /\ f - 1 <= Len(fs)
          /\ \A i \in 1 .. f - 1 : fs[i] = frames[i]
      BY <1>1, <1>8
    <2> QED
      BY <1>9, <2>1, RevertedAlike
  <1>12. /\ stack' \in Seq(Nat) /\ saved' \in Seq([Accounts -> Int])
         /\ Len(stack') = m - 1 /\ Len(saved') = m - 1
         /\ \A k \in 1 .. m - 1 : stack'[k] = stack[k] /\ saved'[k] = saved[k]
    <2>1. stack' = SubSeq(stack, 1, m - 1) /\ saved' = SubSeq(saved, 1, m - 1)
      BY <1>2 DEF Tracer!Leave, TraceInv, StackInv, Tracer!Front
    <2>2. stack \in Seq(Nat) /\ saved \in Seq([Accounts -> Int]) /\ Len(saved) = m /\ Len(stack) = m
      BY <1>2 DEF TraceInv, StackInv
    <2> QED
      BY <1>4, <2>1, <2>2
  <1>13. balance' \in [Accounts -> Int] /\ balance'[Target] = GainIn(fs, n)
    <2>1. CASE failed
      <3>1. balance' = saved[m] /\ saved[m] \in [Accounts -> Int]
        BY <1>2, <1>4, <2>1 DEF Tracer!Leave, TraceInv, StackInv, Tracer!Last
      <3>2. \A i \in f .. n : RevertedIn(fs)[i]
        <4>1. fs[f].failed /\ f \in 1 .. Len(fs) /\ \A i \in 1 .. Len(fs) : f < i => f <= fs[i].parent
          BY <1>6, <1>8, <2>1
        <4> QED
          BY <1>8, <1>9, <4>1, RevertedBelow
      <3>3. GainIn(fs, n) = GainIn(fs, f - 1)
        <4>1. f - 1 \in Nat /\ f - 1 <= n /\ (f - 1) + 1 = f
          OBVIOUS
        <4> QED
          BY <3>2, <4>1, GainOfReverted
      <3>4. GainIn(fs, f - 1) = GainIn(frames, f - 1)
        <4>1. f - 1 \in 0 .. f - 1
          OBVIOUS
        <4> QED
          BY <1>10, <4>1
      <3> QED
        BY <1>6, <3>1, <3>3, <3>4
    <2>2. CASE ~failed
      BY <1>1, <1>8, <2>2 DEF Tracer!Leave, TraceInv
    <2> QED
      BY <2>1, <2>2
  <1>14. StackInv'
    <2>1. ASSUME NEW k \in 1 .. m - 1
          PROVE  /\ stack'[k] \in 1 .. n /\ ~fs[stack'[k]].failed
                 /\ ~RevertedIn(fs)[stack'[k]]
                 /\ saved'[k][Target] = GainIn(fs, stack'[k] - 1)
                 /\ \A l \in 1 .. m - 1 : k < l => stack'[k] < stack'[l]
                 /\ \A i \in 1 .. n : stack'[k] < i => stack'[k] <= fs[i].parent
      <3>1. k \in 1 .. m
        BY <1>4
      <3>2. /\ stack'[k] = stack[k] /\ saved'[k] = saved[k]
            /\ stack[k] \in 1 .. f - 1 /\ ~frames[stack[k]].failed
            /\ ~RevertedIn(frames)[stack[k]]
            /\ saved[k][Target] = GainIn(frames, stack[k] - 1)
            /\ \A l \in 1 .. m : k < l => stack[k] < stack[l]
            /\ \A i \in 1 .. n : stack[k] < i => stack[k] <= frames[i].parent
        BY <1>1, <1>2, <1>6, <1>12, <3>1 DEF TraceInv, StackInv
      <3>3. stack[k] - 1 \in 0 .. f - 1 /\ stack[k] \in 1 .. n /\ stack[k] # f
        BY <3>2
      <3>4. \A l \in 1 .. m - 1 : k < l => stack'[k] < stack'[l]
        <4>1. \A l \in 1 .. m - 1 : l \in 1 .. m
          BY <1>4
        <4> QED
          BY <1>12, <3>2, <4>1
      <3>5. \A i \in 1 .. n : stack'[k] < i => stack'[k] <= fs[i].parent
        <4>1. \A i \in 1 .. n : fs[i].parent = frames[i].parent
          BY <1>8
        <4> QED
          BY <3>2, <4>1
      <3>6. saved'[k][Target] = GainIn(fs, stack'[k] - 1)
        BY <1>10, <3>2, <3>3
      <3>7. ~fs[stack'[k]].failed /\ ~RevertedIn(fs)[stack'[k]] /\ stack'[k] \in 1 .. n
        BY <1>8, <1>11, <3>2, <3>3
      <3> QED
        BY <3>4, <3>5, <3>6, <3>7
    <2>2. frames' = fs
      BY <1>3
    <2> QED
      BY <1>8, <1>12, <2>1, <2>2 DEF StackInv
  <1>15. answer' = <<>>
    BY <1>4 DEF Tracer!Leave, TraceInv
  <1> QED
    BY <1>3, <1>8, <1>9, <1>13, <1>14, <1>15 DEF TraceInv

\* The answer is of the tree as it is then and stays.
LEMMA TraceTrace == ASSUME TraceInv, Tracer!Trace PROVE TraceInv'
  <1>1. /\ frames' = frames /\ stack' = stack /\ saved' = saved /\ balance' = balance
        /\ frames # <<>> /\ stack = <<>>
        /\ answer' = [side \in {"buy", "sell"} |-> Tracer!TraceNativeAmount(side)]
    BY DEF Tracer!Trace
  <1>2. StackInv'
    BY <1>1 DEF TraceInv, StackInv
  <1>3. \A side \in {"buy", "sell"} : Tracer!TraceNativeAmount(side)' = Tracer!TraceNativeAmount(side)
    BY <1>1 DEF Tracer!TraceNativeAmount, Tracer!TooLarge, Tracer!Depth, Tracer!FitsSide,
                Tracer!NativeNet, Tracer!Counts, Tracer!Reverted
  <1> QED
    BY <1>1, <1>2, <1>3 DEF TraceInv, Tree

\* The module's own copies of the sum and of the recursion.
LEMMA TracerCopies ==
  /\ \A f, S : Tracer!SumFunctionOnSet(f, S) = SumFunctionOnSet(f, S)
  /\ Tracer!Reverted = RevertedIn(frames)
  <1>1. \A f, S : Tracer!SumFunctionOnSet(f, S) = SumFunctionOnSet(f, S)
    BY Zenon DEF Tracer!SumFunctionOnSet, Tracer!FoldFunctionOnSet, Tracer!MapThenFoldSet,
                 SumFunctionOnSet, FoldFunctionOnSet, MapThenFoldSet
  <1>2. Tracer!Reverted = RevertedIn(frames)
    BY Zenon DEF Tracer!Reverted, RevertedIn
  <1> QED
    BY <1>1, <1>2

\* Every step of the transaction and of the trace preserves the invariant.
LEMMA NextTrace == ASSUME Tracer!TraceAssumption, TraceInv, Tracer!Next PROVE TraceInv'
  <1>1. CASE Tracer!Begin
    <2>1. PICK from \in Accounts, to \in Accounts, value \in Values :
            Tracer!Enter([parent |-> 0, kind |-> "CALL", from |-> from, to |-> to,
                          value |-> value, failed |-> FALSE])
      BY <1>1 DEF Tracer!Begin
    <2> DEFINE f == [parent |-> 0, kind |-> "CALL", from |-> from, to |-> to,
                     value |-> value, failed |-> FALSE]
    <2>2. f \in Frames /\ ~f.failed /\ f.parent = 0
      BY DEF Frames, Tracer!Kinds, Tracer!TraceAssumption
    <2>3. answer = <<>> /\ stack = <<>>
      <3>1. frames = <<>> /\ Len(frames) = 0
        BY <1>1 DEF Tracer!Begin
      <3>2. Len(stack) \in Nat /\ \A k \in 1 .. Len(stack) : stack[k] \in 1 .. Len(frames)
        BY OpenFrames
      <3>3. Len(stack) = 0
        BY <3>1, <3>2
      <3> QED
        BY <3>1, <3>3 DEF TraceInv, StackInv
    <2> HIDE DEF f
    <2>4. Tracer!Enter(f)
      BY <2>1 DEF f
    <2> QED
      BY <2>2, <2>3, <2>4, EnterTrace
  <1>2. CASE Tracer!Call
    <2> DEFINE p == Tracer!Last(stack)
    <2>1. PICK kind \in Tracer!Kinds, to \in Accounts, value \in Values \cup {0} :
            Tracer!Enter([parent |-> p, kind |-> kind, from |-> Tracer!Acts(frames[p]), to |-> to,
                          value |-> value, failed |-> FALSE])
      BY <1>2 DEF Tracer!Call
    <2> DEFINE f == [parent |-> p, kind |-> kind, from |-> Tracer!Acts(frames[p]), to |-> to,
                     value |-> value, failed |-> FALSE]
    <2>2. stack # <<>> /\ p = stack[Len(stack)] /\ p \in 1 .. Len(frames)
      <3>1. stack # <<>> /\ p = stack[Len(stack)]
        BY <1>2 DEF Tracer!Call, Tracer!Last
      <3>2. Len(stack) \in 1 .. Len(stack)
        BY <3>1 DEF TraceInv, StackInv
      <3> QED
        BY <3>1, <3>2 DEF TraceInv, StackInv
    <2> HIDE DEF p
    <2>3. frames[p] \in Frames /\ p \in Nat
      BY <2>2, TreeFacts DEF TraceInv
    <2>4. f \in Frames /\ ~f.failed /\ f.parent = p
      <3>1. Tracer!Acts(frames[p]) \in Accounts
        BY <2>3 DEF Frames, Tracer!Acts
      <3>2. value \in Nat
        BY DEF Tracer!TraceAssumption
      <3> QED
        BY <2>3, <3>1, <3>2 DEF Frames
    <2>5. answer = <<>>
      BY <2>2 DEF TraceInv
    <2> HIDE DEF f
    <2>6. Tracer!Enter(f)
      BY <2>1 DEF f
    <2> QED
      BY <2>2, <2>4, <2>5, <2>6, EnterTrace
  <1>3. CASE \E failed \in BOOLEAN : Tracer!Leave(failed)
    BY <1>3, LeaveTrace
  <1>4. CASE Tracer!Trace
    BY <1>4, TraceTrace
  <1> QED
    BY <1>1, <1>2, <1>3, <1>4 DEF Tracer!Next

\* The frames that count are those that bring something: of the others, borrowed
\* code and calls without value bring nothing, and nothing was inherited.
LEMMA NetIsGain ==
  ASSUME TraceInv, ~Tracer!Inherits
  PROVE  Tracer!NativeNet = GainIn(frames, Len(frames))
  <1> DEFINE n == Len(frames)
             d == [i \in DOMAIN frames |-> Tracer!Delta(frames[i])]
             g == [i \in DOMAIN frames |-> Gain(frames[i])]
             S == {i \in 1 .. n : ~RevertedIn(frames)[i]}
             C == {i \in 1 .. n : Tracer!Counts(i)}
  <1>1. n \in Nat /\ DOMAIN frames = 1 .. n /\ \A i \in 1 .. n : frames[i] \in Frames
    BY TreeFacts DEF TraceInv
  <1>2. Tracer!NativeNet = SumFunctionOnSet(d, C)
    BY TracerCopies, Zenon DEF Tracer!NativeNet
  <1>3. S \in SUBSET (1 .. n) /\ Integral(g, S) /\ \A i \in S : g[i] = Gain(frames[i])
    <2>1. n <= Len(frames)
      BY <1>1
    <2> QED
      BY <1>1, <2>1, GainIsInt DEF TraceInv
  <1>4. C \in SUBSET S
    BY TracerCopies DEF Tracer!Counts
  <1>5. Integral(g, C) /\ Integral(g, S \ C)
    BY <1>3, <1>4, FS_Subset DEF Integral
  <1>6. \A i \in C : d[i] = g[i]
    <2>1. \A i \in C : i \in DOMAIN frames /\ frames[i].kind = "CALL"
      BY <1>1 DEF Tracer!Counts
    <2> QED
      BY <2>1 DEF Gain, Tracer!Moves
  <1>7. \A i \in S \ C : g[i] = 0
    <2> SUFFICES ASSUME NEW i \in S \ C PROVE g[i] = 0
      OBVIOUS
    <2>1. /\ i \in 1 .. n /\ ~RevertedIn(frames)[i] /\ g[i] = Gain(frames[i])
          /\ ~(frames[i].value > 0 /\ frames[i].kind = "CALL")
      BY <1>3, TracerCopies DEF Tracer!Counts
    <2>2. frames[i].value \in Nat
      BY <1>1, <2>1 DEF Frames
    <2>3. CASE frames[i].kind = "CALL"
      <3>1. frames[i].value = 0
        BY <2>1, <2>2, <2>3
      <3> QED
        BY <2>1, <3>1 DEF Gain, Tracer!Delta
    <2>4. CASE frames[i].kind = "SELFDESTRUCT"
      <3>1. Target # frames[i].from /\ Target # frames[i].to
        BY <2>1, <2>4, TracerCopies DEF Tracer!Inherits
      <3> QED
        BY <2>1, <3>1 DEF Gain, Tracer!Delta
    <2>5. CASE frames[i].kind \notin {"CALL", "SELFDESTRUCT"}
      BY <2>1, <2>5 DEF Gain, Tracer!Moves
    <2> QED
      BY <2>3, <2>4, <2>5
  <1>8. IsFiniteSet(S \ C)
    BY <1>5 DEF Integral
  <1> HIDE DEF d, g, S, C, n
  <1>9. SumFunctionOnSet(d, C) = SumFunctionOnSet(g, C)
    BY <1>5, <1>6, SumOfSame
  <1>10. SumFunctionOnSet(g, S) = SumFunctionOnSet(g, C) + SumFunctionOnSet(g, S \ C)
    <2>1. Integral(g, S)
      BY <1>3
    <2>2. \A R \in SUBSET S : SumFunctionOnSet(g, S) = SumFunctionOnSet(g, R) + SumFunctionOnSet(g, S \ R)
      BY <2>1, SumOfParts
    <2> QED
      BY <1>4, <2>2
  <1>11. SumFunctionOnSet(g, S \ C) = 0
    BY <1>7, <1>8, SumOfZeros
  <1>12. SumFunctionOnSet(g, C) \in Int
    BY <1>5, SumOfSome
  <1>13. SumFunctionOnSet(d, C) = SumFunctionOnSet(g, S)
    BY <1>9, <1>10, <1>11, <1>12
  <1> QED
    BY <1>2, <1>13, Zenon DEF GainIn, n, g, S

\* What the balance is, the answers are.
LEMMA TraceTells ==
  ASSUME TraceInv, Tracer!TraceAssumption
  PROVE  Tracer!NetIsBalanceChange /\ Tracer!AmountFitsSide /\ Tracer!AmountIsFound
  <1>1. Tracer!NetIsBalanceChange
    BY NetIsGain DEF TraceInv, Tracer!NetIsBalanceChange, Tracer!Told
  <1>2. balance[Target] \in Int
    BY DEF TraceInv, Tracer!TraceAssumption
  <1>3. ASSUME Tracer!Told
        PROVE  /\ Tracer!NativeNet = balance[Target]
               /\ answer["buy"] = Tracer!TraceNativeAmount("buy")
               /\ answer["sell"] = Tracer!TraceNativeAmount("sell")
    <2>1. answer = [side \in {"buy", "sell"} |-> Tracer!TraceNativeAmount(side)]
      BY <1>3 DEF Tracer!Told, Tracer!Answered, TraceInv
    <2> QED
      BY <1>1, <1>3, <2>1 DEF Tracer!NetIsBalanceChange
  <1>4. Tracer!AmountFitsSide
    BY <1>2, <1>3 DEF Tracer!AmountFitsSide, Tracer!TraceNativeAmount, Tracer!FitsSide, Tracer!None
  <1>5. Tracer!AmountIsFound
    BY <1>2, <1>3 DEF Tracer!AmountIsFound, Tracer!TraceNativeAmount, Tracer!FitsSide, Tracer!None
  <1> QED
    BY <1>1, <1>4, <1>5

\* As long as the transaction and its trace stand still.
LEMMA RestTrace == ASSUME TraceInv, UNCHANGED traceVars PROVE TraceInv'
  <1>1. /\ frames' = frames /\ stack' = stack /\ saved' = saved /\ balance' = balance
        /\ answer' = answer
    BY DEF traceVars
  <1>2. \A side \in {"buy", "sell"} : Tracer!TraceNativeAmount(side)' = Tracer!TraceNativeAmount(side)
    BY <1>1 DEF Tracer!TraceNativeAmount, Tracer!TooLarge, Tracer!Depth, Tracer!FitsSide,
                Tracer!NativeNet, Tracer!Counts, Tracer!Reverted
  <1> QED
    BY <1>1, <1>2 DEF TraceInv, StackInv, Tree

\* The amount that is recorded for a trade in ETH is what the user's balance changed
\* by, for every tree of calls that the EVM can run: any number and depth of calls,
\* failures caught at any level, borrowed code (accumulateNativeNet). Where a
\* destroyed contract paid the user the code does not claim so, nor does this.
THEOREM TraceIsAlwaysTrue == RecordsSpec => []TraceIsTrue
  <1>1. RecordsInit => TraceInv
    BY RecordsAssumption, InitTrace DEF RecordsInit
  <1>2. TraceInv /\ [RecordsNext]_recordsVars => TraceInv'
    <2> SUFFICES ASSUME TraceInv, [RecordsNext]_recordsVars PROVE TraceInv'
      OBVIOUS
    <2>1. Tracer!Next \/ UNCHANGED traceVars
      BY DEF RecordsNext, recordsVars
    <2> QED
      BY <2>1, RecordsAssumption, NextTrace, RestTrace
  <1>3. TraceInv => TraceIsTrue
    BY RecordsAssumption, TraceTells DEF TraceIsTrue
  <1> QED
    BY <1>1, <1>2, <1>3, PTL DEF RecordsSpec

-----------------------------------------------------------------------------
(* Pages *)

Rows == [token : Tokens, category : Categories, at : Nat]

\* A finite set of launches, each of another token.
Launched(R) == R \in SUBSET Rows /\ IsFiniteSet(R) /\ \A r, s \in R : r.token = s.token => r = s

\* The n newest rows of R, the newest first.
IsPage(page, R, n) ==
  /\ page \in [1 .. n -> R]
  /\ \A i, j \in 1 .. n : i < j => Query!Newer(page[i], page[j])
  /\ \A r \in R \ Range(page) : \A i \in 1 .. n : Query!Newer(page[i], r)

InCategory(R, c) == {r \in R : c \in {"", r.category}}

RowIn(R, t) == CHOOSE r \in R : r.token = t

\* The module's own copies of the operators.
LEMMA QueryCopies ==
  /\ \A S : Query!Cardinality(S) = Cardinality(S)
  /\ \A S : Query!IsFiniteSet(S) <=> IsFiniteSet(S)
  /\ \A f : Query!Range(f) = Range(f)
  /\ \A t : Query!RowOf(t) = RowIn(launches, t)
  /\ \A c : Query!OfCategory(c) = InCategory(launches, c)
  /\ \A a, b \in Nat : Query!Min({a, b}) = IF a < b THEN a ELSE b
  <1>1. \A S : Query!Cardinality(S) = Cardinality(S)
    BY Zenon DEF Query!Cardinality, Cardinality
  <1>2. \A S : Query!IsFiniteSet(S) <=> IsFiniteSet(S)
    BY Zenon DEF Query!IsFiniteSet, IsFiniteSet
  <1>3. \A f : Query!Range(f) = Range(f)
    BY Zenon DEF Query!Range, Range
  <1>4. \A t : Query!RowOf(t) = RowIn(launches, t)
    BY Zenon DEF Query!RowOf, RowIn
  <1>5. \A a, b \in Nat : Query!Min({a, b}) = IF a < b THEN a ELSE b
    BY DEF Query!Min
  <1>6. \A c : Query!OfCategory(c) = InCategory(launches, c)
    BY Zenon DEF Query!OfCategory, InCategory
  <1> QED
    BY <1>1, <1>2, <1>3, <1>4, <1>5, <1>6

\* The order of rows is that of two numbers.
LEMMA NewerIsOrder ==
  ASSUME Query!QueriesAssumption
  PROVE  /\ \A r \in Rows : r.at \in Nat /\ r.token \in Nat \ {0} /\ ~Query!Newer(r, r)
         /\ \A r, s, t \in Rows : Query!Newer(r, s) /\ Query!Newer(s, t) => Query!Newer(r, t)
         /\ \A r, s \in Rows : r.token # s.token => Query!Newer(r, s) \/ Query!Newer(s, r)
  <1>1. \A r \in Rows : r.at \in Nat /\ r.token \in Nat \ {0}
    BY DEF Rows, Query!QueriesAssumption
  <1> HIDE DEF Rows
  <1> QED
    BY <1>1 DEF Query!Newer

\* The row of a token is the one.
LEMMA RowIsFound == ASSUME NEW R, Launched(R), NEW r \in R PROVE RowIn(R, r.token) = r
  BY DEF RowIn, Launched

\* Part of the rows are rows of different tokens too.
LEMMA LaunchedPart == ASSUME NEW R, Launched(R), NEW S \in SUBSET R PROVE Launched(S)
  BY FS_Subset DEF Launched

\* One of the rows is newer than all others.
LEMMA NewestOf ==
  ASSUME Query!QueriesAssumption, NEW R, Launched(R), R # {}
  PROVE  \E r \in R : \A s \in R \ {r} : Query!Newer(r, s)
  <1> DEFINE G == {T \in SUBSET R : T = {} \/ \E r \in T : \A s \in T \ {r} : Query!Newer(r, s)}
  <1>1. {} \in G /\ IsFiniteSet(R) /\ R \in SUBSET Rows
    BY DEF Launched
  <1>2. ASSUME NEW T \in SUBSET R, NEW x \in R, T \in G, x \notin T PROVE T \cup {x} \in G
    <2>1. CASE T = {}
      BY <2>1
    <2>2. CASE T # {}
      <3>1. PICK r \in T : \A s \in T \ {r} : Query!Newer(r, s)
        BY <1>2, <2>2
      <3>2. r \in Rows /\ x \in Rows /\ r.token # x.token /\ \A s \in T : s \in Rows
        BY <1>1, <1>2 DEF Launched
      <3>3. CASE Query!Newer(r, x)
        BY <3>1, <3>3
      <3>4. CASE Query!Newer(x, r)
        <4>1. \A s \in T : Query!Newer(x, s)
          BY <3>1, <3>2, <3>4, NewerIsOrder
        <4> QED
          BY <4>1
      <3> QED
        BY <3>2, <3>3, <3>4, NewerIsOrder
    <2> QED
      BY <2>1, <2>2
  <1>3. SUBSET R \subseteq G
    <2> HIDE DEF G
    <2> QED
      BY <1>1, <1>2, EverySubset
  <1> QED
    BY <1>3

\* There is a page of any length up to the number of the rows.
LEMMA PageExists ==
  ASSUME Query!QueriesAssumption, NEW R, Launched(R), NEW n \in Nat, n <= Cardinality(R)
  PROVE  \E page : IsPage(page, R, n)
  <1> DEFINE H == {k \in Nat : \A S \in SUBSET R, m \in Nat :
                     Cardinality(S) = k /\ m <= k => \E page : IsPage(page, S, m)}
  <1>1. \A S \in SUBSET R : Launched(S) /\ IsFiniteSet(S) /\ Cardinality(S) \in Nat
    BY LaunchedPart, FS_CardinalityType DEF Launched
  <1>2. \A S : IsPage(<<>>, S, 0)
    <2> SUFFICES ASSUME NEW S PROVE IsPage(<<>>, S, 0)
      OBVIOUS
    <2>1. 1 .. 0 = {} /\ <<>> \in [1 .. 0 -> S]
      BY SMT
    <2> QED
      BY <2>1 DEF IsPage
  <1>3. 0 \in H
    <2>1. \A m \in Nat : m <= 0 => m = 0
      OBVIOUS
    <2> QED
      BY <1>2, <2>1
  <1>4. ASSUME NEW k \in Nat, k \in H PROVE k + 1 \in H
    <2> SUFFICES ASSUME NEW S \in SUBSET R, NEW m \in Nat, Cardinality(S) = k + 1, m <= k + 1
                 PROVE  \E page : IsPage(page, S, m)
      OBVIOUS
    <2>1. CASE m = 0
      BY <1>2, <2>1
    <2>2. CASE m # 0
      <3>1. S # {}
        BY FS_EmptySet
      <3>2. PICK r \in S : \A s \in S \ {r} : Query!Newer(r, s)
        BY <1>1, <3>1, NewestOf
      <3>3. S \ {r} \in SUBSET R /\ Cardinality(S \ {r}) = k
        <4>1. Cardinality(S \ {r}) = Cardinality(S) - 1
          BY <1>1, FS_RemoveElement
        <4> QED
          BY <4>1
      <3>4. m - 1 \in Nat /\ m - 1 <= k
        BY <2>2
      <3>5. PICK p : IsPage(p, S \ {r}, m - 1)
        BY <1>4, <3>3, <3>4
      <3> DEFINE q == [i \in 1 .. m |-> IF i = 1 THEN r ELSE p[i - 1]]
      <3>6. /\ \A i \in 1 .. m - 1 : p[i] \in S \ {r}
            /\ \A i, j \in 1 .. m - 1 : i < j => Query!Newer(p[i], p[j])
            /\ \A s \in (S \ {r}) \ Range(p) : \A i \in 1 .. m - 1 : Query!Newer(p[i], s)
            /\ DOMAIN p = 1 .. m - 1
        BY <3>5 DEF IsPage
      <3>7. /\ q \in [1 .. m -> S] /\ q[1] = r
            /\ \A i \in 2 .. m : i - 1 \in 1 .. m - 1 /\ q[i] = p[i - 1]
        BY <2>2, <3>6
      <3> HIDE DEF q
      <3>8. \A i, j \in 1 .. m : i < j => Query!Newer(q[i], q[j])
        <4> SUFFICES ASSUME NEW i \in 1 .. m, NEW j \in 1 .. m, i < j PROVE Query!Newer(q[i], q[j])
          OBVIOUS
        <4>1. j \in 2 .. m /\ q[j] \in S \ {r}
          BY <3>6, <3>7
        <4>2. CASE i = 1
          BY <3>2, <3>7, <4>1, <4>2
        <4>3. CASE i # 1
          <5>1. i \in 2 .. m /\ i - 1 < j - 1
            BY <4>3
          <5> QED
            BY <3>6, <3>7, <4>1, <5>1
        <4> QED
          BY <4>2, <4>3
      <3>9. ASSUME NEW s \in S \ Range(q), NEW i \in 1 .. m PROVE Query!Newer(q[i], s)
        <4>1. \A j \in 1 .. m : s # q[j]
          BY <3>7, <3>9 DEF Range
        <4>2. s \in S \ {r}
          BY <2>2, <3>7, <4>1
        <4>3. s \notin Range(p)
          <5> SUFFICES ASSUME NEW j \in 1 .. m - 1, s = p[j] PROVE FALSE
            BY <3>6 DEF Range
          <5>1. j + 1 \in 2 .. m /\ j + 1 \in 1 .. m /\ (j + 1) - 1 = j
            OBVIOUS
          <5>2. q[j + 1] = s
            BY <3>7, <5>1
          <5>3. q[j + 1] # s
            BY <4>1, <5>1
          <5> QED
            BY <5>2, <5>3
        <4>4. CASE i = 1
          BY <3>2, <3>7, <4>2, <4>4
        <4>5. CASE i # 1
          <5>1. i \in 2 .. m
            BY <4>5
          <5> QED
            BY <3>6, <3>7, <4>2, <4>3, <5>1
        <4> QED
          BY <4>4, <4>5
      <3> QED
        BY <3>7, <3>8, <3>9 DEF IsPage
    <2> QED
      BY <2>1, <2>2
  <1>5. Nat \subseteq H
    <2> HIDE DEF H
    <2> QED
      BY <1>3, <1>4, EveryNat
  <1> QED
    BY <1>1, <1>5

\* A page that is not full has all rows.
LEMMA LastPage ==
  ASSUME Query!QueriesAssumption, NEW R, Launched(R), NEW page, IsPage(page, R, Cardinality(R))
  PROVE  Range(page) = R
  <1>1. IsFiniteSet(R) /\ Cardinality(R) \in Nat /\ R \in SUBSET Rows
    BY FS_CardinalityType DEF Launched
  <1> DEFINE n == Cardinality(R)
  <1>2. IsFiniteSet(1 .. n) /\ Cardinality(1 .. n) = n
    BY <1>1, FS_Interval
  <1>3. page \in [1 .. n -> R] /\ \A i, j \in 1 .. n : page[i] = page[j] => i = j
    <2>1. page \in [1 .. n -> R] /\ \A i, j \in 1 .. n : i < j => Query!Newer(page[i], page[j])
      BY DEF IsPage
    <2>2. \A i \in 1 .. n : ~Query!Newer(page[i], page[i])
      BY <1>1, <2>1, NewerIsOrder
    <2> HIDE DEF n
    <2>3. \A i, j \in 1 .. n : page[i] = page[j] => ~(i < j) /\ ~(j < i)
      BY <2>1, <2>2
    <2>4. \A i, j \in 1 .. n : ~(i < j) /\ ~(j < i) => i = j
      BY <1>1 DEF n
    <2> QED
      BY <2>1, <2>3, <2>4
  <1> HIDE DEF n
  <1>4. page \in Injection(1 .. n, R)
    BY <1>3 DEF Injection, IsInjective
  <1>5. page \in Surjection(1 .. n, R)
    BY <1>1, <1>2, <1>4, FS_Injection DEF n
  <1>6. Range(page) = R
    BY <1>3, <1>5 DEF Surjection, Range
  <1> QED
    BY <1>6

\* Time does not go back.
LEMMA TimeGoesOn ==
  ASSUME NEW a \in Nat, NEW b \in Nat \ {0}
  PROVE  a \div b \in Nat /\ (a + 1) \div b \in Nat /\ a \div b <= (a + 1) \div b
  OBVIOUS

Tokened(R) == {r.token : r \in R}

\* The rows of the committed blocks, none younger than the watermark.
LaunchesInv ==
  /\ Launched(launches) /\ last \in Nat
  /\ \A r \in launches : r.at <= last \div BlocksPerSecond

\* The cursor is the place of the last row given.
CursorInv ==
  walk.more =>
    walk.cursor = IF listed = <<>> THEN Query!None
                  ELSE [at |-> RowIn(launches, listed[Len(listed)]).at,
                        token |-> listed[Len(listed)]]

\* What was given and what was there when the client began are of its category.
WalkInv ==
  /\ walk \in [category : Categories \cup {""}, cursor : [at : Nat, token : Nat], more : BOOLEAN]
  /\ listed \in Seq(Tokens) /\ \A i \in 1 .. Len(listed) : listed[i] \in Tokened(launches)
  /\ \A t \in atStart : \E r \in InCategory(launches, walk.category) : r.token = t
  /\ \A i, j \in 1 .. Len(listed) :
       i < j => Query!Newer(RowIn(launches, listed[i]), RowIn(launches, listed[j]))
  /\ \A t \in atStart :
       \/ \E i \in 1 .. Len(listed) : listed[i] = t
       \/ walk.more /\ (walk.cursor = Query!None \/ Query!Newer(walk.cursor, RowIn(launches, t)))

LagOf(h, l) == IF h > l THEN h - l ELSE 0

IsTold(a, l) == a.head \in Nat /\ (a.ok <=> LagOf(a.head, l) <= HealthLagWarn)

\* A client that has asked for the health is told of the watermark of that time.
HealthInv ==
  /\ head \in Nat /\ health.last \in Nat /\ health.last <= last
  /\ {"last", "answer"} \subseteq DOMAIN health
  /\ \A a \in health.answer : IsTold(a, health.last)

QueryInv == LaunchesInv /\ CursorInv /\ WalkInv /\ HealthInv

\* Nothing was launched and nobody asked.
LEMMA InitQuery == ASSUME Query!QueriesAssumption, Query!Init PROVE QueryInv
  <1>1. head = 0 /\ last = 0 /\ launches = {} /\ listed = <<>> /\ atStart = {}
    BY DEF Query!Init
  <1>2. /\ walk.more = FALSE
        /\ walk \in [category : Categories \cup {""}, cursor : [at : Nat, token : Nat], more : BOOLEAN]
    BY DEF Query!Init, Query!None
  <1>3. health.last = 0 /\ health.answer = {} /\ DOMAIN health = {"asking", "last", "answer"}
    BY DEF Query!Init
  <1>4. Launched({})
    BY FS_EmptySet DEF Launched
  <1>5. LaunchesInv
    BY <1>1, <1>4 DEF LaunchesInv
  <1>6. CursorInv
    BY <1>2 DEF CursorInv
  <1>7. WalkInv
    <2>1. listed \in Seq(Tokens) /\ 1 .. Len(listed) = {}
      BY <1>1
    <2> QED
      BY <1>1, <1>2, <2>1 DEF WalkInv
  <1>8. HealthInv
    <2>1. {"last", "answer"} \subseteq DOMAIN health
      BY <1>3
    <2>2. head \in Nat /\ health.last \in Nat /\ health.last <= last
      BY <1>1, <1>3
    <2> QED
      BY <1>3, <2>1, <2>2, Zenon DEF HealthInv
  <1> QED
    BY <1>5, <1>6, <1>7, <1>8 DEF QueryInv

\* The node asked may be behind, and the watermark may have gone on since.
LEMMA HealthStep ==
  ASSUME Query!QueriesAssumption, QueryInv,
         Query!NewBlock \/ Query!HealthState \/ Query!HealthHead
  PROVE  QueryInv'
  <1>1. /\ last' = last /\ launches' = launches /\ walk' = walk /\ listed' = listed
        /\ atStart' = atStart
    BY DEF Query!NewBlock, Query!HealthState, Query!HealthHead
  <1>2. LaunchesInv' /\ CursorInv' /\ WalkInv'
    BY <1>1 DEF QueryInv, LaunchesInv, CursorInv, WalkInv
  <1>3. CASE Query!NewBlock
    <2>1. head' = head + 1 /\ health' = health
      BY <1>3 DEF Query!NewBlock
    <2>2. HealthInv'
      BY <1>1, <2>1 DEF QueryInv, HealthInv
    <2> QED
      BY <1>2, <2>2 DEF QueryInv
  <1>4. CASE Query!HealthState
    <2>1. health' = [health EXCEPT !.asking = TRUE, !.last = last, !.answer = {}] /\ head' = head
      BY <1>4 DEF Query!HealthState
    <2>2. {"last", "answer"} \subseteq DOMAIN health /\ head \in Nat /\ last \in Nat
      BY DEF QueryInv, HealthInv, LaunchesInv
    <2>3. health'.last = last /\ health'.answer = {} /\ DOMAIN health' = DOMAIN health
      BY <2>1, <2>2
    <2>4. HealthInv'
      BY <1>1, <2>1, <2>2, <2>3 DEF HealthInv
    <2> QED
      BY <1>2, <2>4 DEF QueryInv
  <1>5. CASE Query!HealthHead
    <2>1. {"last", "answer"} \subseteq DOMAIN health
      BY DEF QueryInv, HealthInv
    <2>2. /\ health'.last = health.last /\ DOMAIN health' = DOMAIN health
          /\ \A a \in health'.answer : IsTold(a, health.last)
      <3>1. CASE health' = [health EXCEPT !.asking = FALSE, !.answer = {}]
        BY <2>1, <3>1
      <3>2. CASE \E h \in 0 .. head : health' = [health EXCEPT !.asking = FALSE,
                   !.answer = {[head |-> h, ok |-> Query!Lag(h) <= HealthLagWarn]}]
        <4>1. PICK h \in 0 .. head : health' = [health EXCEPT !.asking = FALSE,
                   !.answer = {[head |-> h, ok |-> Query!Lag(h) <= HealthLagWarn]}]
          BY <3>2
        <4> DEFINE told == [head |-> h, ok |-> Query!Lag(h) <= HealthLagWarn]
        <4>2. told.head = h /\ (told.ok <=> Query!Lag(h) <= HealthLagWarn)
          BY Zenon
        <4>3. h \in Nat /\ Query!Lag(h) = LagOf(h, health.last)
          BY DEF Query!Lag, LagOf
        <4> HIDE DEF told
        <4>4. IsTold(told, health.last)
          BY <4>2, <4>3, Zenon DEF IsTold
        <4>5. health' = [health EXCEPT !.asking = FALSE, !.answer = {told}]
          BY <4>1, Zenon DEF told
        <4>6. health'.last = health.last /\ DOMAIN health' = DOMAIN health /\ health'.answer = {told}
          BY <2>1, <4>5
        <4> QED
          BY <4>4, <4>6
      <3>3. \/ health' = [health EXCEPT !.asking = FALSE, !.answer = {}]
            \/ \E h \in 0 .. head : health' = [health EXCEPT !.asking = FALSE,
                   !.answer = {[head |-> h, ok |-> Query!Lag(h) <= HealthLagWarn]}]
        BY <1>5, Zenon DEF Query!HealthHead
      <3> QED
        BY <3>1, <3>2, <3>3, Zenon
    <2>4. head' = head
      BY <1>5 DEF Query!HealthHead
    <2>5. HealthInv'
      BY <1>1, <2>1, <2>2, <2>4 DEF QueryInv, HealthInv
    <2> QED
      BY <1>2, <2>5 DEF QueryInv
  <1> QED
    BY <1>2, <1>3, <1>4, <1>5 DEF QueryInv

\* Rows of new tokens leave the others what they are.
LEMMA LaunchedMore ==
  ASSUME NEW R, Launched(R), NEW S, Launched(S), Tokened(R) \cap Tokened(S) = {}
  PROVE  Launched(R \cup S) /\ \A t \in Tokened(R) : RowIn(R \cup S, t) = RowIn(R, t)
  <1>1. \A r \in R, s \in S : r.token # s.token
    BY DEF Tokened
  <1>2. IsFiniteSet(R \cup S)
    BY FS_Union DEF Launched
  <1>3. Launched(R \cup S)
    BY <1>1, <1>2 DEF Launched
  <1>4. ASSUME NEW t \in Tokened(R) PROVE RowIn(R \cup S, t) = RowIn(R, t)
    <2>1. PICK r \in R : r.token = t
      BY DEF Tokened
    <2>2. RowIn(R, t) = r
      BY <2>1, RowIsFound
    <2>3. r \in R \cup S
      OBVIOUS
    <2> DEFINE U == R \cup S
    <2>4. Launched(U) /\ r \in U
      BY <1>3, <2>3
    <2> HIDE DEF U
    <2>5. RowIn(U, t) = r
      BY <2>1, <2>4, RowIsFound
    <2> QED
      BY <2>2, <2>5 DEF U
  <1> QED
    BY <1>3, <1>4

\* Nothing that was given moves to another place, and nothing new is older.
LEMMA CommitQuery == ASSUME Query!QueriesAssumption, QueryInv, Query!Commit PROVE QueryInv'
  <1>1. /\ last' = last + 1 /\ last \in Nat /\ head' = head /\ walk' = walk /\ listed' = listed
        /\ atStart' = atStart /\ health' = health /\ BlocksPerSecond \in Nat \ {0}
    BY DEF Query!Commit, QueryInv, LaunchesInv, Query!QueriesAssumption
  <1> PICK new \in SUBSET (Tokens \ {r.token : r \in launches}) :
         \E category \in [new -> Categories] : launches' = launches \cup
           {[token |-> t, category |-> category[t], at |-> last' \div BlocksPerSecond] : t \in new}
    BY DEF Query!Commit
  <1>2. PICK category \in [new -> Categories] : launches' = launches \cup
          {[token |-> t, category |-> category[t], at |-> last' \div BlocksPerSecond] : t \in new}
    OBVIOUS
  <1>3. PICK at \in Nat : at = last' \div BlocksPerSecond
    BY <1>1, TimeGoesOn
  <1> DEFINE f == [t \in new |-> [token |-> t, category |-> category[t], at |-> at]]
             S == {f[t] : t \in new}
  <1>4. launches' = launches \cup S
    BY <1>2, <1>3
  <1>5. \A t \in new : /\ f[t] \in Rows /\ f[t].token = t /\ f[t].at = at
                       /\ t \in Tokens /\ t \notin Tokened(launches)
    BY DEF Rows, Tokened
  <1>6. f \in Surjection(new, S)
    BY DEF Surjection
  <1>7. IsFiniteSet(new)
    BY QueryCopies, FS_Subset DEF Query!QueriesAssumption
  <1> HIDE DEF f
  <1>8. IsFiniteSet(S)
    <2> HIDE DEF S
    <2> QED
      BY <1>6, <1>7, FS_Surjection
  <1>9. Launched(S)
    <2>1. \A r \in S : \E t \in new : r = f[t]
      OBVIOUS
    <2>2. S \in SUBSET Rows /\ \A r, s \in S : r.token = s.token => r = s
      BY <1>5, <2>1
    <2> QED
      BY <1>8, <2>2 DEF Launched
  <1>10. Tokened(launches) \cap Tokened(S) = {}
    BY <1>5 DEF Tokened
  <1>11. \A r \in S : r.at = at
    BY <1>5
  <1> HIDE DEF S
  <1>12. Launched(launches') /\ \A t \in Tokened(launches) : RowIn(launches', t) = RowIn(launches, t)
    BY <1>4, <1>9, <1>10, LaunchedMore DEF QueryInv, LaunchesInv
  <1>13. LaunchesInv'
    <2>1. last \div BlocksPerSecond \in Nat /\ last \div BlocksPerSecond <= at
      BY <1>1, <1>3, TimeGoesOn
    <2>2. \A r \in launches : r.at \in Nat /\ r.at <= last \div BlocksPerSecond
      BY DEF QueryInv, LaunchesInv, Launched, Rows
    <2>3. \A r \in launches' : r.at <= at
      BY <1>4, <1>11, <2>1, <2>2
    <2> QED
      BY <1>1, <1>3, <1>12, <2>3 DEF LaunchesInv
  <1>14. /\ \A i \in 1 .. Len(listed) : listed[i] \in Tokened(launches)
         /\ listed \in Seq(Tokens)
    BY DEF QueryInv, WalkInv
  <1>15. CursorInv'
    <2>1. listed # <<>> => Len(listed) \in 1 .. Len(listed)
      BY <1>14
    <2>2. listed # <<>> => RowIn(launches', listed[Len(listed)]) = RowIn(launches, listed[Len(listed)])
      BY <1>12, <1>14, <2>1
    <2> QED
      BY <1>1, <2>2 DEF QueryInv, CursorInv
  <1>16. WalkInv'
    <2>1. Tokened(launches) \subseteq Tokened(launches')
      BY <1>4 DEF Tokened
    <2>2. \A t \in atStart : t \in Tokened(launches)
                             /\ \E r \in InCategory(launches', walk.category) : r.token = t
      <3>1. InCategory(launches, walk.category) \subseteq InCategory(launches', walk.category)
            /\ InCategory(launches, walk.category) \subseteq launches
        BY <1>4 DEF InCategory
      <3>2. \A t \in atStart : \E r \in InCategory(launches, walk.category) : r.token = t
        BY DEF QueryInv, WalkInv
      <3> QED
        BY <3>1, <3>2 DEF Tokened
    <2>3. /\ \A i \in 1 .. Len(listed) : RowIn(launches', listed[i]) = RowIn(launches, listed[i])
          /\ \A t \in atStart : RowIn(launches', t) = RowIn(launches, t)
      BY <1>12, <1>14, <2>2
    <2>4. /\ walk \in [category : Categories \cup {""}, cursor : [at : Nat, token : Nat], more : BOOLEAN]
          /\ \A i, j \in 1 .. Len(listed) :
               i < j => Query!Newer(RowIn(launches, listed[i]), RowIn(launches, listed[j]))
          /\ \A t \in atStart :
               \/ \E i \in 1 .. Len(listed) : listed[i] = t
               \/ walk.more /\ (walk.cursor = Query!None \/ Query!Newer(walk.cursor, RowIn(launches, t)))
      BY DEF QueryInv, WalkInv
    <2>5. \A i \in 1 .. Len(listed) : listed[i] \in Tokened(launches')
      BY <1>14, <2>1
    <2>6. \A i, j \in 1 .. Len(listed) :
            i < j => Query!Newer(RowIn(launches', listed[i]), RowIn(launches', listed[j]))
      BY <2>3, <2>4
    <2>7. \A t \in atStart :
            \/ \E i \in 1 .. Len(listed) : listed[i] = t
            \/ walk.more /\ (walk.cursor = Query!None \/ Query!Newer(walk.cursor, RowIn(launches', t)))
      BY <2>3, <2>4
    <2> QED
      BY <1>1, <1>14, <2>2, <2>4, <2>5, <2>6, <2>7 DEF WalkInv
  <1>17. HealthInv'
    <2>1. health.last \in Nat /\ health.last <= last + 1
      BY <1>1 DEF QueryInv, HealthInv
    <2> QED
      BY <1>1, <2>1 DEF QueryInv, HealthInv
  <1> QED
    BY <1>13, <1>15, <1>16, <1>17 DEF QueryInv

\* Nothing given is a sequence of tokens.
LEMMA NothingGiven == <<>> \in Seq(Tokens) /\ 1 .. Len(<<>>) = {}
  OBVIOUS

\* A walk begins: nothing is given.
LEMMA StartWalkQuery == ASSUME Query!QueriesAssumption, QueryInv, Query!StartWalk PROVE QueryInv'
  <1>1. head' = head /\ last' = last /\ launches' = launches /\ health' = health /\ listed' = <<>>
    BY DEF Query!StartWalk
  <1>2. PICK category \in Categories \cup {""} :
          /\ walk' = [category |-> category, cursor |-> Query!None, more |-> TRUE]
          /\ atStart' = {r.token : r \in Query!OfCategory(category)}
    BY DEF Query!StartWalk
  <1>3. walk'.category = category /\ walk'.cursor = Query!None /\ walk'.more = TRUE
        /\ walk' \in [category : Categories \cup {""}, cursor : [at : Nat, token : Nat], more : BOOLEAN]
    BY <1>2 DEF Query!None
  <1>4. CursorInv'
    <2>1. walk'.cursor = Query!None
      BY <1>3
    <2> QED
      BY <1>1, <2>1 DEF CursorInv, Query!None
  <1>5. WalkInv'
    <2>1. listed' \in Seq(Tokens) /\ 1 .. Len(listed') = {}
      <3>1. listed' = <<>> /\ <<>> \in Seq(Tokens) /\ 1 .. Len(<<>>) = {}
        BY <1>1, NothingGiven
      <3> QED
        BY <3>1, Zenon
    <2>2. InCategory(launches', walk'.category) = Query!OfCategory(category)
      BY <1>1, <1>3, QueryCopies
    <2>3. \A t \in atStart' : \E r \in InCategory(launches', walk'.category) : r.token = t
      <3>1. atStart' = {r.token : r \in Query!OfCategory(category)}
        BY <1>2
      <3> QED
        BY <2>2, <3>1
    <2>4. walk'.more /\ walk'.cursor = Query!None
      BY <1>3
    <2> QED
      BY <1>3, <2>1, <2>3, <2>4 DEF WalkInv, Query!None
  <1> QED
    BY <1>1, <1>4, <1>5 DEF QueryInv, LaunchesInv, HealthInv

Found(R, category, cursor) ==
  {r \in InCategory(R, category) : cursor = Query!None \/ Query!Before(r, cursor)}

PageSize(R) == IF PageLimit < Cardinality(R) THEN PageLimit ELSE Cardinality(R)

\* What a request lists is the page that its condition and its limit say.
LEMMA ListedIsPage ==
  ASSUME Query!QueriesAssumption, LaunchesInv, NEW category, NEW cursor
  PROVE  LET R == Found(launches, category, cursor)
         IN  Launched(R) /\ IsPage(Query!ListLaunches(category, cursor, PageLimit), R, PageSize(R))
  <1> DEFINE F == {r \in Query!OfCategory(category) : cursor = Query!None \/ Query!Before(r, cursor)}
             k == Query!Min({PageLimit, Query!Cardinality(F)})
             P(page) == /\ page \in [1 .. k -> F]
                        /\ \A i, j \in 1 .. k : i < j => Query!Newer(page[i], page[j])
                        /\ \A r \in F \ Query!Range(page) : \A i \in 1 .. k : Query!Newer(page[i], r)
  <1>1. F = Found(launches, category, cursor)
    BY QueryCopies, Zenon DEF Found
  <1>2. Launched(F)
    <2>1. F \in SUBSET launches
      BY DEF Query!OfCategory
    <2> HIDE DEF F
    <2> QED
      BY <2>1, LaunchedPart DEF LaunchesInv
  <1>3. Query!Cardinality(F) = Cardinality(F) /\ Cardinality(F) \in Nat /\ PageLimit \in Nat
    BY <1>2, QueryCopies, FS_CardinalityType DEF Launched, Query!QueriesAssumption
  <1>4. k = PageSize(F) /\ k \in Nat /\ k <= Cardinality(F)
    <2> HIDE DEF F
    <2> QED
      BY <1>3, QueryCopies DEF PageSize
  <1>5. Query!ListLaunches(category, cursor, PageLimit) = CHOOSE page : P(page)
    BY Zenon DEF Query!ListLaunches
  <1> HIDE DEF F, k
  <1>6. \A page : IsPage(page, F, k) <=> P(page)
    BY QueryCopies DEF IsPage
  <1>7. \E page : IsPage(page, F, k)
    BY <1>2, <1>4, PageExists
  <1> HIDE DEF P
  <1>8. P(Query!ListLaunches(category, cursor, PageLimit))
    BY <1>5, <1>6, <1>7, Zenon
  <1>9. IsPage(Query!ListLaunches(category, cursor, PageLimit), F, k)
    BY <1>6, <1>8, Zenon
  <1> QED
    BY <1>1, <1>2, <1>4, <1>9, Zenon

\* What was given is a sequence of tokens.
LEMMA ListedTokens == ASSUME QueryInv PROVE listed \in Seq(Tokens) /\ Len(listed) \in Nat
  <1>1. listed \in Seq(Tokens)
    BY DEF QueryInv, WalkInv
  <1> QED
    BY <1>1

\* What is listed is older than all that was given, whether or not it is of the
\* same second, and misses nothing of what is older.
LEMMA ListedIsOlder ==
  ASSUME Query!QueriesAssumption, QueryInv, walk.more, NEW r \in InCategory(launches, walk.category)
  PROVE  /\ r \in Found(launches, walk.category, walk.cursor) =>
              \A i \in 1 .. Len(listed) : Query!Newer(RowIn(launches, listed[i]), r)
         /\ walk.cursor = Query!None \/ Query!Newer(walk.cursor, r) =>
              r \in Found(launches, walk.category, walk.cursor)
  <1>1. launches \subseteq Rows /\ r \in launches /\ r \in Rows
    BY DEF QueryInv, LaunchesInv, Launched, InCategory
  <1>2. \A i \in 1 .. Len(listed) : /\ RowIn(launches, listed[i]) \in Rows
                                    /\ RowIn(launches, listed[i]).token = listed[i]
    <2> SUFFICES ASSUME NEW i \in 1 .. Len(listed)
                 PROVE  /\ RowIn(launches, listed[i]) \in Rows
                        /\ RowIn(launches, listed[i]).token = listed[i]
      OBVIOUS
    <2>1. listed[i] \in Tokened(launches)
      BY DEF QueryInv, WalkInv
    <2>2. PICK s \in launches : s.token = listed[i]
      BY <2>1 DEF Tokened
    <2>3. RowIn(launches, s.token) = s
      BY RowIsFound DEF QueryInv, LaunchesInv
    <2> QED
      BY <1>1, <2>2, <2>3
  <1>3. ASSUME r \in Found(launches, walk.category, walk.cursor), NEW i \in 1 .. Len(listed)
        PROVE  Query!Newer(RowIn(launches, listed[i]), r)
    <2>1. PICK m \in Nat : m = Len(listed)
      BY ListedTokens
    <2>2. m \in 1 .. m /\ listed # <<>>
      BY <1>3, <2>1
    <2>3. PICK c \in Rows : c = RowIn(launches, listed[m])
      BY <1>2, <2>1, <2>2
    <2>4. c.token = listed[m] /\ c.token \in Nat \ {0}
      BY <1>2, <2>1, <2>2, <2>3, NewerIsOrder
    <2>5. walk.cursor = [at |-> c.at, token |-> c.token]
      BY <2>1, <2>2, <2>3, <2>4 DEF QueryInv, CursorInv
    <2>6. walk.cursor # Query!None
      BY <2>4, <2>5 DEF Query!None
    <2>7. Query!Before(r, walk.cursor)
      BY <1>3, <2>6 DEF Found
    <2>8. Query!Newer(c, r)
      BY <1>1, <2>5, <2>7, NewerIsOrder DEF Query!Before, Query!Newer
    <2>9. CASE i = m
      BY <2>3, <2>8, <2>9
    <2>10. CASE i # m
      <3>1. i < m
        BY <2>1, <2>10
      <3>2. Query!Newer(RowIn(launches, listed[i]), c)
        BY <2>1, <2>2, <2>3, <3>1 DEF QueryInv, WalkInv
      <3> QED
        BY <1>1, <1>2, <2>8, <3>2, NewerIsOrder
    <2> QED
      BY <2>9, <2>10
  <1>4. ASSUME Query!Newer(walk.cursor, r) PROVE Query!Before(r, walk.cursor)
    <2>1. walk.cursor.at \in Nat /\ walk.cursor.token \in Nat
      BY DEF QueryInv, WalkInv
    <2>2. r.at \in Nat /\ r.token \in Nat
      BY <1>1, NewerIsOrder
    <2> QED
      BY <1>4, <2>1, <2>2 DEF Query!Before, Query!Newer
  <1> QED
    BY <1>3, <1>4 DEF Found

\* One request of the client.
LEMMA PageQuery == ASSUME Query!QueriesAssumption, QueryInv, Query!Page PROVE QueryInv'
  <1>1. /\ head' = head /\ last' = last /\ launches' = launches /\ health' = health
        /\ atStart' = atStart /\ walk.more
    BY DEF Query!Page
  <1>2. PICK R : R = Found(launches, walk.category, walk.cursor)
    OBVIOUS
  <1>3. PICK page : page = Query!ListLaunches(walk.category, walk.cursor, PageLimit)
    OBVIOUS
  <1>4. Launched(R) /\ IsPage(page, R, PageSize(R)) /\ R \subseteq InCategory(launches, walk.category)
    BY <1>2, <1>3, ListedIsPage DEF QueryInv, Found
  <1>5. PICK n \in Nat : n = PageSize(R)
    BY <1>4, FS_CardinalityType DEF Launched, PageSize, Query!QueriesAssumption
  <1>6. PICK m \in Nat : m = Len(listed)
    BY ListedTokens
  <1>7. /\ page \in [1 .. n -> R] /\ Len(page) = n
        /\ \A i, j \in 1 .. n : i < j => Query!Newer(page[i], page[j])
        /\ \A r \in R \ Range(page) : \A i \in 1 .. n : Query!Newer(page[i], r)
    <2>1. IsPage(page, R, n)
      BY <1>4, <1>5
    <2>2. page \in [1 .. n -> R]
      BY <2>1 DEF IsPage
    <2>3. Len(page) = n
      BY <2>2
    <2> QED
      BY <2>1, <2>3 DEF IsPage
  <1>8. \A i \in 1 .. n : /\ page[i] \in R /\ page[i] \in InCategory(launches, walk.category)
                          /\ page[i] \in launches /\ page[i] \in Rows
                          /\ page[i].token \in Tokens /\ page[i].token \in Tokened(launches)
                          /\ RowIn(launches, page[i].token) = page[i]
    <2> SUFFICES ASSUME NEW i \in 1 .. n
                 PROVE  /\ page[i] \in R /\ page[i] \in InCategory(launches, walk.category)
                        /\ page[i] \in launches /\ page[i] \in Rows
                        /\ page[i].token \in Tokens /\ page[i].token \in Tokened(launches)
                        /\ RowIn(launches, page[i].token) = page[i]
      OBVIOUS
    <2>1. page[i] \in R /\ page[i] \in InCategory(launches, walk.category) /\ page[i] \in launches
      BY <1>4, <1>7 DEF InCategory
    <2>2. RowIn(launches, page[i].token) = page[i]
      BY <2>1, RowIsFound DEF QueryInv, LaunchesInv
    <2>3. page[i] \in Rows
      BY <2>1 DEF QueryInv, LaunchesInv, Launched
    <2>4. page[i].token \in Tokens
      BY <2>3 DEF Rows
    <2>5. page[i].token \in Tokened(launches)
      BY <2>1 DEF Tokened
    <2> QED
      BY <2>1, <2>2, <2>3, <2>4, <2>5
  <1>9. PICK ls : ls = listed'
    OBVIOUS
  <1>10. /\ ls \in Seq(Tokens) /\ Len(ls) = m + n
         /\ \A i \in 1 .. m : ls[i] = listed[i]
         /\ \A i \in 1 .. n : ls[m + i] = page[i].token
    <2>1. PICK tokens : tokens = [i \in 1 .. n |-> page[i].token]
      OBVIOUS
    <2>2. tokens \in Seq(Tokens)
      BY <1>8, <2>1
    <2>3. Len(tokens) = n /\ \A i \in 1 .. n : tokens[i] = page[i].token
      BY <2>1
    <2>4. PICK given : given = listed
      OBVIOUS
    <2>5. given \in Seq(Tokens) /\ Len(given) = m
      BY <1>6, <2>4, ListedTokens
    <2>6. ls = given \o tokens
      BY <1>3, <1>7, <1>9, <2>1, <2>4 DEF Query!Page
    <2>7. /\ given \o tokens \in Seq(Tokens) /\ Len(given \o tokens) = m + n
          /\ \A i \in 1 .. m : (given \o tokens)[i] = given[i]
          /\ \A i \in 1 .. n : (given \o tokens)[m + i] = tokens[i]
      <3>1. Len(tokens) = n
        BY <2>3
      <3> QED
        BY <2>2, <2>5, <3>1
    <2> QED
      BY <2>3, <2>4, <2>6, <2>7, Zenon
  <1>11. \A i \in 1 .. m + n : i \in 1 .. m \/ (i - m \in 1 .. n /\ m + (i - m) = i)
    OBVIOUS
  <1>12. \A i \in 1 .. m + n : ls[i] \in Tokened(launches)
    <2>1. \A i \in 1 .. m : listed[i] \in Tokened(launches)
      BY <1>6 DEF QueryInv, WalkInv
    <2> SUFFICES ASSUME NEW i \in 1 .. m + n PROVE ls[i] \in Tokened(launches)
      OBVIOUS
    <2>2. CASE i \in 1 .. m
      BY <1>10, <2>1, <2>2
    <2>3. CASE i - m \in 1 .. n /\ m + (i - m) = i
      BY <1>8, <1>10, <2>3
    <2> QED
      BY <1>11, <2>2, <2>3
  <1>13. ASSUME NEW i \in 1 .. m + n, NEW j \in 1 .. m + n, i < j
         PROVE  Query!Newer(RowIn(launches, ls[i]), RowIn(launches, ls[j]))
    <2>1. CASE j \in 1 .. m
      <3>1. i \in 1 .. m
        BY <1>13, <2>1
      <3> QED
        BY <1>6, <1>10, <1>13, <2>1, <3>1 DEF QueryInv, WalkInv
    <2>2. CASE j - m \in 1 .. n /\ m + (j - m) = j /\ i \in 1 .. m
      <3>1. RowIn(launches, ls[j]) = page[j - m] /\ page[j - m] \in R
            /\ page[j - m] \in InCategory(launches, walk.category) /\ ls[i] = listed[i]
        BY <1>8, <1>10, <2>2
      <3>2. Query!Newer(RowIn(launches, listed[i]), page[j - m])
        BY <1>1, <1>2, <1>6, <2>2, <3>1, ListedIsOlder
      <3> QED
        BY <3>1, <3>2
    <2>3. CASE j - m \in 1 .. n /\ m + (j - m) = j /\ i - m \in 1 .. n /\ m + (i - m) = i
      <3>1. RowIn(launches, ls[j]) = page[j - m] /\ RowIn(launches, ls[i]) = page[i - m]
        BY <1>8, <1>10, <2>3
      <3>2. i - m < j - m
        BY <1>13
      <3> QED
        BY <1>7, <2>3, <3>1, <3>2
    <2> QED
      BY <1>11, <2>1, <2>2, <2>3
  <1>14. \A t \in atStart : /\ RowIn(launches, t) \in InCategory(launches, walk.category)
                            /\ RowIn(launches, t).token = t
    <2> SUFFICES ASSUME NEW t \in atStart
                 PROVE  /\ RowIn(launches, t) \in InCategory(launches, walk.category)
                        /\ RowIn(launches, t).token = t
      OBVIOUS
    <2>1. PICK r \in InCategory(launches, walk.category) : r.token = t
      BY DEF QueryInv, WalkInv
    <2>2. RowIn(launches, r.token) = r
      BY RowIsFound DEF QueryInv, LaunchesInv, InCategory
    <2> QED
      BY <2>1, <2>2
  <1>15. ASSUME NEW t \in atStart
         PROVE  (\E i \in 1 .. m + n : ls[i] = t) \/ RowIn(launches, t) \in R \ Range(page)
    <2>1. CASE \E i \in 1 .. Len(listed) : listed[i] = t
      <3>1. \A i \in 1 .. m : i \in 1 .. m + n
        OBVIOUS
      <3> QED
        BY <1>6, <1>10, <2>1, <3>1
    <2>2. CASE walk.cursor = Query!None \/ Query!Newer(walk.cursor, RowIn(launches, t))
      <3>1. RowIn(launches, t) \in R
        BY <1>1, <1>2, <1>14, <2>2, ListedIsOlder
      <3>2. CASE RowIn(launches, t) \in Range(page)
        <4>1. PICK i \in 1 .. n : RowIn(launches, t) = page[i]
          BY <1>7, <3>2 DEF Range
        <4>2. m + i \in 1 .. m + n /\ ls[m + i] = t
          BY <1>10, <1>14, <4>1
        <4> QED
          BY <4>2
      <3> QED
        BY <3>1, <3>2
    <2> QED
      BY <2>1, <2>2 DEF QueryInv, WalkInv
  <1>16. walk \in [category : Categories \cup {""}, cursor : [at : Nat, token : Nat], more : BOOLEAN]
    BY DEF QueryInv, WalkInv
  <1>full. n = PageLimit => n \in 1 .. n
    <2>1. PageLimit \in Nat \ {0}
      BY DEF Query!QueriesAssumption
    <2> QED
      BY <2>1
  <1>17. /\ walk'.category = walk.category
         /\ walk' \in [category : Categories \cup {""}, cursor : [at : Nat, token : Nat], more : BOOLEAN]
         /\ \/ /\ n = PageLimit /\ walk'.more
               /\ walk'.cursor = [at |-> page[n].at, token |-> page[n].token]
            \/ n # PageLimit /\ ~walk'.more
    <2>1. CASE n = PageLimit
      <3>1. walk' = [walk EXCEPT !.cursor = [at |-> page[n].at, token |-> page[n].token]]
        BY <1>3, <1>7, <2>1 DEF Query!Page, Query!HasNext, Query!Last
      <3>2. page[n].at \in Nat /\ page[n].token \in Nat
        BY <1>8, <1>full, <2>1, NewerIsOrder
      <3> QED
        BY <1>1, <1>16, <2>1, <3>1, <3>2
    <2>2. CASE n # PageLimit
      <3>1. walk' = [walk EXCEPT !.more = FALSE]
        BY <1>3, <1>7, <2>2 DEF Query!Page, Query!HasNext
      <3> QED
        BY <1>16, <2>2, <3>1
    <2> QED
      BY <2>1, <2>2
  <1>18. CursorInv'
    <2>1. CASE n = PageLimit
      <3>1. n \in 1 .. n /\ m + n # 0 /\ ls # <<>>
        BY <1>10, <1>full, <2>1
      <3>2. ls[Len(ls)] = page[n].token /\ RowIn(launches, page[n].token) = page[n]
        BY <1>8, <1>10, <3>1
      <3>3. walk'.cursor = [at |-> page[n].at, token |-> page[n].token]
        BY <1>17, <2>1
      <3> QED
        BY <1>1, <1>9, <3>1, <3>2, <3>3 DEF CursorInv
    <2>2. CASE n # PageLimit
      BY <1>17, <2>2 DEF CursorInv
    <2> QED
      BY <2>1, <2>2
  <1>19. ASSUME NEW t \in atStart
         PROVE  \/ \E i \in 1 .. m + n : ls[i] = t
                \/ walk'.more /\ Query!Newer(walk'.cursor, RowIn(launches, t))
    <2>1. CASE RowIn(launches, t) \in R \ Range(page) /\ n = PageLimit
      <3>1. Query!Newer(page[n], RowIn(launches, t)) /\ n \in 1 .. n
        BY <1>7, <1>full, <2>1
      <3>2. walk'.more /\ walk'.cursor = [at |-> page[n].at, token |-> page[n].token]
        BY <1>17, <2>1
      <3> QED
        BY <3>1, <3>2 DEF Query!Newer
    <2>2. CASE RowIn(launches, t) \in R \ Range(page) /\ n # PageLimit
      <3>1. n = Cardinality(R)
        BY <1>5, <2>2 DEF PageSize
      <3>2. Range(page) = R
        BY <1>4, <1>5, <3>1, LastPage
      <3> QED
        BY <2>2, <3>2
    <2> QED
      BY <1>15, <2>1, <2>2
  <1>20. WalkInv'
    <2>1. listed' = ls /\ launches' = launches /\ atStart' = atStart
      BY <1>1, <1>9
    <2>2. \A t \in atStart : \E r \in InCategory(launches, walk'.category) : r.token = t
      BY <1>14, <1>17
    <2> QED
      BY <1>10, <1>12, <1>13, <1>17, <1>19, <2>1, <2>2 DEF WalkInv
  <1>21. LaunchesInv' /\ HealthInv'
    BY <1>1 DEF QueryInv, LaunchesInv, HealthInv
  <1> QED
    BY <1>18, <1>20, <1>21 DEF QueryInv

\* One step of the scanner, of the client or of the request for the health.
LEMMA NextQuery == ASSUME Query!QueriesAssumption, QueryInv, Query!Next PROVE QueryInv'
  <1>1. CASE Query!Commit
    BY <1>1, CommitQuery
  <1>2. CASE Query!StartWalk
    BY <1>2, StartWalkQuery
  <1>3. CASE Query!Page
    BY <1>3, PageQuery
  <1>4. CASE Query!NewBlock \/ Query!HealthState \/ Query!HealthHead
    BY <1>4, HealthStep
  <1> QED
    BY <1>1, <1>2, <1>3, <1>4 DEF Query!Next

\* As long as no block is committed and nobody asks.
LEMMA RestQuery == ASSUME QueryInv, UNCHANGED queryVars PROVE QueryInv'
  <1>1. /\ head' = head /\ last' = last /\ launches' = launches /\ walk' = walk
        /\ listed' = listed /\ atStart' = atStart /\ health' = health
    BY DEF queryVars
  <1> QED
    BY <1>1 DEF QueryInv, LaunchesInv, CursorInv, WalkInv, HealthInv

\* What the clients are told is true.
LEMMA QueryTells ==
  ASSUME Query!QueriesAssumption, QueryInv
  PROVE  Query!WalkDescends /\ Query!WalkIsComplete /\ Query!HealthIsTrue
  <1>1. Query!WalkDescends
    BY QueryCopies DEF QueryInv, WalkInv, Query!WalkDescends
  <1>2. Query!WalkIsComplete
    <2>1. \A t : (\E i \in 1 .. Len(listed) : listed[i] = t) => t \in Query!ToSet(listed)
      BY ListedTokens DEF Query!ToSet
    <2>2. \A t \in atStart :
            \/ \E i \in 1 .. Len(listed) : listed[i] = t
            \/ walk.more /\ (walk.cursor = Query!None \/ Query!Newer(walk.cursor, Query!RowOf(t)))
      BY QueryCopies DEF QueryInv, WalkInv
    <2> QED
      BY <2>1, <2>2, Zenon DEF Query!WalkIsComplete
  <1>3. Query!HealthIsTrue
    <2> SUFFICES ASSUME NEW a \in health.answer
                 PROVE  /\ a.ok => a.head <= last + HealthLagWarn
                        /\ a.head <= health.last => a.ok
      BY DEF Query!HealthIsTrue
    <2>1. PICK l \in Nat : l = health.last
      BY DEF QueryInv, HealthInv
    <2>2. last \in Nat /\ l <= last /\ HealthLagWarn \in Nat
      BY <2>1 DEF QueryInv, HealthInv, LaunchesInv, Query!QueriesAssumption
    <2>3. IsTold(a, l)
      BY <2>1 DEF QueryInv, HealthInv
    <2>4. PICK h \in Nat : h = a.head
      BY <2>3 DEF IsTold
    <2>5. a.ok <=> LagOf(h, l) <= HealthLagWarn
      BY <2>3, <2>4, Zenon DEF IsTold
    <2>6. /\ LagOf(h, l) <= HealthLagWarn => h <= last + HealthLagWarn
          /\ h <= l => LagOf(h, l) <= HealthLagWarn
      BY <2>2 DEF LagOf
    <2> QED
      BY <2>1, <2>4, <2>5, <2>6, Zenon
  <1> QED
    BY <1>1, <1>2, <1>3

\* A client that follows next_cursor is given the launches newest first, none twice
\* and none left out that was there when it began, with any limit and whatever is
\* committed between its requests; and a service said to be well is within the
\* limit of the head it names (ListLaunches, health).
THEOREM AnswersAreAlwaysTrue == RecordsSpec => []AnswersAreTrue
  <1>1. RecordsInit => QueryInv
    BY RecordsAssumption, InitQuery DEF RecordsInit
  <1>2. QueryInv /\ [RecordsNext]_recordsVars => QueryInv'
    <2> SUFFICES ASSUME QueryInv, [RecordsNext]_recordsVars PROVE QueryInv'
      OBVIOUS
    <2>1. Query!Next \/ UNCHANGED queryVars
      BY DEF RecordsNext, recordsVars
    <2> QED
      BY <2>1, RecordsAssumption, NextQuery, RestQuery
  <1>3. QueryInv => AnswersAreTrue
    BY RecordsAssumption, QueryTells DEF AnswersAreTrue
  <1> QED
    BY <1>1, <1>2, <1>3, PTL DEF RecordsSpec

-----------------------------------------------------------------------------
\* The schema stays known beside the rest of it: no other component writes it.
THEOREM SchemaIsKnownBeside == RecordsSpec => []SchemaIsKnown
  <1>1. RecordsInit => SchemaInv
    BY InitSchema DEF RecordsInit
  <1>2. SchemaInv /\ [RecordsNext]_recordsVars => SchemaInv'
    <2>1. [RecordsNext]_recordsVars => [Next]_vars
      BY DEF RecordsNext, recordsVars
    <2> QED
      BY <2>1, NextSchema
  <1>3. SchemaInv => SchemaIsKnown
    BY DEF SchemaInv, Agree, ReadAgrees, SchemaIsKnown, ExecutedOnce, UpOnWhatWasRead
  <1> QED
    BY <1>1, <1>2, <1>3, PTL DEF RecordsSpec

-----------------------------------------------------------------------------
(* Attribution *)

\* The module's own copies of the operators.
LEMMA FillCopies ==
  /\ \A S : Fill!Cardinality(S) = Cardinality(S)
  /\ \A S : Fill!IsFiniteSet(S) <=> IsFiniteSet(S)
  /\ \A f, S : Fill!SumFunctionOnSet(f, S) = SumFunctionOnSet(f, S)
  /\ \A S : Fill!Max(S) = Greatest(S)
  <1>1. \A S : Fill!Cardinality(S) = Cardinality(S)
    BY Zenon DEF Fill!Cardinality, Cardinality
  <1>2. \A S : Fill!IsFiniteSet(S) <=> IsFiniteSet(S)
    BY Zenon DEF Fill!IsFiniteSet, IsFiniteSet
  <1>3. \A f, S : Fill!SumFunctionOnSet(f, S) = SumFunctionOnSet(f, S)
    BY Zenon DEF Fill!SumFunctionOnSet, Fill!FoldFunctionOnSet, Fill!MapThenFoldSet,
                 SumFunctionOnSet, FoldFunctionOnSet, MapThenFoldSet
  <1>4. \A S : Fill!Max(S) = Greatest(S)
    BY Zenon DEF Fill!Max, Greatest
  <1> QED
    BY <1>1, <1>2, <1>3, <1>4

Bests == [user : Users \cup {NoUser}, size : Nat, tied : BOOLEAN]

\* Those who gained or gave away most.
LargestIn(net) ==
  {a \in Users : net[a] # 0 /\ \A b \in Users : Fill!Size(net[b]) <= Fill!Size(net[a])}

\* What the loop knows of the addresses it has been through.
BestOf(net, T, best) ==
  \/ T \cap Users = {} /\ best = Fill!Nobody
  \/ /\ best.user \in T \cap Users /\ best.size = Fill!Size(net[best.user])
     /\ \A b \in T \cap Users : Fill!Size(net[b]) <= best.size
     /\ best.tied <=> \E b \in (T \cap Users) \ {best.user} : Fill!Size(net[b]) = best.size

\* One turn of the loop.
LEMMA ConsiderOne ==
  ASSUME Fill!AttributionAssumption, NEW net \in [Fill!Addresses -> Int], NEW best \in Bests,
         NEW T \in SUBSET Fill!Addresses, \A b \in T : net[b] # 0, BestOf(net, T, best),
         NEW a \in Fill!Addresses \ T, net[a] # 0
  PROVE  /\ Fill!Consider(net, best, a) \in Bests
         /\ BestOf(net, T \cup {a}, Fill!Consider(net, best, a))
  <1>1. /\ \A b \in Fill!Addresses : Fill!Size(net[b]) \in Nat
        /\ \A b \in Fill!Addresses : net[b] # 0 => Fill!Size(net[b]) > 0
    BY DEF Fill!Size
  <1>2. /\ a \in Fill!Protocol => a \notin Users
        /\ a \notin Fill!Protocol => a \in Users
        /\ Users \subseteq Fill!Addresses /\ NoUser \notin Users
    BY DEF Fill!Addresses, Fill!Protocol, Fill!AttributionAssumption
  <1>3. best.size \in Nat /\ best.tied \in BOOLEAN /\ best.user \in Users \cup {NoUser}
    BY DEF Bests
  <1>4. CASE a \in Fill!Protocol
    <2>1. Fill!Consider(net, best, a) = best
      BY <1>4 DEF Fill!Consider
    <2>2. (T \cup {a}) \cap Users = T \cap Users
      BY <1>2, <1>4
    <2> QED
      BY <2>1, <2>2 DEF BestOf
  <1>5. CASE a \notin Fill!Protocol /\ Fill!Size(net[a]) > best.size
    <2>1. PICK next : next = [user |-> a, size |-> Fill!Size(net[a]), tied |-> FALSE]
      OBVIOUS
    <2>2. Fill!Consider(net, best, a) = next
      <3>1. ~(Fill!Size(net[a]) < best.size) /\ Fill!Size(net[a]) # best.size
        BY <1>1, <1>3, <1>5
      <3> QED
        BY <1>5, <2>1, <3>1 DEF Fill!Consider
    <2>3. next \in Bests /\ next.user = a /\ next.size = Fill!Size(net[a]) /\ ~next.tied
      BY <1>1, <1>2, <1>5, <2>1 DEF Bests
    <2>4. \A b \in T \cap Users : Fill!Size(net[b]) < next.size
      <3>1. \A b \in T \cap Users : Fill!Size(net[b]) <= best.size
        BY DEF BestOf
      <3> QED
        BY <1>1, <1>2, <1>3, <1>5, <2>3, <3>1
    <2>5. (T \cup {a}) \cap Users = (T \cap Users) \cup {a}
      BY <1>2, <1>5
    <2>6. \A b \in (T \cup {a}) \cap Users : Fill!Size(net[b]) <= next.size
      BY <1>1, <1>2, <2>3, <2>4, <2>5
    <2>7. ~\E b \in ((T \cup {a}) \cap Users) \ {a} : Fill!Size(net[b]) = next.size
      BY <1>1, <1>2, <2>3, <2>4, <2>5
    <2>8. BestOf(net, T \cup {a}, next)
      BY <2>3, <2>5, <2>6, <2>7, Zenon DEF BestOf
    <2> QED
      BY <2>2, <2>3, <2>8
  <1>6. CASE a \notin Fill!Protocol /\ Fill!Size(net[a]) <= best.size
    <2>1. /\ best.user \in T \cap Users /\ best.size = Fill!Size(net[best.user])
          /\ \A b \in T \cap Users : Fill!Size(net[b]) <= best.size
          /\ best.tied <=> \E b \in (T \cap Users) \ {best.user} : Fill!Size(net[b]) = best.size
      <3>1. best.size # 0
        BY <1>1, <1>2, <1>3, <1>6
      <3>2. best # Fill!Nobody
        BY <3>1 DEF Fill!Nobody
      <3> QED
        BY <3>2 DEF BestOf
    <2>2. (T \cup {a}) \cap Users = (T \cap Users) \cup {a} /\ a # best.user
      BY <1>2, <1>6, <2>1
    <2>3. \A b \in (T \cup {a}) \cap Users : Fill!Size(net[b]) <= best.size
      BY <1>6, <2>1, <2>2
    <2>4. CASE Fill!Size(net[a]) = best.size
      <3>1. PICK next : next = [best EXCEPT !.tied = TRUE]
        OBVIOUS
      <3>2. Fill!Consider(net, best, a) = next
        <4>1. ~(Fill!Size(net[a]) < best.size)
          BY <1>3, <2>4
        <4> QED
          BY <1>6, <2>4, <3>1, <4>1 DEF Fill!Consider
      <3>3. next \in Bests /\ next.user = best.user /\ next.size = best.size /\ next.tied
        BY <3>1 DEF Bests
      <3>4. \E b \in ((T \cup {a}) \cap Users) \ {best.user} : Fill!Size(net[b]) = best.size
        BY <2>2, <2>4
      <3>5. BestOf(net, T \cup {a}, next)
        BY <2>1, <2>2, <2>3, <3>3, <3>4, Zenon DEF BestOf
      <3> QED
        BY <3>2, <3>3, <3>5
    <2>5. CASE Fill!Size(net[a]) # best.size
      <3>1. Fill!Consider(net, best, a) = best
        <4>1. Fill!Size(net[a]) < best.size
          BY <1>1, <1>3, <1>6, <2>5
        <4> QED
          BY <1>6, <2>5, <4>1 DEF Fill!Consider
      <3>2. best.tied <=> \E b \in ((T \cup {a}) \cap Users) \ {best.user} :
                            Fill!Size(net[b]) = best.size
        BY <2>1, <2>2, <2>5
      <3>3. BestOf(net, T \cup {a}, best)
        BY <2>1, <2>2, <2>3, <3>2, Zenon DEF BestOf
      <3> QED
        BY <3>1, <3>3
    <2> QED
      BY <2>4, <2>5
  <1> QED
    BY <1>1, <1>3, <1>4, <1>5, <1>6

\* A turn ends with an address and a size.
LEMMA ConsiderTypes ==
  ASSUME NEW net \in [Fill!Addresses -> Int], NEW best \in Bests, NEW a \in Fill!Addresses
  PROVE  Fill!Consider(net, best, a) \in Bests
  <1>1. net[a] \in Int /\ Fill!Size(net[a]) \in Nat
    BY DEF Fill!Size
  <1>2. a \notin Fill!Protocol => a \in Users
    BY DEF Fill!Addresses
  <1> QED
    BY <1>1, <1>2 DEF Fill!Consider, Bests

\* The fold of the loop is the function that its recursion determines.
Turn(net, order, g) == [s \in SUBSET DOMAIN order |->
  IF s = {} THEN Fill!Nobody ELSE Fill!Consider(net, g[s \ {Greatest(s)}], order[Greatest(s)])]

Best(net, order) == (CHOOSE g : g = Turn(net, order, g))[DOMAIN order]

LEMMA AttributeUnfolded ==
  ASSUME NEW net, NEW order
  PROVE  Fill!AttributeUser(net, order)
           = IF Best(net, order).user = NoUser \/ Best(net, order).tied THEN Fill!Nobody
             ELSE Best(net, order)
  <1>1. Fill!FoldLeft(LAMBDA s, a : Fill!Consider(net, s, a), Fill!Nobody, order) = Best(net, order)
    BY Zenon DEF Fill!FoldLeft, Fill!MapThenFoldSet, Fill!Max, Turn, Greatest, Best
  <1> QED
    BY <1>1, Zenon DEF Fill!AttributeUser

\* There is such a function.
LEMMA TurnExists ==
  ASSUME NEW net \in [Fill!Addresses -> Int], NEW n \in Nat, NEW order \in [1 .. n -> Fill!Addresses]
  PROVE  \E g : g = Turn(net, order, g)
  <1> DEFINE F == [p \in Bests \X (1 .. n) |-> Fill!Consider(net, p[1], order[p[2]])]
  <1>1. \A best \in Bests, a \in Fill!Addresses : Fill!Consider(net, best, a) \in Bests
    BY ConsiderTypes
  <1>2. \A best \in Bests, i \in 1 .. n : Fill!Consider(net, best, order[i]) \in Bests
    BY <1>1
  <1>3. F \in [Bests \X (1 .. n) -> Bests]
    BY <1>2
  <1>4. Fill!Nobody \in Bests
    BY DEF Fill!Nobody, Bests
  <1>5. \A best \in Bests, i \in 1 .. n : F[<<best, i>>] = Fill!Consider(net, best, order[i])
    OBVIOUS
  <1> HIDE DEF F
  <1>6. PICK g \in [SUBSET (1 .. n) -> Bests] : g = FoldStep(F, Fill!Nobody, n, g)
    <2>1. HasFold(Bests, Fill!Nobody, n, F)
      BY FoldExists
    <2> QED
      BY <1>3, <1>4, <2>1 DEF HasFold
  <1>7. \A s \in SUBSET (1 .. n) : s # {} =>
          F[<<g[s \ {Greatest(s)}], Greatest(s)>>]
            = Fill!Consider(net, g[s \ {Greatest(s)}], order[Greatest(s)])
    BY <1>5, <1>6, GreatestIsIn
  <1>8. g = Turn(net, order, g)
    BY <1>6, <1>7 DEF FoldStep, Turn
  <1> QED
    BY <1>8

\* The loop goes through the order from its first address to its last.
FromFirst(net, n, order, g) ==
  /\ g[{}] = Fill!Nobody
  /\ \A i \in 1 .. n : g[1 .. i] = Fill!Consider(net, g[1 .. (i - 1)], order[i])

LEMMA TurnOfFirst ==
  ASSUME NEW net, NEW n \in Nat, NEW order, DOMAIN order = 1 .. n,
         NEW g, g = Turn(net, order, g)
  PROVE  FromFirst(net, n, order, g)
  <1>1. {} \in SUBSET (1 .. n)
    OBVIOUS
  <1>2. ASSUME NEW i \in 1 .. n
        PROVE  g[1 .. i] = Fill!Consider(net, g[1 .. (i - 1)], order[i])
    <2>1. /\ 1 .. i \in SUBSET (1 .. n) /\ 1 .. i # {}
          /\ Greatest(1 .. i) = i /\ (1 .. i) \ {i} = 1 .. (i - 1)
      BY FirstPlaces
    <2>2. PICK s : s = 1 .. i
      OBVIOUS
    <2>3. PICK t : t = 1 .. (i - 1)
      OBVIOUS
    <2>4. /\ s \in SUBSET DOMAIN order /\ s # {} /\ Greatest(s) = i /\ s \ {i} = t
      BY <2>1, <2>2, <2>3
    <2>5. g[s] = Fill!Consider(net, g[t], order[i])
      BY <2>4, Zenon DEF Turn
    <2> QED
      BY <2>2, <2>3, <2>5
  <1> QED
    BY <1>1, <1>2 DEF Turn, FromFirst

\* The loop, whatever the order of the map: its result is the one who gained or
\* gave away most, or nobody.
LEMMA AttributedInAnyOrder ==
  ASSUME Fill!AttributionAssumption, NEW net \in [Fill!Addresses -> Int],
         NEW u \in Fill!Attributions(net)
  PROVE  \/ u = Fill!Nobody /\ Cardinality(LargestIn(net)) # 1
         \/ /\ u.user \in Users /\ LargestIn(net) = {u.user}
            /\ u.size = Fill!Size(net[u.user]) /\ u.size \in Nat \ {0}
  <1>1. PICK S : S = {a \in Fill!Addresses : net[a] # 0}
    OBVIOUS
  <1>2. S \in SUBSET Fill!Addresses /\ IsFiniteSet(S) /\ Cardinality(S) \in Nat
    <2>1. IsFiniteSet({PM}) /\ IsFiniteSet({Router}) /\ IsFiniteSet(Users)
      BY FillCopies, FS_Singleton DEF Fill!AttributionAssumption
    <2>2. IsFiniteSet({PM} \cup {Router}) /\ {PM} \cup {Router} = Fill!Protocol
      BY <2>1, FS_Union DEF Fill!Protocol
    <2>3. IsFiniteSet(Fill!Addresses)
      BY <2>1, <2>2, FS_Union DEF Fill!Addresses
    <2> QED
      BY <1>1, <2>3, FS_Subset, FS_CardinalityType
  <1>3. PICK n \in Nat : n = Cardinality(S)
    BY <1>2
  <1>4. PICK order \in Fill!SetToSeqs(S) : u = Fill!AttributeUser(net, order)
    BY <1>1, <1>2 DEF Fill!Attributions, Fill!Orders
  <1>5. /\ order \in [1 .. n -> S] /\ DOMAIN order = 1 .. n
        /\ \A i, j \in 1 .. n : order[i] = order[j] => i = j
    <2>1. Fill!Cardinality(S) = n
      BY <1>3, FillCopies
    <2> QED
      BY <1>4, <2>1 DEF Fill!SetToSeqs
  <1>6. \A a \in S : \E i \in 1 .. n : order[i] = a
    <2>1. IsFiniteSet(1 .. n) /\ Cardinality(1 .. n) = Cardinality(S)
      BY <1>3, FS_Interval
    <2>2. order \in Injection(1 .. n, S)
      BY <1>5 DEF Injection, IsInjective
    <2>3. order \in Surjection(1 .. n, S)
      BY <1>2, <2>1, <2>2, FS_Injection
    <2> QED
      BY <2>3 DEF Surjection
  <1>7. PICK g : g = Turn(net, order, g) /\ g = CHOOSE h : h = Turn(net, order, h)
    <2>1. order \in [1 .. n -> Fill!Addresses]
      BY <1>2, <1>5
    <2>2. \E g : g = Turn(net, order, g)
      BY <2>1, TurnExists
    <2> QED
      BY <2>2, Zenon
  <1>8. PICK best : /\ best = g[1 .. n]
                    /\ u = IF best.user = NoUser \/ best.tied THEN Fill!Nobody ELSE best
    <2>1. Best(net, order) = g[1 .. n]
      BY <1>5, <1>7 DEF Best
    <2>2. u = IF Best(net, order).user = NoUser \/ Best(net, order).tied THEN Fill!Nobody
              ELSE Best(net, order)
      BY <1>4, AttributeUnfolded, Zenon
    <2> QED
      BY <2>1, <2>2
  <1>first. /\ g[{}] = Fill!Nobody
            /\ \A k \in 1 .. n : g[1 .. k] = Fill!Consider(net, g[1 .. (k - 1)], order[k])
    <2>1. FromFirst(net, n, order, g)
      BY <1>3, <1>5, <1>7, TurnOfFirst
    <2> QED
      BY <2>1 DEF FromFirst
  <1> DEFINE Through(i) == {order[j] : j \in 1 .. i}
             H == {i \in Nat : i <= n => g[1 .. i] \in Bests /\ BestOf(net, Through(i), g[1 .. i])}
  <1>9. 0 \in H
    <2>1. 1 .. 0 = {} /\ g[{}] = Fill!Nobody
      BY <1>first
    <2>2. Through(0) = {} /\ Fill!Nobody \in Bests
      BY <2>1 DEF Fill!Nobody, Bests
    <2> HIDE DEF Through
    <2>3. BestOf(net, Through(0), Fill!Nobody)
      BY <2>2 DEF BestOf
    <2> QED
      BY <2>1, <2>2, <2>3
  <1>10. ASSUME NEW i \in Nat, i \in H PROVE i + 1 \in H
    <2> SUFFICES ASSUME i + 1 <= n
                 PROVE  g[1 .. (i + 1)] \in Bests /\ BestOf(net, Through(i + 1), g[1 .. (i + 1)])
      OBVIOUS
    <2>1. i <= n /\ i + 1 \in 1 .. n /\ (i + 1) - 1 = i
      BY <1>3
    <2>2. g[1 .. i] \in Bests /\ BestOf(net, Through(i), g[1 .. i])
      BY <1>10, <2>1
    <2>3. g[1 .. (i + 1)] = Fill!Consider(net, g[1 .. i], order[i + 1])
      <3> HIDE DEF Through, H
      <3> QED
        BY <1>first, <2>1
    <2>4. /\ Through(i) \in SUBSET S /\ Through(i + 1) = Through(i) \cup {order[i + 1]}
          /\ order[i + 1] \in S \ Through(i)
      <3>1. 1 .. (i + 1) = (1 .. i) \cup {i + 1} /\ 1 .. i \subseteq 1 .. n
        BY <2>1
      <3> QED
        BY <1>5, <2>1, <3>1
    <2> HIDE DEF Through
    <2>5. Through(i) \in SUBSET Fill!Addresses /\ order[i + 1] \in Fill!Addresses \ Through(i)
          /\ net[order[i + 1]] # 0 /\ \A b \in Through(i) : net[b] # 0
      BY <1>1, <1>2, <2>4
    <2>6. PICK T, a, old : T = Through(i) /\ a = order[i + 1] /\ old = g[1 .. i]
      OBVIOUS
    <2>7. /\ Fill!Consider(net, old, a) \in Bests
          /\ BestOf(net, T \cup {a}, Fill!Consider(net, old, a))
      BY <2>2, <2>5, <2>6, ConsiderOne
    <2> QED
      BY <2>3, <2>4, <2>6, <2>7
  <1>11. best \in Bests /\ BestOf(net, S, best)
    <2>1. Through(n) = S
      BY <1>5, <1>6
    <2>2. n \in H
      <3> HIDE DEF H
      <3> QED
        BY <1>9, <1>10, EveryNat
    <2> HIDE DEF Through
    <2> QED
      BY <1>8, <2>1, <2>2
  <1> HIDE DEF Through, H
  <1>12. /\ \A b \in Fill!Addresses : Fill!Size(net[b]) \in Nat
         /\ \A b \in Fill!Addresses : net[b] # 0 <=> Fill!Size(net[b]) > 0
         /\ Users \subseteq Fill!Addresses /\ NoUser \notin Users
    BY DEF Fill!Size, Fill!Addresses, Fill!AttributionAssumption
  <1>13. CASE S \cap Users = {}
    <2>1. best = Fill!Nobody /\ u = Fill!Nobody
      BY <1>8, <1>11, <1>13 DEF BestOf, Fill!Nobody
    <2>2. LargestIn(net) = {}
      BY <1>1, <1>12, <1>13 DEF LargestIn
    <2> QED
      BY <2>1, <2>2, FS_EmptySet
  <1>14. CASE S \cap Users # {}
    <2>1. /\ best.user \in S \cap Users /\ best.size = Fill!Size(net[best.user])
          /\ \A b \in S \cap Users : Fill!Size(net[b]) <= best.size
          /\ best.tied <=> \E b \in (S \cap Users) \ {best.user} : Fill!Size(net[b]) = best.size
      BY <1>11, <1>14 DEF BestOf
    <2>2. best.size \in Nat \ {0} /\ \A b \in Users : Fill!Size(net[b]) <= best.size
      BY <1>1, <1>12, <2>1
    <2>3. LargestIn(net) = {b \in S \cap Users : Fill!Size(net[b]) = best.size}
      BY <1>1, <1>12, <2>1, <2>2 DEF LargestIn
    <2>4. CASE best.tied
      <3>1. PICK b \in (S \cap Users) \ {best.user} : Fill!Size(net[b]) = best.size
        BY <2>1, <2>4
      <3>2. {b, best.user} \subseteq LargestIn(net) /\ b # best.user
        BY <2>1, <2>3, <3>1
      <3>3. \A x : LargestIn(net) # {x}
        BY <3>2
      <3>4. IsFiniteSet(LargestIn(net))
        BY <1>2, <2>3, FS_Subset
      <3>5. Cardinality(LargestIn(net)) # 1
        BY <3>3, <3>4, FS_Singleton
      <3> QED
        BY <1>8, <2>4, <3>5
    <2>5. CASE ~best.tied
      <3>1. LargestIn(net) = {best.user}
        BY <2>1, <2>3, <2>5
      <3>2. u = best
        BY <1>8, <1>12, <2>1, <2>5
      <3> QED
        BY <2>1, <2>2, <3>1, <3>2
    <2> QED
      BY <2>4, <2>5
  <1> QED
    BY <1>13, <1>14

\* What the logs ts of a token moved to an address, less what they moved from it.
NetOf(ts, token, a) ==
  SumFunctionOnSet([i \in DOMAIN ts |-> Fill!Delta(ts[i], a)], {i \in DOMAIN ts : ts[i].token = token})

Moves == [token : {"meme", "quote", "eth"}, from : Fill!Addresses, to : Fill!Addresses, amount : Nat]

\* One log more adds what it moved, if it is one of the token.
NetOfLog(t, token, a) == IF t.token = token THEN Fill!Delta(t, a) ELSE 0

\* The net is a number; the net of up to three logs is what each of them moved.
LEMMA NetOfFew ==
  ASSUME NEW ts \in Seq(Moves), NEW token, NEW a
  PROVE  /\ NetOf(ts, token, a) \in Int
         /\ \A i \in DOMAIN ts : NetOfLog(ts[i], token, a) \in Int
         /\ Len(ts) = 1 => NetOf(ts, token, a) = NetOfLog(ts[1], token, a)
         /\ Len(ts) = 2 => NetOf(ts, token, a) = NetOfLog(ts[1], token, a) + NetOfLog(ts[2], token, a)
         /\ Len(ts) = 3 => NetOf(ts, token, a) = NetOfLog(ts[1], token, a) + NetOfLog(ts[2], token, a)
                                                   + NetOfLog(ts[3], token, a)
  <1>1. PICK n \in Nat : n = Len(ts) /\ DOMAIN ts = 1 .. n
    OBVIOUS
  <1>2. \A i \in 1 .. n : Fill!Delta(ts[i], a) \in Int
    <2> SUFFICES ASSUME NEW i \in 1 .. n PROVE Fill!Delta(ts[i], a) \in Int
      OBVIOUS
    <2>1. PICK t \in Moves : t = ts[i]
      BY <1>1
    <2>2. t.amount \in Nat
      BY DEF Moves
    <2> QED
      BY <2>1, <2>2 DEF Fill!Delta
  <1> DEFINE f == [i \in DOMAIN ts |-> Fill!Delta(ts[i], a)]
             S(k) == {i \in 1 .. k : ts[i].token = token}
  <1>3. \A k \in Nat : k <= n => Integral(f, S(k))
    <2> SUFFICES ASSUME NEW k \in Nat, k <= n PROVE Integral(f, S(k))
      OBVIOUS
    <2>1. IsFiniteSet(1 .. k)
      BY FS_Interval
    <2>2. IsFiniteSet(S(k))
      BY <2>1, FS_Subset
    <2>3. \A i \in S(k) : f[i] \in Int
      BY <1>1, <1>2
    <2> QED
      BY <2>2, <2>3 DEF Integral
  <1>4. ASSUME NEW k \in 1 .. n
        PROVE  /\ SumFunctionOnSet(f, S(k - 1)) \in Int
               /\ SumFunctionOnSet(f, S(k)) = NetOfLog(ts[k], token, a) + SumFunctionOnSet(f, S(k - 1))
    <2>1. Integral(f, S(k - 1)) /\ Integral(f, S(k)) /\ k \notin S(k - 1)
      BY <1>3
    <2>2. SumFunctionOnSet(f, S(k - 1)) \in Int
      <3> HIDE DEF f, S
      <3> QED
        BY <2>1, SumOfSome
    <2>3. CASE ts[k].token = token
      <3>1. S(k) = S(k - 1) \cup {k} /\ f[k] = NetOfLog(ts[k], token, a)
        BY <1>1, <2>3 DEF NetOfLog
      <3> HIDE DEF f, S
      <3>2. SumFunctionOnSet(f, S(k - 1) \cup {k}) = f[k] + SumFunctionOnSet(f, S(k - 1))
        BY <2>1, <3>1, SumOfMore
      <3> QED
        BY <2>2, <3>1, <3>2
    <2>4. CASE ts[k].token # token
      <3>1. S(k) = S(k - 1) /\ NetOfLog(ts[k], token, a) = 0
        BY <2>4 DEF NetOfLog
      <3> HIDE DEF f, S
      <3> QED
        BY <2>2, <3>1
    <2> QED
      BY <2>2, <2>3, <2>4
  <1>5. SumFunctionOnSet(f, S(0)) = 0 /\ NetOf(ts, token, a) = SumFunctionOnSet(f, S(n))
    <2>1. S(0) = {} /\ S(n) = {i \in DOMAIN ts : ts[i].token = token}
      BY <1>1
    <2>2. Integral(f, S(0))
      BY <1>3
    <2>3. NetOf(ts, token, a) = SumFunctionOnSet(f, S(n))
      BY <2>1, Zenon DEF NetOf
    <2> HIDE DEF f, S
    <2> QED
      BY <2>1, <2>2, <2>3, SumOfSome
  <1>6. \A i \in 1 .. n : NetOfLog(ts[i], token, a) \in Int
    BY <1>2 DEF NetOfLog
  <1>7. SumFunctionOnSet(f, S(n)) \in Int
    <2>1. Integral(f, S(n))
      BY <1>3
    <2> HIDE DEF f, S
    <2> QED
      BY <2>1, SumOfSome
  <1>8. PICK T : T = [k \in 0 .. n |-> SumFunctionOnSet(f, S(k))]
    OBVIOUS
  <1>9. PICK W : W = [k \in 1 .. n |-> NetOfLog(ts[k], token, a)]
    OBVIOUS
  <1> HIDE DEF f, S
  <1>10. /\ T[0] = 0 /\ T[n] \in Int /\ T[n] = NetOf(ts, token, a)
         /\ \A k \in 1 .. n : T[k - 1] \in Int /\ T[k] = W[k] + T[k - 1]
    BY <1>4, <1>5, <1>7, <1>8, <1>9
  <1>11. \A k \in 1 .. n : W[k] \in Int
    BY <1>6, <1>9
  <1>12. /\ n = 1 => T[n] = W[1]
         /\ n = 2 => T[n] = W[1] + W[2]
         /\ n = 3 => T[n] = W[1] + W[2] + W[3]
    <2>1. n \in {1, 2, 3} => T[1] = W[1]
      BY <1>10, <1>11
    <2>2. n \in {2, 3} => T[2] = W[1] + W[2]
      BY <1>10, <1>11, <2>1
    <2>3. n = 3 => T[3] = W[1] + W[2] + W[3]
      BY <1>10, <1>11, <2>2
    <2> QED
      BY <2>1, <2>2, <2>3
  <1>13. /\ n = 1 => T[n] = NetOfLog(ts[1], token, a)
         /\ n = 2 => T[n] = NetOfLog(ts[1], token, a) + NetOfLog(ts[2], token, a)
         /\ n = 3 => T[n] = NetOfLog(ts[1], token, a) + NetOfLog(ts[2], token, a)
                               + NetOfLog(ts[3], token, a)
    <2>1. \A k \in 1 .. n : W[k] = NetOfLog(ts[k], token, a)
      BY <1>9
    <2>2. /\ n = 1 => W[1] = NetOfLog(ts[1], token, a)
          /\ n = 2 => W[1] = NetOfLog(ts[1], token, a) /\ W[2] = NetOfLog(ts[2], token, a)
          /\ n = 3 => /\ W[1] = NetOfLog(ts[1], token, a) /\ W[2] = NetOfLog(ts[2], token, a)
                      /\ W[3] = NetOfLog(ts[3], token, a)
      BY <2>1
    <2> QED
      BY <1>12, <2>2, Zenon
  <1> QED
    BY <1>1, <1>6, <1>10, <1>13, Zenon

\* What the moves ts of a kind T brought an address.
SumIn(ts, T, a) ==
  SumFunctionOnSet([i \in DOMAIN ts |-> Fill!Delta(ts[i], a)], {i \in DOMAIN ts : ts[i] \in T})

Brings(t, T, a) == IF t \in T THEN Fill!Delta(t, a) ELSE 0

\* One move more adds what it brings, if it is of the kind.
LEMMA SumOfAppended ==
  ASSUME NEW ts \in Seq(Moves), NEW t \in Moves, NEW T, NEW a
  PROVE  /\ Append(ts, t) \in Seq(Moves) /\ SumIn(ts, T, a) \in Int /\ Brings(t, T, a) \in Int
         /\ SumIn(Append(ts, t), T, a) = SumIn(ts, T, a) + Brings(t, T, a)
  <1>0. PICK n \in Nat, us \in Seq(Moves) : n = Len(ts) /\ us = Append(ts, t)
    <2>1. Len(ts) \in Nat /\ Append(ts, t) \in Seq(Moves)
      OBVIOUS
    <2> QED
      BY <2>1
  <1>1. /\ n = Len(ts) /\ us = Append(ts, t) /\ DOMAIN ts = 1 .. n /\ DOMAIN us = 1 .. (n + 1)
        /\ us[n + 1] = t /\ \A i \in 1 .. n : us[i] = ts[i] /\ ts[i] \in Moves
    BY <1>0
  <1>2. \A m \in Moves : Fill!Delta(m, a) \in Int
    <2> SUFFICES ASSUME NEW m \in Moves PROVE Fill!Delta(m, a) \in Int
      OBVIOUS
    <2>1. m.amount \in Nat
      BY DEF Moves
    <2> QED
      BY <2>1 DEF Fill!Delta
  <1>3. PICK f, g : /\ f = [i \in 1 .. n |-> Fill!Delta(ts[i], a)]
                    /\ g = [i \in 1 .. (n + 1) |-> Fill!Delta(us[i], a)]
    OBVIOUS
  <1>4. PICK S, R : S = {i \in 1 .. n : ts[i] \in T} /\ R = {i \in 1 .. (n + 1) : us[i] \in T}
    OBVIOUS
  <1>5. SumIn(ts, T, a) = SumFunctionOnSet(f, S) /\ SumIn(us, T, a) = SumFunctionOnSet(g, R)
    BY <1>1, <1>3, <1>4, Zenon DEF SumIn
  <1>6. /\ \A i \in 1 .. n : f[i] = Fill!Delta(ts[i], a) /\ g[i] = f[i] /\ f[i] \in Int
        /\ g[n + 1] = Fill!Delta(t, a) /\ g[n + 1] \in Int /\ n + 1 \notin S
    BY <1>1, <1>2, <1>3, <1>4
  <1>7. IsFiniteSet(S) /\ IsFiniteSet(S \cup {n + 1})
    <2>1. IsFiniteSet(1 .. n)
      BY FS_Interval
    <2>2. IsFiniteSet(S) /\ IsFiniteSet({n + 1})
      BY <1>4, <2>1, FS_Subset, FS_Singleton
    <2> QED
      BY <2>2, FS_Union
  <1>8. Integral(f, S) /\ Integral(g, S \cup {n + 1})
    BY <1>4, <1>6, <1>7 DEF Integral
  <1>9. /\ SumFunctionOnSet(g, S) = SumFunctionOnSet(f, S) /\ SumFunctionOnSet(f, S) \in Int
        /\ SumFunctionOnSet(g, S \cup {n + 1}) = g[n + 1] + SumFunctionOnSet(g, S)
    <2>1. \A i \in S : g[i] = f[i]
      BY <1>4, <1>6
    <2>2. Integral(g, S)
      BY <1>4, <1>6, <1>7 DEF Integral
    <2>3. SumFunctionOnSet(g, S) = SumFunctionOnSet(f, S)
      BY <1>8, <2>1, <2>2, SumOfSame
    <2>4. SumFunctionOnSet(f, S) \in Int
      BY <1>8, SumOfSome
    <2>5. SumFunctionOnSet(g, S \cup {n + 1}) = g[n + 1] + SumFunctionOnSet(g, S)
      BY <1>6, <1>8, SumOfMore
    <2> QED
      BY <2>3, <2>4, <2>5
  <1>10. R = IF t \in T THEN S \cup {n + 1} ELSE S
    <2>1. 1 .. (n + 1) = (1 .. n) \cup {n + 1} /\ n + 1 \notin 1 .. n
      BY <1>1
    <2> QED
      BY <1>1, <1>4, <2>1
  <1>11. SumFunctionOnSet(g, R) = SumFunctionOnSet(f, S) + Brings(t, T, a) /\ Brings(t, T, a) \in Int
    BY <1>6, <1>9, <1>10 DEF Brings
  <1> QED
    BY <1>1, <1>5, <1>9, <1>11

\* The three moves of a trade.
LEMMA SumOfThree ==
  ASSUME NEW ts \in Seq(Moves), NEW x \in Moves, NEW y \in Moves, NEW z \in Moves, NEW T, NEW a
  PROVE  SumIn(ts \o <<x, y, z>>, T, a)
           = SumIn(ts, T, a) + Brings(x, T, a) + Brings(y, T, a) + Brings(z, T, a)
  <1>1. PICK us \in Seq(Moves) : us = Append(ts, x)
    <2>1. Append(ts, x) \in Seq(Moves)
      BY SumOfAppended
    <2> QED
      BY <2>1
  <1>2. PICK vs \in Seq(Moves) : vs = Append(us, y)
    <2>1. Append(us, y) \in Seq(Moves)
      BY SumOfAppended
    <2> QED
      BY <2>1
  <1>3. ts \o <<x, y, z>> = Append(vs, z)
    BY <1>1, <1>2
  <1>4. SumIn(Append(vs, z), T, a) = SumIn(vs, T, a) + Brings(z, T, a) /\ Brings(z, T, a) \in Int
    BY SumOfAppended
  <1>5. SumIn(vs, T, a) = SumIn(us, T, a) + Brings(y, T, a) /\ Brings(y, T, a) \in Int
    BY <1>2, SumOfAppended
  <1>6. /\ SumIn(us, T, a) = SumIn(ts, T, a) + Brings(x, T, a)
        /\ SumIn(ts, T, a) \in Int /\ Brings(x, T, a) \in Int
    BY <1>1, SumOfAppended
  <1> QED
    BY <1>3, <1>4, <1>5, <1>6

\* The element of a sequence that has one.
LEMMA OneOf ==
  ASSUME NEW T, NEW ts \in Seq(T), Len(ts) = 1 PROVE ts[1] \in T
  OBVIOUS

QuoteOf(nat) == IF nat THEN "eth" ELSE "quote"

\* What is moved in a transaction that is one trade.
LogsOf(nat, user, side, meme, quote, fee) ==
  IF side = "buy"
    THEN <<Fill!Move(QuoteOf(nat), user, PM, quote), Fill!Move("meme", PM, Router, meme),
           Fill!Move("meme", Router, user, meme - fee)>>
    ELSE <<Fill!Move("meme", user, PM, meme), Fill!Move(QuoteOf(nat), PM, Router, quote),
           Fill!Move(QuoteOf(nat), Router, user, quote - fee)>>

\* What such a transaction moves: to or from its user what he got or gave.
MovesTrade(nat, user, side, meme, quote, fee, ts) ==
  /\ ts \in Seq(Moves)
  /\ \A b \in Users : NetOf(ts, "meme", b)
       = IF b # user THEN 0 ELSE IF side = "buy" THEN meme - fee ELSE -meme
  /\ NetOf(ts, QuoteOf(nat), user) = IF side = "buy" THEN -quote ELSE quote - fee

\* The addresses of a trade, and which moves there are.
LEMMA MoveTypes ==
  ASSUME Fill!AttributionAssumption
  PROVE  /\ \A b \in Users : b # PM /\ b # Router /\ b \notin Fill!Protocol
         /\ PM \in Fill!Addresses /\ Router \in Fill!Addresses /\ Users \subseteq Fill!Addresses
         /\ PM \in Fill!Protocol /\ Router \in Fill!Protocol
         /\ \A nat \in BOOLEAN : QuoteOf(nat) \in {"quote", "eth"} /\ QuoteOf(nat) # "meme"
         /\ \A token \in {"meme", "quote", "eth"}, from, to \in Fill!Addresses, amount \in Nat :
              Fill!Move(token, from, to, amount) \in Moves
  BY DEF Fill!Addresses, Fill!Protocol, Fill!AttributionAssumption, Fill!Move, Moves, QuoteOf

LEMMA NetsOfOneTrade ==
  ASSUME Fill!AttributionAssumption, NEW nat \in BOOLEAN, NEW user \in Users,
         NEW side \in {"buy", "sell"}, NEW meme \in Nat \ {0}, NEW quote \in Nat \ {0}, NEW fee \in Nat,
         side = "buy" => fee < meme, side = "sell" => fee < quote,
         NEW ts, ts = LogsOf(nat, user, side, meme, quote, fee)
  PROVE  MovesTrade(nat, user, side, meme, quote, fee, ts)
  <1>1. PICK k \in {"quote", "eth"} : k = QuoteOf(nat) /\ k # "meme"
    BY MoveTypes
  <1>3. \A token, t, from, to, amount, b :
          NetOfLog(Fill!Move(t, from, to, amount), token, b)
            = IF t # token THEN 0
              ELSE (IF to = b THEN amount ELSE 0) - (IF from = b THEN amount ELSE 0)
    BY DEF NetOfLog, Fill!Delta, Fill!Move
  <1>4. CASE side = "buy"
    <2>1. PICK w, x, y : /\ w = Fill!Move(k, user, PM, quote)
                         /\ x = Fill!Move("meme", PM, Router, meme)
                         /\ y = Fill!Move("meme", Router, user, meme - fee)
      OBVIOUS
    <2>2. ts = <<w, x, y>>
      BY <1>1, <1>4, <2>1 DEF LogsOf
    <2>3. w \in Moves /\ x \in Moves /\ y \in Moves
      BY <1>4, <2>1, MoveTypes
    <2>4. ts \in Seq(Moves) /\ Len(ts) = 3 /\ ts[1] = w /\ ts[2] = x /\ ts[3] = y
      BY <2>2, <2>3
    <2>5. \A token, b : NetOf(ts, token, b)
            = NetOfLog(w, token, b) + NetOfLog(x, token, b) + NetOfLog(y, token, b)
      BY <2>4, NetOfFew
    <2>6. \A b \in Users : /\ NetOfLog(w, "meme", b) = 0 /\ NetOfLog(x, "meme", b) = 0
                           /\ NetOfLog(y, "meme", b) = IF b = user THEN meme - fee ELSE 0
      BY <1>1, <1>3, <2>1, MoveTypes
    <2>7. /\ NetOfLog(w, k, user) = -quote
          /\ NetOfLog(x, k, user) = 0 /\ NetOfLog(y, k, user) = 0
      BY <1>1, <1>3, <2>1, MoveTypes
    <2> QED
      BY <1>1, <1>4, <2>4, <2>5, <2>6, <2>7 DEF MovesTrade
  <1>5. CASE side = "sell"
    <2>1. PICK w, x, y : /\ w = Fill!Move("meme", user, PM, meme)
                         /\ x = Fill!Move(k, PM, Router, quote)
                         /\ y = Fill!Move(k, Router, user, quote - fee)
      OBVIOUS
    <2>2. ts = <<w, x, y>>
      BY <1>1, <1>5, <2>1 DEF LogsOf
    <2>3. w \in Moves /\ x \in Moves /\ y \in Moves
      BY <1>5, <2>1, MoveTypes
    <2>4. ts \in Seq(Moves) /\ Len(ts) = 3 /\ ts[1] = w /\ ts[2] = x /\ ts[3] = y
      BY <2>2, <2>3
    <2>5. \A token, b : NetOf(ts, token, b)
            = NetOfLog(w, token, b) + NetOfLog(x, token, b) + NetOfLog(y, token, b)
      BY <2>4, NetOfFew
    <2>6. \A b \in Users : /\ NetOfLog(w, "meme", b) = IF b = user THEN -meme ELSE 0
                           /\ NetOfLog(x, "meme", b) = 0 /\ NetOfLog(y, "meme", b) = 0
      BY <1>1, <1>3, <2>1, MoveTypes
    <2>7. /\ NetOfLog(w, k, user) = 0
          /\ NetOfLog(x, k, user) = 0 /\ NetOfLog(y, k, user) = quote - fee
      BY <1>1, <1>3, <2>1, MoveTypes
    <2> QED
      BY <1>1, <1>5, <2>4, <2>5, <2>6, <2>7 DEF MovesTrade
  <1> QED
    BY <1>4, <1>5

\* All ETH that is moved, and that of it which goes past the PoolManager.
EthMoves     == {t \in Moves : t.token = "eth"}
BesidesMoves == {t \in EthMoves : {t.from, t.to} \cap Fill!Protocol = {}}

\* After a trade in ETH an address has of it what the trade brought its user, and
\* nothing that went past the PoolManager.
AddsEth(ts, user, a, side, meme, quote, fee) ==
  LET us == ts \o LogsOf(TRUE, user, side, meme, quote, fee)
  IN /\ SumIn(us, EthMoves, a)
          = SumIn(ts, EthMoves, a) + (IF user # a THEN 0 ELSE IF side = "buy" THEN -quote ELSE quote - fee)
     /\ SumIn(us, BesidesMoves, a) = SumIn(ts, BesidesMoves, a)

\* A trade in ETH brings its user what he got or gave, and none of it goes past
\* the PoolManager.
LEMMA EthOfTrade ==
  ASSUME Fill!AttributionAssumption, NEW user \in Users, NEW a \in Users,
         NEW side \in {"buy", "sell"}, NEW meme \in Nat, NEW quote \in Nat, NEW fee \in Nat,
         side = "buy" => fee < meme, side = "sell" => fee < quote, NEW ts \in Seq(Moves)
  PROVE  AddsEth(ts, user, a, side, meme, quote, fee)
  <1>1. \A t, from, to, amount :
          LET m == Fill!Move(t, from, to, amount) IN m \in Moves =>
            /\ Brings(m, EthMoves, a) = IF t # "eth" THEN 0
                 ELSE (IF to = a THEN amount ELSE 0) - (IF from = a THEN amount ELSE 0)
            /\ {from, to} \cap Fill!Protocol # {} => Brings(m, BesidesMoves, a) = 0
    BY DEF Brings, EthMoves, BesidesMoves, Fill!Delta, Fill!Move
  <1>2. \A T : SumIn(ts, T, a) \in Int
    <2>1. Fill!Move("meme", PM, PM, 0) \in Moves
      BY MoveTypes
    <2> QED
      BY <2>1, SumOfAppended
  <1>3. CASE side = "buy"
    <2>1. PICK x, y, z : /\ x = Fill!Move("eth", user, PM, quote)
                         /\ y = Fill!Move("meme", PM, Router, meme)
                         /\ z = Fill!Move("meme", Router, user, meme - fee)
      OBVIOUS
    <2>2. x \in Moves /\ y \in Moves /\ z \in Moves
      BY <1>3, <2>1, MoveTypes
    <2>3. LogsOf(TRUE, user, side, meme, quote, fee) = <<x, y, z>>
      BY <1>3, <2>1 DEF LogsOf, QuoteOf
    <2>4. /\ Brings(x, EthMoves, a) = IF user # a THEN 0 ELSE -quote
          /\ Brings(y, EthMoves, a) = 0 /\ Brings(z, EthMoves, a) = 0
      BY <1>1, <2>1, <2>2, MoveTypes
    <2>5. Brings(x, BesidesMoves, a) = 0 /\ Brings(y, BesidesMoves, a) = 0 /\ Brings(z, BesidesMoves, a) = 0
      BY <1>1, <2>1, <2>2, MoveTypes
    <2>6. \A T : SumIn(ts \o <<x, y, z>>, T, a)
                   = SumIn(ts, T, a) + Brings(x, T, a) + Brings(y, T, a) + Brings(z, T, a)
      BY <2>2, SumOfThree
    <2>7. /\ SumIn(ts \o <<x, y, z>>, EthMoves, a)
               = SumIn(ts, EthMoves, a) + (IF user # a THEN 0 ELSE -quote) + 0 + 0
          /\ SumIn(ts \o <<x, y, z>>, BesidesMoves, a) = SumIn(ts, BesidesMoves, a) + 0 + 0 + 0
      BY <2>4, <2>5, <2>6
    <2>8. /\ SumIn(ts \o <<x, y, z>>, EthMoves, a)
               = SumIn(ts, EthMoves, a) + (IF user # a THEN 0 ELSE -quote)
          /\ SumIn(ts \o <<x, y, z>>, BesidesMoves, a) = SumIn(ts, BesidesMoves, a)
      BY <1>2, <2>7
    <2> QED
      BY <1>3, <2>3, <2>8 DEF AddsEth
  <1>4. CASE side = "sell"
    <2>1. PICK x, y, z : /\ x = Fill!Move("meme", user, PM, meme)
                         /\ y = Fill!Move("eth", PM, Router, quote)
                         /\ z = Fill!Move("eth", Router, user, quote - fee)
      OBVIOUS
    <2>2. x \in Moves /\ y \in Moves /\ z \in Moves
      BY <1>4, <2>1, MoveTypes
    <2>3. LogsOf(TRUE, user, side, meme, quote, fee) = <<x, y, z>>
      BY <1>4, <2>1 DEF LogsOf, QuoteOf
    <2>4. /\ Brings(x, EthMoves, a) = 0 /\ Brings(y, EthMoves, a) = 0
          /\ Brings(z, EthMoves, a) = IF user # a THEN 0 ELSE quote - fee
      BY <1>1, <2>1, <2>2, MoveTypes
    <2>5. Brings(x, BesidesMoves, a) = 0 /\ Brings(y, BesidesMoves, a) = 0 /\ Brings(z, BesidesMoves, a) = 0
      BY <1>1, <2>1, <2>2, MoveTypes
    <2>6. \A T : SumIn(ts \o <<x, y, z>>, T, a)
                   = SumIn(ts, T, a) + Brings(x, T, a) + Brings(y, T, a) + Brings(z, T, a)
      BY <2>2, SumOfThree
    <2>7. /\ SumIn(ts \o <<x, y, z>>, EthMoves, a)
               = SumIn(ts, EthMoves, a) + 0 + 0 + (IF user # a THEN 0 ELSE quote - fee)
          /\ SumIn(ts \o <<x, y, z>>, BesidesMoves, a) = SumIn(ts, BesidesMoves, a) + 0 + 0 + 0
      BY <2>4, <2>5, <2>6
    <2>8. /\ SumIn(ts \o <<x, y, z>>, EthMoves, a)
               = SumIn(ts, EthMoves, a) + (IF user # a THEN 0 ELSE quote - fee)
          /\ SumIn(ts \o <<x, y, z>>, BesidesMoves, a) = SumIn(ts, BesidesMoves, a)
      BY <1>2, <2>7
    <2> QED
      BY <1>4, <2>3, <2>8 DEF AddsEth
  <1> QED
    BY <1>3, <1>4

SwapLogs == [registered : BOOLEAN, tokenDelta : Int]
TradeMade == [user : Users, side : {"buy", "sell"}, meme : Nat, quote : Nat]

FillTypes ==
  /\ native \in BOOLEAN /\ transfers \in Seq(Moves) /\ steps \in 0 .. MaxSteps
  /\ swaps \in Seq(SwapLogs) /\ trades \in Seq(TradeMade) /\ Len(trades) = Len(swaps)

\* After one step there is one trade, or none in the pool.
IsOneTrade(user, side, meme, quote, fee) ==
  /\ side = "buy" => fee < meme
  /\ side = "sell" => fee < quote
  /\ transfers = LogsOf(native, user, side, meme, quote, fee) /\ Len(swaps) = 1
  /\ trades[1] = [user |-> user, side |-> side,
                  meme |-> IF side = "buy" THEN meme - fee ELSE meme,
                  quote |-> IF side = "buy" THEN quote ELSE quote - fee]

FirstStep ==
  /\ steps = 0 => transfers = <<>> /\ swaps = <<>> /\ trades = <<>>
  /\ steps = 1 => \/ swaps = <<>>
                  \/ Len(swaps) = 1 /\ ~swaps[1].registered
                  \/ \E user \in Users, side \in {"buy", "sell"}, meme, quote \in Nat \ {0}, fee \in Nat :
                       IsOneTrade(user, side, meme, quote, fee)

\* The fills are those of the receipt, which nothing is added to any more.
FillsOf(u, q) ==
  {[log |-> i, got |-> Fill!DecodeSwap(swaps[i], u, q)] : i \in {j \in 1 .. Len(swaps) : swaps[j].registered}}

FillsMade ==
  fills = {} \/ \E u \in Fill!Attributions(Fill!Nets("meme")), q \in Fill!Attributions(Fill!Nets("quote")) :
    fills = FillsOf(u, q)

\* As long as there is one Swap at most, the ETH that an address got is that of
\* its trade and what went past the PoolManager.
EthKnown ==
  native => \A a \in Users :
    /\ swaps = <<>> => SumIn(transfers, EthMoves, a) = SumIn(transfers, BesidesMoves, a)
    /\ Len(swaps) = 1 => SumIn(transfers, EthMoves, a)
                           = Fill!Paid(trades[1], a) + SumIn(transfers, BesidesMoves, a)

FillInv == FillTypes /\ FirstStep /\ EthKnown /\ FillsMade

\* Before the first step.
LEMMA InitFill == ASSUME Fill!AttributionAssumption, Fill!Init PROVE FillInv
  <1>1. MaxSteps \in Nat
    BY DEF Fill!AttributionAssumption
  <1>2. EthKnown
    <2>1. transfers = <<>> /\ swaps = <<>>
      BY DEF Fill!Init
    <2>2. \A T, a : SumIn(<<>>, T, a) = SumFunctionOnSet([i \in {} |-> Fill!Delta(<<>>[i], a)], {})
      <3>1. DOMAIN <<>> = {} /\ \A T : {i \in DOMAIN <<>> : <<>>[i] \in T} = {}
        OBVIOUS
      <3> QED
        BY <3>1, Zenon DEF SumIn
    <2> QED
      BY <2>1, <2>2 DEF EthKnown
  <1> QED
    BY <1>1, <1>2 DEF Fill!Init, FillInv, FillTypes, FirstStep, FillsMade

\* A trade in the pool.
LEMMA TradeFill ==
  ASSUME Fill!AttributionAssumption, FillInv, NEW user \in Users, NEW side \in {"buy", "sell"},
         NEW meme \in Fill!Amounts, NEW quote \in Fill!Amounts, NEW fee \in 0 .. 1,
         Fill!Trade(user, side, meme, quote, fee)
  PROVE  FillInv'
  <1>1. /\ meme \in Nat \ {0} /\ quote \in Nat \ {0} /\ fee \in Nat
        /\ side = "buy" => fee < meme
        /\ side = "sell" => fee < quote
    BY DEF Fill!Amounts, Fill!AttributionAssumption, Fill!Trade
  <1>2. /\ fills' = {} /\ native' = native /\ native \in BOOLEAN
        /\ steps \in Nat /\ steps' = steps + 1 /\ steps' \in 0 .. MaxSteps
    BY DEF Fill!Trade, Fill!Executing, FillInv, FillTypes, Fill!AttributionAssumption
  <1>3. PICK t : t = [user |-> user, side |-> side,
                      meme |-> IF side = "buy" THEN meme - fee ELSE meme,
                      quote |-> IF side = "buy" THEN quote ELSE quote - fee]
    OBVIOUS
  <1>4. t \in TradeMade
    BY <1>1, <1>3 DEF TradeMade
  <1>5. PICK s : s = [registered |-> TRUE, tokenDelta |-> IF side = "buy" THEN -meme ELSE meme]
    OBVIOUS
  <1>6. s \in SwapLogs
    BY <1>1, <1>5 DEF SwapLogs
  <1>7. PICK ts : ts = LogsOf(native, user, side, meme, quote, fee)
    OBVIOUS
  <1>8. ts \in Seq(Moves)
    <2>1. MovesTrade(native, user, side, meme, quote, fee, ts)
      BY <1>1, <1>2, <1>7, NetsOfOneTrade
    <2> QED
      BY <2>1 DEF MovesTrade
  <1>9. transfers' = transfers \o ts
    <2>1. Fill!Quote = QuoteOf(native)
      BY DEF Fill!Quote, QuoteOf
    <2> QED
      BY <1>7, <2>1 DEF Fill!Trade, LogsOf
  <1>10. swaps' = Append(swaps, s) /\ trades' = Append(trades, t)
    BY <1>3, <1>5 DEF Fill!Trade
  <1>11. FillTypes'
    BY <1>2, <1>4, <1>6, <1>8, <1>9, <1>10 DEF FillInv, FillTypes
  <1>12. FirstStep'
    <2>1. steps' # 0
      BY <1>2
    <2>2. ASSUME steps' = 1 PROVE IsOneTrade(user, side, meme, quote, fee)'
      <3>1. steps = 0
        BY <1>2, <2>2
      <3>2. transfers = <<>> /\ swaps = <<>> /\ trades = <<>>
        BY <3>1 DEF FillInv, FirstStep
      <3>3. transfers' = ts /\ swaps' = <<s>> /\ trades' = <<t>>
        BY <1>8, <1>9, <1>10, <3>2
      <3> QED
        BY <1>1, <1>2, <1>3, <1>7, <3>3 DEF IsOneTrade
    <2> QED
      BY <1>1, <2>1, <2>2 DEF FirstStep
  <1>13. FillsMade'
    BY <1>2 DEF FillsMade
  <1>14. EthKnown'
    <2> SUFFICES ASSUME native, NEW a \in Users
                 PROVE  /\ swaps' # <<>>
                        /\ Len(swaps') = 1 => SumIn(transfers', EthMoves, a)
                                               = Fill!Paid(trades'[1], a) + SumIn(transfers', BesidesMoves, a)
      BY <1>2 DEF EthKnown, Fill!Paid
    <2>1. swaps \in Seq(SwapLogs) /\ trades \in Seq(TradeMade) /\ Len(trades) = Len(swaps)
          /\ transfers \in Seq(Moves)
      BY DEF FillInv, FillTypes
    <2>2. swaps' # <<>>
      BY <1>10, <2>1
    <2>3. ASSUME Len(swaps') = 1
          PROVE  SumIn(transfers', EthMoves, a) = Fill!Paid(trades'[1], a) + SumIn(transfers', BesidesMoves, a)
      <3>1. swaps = <<>> /\ trades'[1] = t
        BY <1>10, <2>1, <2>3
      <3>2. SumIn(transfers, EthMoves, a) = SumIn(transfers, BesidesMoves, a)
        BY <3>1 DEF FillInv, EthKnown
      <3>3. /\ SumIn(transfers', EthMoves, a) = SumIn(transfers, EthMoves, a)
                  + (IF user # a THEN 0 ELSE IF side = "buy" THEN -quote ELSE quote - fee)
            /\ SumIn(transfers', BesidesMoves, a) = SumIn(transfers, BesidesMoves, a)
        <4>1. native = TRUE
          BY <1>2
        <4>2. ts = LogsOf(TRUE, user, side, meme, quote, fee)
          BY <1>7, <4>1
        <4>3. meme \in Nat /\ quote \in Nat /\ fee \in Nat
          BY <1>1
        <4>4. AddsEth(transfers, user, a, side, meme, quote, fee)
          BY <1>1, <2>1, <4>3, EthOfTrade
        <4> QED
          BY <1>9, <4>2, <4>4, Zenon DEF AddsEth
      <3>4. Fill!Paid(t, a) = IF user # a THEN 0 ELSE IF side = "buy" THEN -quote ELSE quote - fee
        BY <1>3 DEF Fill!Paid
      <3>5. SumIn(transfers, BesidesMoves, a) \in Int /\ Fill!Paid(t, a) \in Int
        <4>1. Fill!Move("meme", PM, PM, 0) \in Moves
          BY MoveTypes
        <4> QED
          BY <1>1, <2>1, <3>4, <4>1, SumOfAppended
      <3> QED
        BY <3>1, <3>2, <3>3, <3>4, <3>5
    <2> QED
      BY <2>2, <2>3
  <1> QED
    BY <1>11, <1>12, <1>13, <1>14 DEF FillInv

\* A trade in another pool, and a transfer.
LEMMA BesidesFill ==
  ASSUME Fill!AttributionAssumption, FillInv,
         \/ \E user \in Users, side \in {"buy", "sell"}, quote \in Fill!Amounts :
              Fill!TradeElsewhere(user, side, quote)
         \/ \E token \in {"meme", Fill!Quote}, from, to \in Users, amount \in Fill!Amounts :
              Fill!Send(token, from, to, amount)
  PROVE  FillInv'
  <1>1. /\ fills' = {} /\ native' = native /\ native \in BOOLEAN
        /\ steps \in Nat /\ steps' = steps + 1 /\ steps' \in 0 .. MaxSteps
    <2>1. fills = {} /\ steps < MaxSteps /\ steps' = steps + 1 /\ native' = native /\ fills' = fills
      BY DEF Fill!TradeElsewhere, Fill!Send, Fill!Executing
    <2> QED
      BY <2>1 DEF FillInv, FillTypes, Fill!AttributionAssumption
  <1>2. \A n \in Fill!Amounts : n \in Nat
    BY DEF Fill!Amounts, Fill!AttributionAssumption
  <1>3. Fill!Quote = QuoteOf(native) /\ Fill!Quote \in {"quote", "eth"} /\ (native => Fill!Quote = "eth")
    BY <1>1 DEF Fill!Quote, QuoteOf
  <1>4. steps' = 1 => swaps = <<>>
    BY <1>1 DEF FillInv, FirstStep
  <1>5. /\ swaps \in Seq(SwapLogs) /\ trades \in Seq(TradeMade) /\ Len(trades) = Len(swaps)
        /\ transfers \in Seq(Moves)
    BY DEF FillInv, FillTypes
  <1>6. \A t \in Moves : \A T, a :
          /\ SumIn(transfers, T, a) \in Int /\ Brings(t, T, a) \in Int
          /\ SumIn(Append(transfers, t), T, a) = SumIn(transfers, T, a) + Brings(t, T, a)
    BY <1>5, SumOfAppended
  <1>7. FillTypes' /\ FirstStep' /\ EthKnown'
    <2>1. ASSUME NEW user \in Users, NEW side \in {"buy", "sell"}, NEW quote \in Fill!Amounts,
                 Fill!TradeElsewhere(user, side, quote)
          PROVE  FillTypes' /\ FirstStep' /\ EthKnown'
      <3>1. PICK s, t, x : /\ s = [registered |-> FALSE, tokenDelta |-> 0]
                           /\ t = [user |-> user, side |-> side, meme |-> 0, quote |-> quote]
                           /\ x = IF side = "buy" THEN Fill!Move(Fill!Quote, user, PM, quote)
                                                 ELSE Fill!Move(Fill!Quote, PM, user, quote)
        OBVIOUS
      <3>2. s \in SwapLogs /\ ~s.registered /\ t \in TradeMade
        BY <1>2, <3>1 DEF SwapLogs, TradeMade
      <3>3. x \in Moves
        BY <1>2, <1>3, <3>1, MoveTypes
      <3>4. /\ swaps' = Append(swaps, s) /\ trades' = Append(trades, t)
            /\ transfers' = Append(transfers, x)
        BY <2>1, <3>1 DEF Fill!TradeElsewhere
      <3>5. FillTypes'
        BY <1>1, <3>2, <3>3, <3>4 DEF FillInv, FillTypes
      <3>6. steps' = 1 => Len(swaps') = 1 /\ ~swaps'[1].registered
        BY <1>4, <3>2, <3>4
      <3>7. EthKnown'
        <4> SUFFICES ASSUME native, NEW a \in Users
                     PROVE  /\ swaps' # <<>>
                            /\ Len(swaps') = 1 => SumIn(transfers', EthMoves, a)
                                                   = Fill!Paid(trades'[1], a) + SumIn(transfers', BesidesMoves, a)
          BY <1>1 DEF EthKnown, Fill!Paid
        <4>1. swaps' # <<>>
          BY <1>5, <3>4
        <4>2. ASSUME Len(swaps') = 1
              PROVE  SumIn(transfers', EthMoves, a) = Fill!Paid(t, a) + SumIn(transfers', BesidesMoves, a)
          <5>1. swaps = <<>>
            BY <1>5, <3>4, <4>2
          <5>2. SumIn(transfers, EthMoves, a) = SumIn(transfers, BesidesMoves, a)
            BY <5>1 DEF FillInv, EthKnown
          <5>3. Brings(x, EthMoves, a) = Fill!Paid(t, a)
            <6>1. x = IF side = "buy" THEN Fill!Move("eth", user, PM, quote) ELSE Fill!Move("eth", PM, user, quote)
              BY <1>3, <3>1
            <6>2. x.token = "eth" /\ x \in EthMoves
              BY <3>3, <6>1 DEF EthMoves, Fill!Move
            <6>3. Brings(x, EthMoves, a) = Fill!Delta(x, a)
              BY <6>2 DEF Brings
            <6>4. Fill!Delta(x, a) = IF user # a THEN 0 ELSE IF side = "buy" THEN -quote ELSE quote
              BY <1>2, <6>1, MoveTypes DEF Fill!Delta, Fill!Move
            <6>5. Fill!Paid(t, a) = IF user # a THEN 0 ELSE IF side = "buy" THEN -quote ELSE quote
              BY <3>1 DEF Fill!Paid
            <6> QED
              BY <6>3, <6>4, <6>5
          <5>4. Brings(x, BesidesMoves, a) = 0
            BY <3>1, MoveTypes DEF Brings, BesidesMoves, Fill!Move
          <5> QED
            BY <1>6, <3>3, <3>4, <5>2, <5>3, <5>4
        <4>3. Len(swaps') = 1 => trades'[1] = t
          BY <1>5, <3>4
        <4> QED
          BY <4>1, <4>2, <4>3
      <3> QED
        BY <1>1, <3>5, <3>6, <3>7 DEF FirstStep
    <2>2. ASSUME NEW token \in {"meme", Fill!Quote}, NEW from \in Users, NEW to \in Users,
                 NEW amount \in Fill!Amounts, Fill!Send(token, from, to, amount)
          PROVE  FillTypes' /\ FirstStep' /\ EthKnown'
      <3>1. PICK x : x = Fill!Move(token, from, to, amount)
        OBVIOUS
      <3>2. x \in Moves
        BY <1>2, <1>3, <3>1, MoveTypes
      <3>3. transfers' = Append(transfers, x) /\ swaps' = swaps /\ trades' = trades
        BY <2>2, <3>1 DEF Fill!Send
      <3>4. FillTypes'
        BY <1>1, <3>2, <3>3 DEF FillInv, FillTypes
      <3>5. EthKnown'
        <4>1. x \in EthMoves <=> x \in BesidesMoves
          BY <3>1, MoveTypes DEF EthMoves, BesidesMoves, Fill!Move
        <4>2. \A a : Brings(x, EthMoves, a) = Brings(x, BesidesMoves, a)
          BY <4>1 DEF Brings
        <4> SUFFICES ASSUME native, NEW a \in Users
                     PROVE  /\ swaps = <<>> => SumIn(transfers', EthMoves, a) = SumIn(transfers', BesidesMoves, a)
                            /\ Len(swaps) = 1 => SumIn(transfers', EthMoves, a)
                                                   = Fill!Paid(trades[1], a) + SumIn(transfers', BesidesMoves, a)
          BY <1>1, <3>3 DEF EthKnown, Fill!Paid
        <4>3. PICK e, b, d : /\ e = SumIn(transfers, EthMoves, a) /\ b = SumIn(transfers, BesidesMoves, a)
                             /\ d = Brings(x, EthMoves, a)
          OBVIOUS
        <4>4. e \in Int /\ b \in Int /\ d \in Int
          BY <1>6, <3>2, <4>3
        <4>5. SumIn(transfers', EthMoves, a) = e + d /\ SumIn(transfers', BesidesMoves, a) = b + d
          BY <1>6, <3>2, <3>3, <4>2, <4>3
        <4>6. swaps = <<>> => e = b
          BY <4>3 DEF FillInv, EthKnown
        <4>7. Len(swaps) = 1 => e = Fill!Paid(trades[1], a) + b /\ Fill!Paid(trades[1], a) \in Int
          <5>1. Len(swaps) = 1 => trades[1] \in TradeMade
            <6> SUFFICES ASSUME Len(swaps) = 1 PROVE trades[1] \in TradeMade
              OBVIOUS
            <6>1. trades \in Seq(TradeMade) /\ Len(trades) = 1
              BY <1>5
            <6> QED
              BY <6>1, OneOf, Zenon
          <5>2. Len(swaps) = 1 => Fill!Paid(trades[1], a) \in Int
            BY <5>1 DEF TradeMade, Fill!Paid
          <5> QED
            BY <4>3, <5>2 DEF FillInv, EthKnown
        <4> QED
          BY <4>4, <4>5, <4>6, <4>7
      <3> QED
        BY <1>1, <1>4, <3>3, <3>4, <3>5 DEF FirstStep
    <2> QED
      BY <2>1, <2>2
  <1>8. FillsMade'
    BY <1>1 DEF FillsMade
  <1> QED
    BY <1>7, <1>8 DEF FillInv

\* The receipt, once; and then nothing.
LEMMA ReceiptFill ==
  ASSUME FillInv, Fill!ProcessReceipt \/ UNCHANGED fillVars
  PROVE  FillInv'
  <1>1. /\ native' = native /\ transfers' = transfers /\ swaps' = swaps
        /\ trades' = trades /\ steps' = steps
    BY DEF Fill!ProcessReceipt, fillVars
  <1>2. FillTypes' /\ FirstStep' /\ EthKnown'
    <2>1. FillTypes /\ FirstStep /\ EthKnown
      BY DEF FillInv
    <2>2. FillTypes'
      BY <1>1, <2>1 DEF FillTypes
    <2>3. \A user, side, meme, quote, fee :
            (IsOneTrade(user, side, meme, quote, fee))' <=> IsOneTrade(user, side, meme, quote, fee)
      BY <1>1 DEF IsOneTrade
    <2>4. FirstStep'
      BY <1>1, <2>1, <2>3, Zenon DEF FirstStep
    <2>5. EthKnown'
      BY <1>1, <2>1, Zenon DEF EthKnown
    <2> QED
      BY <2>2, <2>4, <2>5
  <1>3. /\ (Fill!Nets("meme"))' = Fill!Nets("meme")
        /\ (Fill!Nets("quote"))' = Fill!Nets("quote")
    BY <1>1, Zenon DEF Fill!Nets, Fill!Net, Fill!DecodeTransfers
  <1>4. \A u, q : (FillsOf(u, q))' = FillsOf(u, q)
    <2>1. \A token, a : (Fill!Net(token, a))' = Fill!Net(token, a)
      BY <1>1, Zenon DEF Fill!Net, Fill!DecodeTransfers
    <2>2. \A a : (Fill!EthNet(a))' = Fill!EthNet(a)
      BY <2>1, Zenon DEF Fill!EthNet
    <2>3. \A a : (Fill!NativeQuote(a))' = Fill!NativeQuote(a)
      BY <1>1, <2>1, <2>2 DEF Fill!NativeQuote
    <2>4. \A swap, u : (Fill!AttributedFill(swap, u))' = Fill!AttributedFill(swap, u)
      BY <1>1, <2>1, <2>3, Zenon DEF Fill!AttributedFill
    <2>5. \A swap, q : (Fill!UnattributedFills(swap, q))' = Fill!UnattributedFills(swap, q)
      BY <1>1, Zenon DEF Fill!UnattributedFills
    <2>6. \A swap, u, q : (Fill!DecodeSwap(swap, u, q))' = Fill!DecodeSwap(swap, u, q)
      BY <2>4, <2>5, Zenon DEF Fill!DecodeSwap
    <2> QED
      BY <1>1, <2>6, Zenon DEF FillsOf
  <1>5. FillsMade'
    <2>1. CASE Fill!ProcessReceipt
      <3>1. PICK m, n : /\ m = Fill!Nets("meme") /\ n = Fill!Nets("quote")
                        /\ \E u \in Fill!Attributions(m), q \in Fill!Attributions(n) : fills' = FillsOf(u, q)
        BY <2>1 DEF Fill!ProcessReceipt, FillsOf
      <3> QED
        BY <1>3, <1>4, <3>1, Zenon DEF FillsMade
    <2>2. CASE fills' = fills
      <3>1. FillsMade
        BY DEF FillInv
      <3> QED
        BY <1>3, <1>4, <2>2, <3>1, Zenon DEF FillsMade
    <2> QED
      BY <2>1, <2>2 DEF fillVars
  <1> QED
    BY <1>2, <1>5 DEF FillInv

\* The nets of the receipt are numbers, its own nets those of the logs.
LEMMA NetsKnown ==
  ASSUME FillInv, NEW token
  PROVE  /\ Fill!Nets(token) \in [Fill!Addresses -> Int]
         /\ \A a : Fill!Net(token, a) = NetOf(transfers, token, a) /\ Fill!Net(token, a) \in Int
         /\ \A a \in Fill!Addresses : Fill!Nets(token)[a] = Fill!Net(token, a)
  <1>1. \A a : Fill!Net(token, a) = NetOf(transfers, token, a)
    BY FillCopies, Zenon DEF Fill!Net, Fill!DecodeTransfers, NetOf
  <1>2. \A a : NetOf(transfers, token, a) \in Int
    BY NetOfFew DEF FillInv, FillTypes
  <1> QED
    BY <1>1, <1>2 DEF Fill!Nets

\* What an account got in ETH by the only Swap of a transaction and besides it.
LEMMA EthOfOne ==
  ASSUME FillInv, native, Len(swaps) = 1, NEW a \in Users
  PROVE  /\ Fill!EthNet(a) = Fill!Paid(trades[1], a) + Fill!Besides(a)
         /\ Fill!Paid(trades[1], a) \in Int /\ Fill!Besides(a) \in Int
         /\ trades[1] \in TradeMade
  <1>1. PICK t \in TradeMade : t = trades[1]
    <2>1. trades \in Seq(TradeMade) /\ Len(trades) = 1
      BY DEF FillInv, FillTypes
    <2>2. trades[1] \in TradeMade
      BY <2>1, OneOf, Zenon
    <2> QED
      BY <2>2, Zenon
  <1>2. Fill!Paid(t, a) \in Int
    BY DEF TradeMade, Fill!Paid
  <1>3. PICK ts \in Seq(Moves) : ts = transfers
    BY DEF FillInv, FillTypes
  <1>4. \A i \in DOMAIN ts : ts[i] \in Moves
    BY <1>3
  <1>5. Fill!EthNet(a) = SumIn(ts, EthMoves, a)
    <2>1. {i \in DOMAIN ts : ts[i].token = "eth"} = {i \in DOMAIN ts : ts[i] \in EthMoves}
      BY <1>4 DEF EthMoves
    <2>2. Fill!EthNet(a) = NetOf(ts, "eth", a)
      BY <1>3, FillCopies, Zenon DEF Fill!EthNet, Fill!Net, Fill!DecodeTransfers, NetOf
    <2> QED
      BY <2>1, <2>2, Zenon DEF NetOf, SumIn
  <1>6. Fill!Besides(a) = SumIn(ts, BesidesMoves, a)
    <2>1. {i \in {j \in DOMAIN ts : ts[j].token = "eth"} : {ts[i].from, ts[i].to} \cap Fill!Protocol = {}}
            = {i \in DOMAIN ts : ts[i] \in BesidesMoves}
      BY <1>4 DEF EthMoves, BesidesMoves
    <2> QED
      BY <1>3, <2>1, FillCopies, Zenon DEF Fill!Besides, Fill!DecodeTransfers, SumIn
  <1>7. SumIn(ts, EthMoves, a) = Fill!Paid(t, a) + SumIn(ts, BesidesMoves, a)
    BY <1>1, <1>3 DEF FillInv, EthKnown
  <1>8. SumIn(ts, BesidesMoves, a) \in Int
    <2>1. PICK n \in Nat : n = Len(ts) /\ DOMAIN ts = 1 .. n
      OBVIOUS
    <2>2. \A m \in Moves : Fill!Delta(m, a) \in Int
      <3> SUFFICES ASSUME NEW m \in Moves PROVE Fill!Delta(m, a) \in Int
        OBVIOUS
      <3>1. m.amount \in Nat
        BY DEF Moves
      <3> QED
        BY <3>1 DEF Fill!Delta
    <2>3. PICK f, S : f = [i \in DOMAIN ts |-> Fill!Delta(ts[i], a)] /\ S = {i \in DOMAIN ts : ts[i] \in BesidesMoves}
      OBVIOUS
    <2>4. IsFiniteSet(S)
      <3>1. IsFiniteSet(DOMAIN ts)
        BY <2>1, FS_Interval
      <3> QED
        BY <2>3, <3>1, FS_Subset
    <2>5. Integral(f, S)
      BY <1>4, <2>2, <2>3, <2>4 DEF Integral
    <2>6. SumIn(ts, BesidesMoves, a) = SumFunctionOnSet(f, S)
      BY <2>3, Zenon DEF SumIn
    <2> QED
      BY <2>5, <2>6, SumOfSome
  <1> QED
    BY <1>1, <1>2, <1>5, <1>6, <1>7, <1>8

\* The one that a receipt is attributed to.
LEMMA AttributedTo ==
  ASSUME Fill!AttributionAssumption, FillInv, NEW u \in Fill!Attributions(Fill!Nets("meme"))
  PROVE  \/ u = Fill!Nobody /\ Cardinality(Fill!Largest) # 1
         \/ /\ u.user \in Users /\ Fill!Largest = {u.user} /\ Cardinality(Fill!Largest) = 1
            /\ u.size = Fill!Size(Fill!Net("meme", u.user)) /\ u.size \in Nat \ {0}
  <1>1. PICK net \in [Fill!Addresses -> Int] : net = Fill!Nets("meme")
    BY NetsKnown
  <1>2. Fill!Largest = LargestIn(net)
    BY <1>1, Zenon DEF Fill!Largest, LargestIn
  <1>3. u \in Fill!Attributions(net)
    BY <1>1
  <1>4. \/ u = Fill!Nobody /\ Cardinality(LargestIn(net)) # 1
        \/ /\ u.user \in Users /\ LargestIn(net) = {u.user}
           /\ u.size = Fill!Size(net[u.user]) /\ u.size \in Nat \ {0}
    BY <1>3, AttributedInAnyOrder
  <1>5. \A a \in Users : net[a] = Fill!Net("meme", a)
    BY <1>1, NetsKnown DEF Fill!Addresses
  <1> QED
    BY <1>2, <1>4, <1>5, FS_Singleton

\* The fills of a receipt, one by one.
LEMMA FillIs ==
  ASSUME Fill!AttributionAssumption, FillInv, NEW f \in fills
  PROVE  /\ f.log \in 1 .. Len(swaps) /\ swaps[f.log].registered
         /\ \E u \in Fill!Attributions(Fill!Nets("meme")), q \in Fill!Attributions(Fill!Nets("quote")) :
              f.got = IF u = Fill!Nobody THEN Fill!UnattributedFills(swaps[f.log], q)
                      ELSE {Fill!AttributedFill(swaps[f.log], u)}
  <1>1. PICK u \in Fill!Attributions(Fill!Nets("meme")), q \in Fill!Attributions(Fill!Nets("quote")) : fills = FillsOf(u, q)
    BY DEF FillInv, FillsMade
  <1>2. PICK i \in 1 .. Len(swaps) :
             swaps[i].registered /\ f = [log |-> i, got |-> Fill!DecodeSwap(swaps[i], u, q)]
    BY <1>1 DEF FillsOf
  <1>3. u = Fill!Nobody <=> u.user = NoUser
    BY AttributedTo DEF Fill!Nobody, Fill!AttributionAssumption
  <1>4. f.log = i /\ f.got = Fill!DecodeSwap(swaps[i], u, q)
    BY <1>2
  <1> QED
    BY <1>2, <1>3, <1>4 DEF Fill!DecodeSwap

\* Whom a fill is of.
LEMMA FillsAreOfTheLargest ==
  ASSUME Fill!AttributionAssumption, FillInv PROVE Fill!AttributionIsUnique
  <1> SUFFICES ASSUME NEW f \in fills, NEW got \in f.got
               PROVE  IF Cardinality(Fill!Largest) = 1
                        THEN /\ got.user \in Fill!Largest
                             /\ got.meme = Fill!Size(Fill!Net("meme", got.user))
                             /\ got.side = "buy" <=> Fill!Net("meme", got.user) > 0
                        ELSE got.user = NoUser
    BY FillCopies, Zenon DEF Fill!AttributionIsUnique
  <1>1. PICK u \in Fill!Attributions(Fill!Nets("meme")), q \in Fill!Attributions(Fill!Nets("quote")) :
             f.got = IF u = Fill!Nobody THEN Fill!UnattributedFills(swaps[f.log], q)
                     ELSE {Fill!AttributedFill(swaps[f.log], u)}
    BY FillIs
  <1>2. CASE u = Fill!Nobody
    <2>1. Cardinality(Fill!Largest) # 1
      BY <1>2, AttributedTo DEF Fill!Nobody, Fill!AttributionAssumption
    <2>2. got.user = NoUser
      BY <1>1, <1>2 DEF Fill!UnattributedFills
    <2> QED
      BY <2>1, <2>2
  <1>3. CASE u # Fill!Nobody
    <2>1. /\ u.user \in Users /\ Fill!Largest = {u.user} /\ Cardinality(Fill!Largest) = 1
          /\ u.size = Fill!Size(Fill!Net("meme", u.user))
      BY <1>3, AttributedTo
    <2>2. got = Fill!AttributedFill(swaps[f.log], u)
      BY <1>1, <1>3
    <2>3. /\ got.user = u.user /\ got.meme = u.size
          /\ got.side = IF Fill!Net("meme", u.user) > 0 THEN "buy" ELSE "sell"
      BY <2>2 DEF Fill!AttributedFill
    <2> QED
      BY <2>1, <2>3
  <1> QED
    BY <1>2, <1>3

\* What is recorded in ETH.
LEMMA NativeFills ==
  ASSUME Fill!AttributionAssumption, FillInv PROVE Fill!NativeIsOfOneSwap
  <1> SUFFICES ASSUME native, NEW i \in 1 .. Len(swaps), NEW f \in fills, f.log = i,
                      NEW got \in f.got, got.quote # 0
               PROVE  /\ got.quote = Fill!Size(Fill!Paid(trades[i], got.user) + Fill!Besides(got.user))
                      /\ Fill!Besides(got.user) = 0 =>
                           got.user = trades[i].user /\ got.quote = trades[i].quote
    BY DEF Fill!NativeIsOfOneSwap, Fill!Got
  <1>1. PICK u \in Fill!Attributions(Fill!Nets("meme")), q \in Fill!Attributions(Fill!Nets("quote")) :
             f.got = IF u = Fill!Nobody THEN Fill!UnattributedFills(swaps[f.log], q)
                     ELSE {Fill!AttributedFill(swaps[f.log], u)}
    BY FillIs
  <1>2. u # Fill!Nobody /\ u.user \in Users
    <2>1. u # Fill!Nobody
      BY <1>1 DEF Fill!UnattributedFills
    <2> QED
      BY <2>1, AttributedTo
  <1>3. got.user = u.user /\ got.quote = Fill!NativeQuote(u.user)
    BY <1>1, <1>2 DEF Fill!AttributedFill
  <1>4. Len(swaps) = 1 /\ got.quote = Fill!Size(Fill!EthNet(u.user))
    BY <1>3, Zenon DEF Fill!NativeQuote
  <1>5. PICK a \in Users : a = u.user
    BY <1>2
  <1>6. PICK p, b \in Int : /\ p = Fill!Paid(trades[1], a) /\ b = Fill!Besides(a)
                            /\ Fill!EthNet(a) = p + b
    BY <1>4, EthOfOne
  <1>7. PICK t \in TradeMade : t = trades[1]
    <2>1. trades[1] \in TradeMade
      BY <1>4, <1>5, EthOfOne
    <2> QED
      BY <2>1, Zenon
  <1>8. i = 1 /\ got.user = a /\ got.quote = Fill!Size(p + b)
    BY <1>3, <1>4, <1>5, <1>6
  <1>9. ASSUME b = 0 PROVE t.user = a /\ got.quote = t.quote
    <2>1. got.quote = Fill!Size(p) /\ p # 0
      BY <1>6, <1>8, <1>9 DEF Fill!Size
    <2>2. t.quote \in Nat /\ p = IF t.user # a THEN 0 ELSE IF t.side = "buy" THEN -t.quote ELSE t.quote
      BY <1>6, <1>7 DEF Fill!Paid, TradeMade
    <2> QED
      BY <2>1, <2>2 DEF Fill!Size
  <1> QED
    BY <1>6, <1>7, <1>8, <1>9

\* A transaction that is one trade.
LEMMA OneTradeFills ==
  ASSUME Fill!AttributionAssumption, FillInv PROVE Fill!OneTradeIsOneFill
  <1> SUFFICES ASSUME steps = 1, NEW f \in fills PROVE f.got = {trades[1]}
    BY DEF Fill!OneTradeIsOneFill
  <1>1. f.log \in 1 .. Len(swaps) /\ swaps[f.log].registered
    BY FillIs
  <1>2. PICK u \in Fill!Attributions(Fill!Nets("meme")), q \in Fill!Attributions(Fill!Nets("quote")) :
             f.got = IF u = Fill!Nobody THEN Fill!UnattributedFills(swaps[f.log], q)
                     ELSE {Fill!AttributedFill(swaps[f.log], u)}
    BY FillIs
  <1>3. PICK user \in Users, side \in {"buy", "sell"}, meme \in Nat \ {0}, quote \in Nat \ {0}, fee \in Nat :
             IsOneTrade(user, side, meme, quote, fee)
    <2>1. ~(Len(swaps) = 1 /\ ~swaps[1].registered) /\ swaps # <<>>
      BY <1>1
    <2> QED
      BY <2>1, Zenon DEF FillInv, FirstStep
  <1>4. PICK m, n \in Nat \ {0} : /\ m = (IF side = "buy" THEN meme - fee ELSE meme)
                                  /\ n = IF side = "buy" THEN quote ELSE quote - fee
    BY <1>3 DEF IsOneTrade
  <1>5. Len(swaps) = 1 /\ trades[1] = [user |-> user, side |-> side, meme |-> m, quote |-> n]
    BY <1>3, <1>4 DEF IsOneTrade
  <1>6. MovesTrade(native, user, side, meme, quote, fee, transfers)
    BY <1>3, NetsOfOneTrade DEF IsOneTrade, FillInv, FillTypes
  <1>7. /\ \A b \in Users : Fill!Net("meme", b)
             = IF b # user THEN 0 ELSE IF side = "buy" THEN m ELSE -m
        /\ Fill!Net(QuoteOf(native), user) = IF side = "buy" THEN -n ELSE n
    <2>1. \A b \in Users : NetOf(transfers, "meme", b)
            = IF b # user THEN 0 ELSE IF side = "buy" THEN m ELSE -m
      BY <1>4, <1>6 DEF MovesTrade
    <2>2. NetOf(transfers, QuoteOf(native), user) = IF side = "buy" THEN -n ELSE n
      BY <1>4, <1>6 DEF MovesTrade
    <2> QED
      BY <2>1, <2>2, NetsKnown
  <1>8. Fill!Largest = {user}
    <2>1. \A b \in Users : Fill!Nets("meme")[b] = Fill!Net("meme", b)
      BY NetsKnown DEF Fill!Addresses
    <2> QED
      BY <1>7, <2>1 DEF Fill!Largest, Fill!Size
  <1>9. u # Fill!Nobody /\ u.user = user /\ u.size = m
    <2>1. Cardinality(Fill!Largest) = 1
      BY <1>8, FS_Singleton
    <2>2. u.user \in Users /\ Fill!Largest = {u.user} /\ u.size = Fill!Size(Fill!Net("meme", u.user))
      BY <2>1, AttributedTo
    <2>3. u.user = user
      BY <1>8, <2>2
    <2>4. u.size = m
      BY <1>7, <2>2, <2>3 DEF Fill!Size
    <2> QED
      BY <2>2, <2>3, <2>4 DEF Fill!Nobody, Fill!AttributionAssumption
  <1>10. Fill!AttributedFill(swaps[f.log], u) = [user |-> user, side |-> side, meme |-> m, quote |-> n]
    <2>1. (IF Fill!Net("meme", user) > 0 THEN "buy" ELSE "sell") = side
      BY <1>7
    <2>2. native => Fill!NativeQuote(user) = n
      <3> SUFFICES ASSUME native PROVE Fill!NativeQuote(user) = n
        OBVIOUS
      <3>1. Fill!EthNet(user) = IF side = "buy" THEN -n ELSE n
        BY <1>7 DEF Fill!EthNet, QuoteOf
      <3>2. Fill!Net("meme", user) = IF side = "buy" THEN m ELSE -m
        BY <1>7
      <3>3. (-n) * m < 0 /\ n * (-m) < 0
        <4>1. n * m > 0
          OBVIOUS
        <4> QED
          BY <4>1
      <3>4. Fill!EthNet(user) * Fill!Net("meme", user) < 0
        BY <3>1, <3>2, <3>3
      <3>5. Fill!Size(Fill!EthNet(user)) = n
        BY <3>1 DEF Fill!Size
      <3> QED
        BY <1>5, <3>4, <3>5 DEF Fill!NativeQuote
    <2>3. ~native => Fill!Size(Fill!Net("quote", user)) = n
      BY <1>7 DEF Fill!Size, QuoteOf
    <2> QED
      BY <1>9, <2>1, <2>2, <2>3 DEF Fill!AttributedFill
  <1> QED
    BY <1>2, <1>5, <1>9, <1>10

\* A step of the transaction or of the service; or none.
LEMMA NextFill ==
  ASSUME Fill!AttributionAssumption, FillInv, Fill!Next \/ UNCHANGED fillVars PROVE FillInv'
  <1>1. CASE \E user \in Users, side \in {"buy", "sell"}, meme, quote \in Fill!Amounts, fee \in 0 .. 1 :
               Fill!Trade(user, side, meme, quote, fee)
    BY <1>1, TradeFill
  <1>2. CASE \/ \E user \in Users, side \in {"buy", "sell"}, quote \in Fill!Amounts :
                  Fill!TradeElsewhere(user, side, quote)
             \/ \E token \in {"meme", Fill!Quote}, from, to \in Users, amount \in Fill!Amounts :
                  Fill!Send(token, from, to, amount)
    BY <1>2, BesidesFill
  <1>3. CASE Fill!ProcessReceipt \/ UNCHANGED fillVars
    BY <1>3, ReceiptFill
  <1> QED
    BY <1>1, <1>2, <1>3 DEF Fill!Next

\* Whatever the order in which Go goes through the map of nets, and however many
\* trades, transfers and router's fees a transaction has, in the PoolManager's pools
\* and past them: a fill is of the one who gained or gave away most, or of nobody when
\* two did equally; one trade is recorded as what its user got and gave; and an amount
\* in ETH is what the fill's Swap moved for its user and the ETH that went past the
\* PoolManager, never that of another Swap (AttributeUser, DecodeSwap,
\* enrichNativeQuote, accumulateNativeNet).
THEOREM FillsAreAlwaysTrue == RecordsSpec => []FillsAreTrue
  <1>1. RecordsInit => FillInv
    BY RecordsAssumption, InitFill DEF RecordsInit
  <1>2. FillInv /\ [RecordsNext]_recordsVars => FillInv'
    <2> SUFFICES ASSUME FillInv, [RecordsNext]_recordsVars PROVE FillInv'
      OBVIOUS
    <2>1. Fill!Next \/ UNCHANGED fillVars
      BY DEF RecordsNext, recordsVars
    <2> QED
      BY <2>1, RecordsAssumption, NextFill
  <1>3. FillInv => FillsAreTrue
    BY RecordsAssumption, FillsAreOfTheLargest, NativeFills, OneTradeFills DEF FillsAreTrue
  <1> QED
    BY <1>1, <1>2, <1>3, PTL DEF RecordsSpec

-----------------------------------------------------------------------------
(* Profit *)

\* The module's own copies of the operators.
LEMMA ProfitCopies ==
  /\ \A S : Profit!IsFiniteSet(S) <=> IsFiniteSet(S)
  /\ \A f, S : Profit!SumFunctionOnSet(f, S) = SumFunctionOnSet(f, S)
  /\ \A S : Profit!Max(S) = Greatest(S)
  <1>1. \A S : Profit!IsFiniteSet(S) <=> IsFiniteSet(S)
    BY Zenon DEF Profit!IsFiniteSet, IsFiniteSet
  <1>2. \A f, S : Profit!SumFunctionOnSet(f, S) = SumFunctionOnSet(f, S)
    BY Zenon DEF Profit!SumFunctionOnSet, Profit!FoldFunctionOnSet, Profit!MapThenFoldSet,
                 SumFunctionOnSet, FoldFunctionOnSet, MapThenFoldSet
  <1>3. \A S : Profit!Max(S) = Greatest(S)
    BY Zenon DEF Profit!Max, Greatest
  <1> QED
    BY <1>1, <1>2, <1>3

\* A power is a number, and not zero.
LEMMA PowerIsNat ==
  ASSUME Profit!FifoAssumption, NEW n \in Nat PROVE Profit!Power(n) \in Nat \ {0}
  <1>1. Base \in Nat \ {0}
    BY DEF Profit!FifoAssumption
  <1> DEFINE P(p) == [k \in 0 .. n |-> IF k = 0 THEN 1 ELSE Base * p[k - 1]]
             F == [x \in (Nat \ {0}) \X (1 .. n) |-> Base * x[1]]
  <1>2. F \in [(Nat \ {0}) \X (1 .. n) -> Nat \ {0}] /\ 1 \in Nat \ {0}
    <2>1. \A i \in Nat \ {0} : Base * i \in Nat \ {0}
      BY <1>1
    <2> QED
      BY <2>1
  <1>3. \A i \in Nat \ {0}, k \in 1 .. n : F[<<i, k>>] = Base * i
    OBVIOUS
  <1> HIDE DEF F
  <1>4. PICK h \in [0 .. n -> Nat \ {0}] : h = Recursion(F, 1, n, h)
    <2>1. HasRecursion(Nat \ {0}, 1, n, F)
      BY RecursionExists
    <2> QED
      BY <1>2, <2>1 DEF HasRecursion
  <1>5. h = P(h)
    BY <1>3, <1>4 DEF Recursion
  <1>6. PICK p : p = P(p) /\ Profit!Power(n) = p[n]
    BY <1>5, Zenon DEF Profit!Power
  <1> DEFINE H == {k \in Nat : k <= n => p[k] \in Nat \ {0}}
  <1>7. p[0] = 1 /\ \A k \in 0 .. n : k # 0 => p[k] = Base * p[k - 1]
    BY <1>6
  <1>8. 0 \in H
    BY <1>7
  <1>9. ASSUME NEW k \in Nat, k \in H PROVE k + 1 \in H
    <2> SUFFICES ASSUME k + 1 <= n PROVE p[k + 1] \in Nat \ {0}
      OBVIOUS
    <2>1. p[k] \in Nat \ {0} /\ k + 1 \in 0 .. n /\ k + 1 # 0 /\ (k + 1) - 1 = k
      BY <1>9
    <2>2. p[k + 1] = Base * p[k]
      BY <1>7, <2>1
    <2> QED
      BY <1>1, <2>1, <2>2
  <1> HIDE DEF P
  <1>10. n \in H
    <2> HIDE DEF H
    <2> QED
      BY <1>8, <1>9, EveryNat
  <1> QED
    BY <1>6, <1>10

\* A quantity is never zero.
LEMMA QuantityIsNat ==
  ASSUME Profit!FifoAssumption, NEW e \in Profit!Trades PROVE Profit!Quantity(e) \in Nat \ {0}
  <1>1. /\ Decimals \subseteq Nat /\ Decimals # {} /\ IsFiniteSet(Decimals)
        /\ e.raw \in Nat \ {0} /\ e.decimals \in Decimals
    BY ProfitCopies DEF Profit!FifoAssumption, Profit!Trades
  <1>2. PICK m \in Nat : m = Profit!Max(Decimals) /\ m >= e.decimals
    <2>1. Greatest(Decimals) \in Decimals /\ \A d \in Decimals : Greatest(Decimals) >= d
      BY <1>1, GreatestOfFinite
    <2> QED
      BY <1>1, <2>1, ProfitCopies
  <1>3. PICK p \in Nat \ {0} : p = Profit!Power(m - e.decimals)
    <2> PICK d \in Nat : d = e.decimals
      BY <1>1
    <2>1. m - d \in Nat
      BY <1>2
    <2> QED
      BY <2>1, PowerIsNat
  <1>4. PICK r \in Nat \ {0} : r = e.raw
    BY <1>1
  <1>5. r * p \in Nat \ {0}
    OBVIOUS
  <1> QED
    BY <1>2, <1>3, <1>4, <1>5 DEF Profit!Quantity

Lots         == [qty : Int, price : Int, decimals : Int]
SellStates   == [lots : Seq(Lots), remaining : Int, matched : Int, pnl : Int, failed : BOOLEAN]
SellResults  == [id : Int, matched : Int, pnl : Int, overflow : Int]
ReplayStates == [lots : Seq(Lots), results : Seq(SellResults), failed : BOOLEAN]

\* A trade's numbers.
LEMMA TradeFacts ==
  ASSUME Profit!FifoAssumption, NEW e \in Profit!Trades
  PROVE  /\ e.direction \in {"buy", "sell"} /\ e.id \in Nat \ {0} /\ e.decimals \in Nat /\ e.price \in Nat
         /\ Profit!Quantity(e) \in Nat \ {0}
  <1>1. /\ e.direction \in {"buy", "sell"} /\ e.id \in 1 .. MaxEvents
        /\ e.decimals \in Decimals /\ e.price \in Prices \cup {Profit!NoPrice}
    BY DEF Profit!Trades
  <1>2. Decimals \subseteq Nat /\ Prices \subseteq Nat /\ MaxEvents \in Nat /\ Profit!NoPrice = 0
    BY DEF Profit!FifoAssumption, Profit!NoPrice
  <1>3. e.id \in Nat \ {0}
    BY <1>1, <1>2
  <1>5. e.decimals \in Nat
    BY <1>1, <1>2
  <1>6. e.price \in Nat
    <2>1. CASE e.price \in Prices
      BY <1>2, <2>1
    <2>2. CASE e.price = Profit!NoPrice
      BY <1>2, <2>2
    <2> QED
      BY <1>1, <2>1, <2>2
  <1>4. Profit!Quantity(e) \in Nat \ {0}
    BY QuantityIsNat
  <1> QED
    BY <1>1, <1>3, <1>4, <1>5, <1>6

\* One turn of the loop over the lots, of any state.
LEMMA MatchTypes ==
  ASSUME Profit!FifoAssumption, NEW e \in Profit!Trades, NEW s \in SellStates, NEW lot \in Lots
  PROVE  Profit!Match(e, s, lot) \in SellStates
  <1>1. e.price \in Nat /\ lot.qty \in Int /\ lot.price \in Int
    BY TradeFacts DEF Lots
  <1>2. s.remaining \in Int /\ s.matched \in Int /\ s.pnl \in Int
    BY DEF SellStates
  <1>s. s.lots \in Seq(Lots)
    BY DEF SellStates
  <1>3. PICK take : take = Profit!Lesser(s.remaining, lot.qty)
    OBVIOUS
  <1>4. take \in Int
    BY <1>1, <1>2, <1>3 DEF Profit!Lesser
  <1>5. PICK won : won = take * (e.price - lot.price)
    OBVIOUS
  <1>r. PICK r, m, gain, q : /\ r = s.remaining - take /\ m = s.matched + take
                            /\ gain = s.pnl + won /\ q = lot.qty - take
    OBVIOUS
  <1>6. r \in Int /\ m \in Int /\ q \in Int /\ gain \in Int
    <2>1. won \in Int
      <3>1. e.price - lot.price \in Int
        BY <1>1
      <3> QED
        BY <1>4, <1>5, <3>1
    <2> QED
      BY <1>1, <1>2, <1>4, <1>r, <2>1
  <1>7. PICK less : less = [lot EXCEPT !.qty = q]
    OBVIOUS
  <1>8. less \in Lots
    BY <1>6, <1>7 DEF Lots
  <1>9. PICK rest : rest = IF take = lot.qty THEN s.lots ELSE Append(s.lots, less)
    OBVIOUS
  <1>10. rest \in Seq(Lots)
    BY <1>s, <1>8, <1>9
  <1>11. PICK more : more = Append(s.lots, lot)
    OBVIOUS
  <1>12. more \in Seq(Lots)
    BY <1>s, <1>11
  <1>13. [s EXCEPT !.lots = more] \in SellStates
    BY <1>12 DEF SellStates
  <1>14. [s EXCEPT !.failed = TRUE] \in SellStates
    BY DEF SellStates
  <1>15. [s EXCEPT !.lots = rest, !.remaining = r, !.matched = m, !.pnl = gain] \in SellStates
    BY <1>6, <1>10 DEF SellStates
  <1>16. \/ Profit!Match(e, s, lot) = [s EXCEPT !.lots = more]
         \/ Profit!Match(e, s, lot) = [s EXCEPT !.failed = TRUE]
         \/ Profit!Match(e, s, lot) = [s EXCEPT !.lots = rest, !.remaining = r, !.matched = m, !.pnl = gain]
    BY <1>3, <1>5, <1>r, <1>7, <1>9, <1>11, Zenon DEF Profit!Match
  <1> QED
    BY <1>13, <1>14, <1>15, <1>16, Zenon

SellStart(e) ==
  [lots |-> <<>>, remaining |-> Profit!Quantity(e), matched |-> 0, pnl |-> 0, failed |-> FALSE]

SellTurn(e, L, g) == [s \in SUBSET DOMAIN L |->
  IF s = {} THEN SellStart(e) ELSE Profit!Match(e, g[s \ {Greatest(s)}], L[Greatest(s)])]

\* The states of the loop over the lots, one after the other.
SellRun(e, L, h) ==
  /\ h \in [0 .. Len(L) -> SellStates] /\ h[0] = SellStart(e)
  /\ \A j \in 1 .. Len(L) : h[j] = Profit!Match(e, h[j - 1], L[j])
  /\ Profit!Sell(e, L) = h[Len(L)]

\* The fold goes through them.
LEMMA SellRuns ==
  ASSUME Profit!FifoAssumption, NEW e \in Profit!Trades, NEW L \in Seq(Lots)
  PROVE  \E h : SellRun(e, L, h)
  <1>1. PICK n \in Nat : n = Len(L) /\ DOMAIN L = 1 .. n
    OBVIOUS
  <1>2. SellStart(e) \in SellStates
    BY TradeFacts DEF SellStart, SellStates
  <1> DEFINE F == [x \in SellStates \X (1 .. n) |-> Profit!Match(e, x[1], L[x[2]])]
  <1>3. \A s \in SellStates, j \in 1 .. n : Profit!Match(e, s, L[j]) \in SellStates
    <2>1. \A j \in 1 .. n : L[j] \in Lots
      BY <1>1
    <2> QED
      BY <2>1, MatchTypes
  <1>4. F \in [SellStates \X (1 .. n) -> SellStates]
    BY <1>3
  <1>5. \A s \in SellStates, j \in 1 .. n : F[<<s, j>>] = Profit!Match(e, s, L[j])
    OBVIOUS
  <1> HIDE DEF F
  <1>6. \E g : g = SellTurn(e, L, g)
    <2>1. HasFold(SellStates, SellStart(e), n, F)
      BY FoldExists
    <2>2. PICK g \in [SUBSET (1 .. n) -> SellStates] : g = FoldStep(F, SellStart(e), n, g)
      BY <1>2, <1>4, <2>1 DEF HasFold
    <2>3. \A s \in SUBSET (1 .. n) : s # {} =>
            F[<<g[s \ {Greatest(s)}], Greatest(s)>>]
              = Profit!Match(e, g[s \ {Greatest(s)}], L[Greatest(s)])
      BY <1>5, <2>2, GreatestIsIn
    <2>4. g = SellTurn(e, L, g)
      BY <1>1, <2>2, <2>3 DEF FoldStep, SellTurn
    <2> QED
      BY <2>4
  <1>7. PICK g : g = SellTurn(e, L, g) /\ Profit!Sell(e, L) = g[DOMAIN L]
    <2>1. Profit!FoldLeft(LAMBDA s, lot : Profit!Match(e, s, lot), SellStart(e), L)
            = (CHOOSE g : g = SellTurn(e, L, g))[DOMAIN L]
      BY Zenon DEF Profit!FoldLeft, Profit!MapThenFoldSet, Profit!Max, SellTurn, Greatest
    <2>2. Profit!Sell(e, L) = (CHOOSE g : g = SellTurn(e, L, g))[DOMAIN L]
      BY <2>1, Zenon DEF Profit!Sell, SellStart, Profit!OldestFirst
    <2> QED
      BY <1>6, <2>2, Zenon
  <1> DEFINE h == [k \in 0 .. n |-> g[1 .. k]]
  <1>8. \A k \in 1 .. n : g[1 .. k] = Profit!Match(e, g[1 .. (k - 1)], L[k])
    <2> SUFFICES ASSUME NEW k \in 1 .. n PROVE g[1 .. k] = Profit!Match(e, g[1 .. (k - 1)], L[k])
      OBVIOUS
    <2>1. /\ 1 .. k \in SUBSET (1 .. n) /\ 1 .. k # {}
          /\ Greatest(1 .. k) = k /\ (1 .. k) \ {k} = 1 .. (k - 1)
      BY FirstPlaces
    <2>2. PICK s, t : s = 1 .. k /\ t = 1 .. (k - 1)
      OBVIOUS
    <2>3. s \in SUBSET DOMAIN L /\ s # {} /\ Greatest(s) = k /\ s \ {k} = t
      BY <1>1, <2>1, <2>2
    <2>4. g[s] = Profit!Match(e, g[t], L[k])
      BY <1>7, <2>3, Zenon DEF SellTurn
    <2> QED
      BY <2>2, <2>4
  <1>9. g[1 .. 0] = SellStart(e)
    <2>1. {} \in SUBSET DOMAIN L /\ 1 .. 0 = {}
      OBVIOUS
    <2> QED
      BY <1>7, <2>1, Zenon DEF SellTurn
  <1> DEFINE H == {k \in Nat : k <= n => g[1 .. k] \in SellStates}
  <1>10. 0 \in H
    BY <1>2, <1>9
  <1>11. ASSUME NEW k \in Nat, k \in H PROVE k + 1 \in H
    <2> SUFFICES ASSUME k + 1 <= n PROVE g[1 .. (k + 1)] \in SellStates
      OBVIOUS
    <2>1. k + 1 \in 1 .. n /\ (k + 1) - 1 = k /\ g[1 .. k] \in SellStates
      BY <1>11
    <2>2. g[1 .. (k + 1)] = Profit!Match(e, g[1 .. k], L[k + 1])
      BY <1>8, <2>1
    <2> QED
      BY <1>3, <2>1, <2>2
  <1>12. \A k \in 0 .. n : g[1 .. k] \in SellStates
    <2>1. Nat \subseteq H
      <3> HIDE DEF H
      <3> QED
        BY <1>10, <1>11, EveryNat
    <2> QED
      BY <2>1
  <1>13. SellRun(e, L, h)
    <2>1. h \in [0 .. n -> SellStates] /\ h[0] = SellStart(e) /\ h[n] = g[DOMAIN L]
      BY <1>1, <1>9, <1>12
    <2>2. \A j \in 1 .. n : h[j] = Profit!Match(e, h[j - 1], L[j])
      BY <1>8
    <2> HIDE DEF h
    <2> QED
      BY <1>1, <1>7, <2>1, <2>2 DEF SellRun
  <1> QED
    BY <1>13, Zenon

\* The units from a to b, in the order they were bought, and the lots that are left
\* of them. The last unit of lot j is o[j]; pf is the price of each unit.
Marks(L, o, a, b, d, pf) ==
  /\ o \in [0 .. Len(L) -> Nat] /\ o[0] = a /\ o[Len(L)] = b
  /\ \A j \in 1 .. Len(L) :
       /\ L[j].qty \in Nat \ {0} /\ L[j].decimals = d /\ o[j] = o[j - 1] + L[j].qty
       /\ \A u \in o[j - 1] + 1 .. o[j] : pf[u] = L[j].price

Cover(L, a, b, d, pf) == L \in Seq(Lots) /\ \E o : Marks(L, o, a, b, d, pf)

\* Every lot has a unit at least.
LEMMA CoverIsLong ==
  ASSUME NEW L, NEW o, NEW a, NEW b, NEW d, NEW pf, L \in Seq(Lots), Marks(L, o, a, b, d, pf)
  PROVE  a \in Nat /\ b \in Nat /\ \A j \in 0 .. Len(L) : o[j] \in Nat /\ o[j] >= a + j
  <1>1. PICK n \in Nat : n = Len(L)
    OBVIOUS
  <1>2. /\ o \in [0 .. n -> Nat] /\ o[0] = a /\ o[n] = b
        /\ \A j \in 1 .. n : o[j] = o[j - 1] + L[j].qty /\ L[j].qty \in Nat \ {0}
    BY <1>1 DEF Marks
  <1>3. \A j \in 0 .. n : o[j] \in Nat
    BY <1>2
  <1>4. a \in Nat /\ b \in Nat
    BY <1>2, <1>3
  <1> DEFINE H == {j \in Nat : j <= n => o[j] >= a + j}
  <1>5. 0 \in H
    BY <1>2, <1>4
  <1>6. ASSUME NEW j \in Nat, j \in H PROVE j + 1 \in H
    <2> SUFFICES ASSUME j + 1 <= n PROVE o[j + 1] >= a + (j + 1)
      OBVIOUS
    <2>1. j + 1 \in 1 .. n /\ (j + 1) - 1 = j /\ j \in 0 .. n /\ o[j] >= a + j
      BY <1>6
    <2>2. o[j + 1] = o[j] + L[j + 1].qty /\ L[j + 1].qty \in Nat \ {0}
      BY <1>2, <2>1
    <2>3. o[j] \in Nat
      BY <1>3, <2>1
    <2> QED
      BY <1>4, <2>1, <2>2, <2>3
  <1>7. Nat \subseteq H
    <2> HIDE DEF H
    <2> QED
      BY <1>5, <1>6, EveryNat
  <1> QED
    BY <1>1, <1>3, <1>4, <1>7

\* Nothing left is no lot at all.
LEMMA CoverOfNothing ==
  ASSUME NEW L, NEW a \in Nat, NEW d, NEW pf
  PROVE  Cover(L, a, a, d, pf) <=> L = <<>>
  <1>1. ASSUME Cover(L, a, a, d, pf) PROVE L = <<>>
    <2>1. L \in Seq(Lots)
      BY <1>1 DEF Cover
    <2>2. PICK o : Marks(L, o, a, a, d, pf)
      BY <1>1 DEF Cover
    <2>3. o[Len(L)] = a
      BY <2>2 DEF Marks
    <2>4. PICK n \in Nat : n = Len(L)
      BY <2>1
    <2>5. o[n] >= a + n
      BY <2>1, <2>2, <2>4, CoverIsLong
    <2>6. n = 0
      BY <2>3, <2>4, <2>5
    <2>7. Len(L) = 0
      BY <2>4, <2>6
    <2> QED
      BY <2>1, <2>7, EmptySeq
  <1>2. ASSUME L = <<>> PROVE Cover(L, a, a, d, pf)
    <2>1. PICK o : o = [i \in 0 .. 0 |-> a]
      OBVIOUS
    <2>2. L \in Seq(Lots) /\ Len(L) = 0
      BY <1>2
    <2>3. Marks(L, o, a, a, d, pf)
      BY <2>1, <2>2 DEF Marks
    <2> QED
      BY <2>2, <2>3 DEF Cover
  <1> QED
    BY <1>1, <1>2

\* One more lot.
LEMMA CoverMore ==
  ASSUME NEW L, NEW a, NEW b, NEW d, NEW pf, Cover(L, a, b, d, pf),
         NEW lot \in Lots, NEW q \in Nat \ {0}, lot.qty = q, lot.decimals = d,
         \A u \in b + 1 .. b + q : pf[u] = lot.price
  PROVE  Cover(Append(L, lot), a, b + q, d, pf)
  <1>1. L \in Seq(Lots)
    BY DEF Cover
  <1>2. PICK o : Marks(L, o, a, b, d, pf)
    BY DEF Cover
  <1>3. PICK n \in Nat : n = Len(L)
    BY <1>1
  <1>4. PICK M : M = Append(L, lot)
    OBVIOUS
  <1>5. M \in Seq(Lots)
    BY <1>1, <1>4
  <1>6. Len(M) = n + 1 /\ M[n + 1] = lot /\ \A j \in 1 .. n : M[j] = L[j]
    BY <1>1, <1>3, <1>4
  <1>7. /\ o \in [0 .. n -> Nat] /\ o[0] = a /\ o[n] = b
        /\ \A j \in 1 .. n :
             /\ L[j].qty \in Nat \ {0} /\ L[j].decimals = d /\ o[j] = o[j - 1] + L[j].qty
             /\ \A u \in o[j - 1] + 1 .. o[j] : pf[u] = L[j].price
    BY <1>2, <1>3 DEF Marks
  <1>8. b \in Nat
    BY <1>7
  <1>9. PICK w : w = [i \in 0 .. n + 1 |-> IF i = n + 1 THEN b + q ELSE o[i]]
    OBVIOUS
  <1>10. w \in [0 .. n + 1 -> Nat] /\ w[0] = a /\ w[n + 1] = b + q
    <2>1. \A i \in 0 .. n + 1 : i # n + 1 => o[i] \in Nat
      BY <1>7
    <2> QED
      BY <1>7, <1>8, <1>9, <2>1
  <1>11. \A j \in 1 .. n : w[j] = o[j] /\ w[j - 1] = o[j - 1]
    BY <1>9
  <1>12. w[(n + 1) - 1] = b
    BY <1>7, <1>9
  <1>13. ASSUME NEW j \in 1 .. n + 1
         PROVE  /\ M[j].qty \in Nat \ {0} /\ M[j].decimals = d /\ w[j] = w[j - 1] + M[j].qty
                /\ \A u \in w[j - 1] + 1 .. w[j] : pf[u] = M[j].price
    <2>1. CASE j = n + 1
      <3>1. M[j].qty = q /\ M[j].decimals = d /\ M[j].price = lot.price
        BY <1>6, <2>1
      <3>2. w[j] = b + q /\ w[j - 1] = b
        BY <1>10, <1>12, <2>1
      <3> QED
        BY <1>8, <3>1, <3>2
    <2>2. CASE j \in 1 .. n
      <3>1. M[j] = L[j] /\ w[j] = o[j] /\ w[j - 1] = o[j - 1]
        BY <1>6, <1>11, <2>2
      <3> QED
        BY <1>7, <2>2, <3>1
    <2> QED
      BY <2>1, <2>2
  <1>14. Marks(M, w, a, b + q, d, pf)
    BY <1>6, <1>10, <1>13 DEF Marks
  <1> QED
    BY <1>4, <1>5, <1>14 DEF Cover

\* What a sell at p gains on the units after lo and up to hi.
RunGain(p, pf, lo, hi) == SumFunctionOnSet([u \in lo + 1 .. hi |-> p - pf[u]], lo + 1 .. hi)

\* Nothing, on no unit.
LEMMA RunGainOfNothing == ASSUME NEW p, NEW pf, NEW lo \in Nat PROVE RunGain(p, pf, lo, lo) = 0
  <1>1. PICK f : f = [u \in lo + 1 .. lo |-> p - pf[u]]
    OBVIOUS
  <1>2. lo + 1 .. lo = {}
    OBVIOUS
  <1>3. Integral(f, {})
    BY FS_EmptySet DEF Integral
  <1>4. SumFunctionOnSet(f, {}) = 0
    BY <1>3, SumOfSome
  <1> QED
    BY <1>1, <1>2, <1>4 DEF RunGain

\* On one more unit, its price less.
LEMMA RunGainOfMore ==
  ASSUME NEW p \in Int, NEW pf, NEW lo \in Nat, NEW hi \in Nat, lo <= hi,
         \A u \in lo + 1 .. hi + 1 : pf[u] \in Int
  PROVE  RunGain(p, pf, lo, hi) \in Int /\ RunGain(p, pf, lo, hi + 1) = RunGain(p, pf, lo, hi) + (p - pf[hi + 1])
  <1>1. PICK S : S = lo + 1 .. hi
    OBVIOUS
  <1>2. lo + 1 .. hi + 1 = S \cup {hi + 1} /\ hi + 1 \notin S /\ hi + 1 \in lo + 1 .. hi + 1
    BY <1>1
  <1>3. PICK f : f = [u \in S \cup {hi + 1} |-> p - pf[u]]
    OBVIOUS
  <1>4. PICK g : g = [u \in S |-> p - pf[u]]
    OBVIOUS
  <1>5. IsFiniteSet(S \cup {hi + 1}) /\ IsFiniteSet(S)
    <2>1. IsFiniteSet(S)
      <3>1. lo + 1 \in Int /\ hi \in Int
        OBVIOUS
      <3> QED
        BY <1>1, <3>1, FS_Interval
    <2> QED
      BY <2>1, FS_AddElement
  <1>6. \A u \in S \cup {hi + 1} : pf[u] \in Int
    BY <1>2
  <1>7. Integral(f, S \cup {hi + 1})
    BY <1>3, <1>5, <1>6 DEF Integral
  <1>8. Integral(g, S) /\ Integral(f, S) /\ \A u \in S : f[u] = g[u]
    BY <1>3, <1>4, <1>5, <1>6 DEF Integral
  <1>9. /\ SumFunctionOnSet(f, S) \in Int
        /\ SumFunctionOnSet(f, S \cup {hi + 1}) = f[hi + 1] + SumFunctionOnSet(f, S)
    BY <1>2, <1>7, SumOfMore
  <1>10. SumFunctionOnSet(f, S) = SumFunctionOnSet(g, S)
    BY <1>8, SumOfSame
  <1>11. f[hi + 1] = p - pf[hi + 1] /\ p - pf[hi + 1] \in Int
    BY <1>2, <1>3, <1>6
  <1>12. RunGain(p, pf, lo, hi) = SumFunctionOnSet(g, S)
    BY <1>1, <1>4 DEF RunGain
  <1>13. RunGain(p, pf, lo, hi + 1) = SumFunctionOnSet(f, S \cup {hi + 1})
    BY <1>2, <1>3 DEF RunGain
  <1> QED
    BY <1>9, <1>10, <1>11, <1>12, <1>13

\* On n more units of one price.
RunGains(p, pf, lo, hi, n, c) ==
  /\ RunGain(p, pf, lo, hi) \in Int
  /\ RunGain(p, pf, lo, hi + n) = RunGain(p, pf, lo, hi) + n * (p - c)

LEMMA RunGainOfRun ==
  ASSUME NEW p \in Int, NEW pf, NEW lo \in Nat, NEW hi \in Nat, lo <= hi, NEW n \in Nat, NEW c \in Int,
         \A u \in lo + 1 .. hi : pf[u] \in Int, \A u \in hi + 1 .. hi + n : pf[u] = c
  PROVE  RunGains(p, pf, lo, hi, n, c)
  <1>1. PICK w : w = p - c
    OBVIOUS
  <1>2. w \in Int
    BY <1>1
  <1>3. \A u \in lo + 1 .. hi + n : pf[u] \in Int
    <2>1. \A u \in lo + 1 .. hi + n : u \in lo + 1 .. hi \/ u \in hi + 1 .. hi + n
      OBVIOUS
    <2> QED
      BY <2>1
  <1> DEFINE H == {k \in Nat : k <= n => /\ RunGain(p, pf, lo, hi) \in Int
                                        /\ RunGain(p, pf, lo, hi + k) = RunGain(p, pf, lo, hi) + k * w}
  <1>4. RunGain(p, pf, lo, hi) \in Int
    <2>1. CASE hi = lo
      BY <2>1, RunGainOfNothing
    <2>2. CASE hi # lo
      <3>1. PICK k \in Nat : hi = k + 1 /\ lo <= k
        <4>1. hi - 1 \in Nat /\ hi = (hi - 1) + 1 /\ lo <= hi - 1
          BY <2>2
        <4> QED
          BY <4>1
      <3>2. /\ RunGain(p, pf, lo, k) \in Int
            /\ RunGain(p, pf, lo, hi) = RunGain(p, pf, lo, k) + (p - pf[hi])
        BY <3>1, RunGainOfMore
      <3>3. pf[hi] \in Int
        BY <2>2
      <3> QED
        BY <3>2, <3>3
    <2> QED
      BY <2>1, <2>2
  <1>5. 0 \in H
    <2>1. hi + 0 = hi /\ 0 * w = 0
      BY <1>2
    <2> QED
      BY <1>4, <2>1
  <1>6. ASSUME NEW k \in Nat, k \in H PROVE k + 1 \in H
    <2> SUFFICES ASSUME k + 1 <= n
                 PROVE  RunGain(p, pf, lo, hi + (k + 1)) = RunGain(p, pf, lo, hi) + (k + 1) * w
      BY <1>4
    <2>1. PICK x \in Nat : x = hi + k
      OBVIOUS
    <2>2. hi + (k + 1) = x + 1 /\ lo <= x /\ x + 1 \in hi + 1 .. hi + n
      BY <2>1
    <2>3. \A u \in lo + 1 .. x + 1 : pf[u] \in Int
      BY <1>3, <2>1
    <2>4. RunGain(p, pf, lo, x + 1) = RunGain(p, pf, lo, x) + (p - pf[x + 1])
      BY <2>2, <2>3, RunGainOfMore
    <2>5. p - pf[x + 1] = w
      BY <1>1, <2>2
    <2>6. RunGain(p, pf, lo, x) = RunGain(p, pf, lo, hi) + k * w
      BY <1>6, <2>1
    <2>7. (k + 1) * w = k * w + w /\ k * w \in Int
      BY <1>2
    <2> QED
      BY <1>2, <1>4, <2>2, <2>4, <2>5, <2>6, <2>7
  <1>7. n \in H
    <2> HIDE DEF H
    <2> QED
      BY <1>5, <1>6, EveryNat
  <1> QED
    BY <1>1, <1>4, <1>7 DEF RunGains

\* What a sell has done when the units from M to x have been offered to it: it
\* took the first of them.
Taken(e, s, M, x, pf) ==
  /\ s \in SellStates /\ ~s.failed /\ M <= x
  /\ \E t \in Nat :
       /\ t = Profit!Lesser(Profit!Quantity(e), x - M)
       /\ s.matched = t /\ s.remaining = Profit!Quantity(e) - t
       /\ s.pnl = RunGain(e.price, pf, M, M + t)
       /\ Cover(s.lots, M + t, x, e.decimals, pf)
       /\ \A u \in M + 1 .. M + t : pf[u] \in Int

\* The next lot is offered.
LEMMA MatchTakes ==
  ASSUME Profit!FifoAssumption, NEW e \in Profit!Trades, NEW s, NEW M \in Nat, NEW x \in Nat, NEW pf,
         Taken(e, s, M, x, pf), NEW lot \in Lots, NEW q \in Nat \ {0}, lot.qty = q,
         lot.decimals = e.decimals, \A u \in x + 1 .. x + q : pf[u] = lot.price
  PROVE  Taken(e, Profit!Match(e, s, lot), M, x + q, pf)
  <1>1. PICK Q \in Nat \ {0} : Q = Profit!Quantity(e)
    BY TradeFacts
  <1>2. PICK t \in Nat :
          /\ t = Profit!Lesser(Q, x - M) /\ s.matched = t /\ s.remaining = Q - t
          /\ s.pnl = RunGain(e.price, pf, M, M + t)
          /\ Cover(s.lots, M + t, x, e.decimals, pf)
          /\ \A u \in M + 1 .. M + t : pf[u] \in Int
    BY <1>1 DEF Taken
  <1>3. s \in SellStates /\ ~s.failed /\ M <= x
    BY DEF Taken
  <1>4. PICK s2 : s2 = Profit!Match(e, s, lot)
    OBVIOUS
  <1>5. s2 \in SellStates
    BY <1>3, <1>4, MatchTypes
  <1>6. e.price \in Int
    BY TradeFacts
  <1>7. lot.price \in Int
    BY DEF Lots
  <1>8. CASE s.remaining = 0
    <2>1. PICK more : more = Append(s.lots, lot)
      OBVIOUS
    <2>2. s2 = [s EXCEPT !.lots = more]
      BY <1>4, <1>8, <2>1 DEF Profit!Match
    <2>3. /\ s2.lots = more /\ s2.remaining = s.remaining /\ s2.matched = s.matched
          /\ s2.pnl = s.pnl /\ s2.failed = s.failed
      BY <1>3, <2>2 DEF SellStates
    <2>4. Cover(more, M + t, x + q, e.decimals, pf)
      BY <1>2, <2>1, CoverMore
    <2>5. t = Profit!Lesser(Q, (x + q) - M)
      BY <1>2, <1>3, <1>8 DEF Profit!Lesser
    <2>6. M <= x + q
      BY <1>3
    <2> QED
      BY <1>1, <1>2, <1>3, <1>4, <1>5, <2>3, <2>4, <2>5, <2>6 DEF Taken
  <1>9. CASE s.remaining # 0
    <2>1. t < Q /\ t = x - M /\ M + t = x
      BY <1>2, <1>3, <1>9 DEF Profit!Lesser
    <2>2. s.lots = <<>>
      <3>1. Cover(s.lots, x, x, e.decimals, pf)
        BY <1>2, <2>1
      <3> QED
        BY <3>1, CoverOfNothing
    <2>3. PICK take : take = Profit!Lesser(Q - t, q)
      OBVIOUS
    <2>4. take \in Nat \ {0} /\ take <= q /\ take <= Q - t /\ (take = q \/ take = Q - t)
      <3>1. PICK r \in Nat \ {0} : r = Q - t
        BY <2>1
      <3>2. take = IF r < q THEN r ELSE q
        BY <2>3, <3>1, Zenon DEF Profit!Lesser
      <3>3. take \in Nat \ {0} /\ take <= q /\ take <= r /\ (take = q \/ take = r)
        BY <3>2
      <3> QED
        BY <3>1, <3>3, Zenon
    <2>5. PICK t2 \in Nat : t2 = t + take
      BY <2>4
    <2>6. t2 = Profit!Lesser(Q, (x + q) - M)
      BY <1>3, <2>1, <2>4, <2>5 DEF Profit!Lesser
    <2>7. PICK won : won = take * (e.price - lot.price)
      OBVIOUS
    <2>8. s.pnl + won = RunGain(e.price, pf, M, M + t2)
      <3>1. \A u \in M + 1 .. x : pf[u] \in Int
        BY <1>2, <2>1
      <3>2. \A u \in x + 1 .. x + take : pf[u] = lot.price
        BY <2>4
      <3>3. RunGain(e.price, pf, M, x + take) = RunGain(e.price, pf, M, x) + take * (e.price - lot.price)
        <4>1. PICK p \in Int, c \in Int : p = e.price /\ c = lot.price
          BY <1>6, <1>7
        <4>2. take \in Nat
          BY <2>4
        <4>3. \A u \in x + 1 .. x + take : pf[u] = c
          BY <3>2, <4>1
        <4>4. RunGain(p, pf, M, x + take) = RunGain(p, pf, M, x) + take * (p - c)
          <5>1. RunGains(p, pf, M, x, take, c)
            BY <1>3, <3>1, <4>2, <4>3, RunGainOfRun
          <5> QED
            BY <5>1 DEF RunGains
        <4> QED
          BY <4>1, <4>4
      <3>4. M + t2 = x + take
        BY <2>1, <2>4, <2>5
      <3> QED
        BY <1>2, <2>1, <2>7, <3>3, <3>4
    <2>9. PICK less : less = [lot EXCEPT !.qty = q - take]
      OBVIOUS
    <2>10. PICK rest : rest = IF take = q THEN <<>> ELSE Append(<<>>, less)
      OBVIOUS
    <2>11. s2 = [s EXCEPT !.lots = rest, !.remaining = Q - t - take, !.matched = t + take, !.pnl = s.pnl + won]
      <3>1. take = Profit!Lesser(s.remaining, lot.qty) /\ ~(s.remaining = 0 \/ s.failed)
        BY <1>2, <1>3, <1>9, <2>3
      <3> QED
        BY <1>2, <1>4, <2>2, <2>7, <2>9, <2>10, <3>1 DEF Profit!Match
    <2>12. /\ s2.lots = rest /\ s2.remaining = Q - t - take /\ s2.matched = t + take
           /\ s2.pnl = s.pnl + won /\ s2.failed = s.failed
      BY <1>3, <2>11 DEF SellStates
    <2>13. Cover(rest, M + t2, x + q, e.decimals, pf)
      <3>1. PICK y \in Nat : y = x + take /\ M + t2 = y
        BY <2>1, <2>4, <2>5
      <3>2. Cover(<<>>, y, y, e.decimals, pf)
        BY CoverOfNothing
      <3>3. CASE take = q
        BY <2>10, <3>1, <3>2, <3>3
      <3>4. CASE take # q
        <4>1. PICK z \in Nat \ {0} : z = q - take
          BY <2>4, <3>4
        <4>2. less \in Lots
          BY <2>9, <4>1 DEF Lots
        <4>3. less.qty = z /\ less.decimals = e.decimals /\ less.price = lot.price
          BY <2>9, <4>1 DEF Lots
        <4>4. y + z = x + q /\ \A u \in y + 1 .. y + z : u \in x + 1 .. x + q
          BY <2>4, <3>1, <4>1
        <4>5. \A u \in y + 1 .. y + z : pf[u] = less.price
          BY <4>3, <4>4
        <4>6. Cover(Append(<<>>, less), y, y + z, e.decimals, pf)
          BY <3>2, <4>2, <4>3, <4>5, CoverMore
        <4> QED
          BY <2>10, <3>1, <3>4, <4>4, <4>6
      <3> QED
        BY <3>3, <3>4
    <2>14. \A u \in M + 1 .. M + t2 : pf[u] \in Int
      <3>1. \A u \in M + 1 .. M + t2 : u \in M + 1 .. M + t \/ u \in x + 1 .. x + q
        BY <2>1, <2>4, <2>5
      <3> QED
        BY <1>2, <1>7, <3>1
    <2>15. M <= x + q
      BY <1>3
    <2>16. s2.remaining = Q - t2 /\ s2.matched = t2 /\ s2.pnl = RunGain(e.price, pf, M, M + t2)
      BY <2>4, <2>5, <2>8, <2>12
    <2> QED
      BY <1>1, <1>3, <1>4, <1>5, <2>6, <2>12, <2>13, <2>14, <2>15, <2>16 DEF Taken
  <1> QED
    BY <1>8, <1>9

\* A sell takes the units that were bought first, and leaves the others.
LEMMA SellTakes ==
  ASSUME Profit!FifoAssumption, NEW e \in Profit!Trades, NEW L, NEW M \in Nat, NEW B \in Nat, NEW pf,
         Cover(L, M, B, e.decimals, pf)
  PROVE  Taken(e, Profit!Sell(e, L), M, B, pf)
  <1>1. L \in Seq(Lots)
    BY DEF Cover
  <1>2. PICK o : Marks(L, o, M, B, e.decimals, pf)
    BY DEF Cover
  <1>3. PICK h : SellRun(e, L, h)
    BY <1>1, SellRuns
  <1>4. PICK n \in Nat : n = Len(L)
    BY <1>1
  <1>5. /\ o \in [0 .. n -> Nat] /\ o[0] = M /\ o[n] = B
        /\ \A j \in 1 .. n :
             /\ L[j].qty \in Nat \ {0} /\ L[j].decimals = e.decimals /\ o[j] = o[j - 1] + L[j].qty
             /\ \A u \in o[j - 1] + 1 .. o[j] : pf[u] = L[j].price
    BY <1>2, <1>4 DEF Marks
  <1>6. /\ h \in [0 .. n -> SellStates] /\ h[0] = SellStart(e)
        /\ \A j \in 1 .. n : h[j] = Profit!Match(e, h[j - 1], L[j])
        /\ Profit!Sell(e, L) = h[n]
    BY <1>3, <1>4 DEF SellRun
  <1> DEFINE H == {j \in Nat : j <= n => Taken(e, h[j], M, o[j], pf)}
  <1>7. 0 \in H
    <2>1. PICK Q \in Nat \ {0} : Q = Profit!Quantity(e)
      BY TradeFacts
    <2>2. h[0] \in SellStates
      BY <1>6
    <2>3. h[0] = [lots |-> <<>>, remaining |-> Q, matched |-> 0, pnl |-> 0, failed |-> FALSE]
      BY <1>6, <2>1 DEF SellStart
    <2>4. Profit!Lesser(Q, M - M) = 0
      BY <2>1 DEF Profit!Lesser
    <2>5. Cover(<<>>, M + 0, M, e.decimals, pf)
      BY CoverOfNothing
    <2>6. RunGain(e.price, pf, M, M + 0) = 0
      BY RunGainOfNothing
    <2>7. Taken(e, h[0], M, M, pf)
      <3>1. ~h[0].failed /\ h[0].matched = 0 /\ h[0].remaining = Q - 0 /\ h[0].pnl = 0 /\ h[0].lots = <<>>
        BY <2>3
      <3>2. \A u \in M + 1 .. M + 0 : pf[u] \in Int
        OBVIOUS
      <3> QED
        BY <2>1, <2>2, <2>4, <2>5, <2>6, <3>1, <3>2 DEF Taken
    <2> QED
      BY <1>5, <2>7
  <1>8. ASSUME NEW j \in Nat, j \in H PROVE j + 1 \in H
    <2> SUFFICES ASSUME j + 1 <= n PROVE Taken(e, h[j + 1], M, o[j + 1], pf)
      OBVIOUS
    <2>1. j + 1 \in 1 .. n /\ (j + 1) - 1 = j /\ j \in 0 .. n /\ Taken(e, h[j], M, o[j], pf)
      BY <1>8
    <2>2. PICK x \in Nat : x = o[j]
      BY <1>5, <2>1
    <2>3. L[j + 1] \in Lots
      BY <1>1, <1>4, <2>1
    <2>4. PICK q \in Nat \ {0} : q = L[j + 1].qty
      BY <1>5, <2>1
    <2>5. o[j + 1] = x + q /\ L[j + 1].decimals = e.decimals /\ \A u \in x + 1 .. x + q : pf[u] = L[j + 1].price
      BY <1>5, <2>1, <2>2, <2>4
    <2>6. h[j + 1] = Profit!Match(e, h[j], L[j + 1])
      BY <1>6, <2>1
    <2>7. Taken(e, Profit!Match(e, h[j], L[j + 1]), M, x + q, pf)
      BY <2>1, <2>2, <2>3, <2>4, <2>5, MatchTakes
    <2> QED
      BY <2>5, <2>6, <2>7
  <1>9. n \in H
    <2> HIDE DEF H
    <2> QED
      BY <1>7, <1>8, EveryNat
  <1> QED
    BY <1>5, <1>6, <1>9

\* One trade of the replay, of any state.
LEMMA StepTypes ==
  ASSUME Profit!FifoAssumption, NEW e \in Profit!Trades, NEW s \in ReplayStates
  PROVE  Profit!Step(s, e) \in ReplayStates
  <1>1. e.price \in Int /\ e.decimals \in Int /\ e.id \in Int /\ Profit!Quantity(e) \in Int
    BY TradeFacts
  <1>2. s.lots \in Seq(Lots)
    BY DEF ReplayStates
  <1>3. s.results \in Seq(SellResults)
    BY DEF ReplayStates
  <1>4. PICK sold : sold = Profit!Sell(e, s.lots)
    OBVIOUS
  <1>5. sold \in SellStates
    <2>1. PICK h : SellRun(e, s.lots, h)
      BY <1>2, SellRuns
    <2>2. Len(s.lots) \in 0 .. Len(s.lots)
      BY <1>2
    <2> QED
      BY <1>4, <2>1, <2>2 DEF SellRun
  <1>6. PICK bought : bought = [qty |-> Profit!Quantity(e), price |-> e.price, decimals |-> e.decimals]
    OBVIOUS
  <1>7. bought \in Lots
    BY <1>1, <1>6 DEF Lots
  <1>8. PICK result : result = [id |-> e.id, matched |-> sold.matched, pnl |-> sold.pnl,
                                overflow |-> sold.remaining]
    OBVIOUS
  <1>9. result \in SellResults
    BY <1>1, <1>5, <1>8 DEF SellStates, SellResults
  <1>10. PICK more : more = Append(s.lots, bought)
    OBVIOUS
  <1>11. more \in Seq(Lots)
    BY <1>2, <1>7, <1>10
  <1>12. PICK results : results = Append(s.results, result)
    OBVIOUS
  <1>13. results \in Seq(SellResults)
    BY <1>3, <1>9, <1>12
  <1>14. [s EXCEPT !.lots = more] \in ReplayStates
    BY <1>11 DEF ReplayStates
  <1>15. [lots |-> sold.lots, failed |-> sold.failed, results |-> results] \in ReplayStates
    <2>1. sold.lots \in Seq(Lots)
      BY <1>5 DEF SellStates
    <2>2. sold.failed \in BOOLEAN
      BY <1>5 DEF SellStates
    <2> QED
      BY <1>13, <2>1, <2>2 DEF ReplayStates
  <1>16. \/ Profit!Step(s, e) = s
         \/ Profit!Step(s, e) = [s EXCEPT !.lots = more]
         \/ Profit!Step(s, e) = [lots |-> sold.lots, failed |-> sold.failed, results |-> results]
    BY <1>4, <1>6, <1>8, <1>10, <1>12, Zenon DEF Profit!Step
  <1> QED
    BY <1>14, <1>15, <1>16, Zenon

ReplayStart == [lots |-> <<>>, results |-> <<>>, failed |-> FALSE]

ReplayTurn(es, g) == [s \in SUBSET DOMAIN es |->
  IF s = {} THEN ReplayStart ELSE Profit!Step(g[s \ {Greatest(s)}], es[Greatest(s)])]

\* The states of the replay, one after the other.
ReplayRun(es, h) ==
  /\ h \in [0 .. Len(es) -> ReplayStates] /\ h[0] = ReplayStart
  /\ \A k \in 1 .. Len(es) : h[k] = Profit!Step(h[k - 1], es[k])
  /\ Profit!ReplayFIFO(es) = h[Len(es)]

\* The fold goes through them.
LEMMA ReplayRuns ==
  ASSUME Profit!FifoAssumption, NEW es \in Seq(Profit!Trades)
  PROVE  \E h : ReplayRun(es, h)
  <1>1. PICK n \in Nat : n = Len(es) /\ DOMAIN es = 1 .. n
    OBVIOUS
  <1>2. ReplayStart \in ReplayStates
    <2>1. <<>> \in Seq(Lots)
      OBVIOUS
    <2>2. <<>> \in Seq(SellResults)
      OBVIOUS
    <2> QED
      BY <2>1, <2>2 DEF ReplayStart, ReplayStates
  <1> DEFINE F == [x \in ReplayStates \X (1 .. n) |-> Profit!Step(x[1], es[x[2]])]
  <1>3. \A s \in ReplayStates, j \in 1 .. n : Profit!Step(s, es[j]) \in ReplayStates
    <2>1. \A j \in 1 .. n : es[j] \in Profit!Trades
      BY <1>1
    <2> QED
      BY <2>1, StepTypes
  <1>4. F \in [ReplayStates \X (1 .. n) -> ReplayStates]
    BY <1>3
  <1>5. \A s \in ReplayStates, j \in 1 .. n : F[<<s, j>>] = Profit!Step(s, es[j])
    OBVIOUS
  <1> HIDE DEF F
  <1>6. \E g : g = ReplayTurn(es, g)
    <2>1. HasFold(ReplayStates, ReplayStart, n, F)
      BY FoldExists
    <2>2. PICK g \in [SUBSET (1 .. n) -> ReplayStates] : g = FoldStep(F, ReplayStart, n, g)
      BY <1>2, <1>4, <2>1 DEF HasFold
    <2>3. \A s \in SUBSET (1 .. n) : s # {} =>
            F[<<g[s \ {Greatest(s)}], Greatest(s)>>] = Profit!Step(g[s \ {Greatest(s)}], es[Greatest(s)])
      BY <1>5, <2>2, GreatestIsIn
    <2>4. g = ReplayTurn(es, g)
      BY <1>1, <2>2, <2>3 DEF FoldStep, ReplayTurn
    <2> QED
      BY <2>4
  <1>7. PICK g : g = ReplayTurn(es, g) /\ Profit!ReplayFIFO(es) = g[DOMAIN es]
    <2>1. Profit!FoldLeft(Profit!Step, ReplayStart, es)
            = (CHOOSE g : g = ReplayTurn(es, g))[DOMAIN es]
      BY Zenon DEF Profit!FoldLeft, Profit!MapThenFoldSet, Profit!Max, ReplayTurn, Greatest
    <2>2. Profit!ReplayFIFO(es) = (CHOOSE g : g = ReplayTurn(es, g))[DOMAIN es]
      BY <2>1, Zenon DEF Profit!ReplayFIFO, ReplayStart
    <2> QED
      BY <1>6, <2>2, Zenon
  <1> DEFINE h == [k \in 0 .. n |-> g[1 .. k]]
  <1>8. \A k \in 1 .. n : g[1 .. k] = Profit!Step(g[1 .. (k - 1)], es[k])
    <2> SUFFICES ASSUME NEW k \in 1 .. n PROVE g[1 .. k] = Profit!Step(g[1 .. (k - 1)], es[k])
      OBVIOUS
    <2>1. /\ 1 .. k \in SUBSET (1 .. n) /\ 1 .. k # {}
          /\ Greatest(1 .. k) = k /\ (1 .. k) \ {k} = 1 .. (k - 1)
      BY FirstPlaces
    <2>2. PICK s, t : s = 1 .. k /\ t = 1 .. (k - 1)
      OBVIOUS
    <2>3. s \in SUBSET DOMAIN es /\ s # {} /\ Greatest(s) = k /\ s \ {k} = t
      BY <1>1, <2>1, <2>2
    <2>4. g[s] = Profit!Step(g[t], es[k])
      BY <1>7, <2>3, Zenon DEF ReplayTurn
    <2> QED
      BY <2>2, <2>4
  <1>9. g[1 .. 0] = ReplayStart
    <2>1. {} \in SUBSET DOMAIN es /\ 1 .. 0 = {}
      OBVIOUS
    <2> QED
      BY <1>7, <2>1, Zenon DEF ReplayTurn
  <1> DEFINE H == {k \in Nat : k <= n => g[1 .. k] \in ReplayStates}
  <1>10. 0 \in H
    BY <1>2, <1>9
  <1>11. ASSUME NEW k \in Nat, k \in H PROVE k + 1 \in H
    <2> SUFFICES ASSUME k + 1 <= n PROVE g[1 .. (k + 1)] \in ReplayStates
      OBVIOUS
    <2>1. k + 1 \in 1 .. n /\ (k + 1) - 1 = k /\ g[1 .. k] \in ReplayStates
      BY <1>11
    <2>2. g[1 .. (k + 1)] = Profit!Step(g[1 .. k], es[k + 1])
      BY <1>8, <2>1
    <2> QED
      BY <1>3, <2>1, <2>2
  <1>12. \A k \in 0 .. n : g[1 .. k] \in ReplayStates
    <2>1. Nat \subseteq H
      <3> HIDE DEF H
      <3> QED
        BY <1>10, <1>11, EveryNat
    <2> QED
      BY <2>1
  <1>13. ReplayRun(es, h)
    <2>1. h \in [0 .. n -> ReplayStates] /\ h[0] = ReplayStart /\ h[n] = g[DOMAIN es]
      BY <1>1, <1>9, <1>12
    <2>2. \A j \in 1 .. n : h[j] = Profit!Step(h[j - 1], es[j])
      BY <1>8
    <2> HIDE DEF h
    <2> QED
      BY <1>1, <1>7, <2>1, <2>2 DEF ReplayRun
  <1> QED
    BY <1>13, Zenon

\* A trade that is stored later is replayed last.
LEMMA ReplayOfMore ==
  ASSUME Profit!FifoAssumption, NEW es \in Seq(Profit!Trades), NEW e \in Profit!Trades
  PROVE  /\ Profit!ReplayFIFO(es) \in ReplayStates
         /\ Profit!ReplayFIFO(Append(es, e)) = Profit!Step(Profit!ReplayFIFO(es), e)
  <1>1. PICK n \in Nat : n = Len(es)
    OBVIOUS
  <1>2. PICK fs : fs = Append(es, e)
    OBVIOUS
  <1>3. fs \in Seq(Profit!Trades)
    BY <1>2
  <1>4. Len(fs) = n + 1 /\ fs[n + 1] = e /\ \A k \in 1 .. n : fs[k] = es[k]
    BY <1>1, <1>2
  <1>5. PICK h : ReplayRun(es, h)
    BY ReplayRuns
  <1>6. PICK g : ReplayRun(fs, g)
    BY <1>3, ReplayRuns
  <1>7. /\ h \in [0 .. n -> ReplayStates] /\ h[0] = ReplayStart
        /\ \A k \in 1 .. n : h[k] = Profit!Step(h[k - 1], es[k])
        /\ Profit!ReplayFIFO(es) = h[n]
    BY <1>1, <1>5 DEF ReplayRun
  <1>8. /\ g[0] = ReplayStart
        /\ \A k \in 1 .. n + 1 : g[k] = Profit!Step(g[k - 1], fs[k])
        /\ Profit!ReplayFIFO(fs) = g[n + 1]
    BY <1>4, <1>6 DEF ReplayRun
  <1> DEFINE H == {k \in Nat : k <= n => g[k] = h[k]}
  <1>9. 0 \in H
    BY <1>7, <1>8
  <1>10. ASSUME NEW k \in Nat, k \in H PROVE k + 1 \in H
    <2> SUFFICES ASSUME k + 1 <= n PROVE g[k + 1] = h[k + 1]
      OBVIOUS
    <2>1. k + 1 \in 1 .. n /\ k + 1 \in 1 .. n + 1 /\ (k + 1) - 1 = k /\ g[k] = h[k]
      BY <1>10
    <2>2. g[k + 1] = Profit!Step(g[k], fs[k + 1]) /\ h[k + 1] = Profit!Step(h[k], es[k + 1])
      BY <1>7, <1>8, <2>1
    <2> QED
      BY <1>4, <2>1, <2>2
  <1>11. n \in H
    <2> HIDE DEF H
    <2> QED
      BY <1>9, <1>10, EveryNat
  <1>12. g[n + 1] = Profit!Step(g[n], e)
    <2>1. n + 1 \in 1 .. n + 1 /\ (n + 1) - 1 = n
      OBVIOUS
    <2> QED
      BY <1>4, <1>8, <2>1
  <1>13. h[n] \in ReplayStates
    BY <1>7
  <1> QED
    BY <1>2, <1>7, <1>8, <1>11, <1>12, <1>13

TradeAt(es, k, direction) == es[k].price # Profit!NoPrice /\ es[k].direction = direction

\* The units bought, and matched, by the first k trades.
Counts(es, b, m) ==
  /\ b \in [0 .. Len(es) -> Nat] /\ b[0] = 0
  /\ \A k \in 1 .. Len(es) :
       b[k] = b[k - 1] + IF TradeAt(es, k, "buy") THEN Profit!Quantity(es[k]) ELSE 0
  /\ m \in [0 .. Len(es) -> Nat] /\ m[0] = 0
  /\ \A k \in 1 .. Len(es) :
       m[k] = IF TradeAt(es, k, "sell") THEN Profit!Lesser(m[k - 1] + Profit!Quantity(es[k]), b[k])
              ELSE m[k - 1]

UnitPrices(es, b) ==
  [u \in Nat |-> es[Profit!Min({k \in 1 .. Len(es) : b[k] >= u})].price]

\* What the replay should say of the k-th trade, a sell.
Rec(es, b, m, k) ==
  [id |-> es[k].id, matched |-> m[k] - m[k - 1],
   pnl |-> RunGain(es[k].price, UnitPrices(es, b), m[k - 1], m[k]),
   overflow |-> Profit!Quantity(es[k]) - (m[k] - m[k - 1])]

Sells(es, k) == {i \in 1 .. k : TradeAt(es, i, "sell")}

OneDec(es) == \A i, j \in 1 .. Len(es) : es[i].decimals = es[j].decimals

Elements(s) == {s[i] : i \in 1 .. Len(s)}

\* One trade's part of the counts.
LEMMA CountOfTrade ==
  ASSUME Profit!FifoAssumption, NEW es \in Seq(Profit!Trades), NEW b, NEW m, Counts(es, b, m),
         NEW k \in 1 .. Len(es)
  PROVE  /\ k - 1 \in 0 .. Len(es) /\ es[k] \in Profit!Trades
         /\ b[k] \in Nat /\ b[k - 1] \in Nat /\ m[k] \in Nat /\ m[k - 1] \in Nat
         /\ b[k] = b[k - 1] + IF TradeAt(es, k, "buy") THEN Profit!Quantity(es[k]) ELSE 0
         /\ m[k] = IF TradeAt(es, k, "sell")
                     THEN Profit!Lesser(m[k - 1] + Profit!Quantity(es[k]), b[k]) ELSE m[k - 1]
  <1>1. PICK n \in Nat : n = Len(es)
    OBVIOUS
  <1>2. k \in 1 .. n /\ k \in 0 .. n /\ k - 1 \in 0 .. n /\ es[k] \in Profit!Trades
    BY <1>1
  <1>3. /\ b \in [0 .. n -> Nat]
        /\ \A i \in 1 .. n :
             b[i] = b[i - 1] + IF TradeAt(es, i, "buy") THEN Profit!Quantity(es[i]) ELSE 0
    BY <1>1 DEF Counts
  <1>4. /\ m \in [0 .. n -> Nat]
        /\ \A i \in 1 .. n :
             m[i] = IF TradeAt(es, i, "sell") THEN Profit!Lesser(m[i - 1] + Profit!Quantity(es[i]), b[i])
                    ELSE m[i - 1]
    BY <1>1 DEF Counts
  <1>5. b[k] \in Nat /\ b[k - 1] \in Nat /\ m[k] \in Nat /\ m[k - 1] \in Nat
    BY <1>2, <1>3, <1>4
  <1>6. b[k] = b[k - 1] + IF TradeAt(es, k, "buy") THEN Profit!Quantity(es[k]) ELSE 0
    BY <1>2, <1>3
  <1>7. m[k] = IF TradeAt(es, k, "sell")
                 THEN Profit!Lesser(m[k - 1] + Profit!Quantity(es[k]), b[k]) ELSE m[k - 1]
    BY <1>2, <1>4
  <1> QED
    BY <1>1, <1>2, <1>5, <1>6, <1>7

\* What a trade does to the counts: a buy raises the one, a sell the other.
LEMMA CountsMove ==
  ASSUME Profit!FifoAssumption, NEW es \in Seq(Profit!Trades), NEW b, NEW m, Counts(es, b, m),
         NEW k \in 1 .. Len(es), m[k - 1] <= b[k - 1]
  PROVE  /\ b[k - 1] <= b[k] /\ m[k - 1] <= m[k] /\ m[k] <= b[k]
         /\ TradeAt(es, k, "buy") => b[k] = b[k - 1] + Profit!Quantity(es[k]) /\ m[k] = m[k - 1]
         /\ TradeAt(es, k, "sell") =>
              /\ b[k] = b[k - 1]
              /\ m[k] - m[k - 1] = Profit!Lesser(Profit!Quantity(es[k]), b[k] - m[k - 1])
         /\ ~TradeAt(es, k, "buy") /\ ~TradeAt(es, k, "sell") => b[k] = b[k - 1] /\ m[k] = m[k - 1]
  <1>1. PICK Q \in Nat \ {0} : Q = Profit!Quantity(es[k])
    BY TradeFacts, CountOfTrade
  <1>2. PICK b0 \in Nat, b1 \in Nat, m0 \in Nat, m1 \in Nat :
          b0 = b[k - 1] /\ b1 = b[k] /\ m0 = m[k - 1] /\ m1 = m[k]
    BY CountOfTrade
  <1>3. /\ b1 = b0 + IF TradeAt(es, k, "buy") THEN Q ELSE 0
        /\ m1 = IF TradeAt(es, k, "sell") THEN Profit!Lesser(m0 + Q, b1) ELSE m0
    BY <1>1, <1>2, CountOfTrade
  <1>4. ~(TradeAt(es, k, "buy") /\ TradeAt(es, k, "sell"))
    BY DEF TradeAt
  <1>5. CASE TradeAt(es, k, "buy")
    <2>1. b1 = b0 + Q /\ m1 = m0
      BY <1>3, <1>4, <1>5
    <2> QED
      BY <1>1, <1>2, <1>4, <1>5, <2>1
  <1>6. CASE TradeAt(es, k, "sell")
    <2>1. b1 = b0 /\ m1 = Profit!Lesser(m0 + Q, b1)
      BY <1>3, <1>4, <1>6
    <2>2. m1 - m0 = Profit!Lesser(Q, b1 - m0) /\ m0 <= m1 /\ m1 <= b1
      <3>1. m0 <= b1
        BY <1>2, <2>1
      <3>2. m1 = IF m0 + Q < b1 THEN m0 + Q ELSE b1
        BY <2>1, Zenon DEF Profit!Lesser
      <3>3. Profit!Lesser(Q, b1 - m0) = IF Q < b1 - m0 THEN Q ELSE b1 - m0
        BY Zenon DEF Profit!Lesser
      <3> QED
        BY <3>1, <3>2, <3>3
    <2> QED
      BY <1>1, <1>2, <1>4, <1>6, <2>1, <2>2
  <1>7. CASE ~TradeAt(es, k, "buy") /\ ~TradeAt(es, k, "sell")
    <2>1. b1 = b0 /\ m1 = m0
      BY <1>3, <1>7
    <2> QED
      BY <1>2, <1>7, <2>1
  <1> QED
    BY <1>5, <1>6, <1>7

\* Nothing is matched that was not bought, and the counts only grow.
LEMMA CountsGrow ==
  ASSUME Profit!FifoAssumption, NEW es \in Seq(Profit!Trades), NEW b, NEW m, Counts(es, b, m)
  PROVE  /\ \A k \in 0 .. Len(es) : b[k] \in Nat /\ m[k] \in Nat /\ m[k] <= b[k]
         /\ \A k \in 0 .. Len(es) : \A i \in 0 .. k : b[i] <= b[k]
  <1>1. PICK n \in Nat : n = Len(es)
    OBVIOUS
  <1>2. /\ b \in [0 .. n -> Nat] /\ b[0] = 0 /\ m \in [0 .. n -> Nat] /\ m[0] = 0
    BY <1>1 DEF Counts
  <1>3. \A k \in 0 .. n : b[k] \in Nat /\ m[k] \in Nat
    BY <1>2
  <1> DEFINE H == {k \in Nat : k <= n => m[k] <= b[k] /\ \A i \in 0 .. k : b[i] <= b[k]}
  <1>4. 0 \in H
    BY <1>2
  <1>5. ASSUME NEW k \in Nat, k \in H PROVE k + 1 \in H
    <2> SUFFICES ASSUME k + 1 <= n
                 PROVE  m[k + 1] <= b[k + 1] /\ \A i \in 0 .. k + 1 : b[i] <= b[k + 1]
      OBVIOUS
    <2>1. /\ k + 1 \in 1 .. n /\ (k + 1) - 1 = k /\ k \in 0 .. n /\ k + 1 \in 0 .. n
          /\ m[k] <= b[k] /\ \A i \in 0 .. k : b[i] <= b[k]
      BY <1>5
    <2>2. b[k] <= b[k + 1] /\ m[k + 1] <= b[k + 1]
      BY <1>1, <2>1, CountsMove
    <2>3. ASSUME NEW i \in 0 .. k + 1 PROVE b[i] <= b[k + 1]
      <3>1. CASE i = k + 1
        BY <1>3, <2>1, <3>1
      <3>2. CASE i \in 0 .. k
        <4>1. b[i] <= b[k] /\ i \in 0 .. n
          BY <2>1, <3>2
        <4>2. b[i] \in Nat /\ b[k] \in Nat /\ b[k + 1] \in Nat
          BY <1>3, <2>1, <4>1
        <4> QED
          BY <2>2, <4>1, <4>2
      <3> QED
        BY <3>1, <3>2
    <2> QED
      BY <2>2, <2>3
  <1>6. Nat \subseteq H
    <2> HIDE DEF H
    <2> QED
      BY <1>4, <1>5, EveryNat
  <1> QED
    BY <1>1, <1>3, <1>6

\* A unit has the price of the buy it came with.
LEMMA PriceOfBought ==
  ASSUME Profit!FifoAssumption, NEW es \in Seq(Profit!Trades), NEW b, NEW m, Counts(es, b, m),
         NEW k \in 1 .. Len(es), NEW u \in b[k - 1] + 1 .. b[k]
  PROVE  UnitPrices(es, b)[u] = es[k].price
  <1>1. PICK n \in Nat : n = Len(es)
    OBVIOUS
  <1>2. k \in 1 .. n /\ k - 1 \in 0 .. n /\ k \in 0 .. n
    BY <1>1
  <1>3. \A i \in 0 .. n : b[i] \in Nat
    BY <1>1, CountsGrow
  <1>4. \A i \in 0 .. k - 1 : b[i] <= b[k - 1]
    BY <1>1, <1>2, CountsGrow
  <1>5. u \in Nat /\ b[k] >= u /\ u > b[k - 1]
    BY <1>2, <1>3
  <1>6. PICK S : S = {i \in 1 .. n : b[i] >= u}
    OBVIOUS
  <1>7. k \in S
    BY <1>2, <1>5, <1>6
  <1>8. ASSUME NEW i \in S PROVE k <= i
    <2> SUFFICES ASSUME ~(k <= i) PROVE FALSE
      OBVIOUS
    <2>1. i \in 1 .. n /\ b[i] >= u
      BY <1>6
    <2>2. i \in 0 .. k - 1
      BY <1>2, <2>1
    <2>3. b[i] <= b[k - 1] /\ b[i] \in Nat /\ b[k - 1] \in Nat
      BY <1>2, <1>3, <1>4, <2>1, <2>2
    <2> QED
      BY <1>5, <2>1, <2>3
  <1>9. Profit!Min(S) = k
    <2>1. \A x \in S : (\A y \in S : x <= y) => x = k
      <3>1. \A x \in S : x \in Nat
        BY <1>6
      <3> QED
        BY <1>2, <1>7, <1>8, <3>1
    <2> QED
      BY <1>7, <1>8, <2>1 DEF Profit!Min
  <1>10. UnitPrices(es, b)[u] = es[Profit!Min({i \in 1 .. Len(es) : b[i] >= u})].price
    BY <1>5 DEF UnitPrices
  <1> QED
    BY <1>1, <1>6, <1>9, <1>10

\* One more element.
LEMMA ElementsOfMore ==
  ASSUME NEW S, NEW s \in Seq(S), NEW x \in S
  PROVE  Elements(Append(s, x)) = Elements(s) \cup {x}
  <1>1. PICK n \in Nat : n = Len(s)
    OBVIOUS
  <1>2. PICK t : t = Append(s, x)
    OBVIOUS
  <1>3. Len(t) = n + 1 /\ t[n + 1] = x /\ \A i \in 1 .. n : t[i] = s[i]
    BY <1>1, <1>2
  <1>4. 1 .. n + 1 = (1 .. n) \cup {n + 1}
    OBVIOUS
  <1> QED
    BY <1>1, <1>2, <1>3, <1>4 DEF Elements

\* The replay after k trades: what the lots and the results are.
ReplayedTo(es, b, m, k, s) ==
  /\ s \in ReplayStates /\ ~s.failed
  /\ Cover(s.lots, m[k], b[k], es[1].decimals, UnitPrices(es, b))
  /\ Elements(s.results) = {Rec(es, b, m, i) : i \in Sells(es, k)}

\* The next trade is a buy: it is the last lot.
LEMMA ReplayOfBuy ==
  ASSUME Profit!FifoAssumption, NEW es \in Seq(Profit!Trades), NEW b, NEW m, Counts(es, b, m), OneDec(es),
         NEW k \in 1 .. Len(es), NEW s, ReplayedTo(es, b, m, k - 1, s), TradeAt(es, k, "buy")
  PROVE  ReplayedTo(es, b, m, k, Profit!Step(s, es[k]))
  <1>1. PICK e : e = es[k]
    OBVIOUS
  <1>2. e \in Profit!Trades
    BY <1>1, CountOfTrade
  <1>3. PICK Q \in Nat \ {0} : Q = Profit!Quantity(e)
    BY <1>2, TradeFacts
  <1>4. s \in ReplayStates /\ ~s.failed
    BY DEF ReplayedTo
  <1>5. PICK lot : lot = [qty |-> Q, price |-> e.price, decimals |-> e.decimals]
    OBVIOUS
  <1>6. lot \in Lots /\ lot.qty = Q /\ lot.decimals = e.decimals /\ lot.price = e.price
    <2>1. e.price \in Int /\ e.decimals \in Int
      BY <1>2, TradeFacts
    <2> QED
      BY <1>5, <2>1 DEF Lots
  <1>7. PICK s2 : s2 = Profit!Step(s, e)
    OBVIOUS
  <1>8. PICK more : more = Append(s.lots, lot)
    OBVIOUS
  <1>9. s2 = [s EXCEPT !.lots = more]
    <2>1. ~(s.failed \/ e.price = Profit!NoPrice) /\ e.direction = "buy"
      BY <1>1, <1>4 DEF TradeAt
    <2> QED
      BY <1>3, <1>5, <1>7, <1>8, <2>1, Zenon DEF Profit!Step
  <1>10. s2.lots = more /\ s2.results = s.results /\ s2.failed = s.failed
    BY <1>4, <1>9 DEF ReplayStates
  <1>11. s2 \in ReplayStates
    BY <1>2, <1>4, <1>7, StepTypes
  <1>12. b[k] = b[k - 1] + Q /\ m[k] = m[k - 1]
    <2>1. k - 1 \in 0 .. Len(es)
      BY CountOfTrade
    <2>2. m[k - 1] <= b[k - 1]
      BY <2>1, CountsGrow
    <2> QED
      BY <1>1, <1>3, <2>2, CountsMove
  <1>13. Cover(more, m[k], b[k], es[1].decimals, UnitPrices(es, b))
    <2>1. e.decimals = es[1].decimals
      <3>1. 1 \in 1 .. Len(es)
        OBVIOUS
      <3> QED
        BY <1>1, <3>1 DEF OneDec
    <2>2. Cover(s.lots, m[k], b[k - 1], es[1].decimals, UnitPrices(es, b))
      BY <1>12 DEF ReplayedTo
    <2>3. \A u \in b[k - 1] + 1 .. b[k - 1] + Q : UnitPrices(es, b)[u] = lot.price
      BY <1>1, <1>6, <1>12, PriceOfBought
    <2>4. Cover(more, m[k], b[k - 1] + Q, es[1].decimals, UnitPrices(es, b))
      BY <1>6, <1>8, <2>1, <2>2, <2>3, CoverMore
    <2> QED
      BY <1>12, <2>4
  <1>14. Elements(s.results) = {Rec(es, b, m, i) : i \in Sells(es, k)}
    <2>1. k \in Nat /\ ~TradeAt(es, k, "sell")
      BY DEF TradeAt
    <2>2. Sells(es, k) = Sells(es, k - 1)
      BY <2>1 DEF Sells
    <2> QED
      BY <2>2 DEF ReplayedTo
  <1> QED
    BY <1>1, <1>4, <1>7, <1>10, <1>11, <1>13, <1>14 DEF ReplayedTo

\* The next trade is a sell: its result is that of the units that come first.
LEMMA ReplayOfSell ==
  ASSUME Profit!FifoAssumption, NEW es \in Seq(Profit!Trades), NEW b, NEW m, Counts(es, b, m), OneDec(es),
         NEW k \in 1 .. Len(es), NEW s, ReplayedTo(es, b, m, k - 1, s), TradeAt(es, k, "sell")
  PROVE  ReplayedTo(es, b, m, k, Profit!Step(s, es[k]))
  <1>1. PICK e : e = es[k]
    OBVIOUS
  <1>2. e \in Profit!Trades
    BY <1>1, CountOfTrade
  <1>3. PICK Q \in Nat \ {0} : Q = Profit!Quantity(e)
    BY <1>2, TradeFacts
  <1>4. s \in ReplayStates /\ ~s.failed
    BY DEF ReplayedTo
  <1>5. PICK m0 \in Nat, m1 \in Nat, b0 \in Nat : m0 = m[k - 1] /\ m1 = m[k] /\ b0 = b[k - 1]
    BY CountOfTrade
  <1>6. b[k] = b0 /\ m1 - m0 = Profit!Lesser(Q, b0 - m0) /\ m0 <= m1
    <2>1. k - 1 \in 0 .. Len(es)
      BY CountOfTrade
    <2>2. m[k - 1] <= b[k - 1]
      BY <2>1, CountsGrow
    <2> QED
      BY <1>1, <1>3, <1>5, <2>2, CountsMove
  <1>7. PICK pf : pf = UnitPrices(es, b)
    OBVIOUS
  <1>8. e.decimals = es[1].decimals
    <2>1. 1 \in 1 .. Len(es)
      OBVIOUS
    <2> QED
      BY <1>1, <2>1 DEF OneDec
  <1>9. PICK sold : sold = Profit!Sell(e, s.lots)
    OBVIOUS
  <1>10. Taken(e, sold, m0, b0, pf)
    <2>1. Cover(s.lots, m0, b0, e.decimals, pf)
      BY <1>5, <1>7, <1>8 DEF ReplayedTo
    <2> QED
      BY <1>2, <1>9, <2>1, SellTakes
  <1>11. PICK t \in Nat :
           /\ t = Profit!Lesser(Q, b0 - m0) /\ sold.matched = t /\ sold.remaining = Q - t
           /\ sold.pnl = RunGain(e.price, pf, m0, m0 + t)
           /\ Cover(sold.lots, m0 + t, b0, e.decimals, pf)
    BY <1>3, <1>10 DEF Taken
  <1>12. t = m1 - m0 /\ m0 + t = m1
    BY <1>6, <1>11
  <1>13. PICK result : result = [id |-> e.id, matched |-> sold.matched, pnl |-> sold.pnl,
                                 overflow |-> sold.remaining]
    OBVIOUS
  <1>14. result = Rec(es, b, m, k)
    BY <1>1, <1>3, <1>5, <1>7, <1>11, <1>12, <1>13 DEF Rec
  <1>15. PICK s2 : s2 = Profit!Step(s, e)
    OBVIOUS
  <1>16. PICK results : results = Append(s.results, result)
    OBVIOUS
  <1>17. s2 = [lots |-> sold.lots, failed |-> sold.failed, results |-> results]
    <2>1. ~(s.failed \/ e.price = Profit!NoPrice) /\ e.direction # "buy"
      BY <1>1, <1>4 DEF TradeAt
    <2> QED
      BY <1>9, <1>13, <1>15, <1>16, <2>1, Zenon DEF Profit!Step
  <1>18. s2 \in ReplayStates
    BY <1>2, <1>4, <1>15, StepTypes
  <1>19. ~sold.failed /\ sold \in SellStates
    BY <1>10 DEF Taken
  <1>20. Elements(results) = {Rec(es, b, m, i) : i \in Sells(es, k)}
    <2>1. s.results \in Seq(SellResults)
      BY <1>4 DEF ReplayStates
    <2>2. result \in SellResults
      <3>1. e.id \in Int
        BY <1>2, TradeFacts
      <3> QED
        BY <1>13, <1>19, <3>1 DEF SellStates, SellResults
    <2>3. Elements(results) = Elements(s.results) \cup {result}
      BY <1>16, <2>1, <2>2, ElementsOfMore
    <2>4. Sells(es, k) = Sells(es, k - 1) \cup {k}
      BY DEF Sells
    <2> QED
      BY <1>14, <2>3, <2>4 DEF ReplayedTo
  <1>21. Cover(s2.lots, m[k], b[k], es[1].decimals, pf)
    BY <1>5, <1>6, <1>8, <1>11, <1>12, <1>17
  <1> QED
    BY <1>1, <1>7, <1>15, <1>17, <1>18, <1>19, <1>20, <1>21 DEF ReplayedTo

\* What the replay says, when the trades have one decimals value: each sell's
\* profit is that of the units that were bought first.
LEMMA ReplayIs ==
  ASSUME Profit!FifoAssumption, NEW es \in Seq(Profit!Trades), NEW b, NEW m, Counts(es, b, m), OneDec(es)
  PROVE  /\ Profit!Results(es) = {Rec(es, b, m, i) : i \in Sells(es, Len(es))}
         /\ ~Profit!ReplayFIFO(es).failed
  <1>1. PICK n \in Nat : n = Len(es)
    OBVIOUS
  <1>2. PICK h : ReplayRun(es, h)
    BY ReplayRuns
  <1>3. /\ h \in [0 .. n -> ReplayStates] /\ h[0] = ReplayStart
        /\ \A k \in 1 .. n : h[k] = Profit!Step(h[k - 1], es[k])
        /\ Profit!ReplayFIFO(es) = h[n]
    BY <1>1, <1>2 DEF ReplayRun
  <1> DEFINE H == {k \in Nat : k <= n => ReplayedTo(es, b, m, k, h[k])}
  <1>4. 0 \in H
    <2>1. b[0] = 0 /\ m[0] = 0
      BY DEF Counts
    <2>2. h[0].lots = <<>> /\ h[0].results = <<>> /\ ~h[0].failed /\ h[0] \in ReplayStates
      <3>1. h[0] \in ReplayStates
        BY <1>3
      <3>2. h[0] = ReplayStart
        BY <1>3
      <3>3. ReplayStart.lots = <<>> /\ ReplayStart.results = <<>> /\ ~ReplayStart.failed
        BY DEF ReplayStart
      <3> QED
        BY <3>1, <3>2, <3>3
    <2>3. Cover(<<>>, 0, 0, es[1].decimals, UnitPrices(es, b))
      BY CoverOfNothing
    <2>4. Elements(<<>>) = {Rec(es, b, m, i) : i \in Sells(es, 0)}
      BY DEF Elements, Sells
    <2> QED
      BY <2>1, <2>2, <2>3, <2>4 DEF ReplayedTo
  <1>5. ASSUME NEW k \in Nat, k \in H PROVE k + 1 \in H
    <2> SUFFICES ASSUME k + 1 <= n PROVE ReplayedTo(es, b, m, k + 1, h[k + 1])
      OBVIOUS
    <2>1. PICK j \in 1 .. Len(es) : j = k + 1
      BY <1>1
    <2>2. j - 1 = k /\ ReplayedTo(es, b, m, j - 1, h[k])
      BY <1>5, <2>1
    <2>3. h[j] = Profit!Step(h[k], es[j])
      BY <1>1, <1>3, <2>1, <2>2
    <2>4. CASE TradeAt(es, j, "buy")
      BY <2>1, <2>2, <2>3, <2>4, ReplayOfBuy
    <2>5. CASE TradeAt(es, j, "sell")
      BY <2>1, <2>2, <2>3, <2>5, ReplayOfSell
    <2>6. CASE ~TradeAt(es, j, "buy") /\ ~TradeAt(es, j, "sell")
      <3>1. es[j].price = Profit!NoPrice
        <4>1. es[j].direction \in {"buy", "sell"}
          BY CountOfTrade, TradeFacts
        <4> QED
          BY <2>6, <4>1 DEF TradeAt
      <3>2. h[j] = h[k]
        BY <2>3, <3>1, Zenon DEF Profit!Step
      <3>3. b[j] = b[k] /\ m[j] = m[k]
        <4>1. j - 1 \in 0 .. Len(es)
          BY CountOfTrade
        <4>2. m[j - 1] <= b[j - 1]
          BY <4>1, CountsGrow
        <4> QED
          BY <2>2, <2>6, <4>2, CountsMove
      <3>4. Sells(es, j) = Sells(es, k)
        <4>1. 1 .. j = (1 .. k) \cup {j}
          BY <2>1
        <4> QED
          BY <2>6, <4>1 DEF Sells
      <3> QED
        BY <2>1, <2>2, <3>2, <3>3, <3>4 DEF ReplayedTo
    <2> QED
      BY <2>4, <2>5, <2>6
  <1>6. n \in H
    <2> HIDE DEF H
    <2> QED
      BY <1>4, <1>5, EveryNat
  <1>7. PICK r : r = Profit!ReplayFIFO(es)
    OBVIOUS
  <1>8. ReplayedTo(es, b, m, n, r)
    BY <1>3, <1>6, <1>7
  <1>9. Profit!Results(es) = IF r.failed THEN {} ELSE Profit!ToSet(r.results)
    BY <1>7, Zenon DEF Profit!Results, Profit!InOrder
  <1>10. Profit!ToSet(r.results) = Elements(r.results)
    <2>1. r.results \in Seq(SellResults)
      BY <1>8 DEF ReplayedTo, ReplayStates
    <2>2. DOMAIN r.results = 1 .. Len(r.results)
      BY <2>1
    <2> QED
      BY <2>2 DEF Profit!ToSet, Elements
  <1> QED
    BY <1>1, <1>7, <1>8, <1>9, <1>10 DEF ReplayedTo

BoughtStep(es, b) ==
  [k \in 0 .. Len(es) |->
     IF k = 0 THEN 0 ELSE b[k - 1] + IF TradeAt(es, k, "buy") THEN Profit!Quantity(es[k]) ELSE 0]

MatchedStep(es, b, m) ==
  [k \in 0 .. Len(es) |->
     IF k = 0 THEN 0
     ELSE IF TradeAt(es, k, "sell") THEN Profit!Lesser(m[k - 1] + Profit!Quantity(es[k]), b[k])
     ELSE m[k - 1]]

\* The counts as the module defines them, of any trades.
BoughtOf(es)  == CHOOSE b : b = BoughtStep(es, b)
MatchedOf(es) == CHOOSE m : m = MatchedStep(es, BoughtOf(es), m)

\* They are what the recursion says.
LEMMA CountsOf ==
  ASSUME Profit!FifoAssumption, NEW es \in Seq(Profit!Trades)
  PROVE  Counts(es, BoughtOf(es), MatchedOf(es))
  <1>1. PICK n \in Nat : n = Len(es)
    OBVIOUS
  <1>2. \A k \in 1 .. n : Profit!Quantity(es[k]) \in Nat
    <2>1. \A k \in 1 .. n : es[k] \in Profit!Trades
      BY <1>1
    <2> QED
      BY <2>1, TradeFacts
  <1> DEFINE F == [x \in Nat \X (1 .. n) |->
                     x[1] + IF TradeAt(es, x[2], "buy") THEN Profit!Quantity(es[x[2]]) ELSE 0]
  <1>3. F \in [Nat \X (1 .. n) -> Nat]
    BY <1>2
  <1>4. \A i \in Nat, k \in 1 .. n :
          F[<<i, k>>] = i + IF TradeAt(es, k, "buy") THEN Profit!Quantity(es[k]) ELSE 0
    OBVIOUS
  <1> HIDE DEF F
  <1>5. PICK b \in [0 .. n -> Nat] : b = BoughtStep(es, b)
    <2>1. HasRecursion(Nat, 0, n, F)
      BY RecursionExists
    <2>2. PICK b \in [0 .. n -> Nat] : b = Recursion(F, 0, n, b)
      BY <1>3, <2>1 DEF HasRecursion
    <2>3. b = BoughtStep(es, b)
      BY <1>1, <1>4, <2>2, SMTT(20) DEF Recursion, BoughtStep
    <2> QED
      BY <2>3
  <1>6. PICK c : c = BoughtOf(es) /\ c = BoughtStep(es, c)
    BY <1>5, Zenon DEF BoughtOf
  <1>7. c[0] = 0 /\ \A k \in 1 .. n :
          c[k] = c[k - 1] + IF TradeAt(es, k, "buy") THEN Profit!Quantity(es[k]) ELSE 0
    BY <1>1, <1>6 DEF BoughtStep
  <1>8. c \in [0 .. n -> Nat]
    <2> DEFINE H == {k \in Nat : k <= n => c[k] \in Nat}
    <2>1. 0 \in H
      BY <1>7
    <2>2. ASSUME NEW k \in Nat, k \in H PROVE k + 1 \in H
      <3> SUFFICES ASSUME k + 1 <= n PROVE c[k + 1] \in Nat
        OBVIOUS
      <3>1. k + 1 \in 1 .. n /\ (k + 1) - 1 = k /\ c[k] \in Nat
        BY <2>2
      <3>2. PICK x \in Nat : x = IF TradeAt(es, k + 1, "buy") THEN Profit!Quantity(es[k + 1]) ELSE 0
        BY <1>2, <3>1
      <3>3. c[k + 1] = c[k] + x
        BY <1>7, <3>1, <3>2
      <3> QED
        BY <3>1, <3>3
    <2>3. \A k \in 0 .. n : c[k] \in Nat
      <3>1. Nat \subseteq H
        <4> HIDE DEF H
        <4> QED
          BY <2>1, <2>2, EveryNat
      <3> QED
        BY <3>1
    <2>4. c = [k \in 0 .. n |-> c[k]]
      BY <1>1, <1>6 DEF BoughtStep
    <2> QED
      BY <2>3, <2>4
  <1> DEFINE G == [x \in Nat \X (1 .. n) |->
                     IF TradeAt(es, x[2], "sell")
                       THEN Profit!Lesser(x[1] + Profit!Quantity(es[x[2]]), c[x[2]]) ELSE x[1]]
  <1>9. G \in [Nat \X (1 .. n) -> Nat]
    <2>1. ASSUME NEW x \in Nat \X (1 .. n) PROVE G[x] \in Nat
      <3>1. x[1] \in Nat /\ x[2] \in 1 .. n
        OBVIOUS
      <3>2. PICK q \in Nat : q = Profit!Quantity(es[x[2]])
        BY <1>2, <3>1
      <3>3. c[x[2]] \in Nat
        BY <1>8, <3>1
      <3>4. Profit!Lesser(x[1] + q, c[x[2]]) \in Nat
        BY <3>1, <3>2, <3>3 DEF Profit!Lesser
      <3> QED
        BY <3>1, <3>2, <3>4
    <2> HIDE DEF G
    <2>2. G = [x \in Nat \X (1 .. n) |-> G[x]]
      BY DEF G
    <2> QED
      BY <2>1, <2>2
  <1>10. \A i \in Nat, k \in 1 .. n :
           G[<<i, k>>] = IF TradeAt(es, k, "sell")
                           THEN Profit!Lesser(i + Profit!Quantity(es[k]), c[k]) ELSE i
    OBVIOUS
  <1> HIDE DEF G
  <1>11. PICK m \in [0 .. n -> Nat] : m = MatchedStep(es, c, m)
    <2>1. HasRecursion(Nat, 0, n, G)
      BY RecursionExists
    <2>2. PICK m \in [0 .. n -> Nat] : m = Recursion(G, 0, n, m)
      BY <1>9, <2>1 DEF HasRecursion
    <2>3. m = MatchedStep(es, c, m)
      <3>1. \A k \in 0 .. n : m[k] = IF k = 0 THEN 0 ELSE G[<<m[k - 1], k>>]
        BY <2>2, Zenon DEF Recursion
      <3>2. \A k \in 0 .. n : k # 0 => m[k - 1] \in Nat /\ k \in 1 .. n
        BY <2>2
      <3>3. \A k \in 0 .. n :
              m[k] = IF k = 0 THEN 0
                     ELSE IF TradeAt(es, k, "sell") THEN Profit!Lesser(m[k - 1] + Profit!Quantity(es[k]), c[k])
                     ELSE m[k - 1]
        BY <1>10, <3>1, <3>2, Zenon
      <3>4. m = [k \in 0 .. n |-> m[k]]
        OBVIOUS
      <3> QED
        BY <1>1, <3>3, <3>4, Zenon DEF MatchedStep
    <2> QED
      BY <2>3
  <1>12. PICK w : w = MatchedOf(es) /\ w = MatchedStep(es, c, w)
    BY <1>6, <1>11, Zenon DEF MatchedOf
  <1>13. w[0] = 0 /\ \A k \in 1 .. n :
           w[k] = IF TradeAt(es, k, "sell") THEN Profit!Lesser(w[k - 1] + Profit!Quantity(es[k]), c[k])
                  ELSE w[k - 1]
    <2>1. \A k \in 0 .. n :
            w[k] = IF k = 0 THEN 0
                   ELSE IF TradeAt(es, k, "sell") THEN Profit!Lesser(w[k - 1] + Profit!Quantity(es[k]), c[k])
                   ELSE w[k - 1]
      BY <1>1, <1>12, Zenon DEF MatchedStep
    <2>2. 0 \in 0 .. n /\ \A k \in 1 .. n : k \in 0 .. n /\ k # 0
      OBVIOUS
    <2> QED
      BY <2>1, <2>2, Zenon
  <1>14. w \in [0 .. n -> Nat]
    <2> DEFINE H == {k \in Nat : k <= n => w[k] \in Nat}
    <2>1. 0 \in H
      BY <1>13
    <2>2. ASSUME NEW k \in Nat, k \in H PROVE k + 1 \in H
      <3> SUFFICES ASSUME k + 1 <= n PROVE w[k + 1] \in Nat
        OBVIOUS
      <3>1. k + 1 \in 1 .. n /\ (k + 1) - 1 = k /\ w[k] \in Nat /\ c[k + 1] \in Nat
        BY <1>8, <2>2
      <3>2. PICK x \in Nat : x = w[k] + Profit!Quantity(es[k + 1])
        BY <1>2, <3>1
      <3>3. w[k + 1] = x \/ w[k + 1] = c[k + 1] \/ w[k + 1] = w[k]
        <4>1. w[k + 1] = IF TradeAt(es, k + 1, "sell")
                           THEN Profit!Lesser(w[k] + Profit!Quantity(es[k + 1]), c[k + 1]) ELSE w[k]
          BY <1>13, <3>1
        <4> QED
          BY <3>2, <4>1, Zenon DEF Profit!Lesser
      <3> QED
        BY <3>1, <3>2, <3>3
    <2>3. \A k \in 0 .. n : w[k] \in Nat
      <3>1. Nat \subseteq H
        <4> HIDE DEF H
        <4> QED
          BY <2>1, <2>2, EveryNat
      <3> QED
        BY <3>1
    <2>4. w = [k \in 0 .. n |-> w[k]]
      BY <1>1, <1>12 DEF MatchedStep
    <2> QED
      BY <2>3, <2>4
  <1>15. Counts(es, c, w)
    BY <1>1, <1>7, <1>8, <1>13, <1>14 DEF Counts
  <1> QED
    BY <1>6, <1>12, <1>15

\* The module's are those of the trades that are stored.
LEMMA CountsAreOf ==
  Profit!BoughtBefore = BoughtOf(events) /\ Profit!MatchedBefore = MatchedOf(events)
  <1>1. Profit!BoughtBefore = BoughtOf(events)
    BY Zenon DEF Profit!BoughtBefore, BoughtOf, BoughtStep, Profit!Priced, TradeAt
  <1>2. Profit!MatchedBefore = MatchedOf(events)
    BY <1>1, Zenon DEF Profit!MatchedBefore, MatchedOf, MatchedStep, Profit!Priced, TradeAt
  <1> QED
    BY <1>1, <1>2

ResultsFor(es, id) == {r \in Profit!Results(es) : r.id = id}

\* Ids are numbered in the order of the trades, up to c.
Numbered(es, c) == \A i \in 1 .. Len(es) : es[i].id = c - Len(es) + i

\* So no two trades have the same.
LEMMA OneId ==
  ASSUME NEW es \in Seq(Profit!Trades), NEW c \in Nat, Numbered(es, c), NEW i \in 1 .. Len(es),
         NEW j \in 1 .. Len(es), es[i].id = es[j].id
  PROVE  i = j
  <1>1. PICK n \in Nat : n = Len(es)
    OBVIOUS
  <1>2. es[i].id = c - n + i /\ es[j].id = c - n + j /\ i \in Nat /\ j \in Nat
    BY <1>1 DEF Numbered
  <1>3. c - n + i = c - n + j
    BY <1>2
  <1> QED
    BY <1>2, <1>3

\* The results of a trade are the one of its sell.
LEMMA ResultIs ==
  ASSUME Profit!FifoAssumption, NEW es \in Seq(Profit!Trades), NEW c \in Nat, Numbered(es, c), OneDec(es),
         NEW b, NEW m, Counts(es, b, m), NEW k \in 1 .. Len(es), TradeAt(es, k, "sell")
  PROVE  ResultsFor(es, es[k].id) = {Rec(es, b, m, k)}
  <1>1. Profit!Results(es) = {Rec(es, b, m, i) : i \in Sells(es, Len(es))}
    BY ReplayIs
  <1>2. k \in Sells(es, Len(es)) /\ \A i \in Sells(es, Len(es)) : i \in 1 .. Len(es)
    BY DEF Sells
  <1>3. \A i : Rec(es, b, m, i).id = es[i].id
    BY DEF Rec
  <1>4. \A i \in Sells(es, Len(es)) : es[i].id = es[k].id => i = k
    BY <1>2, OneId
  <1>5. PICK R : R = Profit!Results(es) /\ R = {Rec(es, b, m, i) : i \in Sells(es, Len(es))}
    BY <1>1
  <1>6. PICK own : own = Rec(es, b, m, k)
    OBVIOUS
  <1>7. own \in R /\ own.id = es[k].id
    BY <1>2, <1>3, <1>5, <1>6
  <1>8. ASSUME NEW r \in R, r.id = es[k].id PROVE r = own
    <2>1. PICK i \in Sells(es, Len(es)) : r = Rec(es, b, m, i)
      BY <1>5
    <2>2. r.id = es[i].id
      BY <1>3, <2>1
    <2>3. i = k
      BY <1>4, <1>8, <2>1, <2>2
    <2> QED
      BY <1>6, <2>1, <2>3
  <1> QED
    BY <1>5, <1>6, <1>7, <1>8 DEF ResultsFor

\* A trade that is stored later changes no result of the earlier ones.
LEMMA ResultsOfMore ==
  ASSUME Profit!FifoAssumption, NEW es \in Seq(Profit!Trades), NEW e \in Profit!Trades,
         OneDec(Append(es, e)), NEW id, id # e.id
  PROVE  ResultsFor(Append(es, e), id) = ResultsFor(es, id)
  <1>1. PICK fs : fs = Append(es, e)
    OBVIOUS
  <1>2. fs \in Seq(Profit!Trades)
    BY <1>1
  <1>3. PICK r : r = Profit!ReplayFIFO(es)
    OBVIOUS
  <1>4. PICK q : q = Profit!ReplayFIFO(fs)
    OBVIOUS
  <1>5. q = Profit!Step(r, e) /\ r \in ReplayStates
    BY <1>1, <1>3, <1>4, ReplayOfMore
  <1>6. ~q.failed
    BY <1>1, <1>2, <1>4, CountsOf, ReplayIs
  <1>7. PICK result : result = [id |-> e.id, matched |-> Profit!Sell(e, r.lots).matched,
                                pnl |-> Profit!Sell(e, r.lots).pnl,
                                overflow |-> Profit!Sell(e, r.lots).remaining]
    OBVIOUS
  <1>8. ~r.failed /\ (q.results = r.results \/ q.results = Append(r.results, result))
    <2>1. r.failed => q = r
      BY <1>5, Zenon DEF Profit!Step
    <2>2. PICK lots : \/ q = r
                      \/ q = [r EXCEPT !.lots = lots]
                      \/ q = [lots |-> Profit!Sell(e, r.lots).lots, failed |-> Profit!Sell(e, r.lots).failed,
                              results |-> Append(r.results, result)]
      BY <1>5, <1>7, Zenon DEF Profit!Step
    <2>3. [r EXCEPT !.lots = lots].results = r.results
      BY <1>5 DEF ReplayStates
    <2>4. ~r.failed
      BY <1>6, <2>1
    <2>5. CASE q = [r EXCEPT !.lots = lots]
      BY <2>3, <2>4, <2>5
    <2>6. CASE q = [lots |-> Profit!Sell(e, r.lots).lots, failed |-> Profit!Sell(e, r.lots).failed,
                    results |-> Append(r.results, result)]
      BY <2>4, <2>6
    <2> QED
      BY <2>2, <2>4, <2>5, <2>6
  <1>9. r.results \in Seq(SellResults) /\ q.results \in Seq(SellResults)
    <2>1. q \in ReplayStates
      BY <1>5, StepTypes
    <2> QED
      BY <1>5, <2>1 DEF ReplayStates
  <1>10. Profit!Results(es) = Elements(r.results) /\ Profit!Results(fs) = Elements(q.results)
    <2>1. Profit!Results(es) = Profit!ToSet(r.results)
      BY <1>3, <1>8, Zenon DEF Profit!Results, Profit!InOrder
    <2>2. Profit!Results(fs) = Profit!ToSet(q.results)
      BY <1>4, <1>6, Zenon DEF Profit!Results, Profit!InOrder
    <2>3. DOMAIN r.results = 1 .. Len(r.results) /\ DOMAIN q.results = 1 .. Len(q.results)
      BY <1>9
    <2> QED
      BY <2>1, <2>2, <2>3 DEF Profit!ToSet, Elements
  <1>11. Elements(q.results) = Elements(r.results)
           \/ Elements(q.results) = Elements(r.results) \cup {result}
    <2>1. CASE q.results = Append(r.results, result)
      <3>1. Len(r.results) \in Nat
        BY <1>9
      <3>2. result \in SellResults
        <4>1. Len(q.results) = Len(r.results) + 1 /\ q.results[Len(r.results) + 1] = result
          BY <1>9, <2>1
        <4> QED
          BY <1>9, <3>1, <4>1
      <3> QED
        BY <1>9, <2>1, <3>2, ElementsOfMore
    <2> QED
      BY <1>8, <2>1
  <1>12. result.id = e.id
    BY <1>7
  <1> QED
    BY <1>1, <1>10, <1>11, <1>12 DEF ResultsFor

\* What is stored is numbered; what is to be logged, and was, is stored.
FifoTypes ==
  /\ events \in Seq(Profit!Trades) /\ inserted \in Nat /\ inserted <= MaxEvents
  /\ Len(events) <= inserted /\ Numbered(events, inserted)
  /\ unlogged \in Seq(Nat) /\ \A i \in 1 .. Len(unlogged) : unlogged[i] \in 1 .. inserted
  /\ steady \subseteq 1 .. inserted /\ DOMAIN lines = 1 .. MaxEvents

LinesAreTrue == OneDec(events) => \A id \in steady : lines[id] = ResultsFor(events, id)

FifoInv == FifoTypes /\ LinesAreTrue

\* Nothing is stored.
LEMMA InitFifo == ASSUME Profit!FifoAssumption, Profit!Init PROVE FifoInv
  <1>1. events = <<>> /\ inserted = 0 /\ unlogged = <<>> /\ steady = {}
    BY DEF Profit!Init
  <1>2. DOMAIN lines = 1 .. MaxEvents
    BY DEF Profit!Init
  <1>3. MaxEvents \in Nat
    BY DEF Profit!FifoAssumption
  <1>4. events \in Seq(Profit!Trades) /\ Len(events) = 0
    BY <1>1
  <1>5. unlogged \in Seq(Nat) /\ Len(unlogged) = 0
    BY <1>1
  <1>6. Numbered(events, inserted)
    BY <1>4 DEF Numbered
  <1>7. FifoTypes
    BY <1>1, <1>2, <1>3, <1>4, <1>5, <1>6 DEF FifoTypes
  <1> QED
    BY <1>1, <1>7 DEF FifoInv, LinesAreTrue

\* A trade is committed.
LEMMA InsertFifo ==
  ASSUME Profit!FifoAssumption, FifoInv, NEW t \in Profit!Trades, Profit!Insert(t) PROVE FifoInv'
  <1>1. /\ inserted' = inserted + 1 /\ t.id = inserted + 1 /\ events' = Append(events, t)
        /\ unlogged' = (IF t.direction = "sell" THEN Append(unlogged, t.id) ELSE unlogged)
        /\ lines' = lines /\ steady' = steady
    BY DEF Profit!Insert
  <1>2. events \in Seq(Profit!Trades) /\ Numbered(events, inserted)
    BY DEF FifoInv, FifoTypes
  <1>3. inserted \in Nat /\ Len(events) <= inserted /\ steady \subseteq 1 .. inserted
        /\ DOMAIN lines = 1 .. MaxEvents
    BY DEF FifoInv, FifoTypes
  <1>4. t.id \in 1 .. MaxEvents /\ MaxEvents \in Nat
    BY DEF Profit!Trades, Profit!FifoAssumption
  <1>5. PICK n \in Nat : n = Len(events)
    BY <1>2
  <1>6. events' \in Seq(Profit!Trades)
    BY <1>1, <1>2
  <1>7. Len(events') = n + 1 /\ events'[n + 1] = t /\ \A i \in 1 .. n : events'[i] = events[i]
    BY <1>1, <1>2, <1>5
  <1>8. Numbered(events', inserted')
    <2>1. \A i \in 1 .. n : events[i].id = inserted - n + i
      BY <1>2, <1>5 DEF Numbered
    <2>2. ASSUME NEW i \in 1 .. n + 1 PROVE events'[i].id = inserted' - (n + 1) + i
      <3>1. CASE i = n + 1
        <4>1. events'[i].id = inserted + 1
          BY <1>1, <1>7, <3>1
        <4> QED
          BY <1>1, <1>3, <1>5, <3>1, <4>1
      <3>2. CASE i \in 1 .. n
        <4>1. events'[i].id = inserted - n + i
          BY <1>7, <2>1, <3>2
        <4> QED
          BY <1>1, <1>3, <1>5, <3>2, <4>1
      <3> QED
        BY <3>1, <3>2
    <2> QED
      BY <1>7, <2>2 DEF Numbered
  <1>9. unlogged' \in Seq(Nat) /\ \A i \in 1 .. Len(unlogged') : unlogged'[i] \in 1 .. inserted'
    <2>1. unlogged \in Seq(Nat)
      BY DEF FifoInv, FifoTypes
    <2>2. \A i \in 1 .. Len(unlogged) : unlogged[i] \in 1 .. inserted
      BY DEF FifoInv, FifoTypes
    <2>3. \A i \in 1 .. Len(unlogged) : unlogged[i] \in 1 .. inserted'
      BY <1>1, <1>3, <2>2
    <2>4. CASE t.direction = "sell"
      <3>1. t.id \in Nat /\ t.id \in 1 .. inserted'
        BY <1>1, <1>3
      <3>2. unlogged' = Append(unlogged, t.id)
        BY <1>1, <2>4
      <3>3. unlogged' \in Seq(Nat)
        BY <2>1, <3>1, <3>2
      <3>4. PICK l \in Nat : l = Len(unlogged)
        BY <2>1
      <3>5. Len(unlogged') = l + 1 /\ unlogged'[l + 1] = t.id /\ \A i \in 1 .. l : unlogged'[i] = unlogged[i]
        BY <2>1, <3>2, <3>4
      <3> QED
        BY <2>3, <3>1, <3>3, <3>4, <3>5
    <2>5. CASE t.direction # "sell"
      BY <1>1, <2>1, <2>3, <2>5
    <2> QED
      BY <2>4, <2>5
  <1>10. FifoTypes'
    <2>1. inserted' \in Nat /\ inserted' <= MaxEvents /\ Len(events') <= inserted'
      BY <1>1, <1>3, <1>4, <1>5, <1>7
    <2>2. steady' \subseteq 1 .. inserted' /\ DOMAIN lines' = 1 .. MaxEvents
      BY <1>1, <1>3
    <2> QED
      BY <1>6, <1>8, <1>9, <2>1, <2>2 DEF FifoTypes
  <1>11. LinesAreTrue'
    <2> SUFFICES ASSUME OneDec(events'), NEW id \in steady PROVE lines[id] = ResultsFor(events', id)
      BY <1>1 DEF LinesAreTrue
    <2>1. OneDec(events)
      <3>1. \A i, j \in 1 .. n : events'[i].decimals = events'[j].decimals
        BY <1>5, <1>7 DEF OneDec
      <3> QED
        BY <1>5, <1>7, <3>1 DEF OneDec
    <2>2. lines[id] = ResultsFor(events, id)
      BY <2>1 DEF FifoInv, LinesAreTrue
    <2>3. id # t.id
      BY <1>1, <1>3
    <2>4. OneDec(Append(events, t))
      BY <1>1
    <2>5. ResultsFor(Append(events, t), id) = ResultsFor(events, id)
      BY <1>2, <2>3, <2>4, ResultsOfMore
    <2> QED
      BY <1>1, <2>2, <2>5
  <1> QED
    BY <1>10, <1>11 DEF FifoInv

\* A line is logged.
LEMMA LogFifo ==
  ASSUME Profit!FifoAssumption, FifoInv, Profit!LogWalletEvent PROVE FifoInv'
  <1>1. PICK id : id = Head(unlogged)
    OBVIOUS
  <1>2. /\ unlogged # <<>> /\ unlogged' = Tail(unlogged)
        /\ lines' = [lines EXCEPT ![id] = ResultsFor(events, id)]
        /\ steady' = steady \cup {id} /\ events' = events /\ inserted' = inserted
    BY <1>1 DEF Profit!LogWalletEvent, Profit!ResultOf, ResultsFor
  <1>3. unlogged \in Seq(Nat)
    BY DEF FifoInv, FifoTypes
  <1>4. \A i \in 1 .. Len(unlogged) : unlogged[i] \in 1 .. inserted
    BY DEF FifoInv, FifoTypes
  <1>5. PICK n \in Nat : Len(unlogged) = n + 1
    <2>1. Len(unlogged) \in Nat \ {0}
      BY <1>2, <1>3, EmptySeq
    <2> QED
      BY <2>1
  <1>6. id = unlogged[1] /\ id \in 1 .. inserted
    <2>1. Head(unlogged) = unlogged[1] /\ 1 \in 1 .. Len(unlogged)
      BY <1>3, <1>5
    <2> QED
      BY <1>1, <1>4, <2>1
  <1>7. unlogged' \in Seq(Nat) /\ \A i \in 1 .. Len(unlogged') : unlogged'[i] \in 1 .. inserted'
    <2>1. unlogged' \in Seq(Nat)
      BY <1>2, <1>3
    <2>2. Len(unlogged') = n /\ \A i \in 1 .. n : unlogged'[i] = unlogged[i + 1]
      BY <1>2, <1>3, <1>5
    <2>3. \A i \in 1 .. n : i + 1 \in 1 .. Len(unlogged)
      BY <1>5
    <2> QED
      BY <1>2, <1>4, <2>1, <2>2, <2>3
  <1>8. FifoTypes'
    <2>1. DOMAIN lines' = DOMAIN lines /\ steady' \subseteq 1 .. inserted
      BY <1>2, <1>6 DEF FifoInv, FifoTypes
    <2>2. Numbered(events, inserted)'
      BY <1>2 DEF FifoInv, FifoTypes, Numbered
    <2>3. events' \in Seq(Profit!Trades)
      BY <1>2 DEF FifoInv, FifoTypes
    <2>4. inserted' \in Nat /\ inserted' <= MaxEvents /\ Len(events') <= inserted'
      BY <1>2 DEF FifoInv, FifoTypes
    <2>5. DOMAIN lines' = 1 .. MaxEvents /\ steady' \subseteq 1 .. inserted'
      BY <1>2, <2>1 DEF FifoInv, FifoTypes
    <2> QED
      BY <1>7, <2>2, <2>3, <2>4, <2>5 DEF FifoTypes
  <1>9. LinesAreTrue'
    <2> SUFFICES ASSUME OneDec(events), NEW other \in steady \cup {id}
                 PROVE  lines'[other] = ResultsFor(events, other)
      BY <1>2 DEF LinesAreTrue
    <2>1. id \in DOMAIN lines
      BY <1>6 DEF FifoInv, FifoTypes, Profit!FifoAssumption
    <2>2. CASE other = id
      BY <1>2, <2>1, <2>2
    <2>3. CASE other # id
      <3>1. lines[other] = ResultsFor(events, other)
        BY <2>3 DEF FifoInv, LinesAreTrue
      <3>2. lines'[other] = lines[other]
        <4>1. other \in DOMAIN lines
          BY <2>3 DEF FifoInv, FifoTypes, Profit!FifoAssumption
        <4> QED
          BY <1>2, <2>3, <4>1
      <3> QED
        BY <3>1, <3>2
    <2> QED
      BY <2>2, <2>3
  <1> QED
    BY <1>8, <1>9 DEF FifoInv

\* What is left of the trades when the first n are gone.
IsRest(fs, es, n) ==
  /\ fs \in Seq(Profit!Trades) /\ Len(fs) = Len(es) - n
  /\ \A i \in 1 .. Len(fs) : fs[i] = es[i + n] /\ i + n \in 1 .. Len(es)

LEMMA RestOfTrades ==
  ASSUME NEW es \in Seq(Profit!Trades), NEW c \in Nat, Numbered(es, c), NEW n \in 1 .. Len(es), NEW fs,
         fs = SubSeq(es, n + 1, Len(es))
  PROVE  IsRest(fs, es, n) /\ Numbered(fs, c)
  <1>1. PICK l \in Nat : l = Len(es)
    OBVIOUS
  <1>8. n \in Nat /\ l - n \in Nat
    BY <1>1
  <1>2. PICK k \in Nat : k = l - n
    BY <1>8
  <1>3. fs \in Seq(Profit!Trades)
    BY <1>1
  <1>4. Len(fs) = k
    BY <1>1, <1>2
  <1>5. \A i \in 1 .. k : fs[i] = es[i + n] /\ i + n \in 1 .. l
    BY <1>1, <1>2
  <1>6. \A i \in 1 .. l : es[i].id = c - l + i
    BY <1>1 DEF Numbered
  <1>7. ASSUME NEW i \in 1 .. k PROVE fs[i].id = c - k + i
    <2>1. fs[i].id = c - l + (i + n)
      BY <1>5, <1>6
    <2>2. c - l + (i + n) = c - k + i
      BY <1>2, <1>8
    <2> QED
      BY <2>1, <2>2
  <1> QED
    BY <1>1, <1>2, <1>3, <1>4, <1>5, <1>7 DEF Numbered, IsRest

\* The oldest rows are purged.
LEMMA PurgeFifo ==
  ASSUME Profit!FifoAssumption, FifoInv, NEW expired \in 1 .. Len(events), NEW n \in 1 .. expired,
         Profit!Purge(expired, n)
  PROVE  FifoInv'
  <1>1. /\ events' = SubSeq(events, n + 1, Len(events)) /\ steady' = {}
        /\ inserted' = inserted /\ unlogged' = unlogged /\ lines' = lines
    BY DEF Profit!Purge, Profit!Remaining
  <1>2. events \in Seq(Profit!Trades) /\ Numbered(events, inserted) /\ inserted \in Nat
    BY DEF FifoInv, FifoTypes
  <1>3. n \in 1 .. Len(events)
    BY <1>2
  <1>4. events' \in Seq(Profit!Trades) /\ Len(events') = Len(events) - n /\ Numbered(events', inserted)
    BY <1>1, <1>2, <1>3, RestOfTrades DEF IsRest
  <1>5. Len(events') <= inserted'
    <2>1. Len(events) \in Nat /\ Len(events) <= inserted
      BY DEF FifoInv, FifoTypes
    <2> QED
      BY <1>1, <1>2, <1>3, <1>4, <2>1
  <1>6. unlogged' \in Seq(Nat) /\ \A i \in 1 .. Len(unlogged') : unlogged'[i] \in 1 .. inserted'
    BY <1>1 DEF FifoInv, FifoTypes
  <1>7. FifoTypes'
    <2>1. inserted' \in Nat /\ inserted' <= MaxEvents /\ DOMAIN lines' = 1 .. MaxEvents
      BY <1>1 DEF FifoInv, FifoTypes
    <2>2. Numbered(events', inserted')
      BY <1>1, <1>4
    <2> QED
      BY <1>1, <1>4, <1>5, <1>6, <2>1, <2>2 DEF FifoTypes
  <1> QED
    BY <1>1, <1>7 DEF FifoInv, LinesAreTrue

\* A step of the pair's trades; or none.
LEMMA NextFifo ==
  ASSUME Profit!FifoAssumption, FifoInv, Profit!Next \/ UNCHANGED fifoVars PROVE FifoInv'
  <1>1. CASE UNCHANGED fifoVars
    <2>1. /\ events' = events /\ inserted' = inserted /\ unlogged' = unlogged /\ lines' = lines
          /\ steady' = steady
      BY <1>1 DEF fifoVars
    <2>2. FifoTypes'
      BY <2>1 DEF FifoInv, FifoTypes, Numbered
    <2>3. LinesAreTrue'
      BY <2>1 DEF FifoInv, LinesAreTrue
    <2> QED
      BY <2>2, <2>3 DEF FifoInv
  <1> QED
    BY <1>1, InsertFifo, LogFifo, PurgeFifo DEF Profit!Next

\* What is stored is replayed as the module says it should be.
LEMMA ReplayTells == ASSUME Profit!FifoAssumption, FifoInv PROVE ProfitIsFifo
  <1>1. events \in Seq(Profit!Trades) /\ inserted \in Nat /\ Numbered(events, inserted)
    BY DEF FifoInv, FifoTypes
  <1>2. PICK b, m : b = Profit!BoughtBefore /\ m = Profit!MatchedBefore
    OBVIOUS
  <1>3. Counts(events, b, m)
    BY <1>1, <1>2, CountsOf, CountsAreOf
  <1>4. Profit!OneDecimals <=> OneDec(events)
    BY DEF Profit!OneDecimals, OneDec
  <1>5. Profit!LogStaysTrue
    BY <1>4 DEF FifoInv, LinesAreTrue, Profit!LogStaysTrue, Profit!ResultOf, ResultsFor
  <1>6. ASSUME OneDec(events), NEW k \in 1 .. Len(events), Profit!Priced(k, "sell")
        PROVE  Profit!ResultOf(events[k].id) =
                 {[id |-> events[k].id, matched |-> Profit!MatchedBefore[k] - Profit!MatchedBefore[k - 1],
                   pnl |-> Profit!Profit(k),
                   overflow |-> Profit!Quantity(events[k])
                                  - (Profit!MatchedBefore[k] - Profit!MatchedBefore[k - 1])]}
    <2>1. TradeAt(events, k, "sell")
      BY <1>6 DEF Profit!Priced, TradeAt
    <2>2. Profit!ResultOf(events[k].id) = {Rec(events, b, m, k)}
      <3>1. ResultsFor(events, events[k].id) = {Rec(events, b, m, k)}
        BY <1>1, <1>3, <1>6, <2>1, ResultIs
      <3> QED
        BY <3>1 DEF Profit!ResultOf, ResultsFor
    <2>3. Profit!Profit(k) = RunGain(events[k].price, UnitPrices(events, b), m[k - 1], m[k])
      <3>1. PICK units : units = m[k - 1] + 1 .. m[k]
        OBVIOUS
      <3>2. units \subseteq Nat
        BY <1>1, <1>3, <3>1, CountOfTrade
      <3>3. \A u \in Nat : UnitPrices(events, b)[u] = Profit!PriceOfUnit(u)
        BY <1>2, Zenon DEF UnitPrices, Profit!PriceOfUnit
      <3>4. [u \in units |-> events[k].price - UnitPrices(events, b)[u]]
              = [u \in units |-> events[k].price - Profit!PriceOfUnit(u)]
        BY <3>2, <3>3
      <3>5. Profit!Profit(k) = SumFunctionOnSet([u \in units |-> events[k].price - Profit!PriceOfUnit(u)], units)
        BY <1>2, <3>1, ProfitCopies, Zenon DEF Profit!Profit
      <3>6. RunGain(events[k].price, UnitPrices(events, b), m[k - 1], m[k])
              = SumFunctionOnSet([u \in units |-> events[k].price - UnitPrices(events, b)[u]], units)
        BY <3>1, Zenon DEF RunGain
      <3> QED
        BY <3>4, <3>5, <3>6, Zenon
    <2> QED
      BY <1>2, <2>2, <2>3, Zenon DEF Rec
  <1>7. Profit!ReplayIsFifo
    BY <1>4, <1>6, Zenon DEF Profit!ReplayIsFifo
  <1> QED
    BY <1>5, <1>7 DEF ProfitIsFifo

\* The stock after the first i rows that are left is at most what it was when the
\* purged rows were there.
LEMMA StockOfRest ==
  ASSUME Profit!FifoAssumption, NEW es \in Seq(Profit!Trades), NEW fs \in Seq(Profit!Trades),
         NEW b, NEW m, Counts(es, b, m), NEW c, NEW w, Counts(fs, c, w), NEW n \in Nat,
         \A i \in 1 .. Len(fs) : fs[i] = es[i + n] /\ i + n \in 1 .. Len(es), n <= Len(es)
  PROVE  \A i \in 0 .. Len(fs) : c[i] - w[i] <= b[i + n] - m[i + n]
  <1>1. PICK k \in Nat : k = Len(fs)
    OBVIOUS
  <1> DEFINE H == {i \in Nat : i <= k => c[i] - w[i] <= b[i + n] - m[i + n]}
  <1>2. 0 \in H
    <2>1. c[0] = 0 /\ w[0] = 0
      BY DEF Counts
    <2>2. n \in 0 .. Len(es) /\ 0 + n = n
      OBVIOUS
    <2>3. b[n] \in Nat /\ m[n] \in Nat /\ m[n] <= b[n]
      BY <2>2, CountsGrow
    <2> QED
      BY <2>1, <2>2, <2>3
  <1>3. ASSUME NEW i \in Nat, i \in H PROVE i + 1 \in H
    <2> SUFFICES ASSUME i + 1 <= k PROVE c[i + 1] - w[i + 1] <= b[i + 1 + n] - m[i + 1 + n]
      OBVIOUS
    <2>1. PICK j \in 1 .. Len(fs) : j = i + 1 /\ j - 1 = i /\ j \in Nat
      BY <1>1
    <2>2. PICK l \in 1 .. Len(es) : l = j + n /\ l - 1 = i + n /\ l = i + 1 + n
      BY <2>1
    <2>3. fs[j] = es[l]
      BY <2>2
    <2>4. j - 1 \in 0 .. Len(fs) /\ l - 1 \in 0 .. Len(es)
      BY CountOfTrade
    <2>5. w[j - 1] <= c[j - 1] /\ m[l - 1] <= b[l - 1]
      BY <2>4, CountsGrow
    <2>6. PICK Q \in Nat \ {0} : Q = Profit!Quantity(fs[j])
      BY CountOfTrade, TradeFacts
    <2>7. PICK c0 \in Nat, c1 \in Nat, w0 \in Nat, w1 \in Nat :
            c0 = c[j - 1] /\ c1 = c[j] /\ w0 = w[j - 1] /\ w1 = w[j]
      BY CountOfTrade
    <2>8. PICK b0 \in Nat, b1 \in Nat, m0 \in Nat, m1 \in Nat :
            b0 = b[l - 1] /\ b1 = b[l] /\ m0 = m[l - 1] /\ m1 = m[l]
      BY CountOfTrade
    <2>9. c0 - w0 <= b0 - m0
      BY <1>1, <1>3, <2>1, <2>2, <2>7, <2>8
    <2>10. c1 - w1 <= b1 - m1
      <3>1. /\ TradeAt(fs, j, "buy") <=> TradeAt(es, l, "buy")
            /\ TradeAt(fs, j, "sell") <=> TradeAt(es, l, "sell")
        BY <2>3 DEF TradeAt
      <3>2. CASE TradeAt(fs, j, "buy")
        <4>1. c1 = c0 + Q /\ w1 = w0
          BY <2>5, <2>6, <2>7, <3>2, CountsMove
        <4>2. b1 = b0 + Q /\ m1 = m0
          BY <2>3, <2>5, <2>6, <2>8, <3>1, <3>2, CountsMove
        <4> QED
          BY <2>9, <4>1, <4>2
      <3>3. CASE TradeAt(fs, j, "sell")
        <4>1. c1 = c0 /\ w1 - w0 = Profit!Lesser(Q, c0 - w0)
          BY <2>5, <2>6, <2>7, <3>3, CountsMove
        <4>2. b1 = b0 /\ m1 - m0 = Profit!Lesser(Q, b0 - m0)
          BY <2>3, <2>5, <2>6, <2>8, <3>1, <3>3, CountsMove
        <4>3. w1 - w0 = IF Q < c0 - w0 THEN Q ELSE c0 - w0
          BY <4>1, Zenon DEF Profit!Lesser
        <4>4. m1 - m0 = IF Q < b0 - m0 THEN Q ELSE b0 - m0
          BY <4>2, Zenon DEF Profit!Lesser
        <4>5. c1 = c0 /\ b1 = b0
          BY <4>1, <4>2
        <4> QED
          BY <2>9, <4>3, <4>4, <4>5
      <3>4. CASE ~TradeAt(fs, j, "buy") /\ ~TradeAt(fs, j, "sell")
        <4>1. c1 = c0 /\ w1 = w0
          BY <2>5, <2>7, <3>4, CountsMove
        <4>2. b1 = b0 /\ m1 = m0
          BY <2>5, <2>8, <3>1, <3>4, CountsMove
        <4> QED
          BY <2>9, <4>1, <4>2
      <3> QED
        BY <3>2, <3>3, <3>4
    <2> QED
      BY <2>1, <2>2, <2>7, <2>8, <2>10
  <1>4. Nat \subseteq H
    <2> HIDE DEF H
    <2> QED
      BY <1>2, <1>3, EveryNat
  <1> QED
    BY <1>1, <1>4

MatchesLess(es, fs) ==
  \A r \in Profit!Results(es), s \in Profit!Results(fs) : r.id = s.id => s.matched <= r.matched

\* The replay of the rows that are left matches no sell more.
LEMMA RestMatchesLess ==
  ASSUME Profit!FifoAssumption, NEW es \in Seq(Profit!Trades), NEW number \in Nat, Numbered(es, number),
         OneDec(es), NEW n \in 1 .. Len(es), NEW fs, IsRest(fs, es, n)
  PROVE  MatchesLess(es, fs)
  <1>1. \A i \in 1 .. Len(fs) : fs[i] = es[i + n] /\ i + n \in 1 .. Len(es)
    BY DEF IsRest
  <1>f. fs \in Seq(Profit!Trades)
    BY DEF IsRest
  <1>2. OneDec(fs)
    BY <1>1 DEF OneDec
  <1>3. PICK b, m : b = BoughtOf(es) /\ m = MatchedOf(es)
    OBVIOUS
  <1>4. PICK c, w : c = BoughtOf(fs) /\ w = MatchedOf(fs)
    OBVIOUS
  <1>5. Counts(es, b, m) /\ Counts(fs, c, w)
    BY <1>f, <1>3, <1>4, CountsOf
  <1>6. n \in Nat /\ n <= Len(es)
    OBVIOUS
  <1>7. \A i \in 0 .. Len(fs) : c[i] - w[i] <= b[i + n] - m[i + n]
    BY <1>f, <1>1, <1>5, <1>6, StockOfRest
  <1> SUFFICES ASSUME NEW r \in Profit!Results(es), NEW s \in Profit!Results(fs), r.id = s.id
               PROVE  s.matched <= r.matched
    BY DEF MatchesLess
  <1>8. PICK i \in Sells(es, Len(es)) : r = Rec(es, b, m, i)
    BY <1>5, ReplayIs
  <1>9. PICK j \in Sells(fs, Len(fs)) : s = Rec(fs, c, w, j)
    BY <1>f, <1>2, <1>5, ReplayIs
  <1>10. i \in 1 .. Len(es) /\ TradeAt(es, i, "sell") /\ j \in 1 .. Len(fs) /\ TradeAt(fs, j, "sell")
    BY DEF Sells
  <1>11. i = j + n
    <2>1. r.id = es[i].id /\ s.id = fs[j].id
      BY <1>8, <1>9 DEF Rec
    <2>2. fs[j] = es[j + n] /\ j + n \in 1 .. Len(es)
      BY <1>1, <1>10
    <2>3. es[i].id = es[j + n].id
      BY <2>1, <2>2
    <2> QED
      BY <1>10, <2>2, <2>3, OneId
  <1>12. r.matched = m[i] - m[i - 1] /\ s.matched = w[j] - w[j - 1]
    BY <1>8, <1>9 DEF Rec
  <1>13. PICK Q \in Nat \ {0} : Q = Profit!Quantity(es[i])
    BY <1>5, <1>10, CountOfTrade, TradeFacts
  <1>14. fs[j] = es[i]
    BY <1>1, <1>10, <1>11
  <1>15. i - 1 \in 0 .. Len(es) /\ j - 1 \in 0 .. Len(fs)
    BY <1>f, <1>5, <1>10, CountOfTrade
  <1>16. m[i - 1] <= b[i - 1] /\ w[j - 1] <= c[j - 1]
    BY <1>f, <1>5, <1>15, CountsGrow
  <1>17. b[i] = b[i - 1] /\ m[i] - m[i - 1] = Profit!Lesser(Q, b[i] - m[i - 1])
    BY <1>5, <1>10, <1>13, <1>16, CountsMove
  <1>18. c[j] = c[j - 1] /\ w[j] - w[j - 1] = Profit!Lesser(Q, c[j] - w[j - 1])
    BY <1>f, <1>5, <1>10, <1>13, <1>14, <1>16, CountsMove
  <1>19. PICK x \in Int, y \in Int : x = b[i] - m[i - 1] /\ y = c[j] - w[j - 1]
    <2>1. b[i] \in Nat /\ m[i - 1] \in Nat
      BY <1>5, <1>10, CountOfTrade
    <2>2. c[j] \in Nat /\ w[j - 1] \in Nat
      BY <1>f, <1>5, <1>10, CountOfTrade
    <2> QED
      BY <2>1, <2>2
  <1>20. y <= x
    <2>1. (j - 1) + n = i - 1
      BY <1>6, <1>10, <1>11
    <2>2. c[j - 1] - w[j - 1] <= b[i - 1] - m[i - 1]
      BY <1>7, <1>15, <2>1
    <2> QED
      BY <1>17, <1>18, <1>19, <2>2
  <1>21. r.matched = (IF Q < x THEN Q ELSE x) /\ s.matched = IF Q < y THEN Q ELSE y
    BY <1>12, <1>17, <1>18, <1>19, Zenon DEF Profit!Lesser
  <1> QED
    BY <1>20, <1>21

\* Nor does the replay of one trade more.
LEMMA MoreMatchesSame ==
  ASSUME Profit!FifoAssumption, NEW es \in Seq(Profit!Trades), NEW number \in Nat, Numbered(es, number),
         NEW e \in Profit!Trades, e.id = number + 1, OneDec(es), OneDec(Append(es, e))
  PROVE  MatchesLess(es, Append(es, e))
  <1>1. PICK b, m : b = BoughtOf(es) /\ m = MatchedOf(es)
    OBVIOUS
  <1>2. Counts(es, b, m)
    BY <1>1, CountsOf
  <1> SUFFICES ASSUME NEW r \in Profit!Results(es), NEW s \in Profit!Results(Append(es, e)), r.id = s.id
               PROVE  s.matched <= r.matched
    BY DEF MatchesLess
  <1>3. PICK i \in Sells(es, Len(es)) : r = Rec(es, b, m, i)
    BY <1>2, ReplayIs
  <1>4. i \in 1 .. Len(es) /\ TradeAt(es, i, "sell")
    BY DEF Sells
  <1>5. r.id = es[i].id /\ r.matched = m[i] - m[i - 1]
    BY <1>3 DEF Rec
  <1>6. r.id # e.id
    <2>1. PICK l \in Nat : l = Len(es)
      OBVIOUS
    <2>2. es[i].id = number - l + i /\ i \in 1 .. l
      BY <1>4, <2>1 DEF Numbered
    <2>3. number - l + i # number + 1
      BY <2>2
    <2> QED
      BY <1>5, <2>2, <2>3
  <1>7. ResultsFor(es, r.id) = {r}
    <2>1. ResultsFor(es, es[i].id) = {Rec(es, b, m, i)}
      BY <1>2, <1>4, ResultIs
    <2> QED
      BY <1>3, <1>5, <2>1
  <1>8. ResultsFor(Append(es, e), r.id) = ResultsFor(es, r.id)
    BY <1>6, ResultsOfMore
  <1>9. s = r
    BY <1>7, <1>8, Zenon DEF ResultsFor
  <1>10. m[i] \in Nat /\ m[i - 1] \in Nat
    BY <1>2, <1>4, CountOfTrade
  <1> QED
    BY <1>5, <1>9, <1>10

\* The same trades, the same results.
LEMMA SameMatchesSame ==
  ASSUME Profit!FifoAssumption, NEW es \in Seq(Profit!Trades), NEW number \in Nat, Numbered(es, number),
         OneDec(es)
  PROVE  MatchesLess(es, es)
  <1>1. PICK b, m : b = BoughtOf(es) /\ m = MatchedOf(es)
    OBVIOUS
  <1>2. Counts(es, b, m)
    BY <1>1, CountsOf
  <1> SUFFICES ASSUME NEW r \in Profit!Results(es), NEW s \in Profit!Results(es), r.id = s.id
               PROVE  s.matched <= r.matched
    BY DEF MatchesLess
  <1>3. PICK i \in Sells(es, Len(es)), j \in Sells(es, Len(es)) :
          r = Rec(es, b, m, i) /\ s = Rec(es, b, m, j)
    BY <1>2, ReplayIs
  <1>4. i \in 1 .. Len(es) /\ j \in 1 .. Len(es)
    BY DEF Sells
  <1>5. r.id = es[i].id /\ r.matched = m[i] - m[i - 1] /\ s.id = es[j].id
    BY <1>3 DEF Rec
  <1>6. i = j
    BY <1>4, <1>5, OneId
  <1>7. m[i] \in Nat /\ m[i - 1] \in Nat
    BY <1>2, <1>4, CountOfTrade
  <1> QED
    BY <1>3, <1>5, <1>6, <1>7

\* No step makes a stored sell match more.
LEMMA StepMatchesLess ==
  ASSUME Profit!FifoAssumption, FifoInv, Profit!Next \/ UNCHANGED fifoVars,
         OneDec(events), OneDec(events')
  PROVE  MatchesLess(events, events')
  <1>1. events \in Seq(Profit!Trades) /\ inserted \in Nat /\ Numbered(events, inserted)
    BY DEF FifoInv, FifoTypes
  <1>2. CASE \E t \in Profit!Trades : Profit!Insert(t)
    <2>1. PICK t \in Profit!Trades : Profit!Insert(t)
      BY <1>2
    <2>2. t.id = inserted + 1 /\ events' = Append(events, t)
      BY <2>1 DEF Profit!Insert
    <2>3. OneDec(Append(events, t))
      BY <2>2
    <2>4. MatchesLess(events, Append(events, t))
      BY <1>1, <2>2, <2>3, MoreMatchesSame
    <2> QED
      BY <2>2, <2>4
  <1>3. CASE events' = events
    <2>1. MatchesLess(events, events)
      BY <1>1, SameMatchesSame
    <2> QED
      BY <1>3, <2>1
  <1>4. CASE \E expired \in 1 .. Len(events) : \E n \in 1 .. expired : Profit!Purge(expired, n)
    <2>1. PICK expired \in 1 .. Len(events) : \E n \in 1 .. expired : Profit!Purge(expired, n)
      BY <1>4
    <2>2. PICK n \in 1 .. expired : Profit!Purge(expired, n)
      BY <2>1
    <2>3. events' = SubSeq(events, n + 1, Len(events))
      BY <2>2 DEF Profit!Purge, Profit!Remaining
    <2>4. n \in 1 .. Len(events)
      BY <1>1
    <2>5. IsRest(events', events, n)
      BY <1>1, <2>3, <2>4, RestOfTrades
    <2> QED
      BY <1>1, <2>4, <2>5, RestMatchesLess
  <1>5. Profit!LogWalletEvent \/ UNCHANGED fifoVars => events' = events
    BY DEF Profit!LogWalletEvent, fifoVars
  <1> QED
    BY <1>2, <1>3, <1>4, <1>5 DEF Profit!Next

\* Sells are matched with what was bought first and is still stored, each unit
\* once, for any trades, prices and quantities and whatever was purged; and what
\* was logged of a sell stays what a replay says, until a purge (ReplayFIFO,
\* logWalletEvent).
THEOREM ProfitIsAlwaysFifo == RecordsSpec => []ProfitIsFifo
  <1>1. RecordsInit => FifoInv
    BY RecordsAssumption, InitFifo DEF RecordsInit
  <1>2. FifoInv /\ [RecordsNext]_recordsVars => FifoInv'
    <2> SUFFICES ASSUME FifoInv, [RecordsNext]_recordsVars PROVE FifoInv'
      OBVIOUS
    <2>1. Profit!Next \/ UNCHANGED fifoVars
      BY DEF RecordsNext, recordsVars
    <2> QED
      BY <2>1, RecordsAssumption, NextFifo
  <1>3. FifoInv => ProfitIsFifo
    BY RecordsAssumption, ReplayTells
  <1> QED
    BY <1>1, <1>2, <1>3, PTL DEF RecordsSpec

-----------------------------------------------------------------------------
(* Nothing is invented *)

\* An open transaction has executed what is committed, and more.
Extends(s, t) == Len(s) <= Len(t) /\ \A i \in 1 .. Len(s) : t[i] = s[i]

TransactionInv == SchemaInv /\ Extends(log, txLog)

\* One file more.
LEMMA ExtendsMore ==
  ASSUME NEW S, NEW s \in Seq(S), NEW t \in Seq(S), NEW x \in S, Extends(s, t)
  PROVE  Extends(s, Append(t, x))
  <1>1. PICK k \in Nat, l \in Nat : k = Len(s) /\ l = Len(t)
    OBVIOUS
  <1>2. PICK u : u = Append(t, x)
    OBVIOUS
  <1>3. Len(u) = l + 1 /\ \A i \in 1 .. l : u[i] = t[i]
    BY <1>1, <1>2
  <1> QED
    BY <1>1, <1>2, <1>3 DEF Extends

\* What is executed in a transaction comes after what is committed.
LEMMA NextTransaction == ASSUME TransactionInv, [Next]_vars PROVE TransactionInv'
  <1>1. SchemaInv'
    BY NextSchema DEF TransactionInv
  <1>2. log \in Seq(Names \X Versions) /\ txLog \in Seq(Names \X Versions)
    BY DEF TransactionInv, SchemaInv, Agree
  <1>3. Extends(log, log)
    <2>1. Len(log) \in Nat
      BY <1>2
    <2> QED
      BY <2>1 DEF Extends
  <1>4. CASE Deploy \/ UNCHANGED vars
    <2>1. log' = log /\ txLog' = txLog
      BY <1>4 DEF Deploy, vars
    <2> QED
      BY <1>1, <2>1 DEF TransactionInv, Extends
  <1>5. CASE Start \/ Fail \/ Crash
    <2>1. log' = log /\ txLog' = log
      BY <1>5 DEF Start, Fail, Crash, Down
    <2> QED
      BY <1>1, <1>3, <2>1 DEF TransactionInv, Extends
  <1>6. CASE Visit
    <2>1. PICK n : n = Head(todo)
      OBVIOUS
    <2>2. n \in Names /\ dir[n] \in Versions
      BY <1>6, <2>1 DEF Visit, TransactionInv, SchemaInv
    <2>3. log' = log /\ (txLog' = txLog \/ txLog' = Append(txLog, <<n, dir[n]>>))
      BY <1>6, <2>1 DEF Visit, Execute
    <2>4. <<n, dir[n]>> \in Names \X Versions
      BY <2>2
    <2>5. Extends(log, Append(txLog, <<n, dir[n]>>))
      BY <1>2, <2>4, ExtendsMore DEF TransactionInv
    <2> QED
      BY <1>1, <2>3, <2>5 DEF TransactionInv, Extends
  <1>7. CASE Commit
    <2>1. log' = txLog /\ txLog' = txLog
      BY <1>7 DEF Commit
    <2>2. Len(txLog) \in Nat
      BY <1>2
    <2>3. Extends(txLog, txLog)
      BY <2>2 DEF Extends
    <2> QED
      BY <1>1, <2>1, <2>3 DEF TransactionInv, Extends
  <1> QED
    BY <1>4, <1>5, <1>6, <1>7 DEF Next

\* Only a start that succeeds changes the schema, and it takes nothing back.
LEMMA StepOfSchema ==
  ASSUME TransactionInv, [Next]_vars
  PROVE  log' # log => pc = "migrating" /\ pc' = "up" /\ IsPrefix(log, log')
  <1> SUFFICES ASSUME log' # log PROVE pc = "migrating" /\ pc' = "up" /\ IsPrefix(log, log')
    OBVIOUS
  <1>1. Commit
    BY DEF Next, Deploy, Start, Visit, Fail, Crash, Down, vars
  <1>2. log' = txLog /\ pc = "migrating" /\ pc' = "up"
    BY <1>1 DEF Commit
  <1>3. log \in Seq(Names \X Versions) /\ txLog \in Seq(Names \X Versions)
    BY DEF TransactionInv, SchemaInv, Agree
  <1>4. PICK k \in Nat, l \in Nat : k = Len(log) /\ l = Len(txLog)
    BY <1>3
  <1>5. k <= l /\ \A i \in 1 .. k : txLog[i] = log[i]
    BY <1>4 DEF TransactionInv, Extends
  <1>6. SubSeq(log, 1, k) = SubSeq(txLog, 1, k)
    <2>1. PICK s : s = SubSeq(log, 1, k)
      OBVIOUS
    <2>2. PICK t : t = SubSeq(txLog, 1, k)
      OBVIOUS
    <2>3. s \in Seq(Names \X Versions) /\ Len(s) = k /\ \A i \in 1 .. k : s[i] = log[i]
      BY <1>3, <1>4, <2>1
    <2>4. t \in Seq(Names \X Versions) /\ Len(t) = k /\ \A i \in 1 .. k : t[i] = txLog[i]
      BY <1>3, <1>4, <1>5, <2>2
    <2>5. s = t
      BY <1>5, <2>3, <2>4, SeqEqual
    <2> QED
      BY <2>1, <2>2, <2>5
  <1>7. IsPrefix(log, txLog)
    BY <1>4, <1>5, <1>6 DEF IsPrefix
  <1> QED
    BY <1>2, <1>7

\* A purge never makes a stored sell match more than it did, nor does anything
\* else; and the schema changes only by a start that succeeds, which adds to it
\* (PurgeOldData, ReplayFIFO, Migrate).
THEOREM NothingIsEverInvented == RecordsSpec => NothingIsInvented
  <1> DEFINE Grows == log' # log => pc = "migrating" /\ pc' = "up" /\ IsPrefix(log, log')
             Sells1 == Profit!OneDecimals /\ Profit!OneDecimals' =>
                        \A r \in Profit!Results(events), s \in Profit!Results(events') :
                          r.id = s.id => s.matched <= r.matched
             Inv == TransactionInv /\ FifoInv
  <1>1. RecordsInit => Inv
    <2> SUFFICES ASSUME RecordsInit PROVE Inv
      OBVIOUS
    <2>1. FifoInv
      BY RecordsAssumption, InitFifo DEF RecordsInit
    <2>2. SchemaInv
      BY InitSchema DEF RecordsInit
    <2>3. Extends(log, txLog)
      BY DEF RecordsInit, Init, Extends
    <2> QED
      BY <2>1, <2>2, <2>3 DEF TransactionInv
  <1>2. [RecordsNext]_recordsVars => [Next]_vars /\ (Profit!Next \/ UNCHANGED fifoVars)
    BY DEF RecordsNext, recordsVars
  <1>3. Inv /\ [RecordsNext]_recordsVars => Inv'
    <2> SUFFICES ASSUME Inv, [RecordsNext]_recordsVars PROVE Inv'
      OBVIOUS
    <2>1. TransactionInv'
      BY <1>2, NextTransaction
    <2>2. FifoInv'
      BY <1>2, RecordsAssumption, NextFifo
    <2> QED
      BY <2>1, <2>2
  <1>4. Inv /\ [RecordsNext]_recordsVars => [Grows]_vars /\ [Sells1]_(Profit!vars)
    <2> SUFFICES ASSUME Inv, [RecordsNext]_recordsVars PROVE Grows /\ Sells1
      OBVIOUS
    <2>1. Grows
      BY <1>2, StepOfSchema
    <2>2. Sells1
      <3>1. (Profit!OneDecimals => OneDec(events)) /\ (Profit!OneDecimals' => OneDec(events'))
        BY DEF Profit!OneDecimals, OneDec
      <3> QED
        BY <1>2, <3>1, RecordsAssumption, StepMatchesLess DEF MatchesLess
    <2> QED
      BY <2>1, <2>2
  <1> HIDE DEF Grows, Sells1, Inv
  <1>5. RecordsSpec => [][Grows]_vars /\ [][Sells1]_(Profit!vars)
    BY <1>1, <1>3, <1>4, PTL DEF RecordsSpec
  <1> QED
    BY <1>5 DEF NothingIsInvented, AllOrNothing, Profit!PurgeAddsNoMatch, Grows, Sells1

-----------------------------------------------------------------------------
(* Event ids *)

\* What is assumed of the numbers of an id.
LEMMA IdConstants ==
  /\ Base \in Nat /\ Base > 1
  /\ BlockWidth \in Nat \ {0} /\ TxWidth \in Nat \ {0} /\ LogWidth \in Nat \ {0}
  /\ Blocks \subseteq Nat /\ TxIndexes \subseteq Nat /\ LogIndexes \subseteq Nat
  <1>1. Ids!EventIdAssumption
    BY RecordsAssumption
  <1>2. Base \in Nat \ {0, 1} /\ {BlockWidth, TxWidth, LogWidth} \subseteq Nat \ {0}
        /\ Blocks \cup TxIndexes \cup LogIndexes \subseteq Nat
    BY <1>1 DEF Ids!EventIdAssumption
  <1>3. Base \in Nat /\ Base > 1
    BY <1>2
  <1> QED
    BY <1>2, <1>3

\* Two functions that obey the recursion of a power agree where both are defined.
LEMMA PowersAgree ==
  ASSUME NEW n \in Nat, NEW m \in Nat, n <= m, NEW p, NEW q,
         p = [k \in 0 .. n |-> IF k = 0 THEN 1 ELSE Base * p[k - 1]],
         q = [k \in 0 .. m |-> IF k = 0 THEN 1 ELSE Base * q[k - 1]]
  PROVE  p[n] = q[n]
  <1> DEFINE H == {k \in Nat : k <= n => p[k] = q[k]}
  <1>1. p[0] = 1 /\ \A k \in 0 .. n : k # 0 => p[k] = Base * p[k - 1]
    OBVIOUS
  <1>2. q[0] = 1 /\ \A k \in 0 .. m : k # 0 => q[k] = Base * q[k - 1]
    OBVIOUS
  <1>3. 0 \in H
    BY <1>1, <1>2
  <1>4. ASSUME NEW k \in Nat, k \in H PROVE k + 1 \in H
    <2> SUFFICES ASSUME k + 1 <= n PROVE p[k + 1] = q[k + 1]
      OBVIOUS
    <2>1. k + 1 \in 0 .. n /\ k + 1 \in 0 .. m /\ k + 1 # 0 /\ (k + 1) - 1 = k /\ k <= n
      OBVIOUS
    <2>2. p[k] = q[k]
      BY <1>4, <2>1
    <2>3. p[k + 1] = Base * p[k] /\ q[k + 1] = Base * q[k]
      BY <1>1, <1>2, <2>1
    <2> QED
      BY <2>2, <2>3
  <1>5. Nat \subseteq H
    <2> HIDE DEF H
    <2> QED
      BY <1>3, <1>4, EveryNat
  <1>6. n \in H
    <2> HIDE DEF H
    <2> QED
      BY <1>5
  <1>7. n <= n
    OBVIOUS
  <1> QED
    BY <1>6, <1>7

\* The power of an id's numbers is the power of the quantities.
LEMMA PowerCopies == \A n : Ids!Power(n) = Profit!Power(n)
  BY Zenon DEF Ids!Power, Profit!Power

\* Each power is the one before, times the base.
LEMMA PowerUnfolded ==
  /\ Ids!Power(0) = 1
  /\ \A n \in Nat : Ids!Power(n) \in Nat \ {0} /\ Ids!Power(n + 1) = Base * Ids!Power(n)
  <1> DEFINE P(p, n) == [k \in 0 .. n |-> IF k = 0 THEN 1 ELSE Base * p[k - 1]]
  <1>1. ASSUME NEW n \in Nat
        PROVE  \E p : p = P(p, n) /\ Ids!Power(n) = p[n]
    <2>1. Base \in Nat
      BY IdConstants
    <2> DEFINE F == [x \in Nat \X (1 .. n) |-> Base * x[1]]
    <2>2. F \in [Nat \X (1 .. n) -> Nat] /\ 1 \in Nat
      <3>1. \A i \in Nat : Base * i \in Nat
        BY <2>1
      <3> QED
        BY <3>1
    <2>3. \A i \in Nat, k \in 1 .. n : F[<<i, k>>] = Base * i
      OBVIOUS
    <2> HIDE DEF F
    <2>4. PICK h \in [0 .. n -> Nat] : h = Recursion(F, 1, n, h)
      <3>1. HasRecursion(Nat, 1, n, F)
        BY RecursionExists
      <3> QED
        BY <2>2, <3>1 DEF HasRecursion
    <2>5. h = P(h, n)
      BY <2>3, <2>4 DEF Recursion
    <2> QED
      BY <2>5, Zenon DEF Ids!Power
  <1>2. ASSUME NEW n \in Nat PROVE Ids!Power(n) \in Nat \ {0}
    <2>1. Profit!FifoAssumption
      BY RecordsAssumption
    <2> QED
      BY <2>1, PowerIsNat, PowerCopies
  <1>3. Ids!Power(0) = 1
    <2>1. PICK p : p = P(p, 0) /\ Ids!Power(0) = p[0]
      BY <1>1
    <2> QED
      BY <2>1
  <1>4. ASSUME NEW n \in Nat PROVE Ids!Power(n + 1) = Base * Ids!Power(n)
    <2>1. PICK p : p = P(p, n) /\ Ids!Power(n) = p[n]
      BY <1>1
    <2>2. n + 1 \in Nat /\ n <= n + 1
      OBVIOUS
    <2>3. PICK q : q = P(q, n + 1) /\ Ids!Power(n + 1) = q[n + 1]
      BY <1>1, <2>2
    <2>4. p[n] = q[n]
      BY <2>1, <2>2, <2>3, PowersAgree
    <2>5. q[n + 1] = Base * q[n]
      BY <2>3
    <2> QED
      BY <2>1, <2>3, <2>4, <2>5
  <1> QED
    BY <1>2, <1>3, <1>4

\* A number times the base is more than the number.
LEMMA TimesBase == ASSUME NEW a \in Nat \ {0} PROVE Base * a > a /\ Base * a \in Nat
  <1>1. PICK b \in Nat : b = Base - 2
    BY IdConstants
  <1>2. Base = b + 2
    BY <1>1, IdConstants
  <1>3. b * a \in Nat
    OBVIOUS
  <1>4. (b + 2) * a = b * a + a + a
    OBVIOUS
  <1> QED
    BY <1>2, <1>3, <1>4

\* Powers grow, and faster than their exponents.
LEMMA PowerGrows ==
  /\ \A n \in Nat : Ids!Power(n) > n
  /\ \A n \in Nat, m \in Nat : n <= m => Ids!Power(n) <= Ids!Power(m)
  <1>1. \A n \in Nat : Ids!Power(n) \in Nat \ {0} /\ Ids!Power(n + 1) > Ids!Power(n)
    BY PowerUnfolded, TimesBase
  <1>2. \A n \in Nat : Ids!Power(n) > n
    <2> DEFINE H == {n \in Nat : Ids!Power(n) > n}
    <2>1. 0 \in H
      BY PowerUnfolded
    <2>2. ASSUME NEW n \in Nat, n \in H PROVE n + 1 \in H
      <3>1. Ids!Power(n) > n /\ n + 1 \in Nat
        BY <2>2
      <3>2. Ids!Power(n) \in Nat /\ Ids!Power(n + 1) \in Nat /\ Ids!Power(n + 1) > Ids!Power(n)
        BY <1>1, <3>1
      <3> QED
        BY <3>1, <3>2
    <2>3. Nat \subseteq H
      <3> HIDE DEF H
      <3> QED
        BY <2>1, <2>2, EveryNat
    <2> QED
      BY <2>3
  <1>3. ASSUME NEW n \in Nat PROVE \A m \in Nat : n <= m => Ids!Power(n) <= Ids!Power(m)
    <2> DEFINE H == {m \in Nat : n <= m => Ids!Power(n) <= Ids!Power(m)}
    <2>1. 0 \in H
      BY <1>1
    <2>2. ASSUME NEW m \in Nat, m \in H PROVE m + 1 \in H
      <3> SUFFICES ASSUME n <= m + 1 PROVE Ids!Power(n) <= Ids!Power(m + 1)
        OBVIOUS
      <3>1. m + 1 \in Nat /\ Ids!Power(n) \in Nat /\ Ids!Power(m) \in Nat /\ Ids!Power(m + 1) \in Nat
            /\ Ids!Power(m + 1) > Ids!Power(m)
        BY <1>1
      <3>2. CASE n = m + 1
        BY <3>1, <3>2
      <3>3. CASE n <= m
        BY <2>2, <3>1, <3>3
      <3> QED
        BY <3>2, <3>3
    <2>3. Nat \subseteq H
      <3> HIDE DEF H
      <3> QED
        BY <2>1, <2>2, EveryNat
    <2> QED
      BY <2>3
  <1> QED
    BY <1>2, <1>3

\* The length of a number tells which widths it fits.
LEMMA LengthFits ==
  ASSUME NEW n \in Nat
  PROVE  /\ Ids!Length(n) \in Nat \ {0}
         /\ \A w \in Nat \ {0} : Ids!Length(n) <= w <=> n < Ids!Power(w)
  <1> DEFINE S == {k \in 1 .. n + 1 : n < Ids!Power(k)}
  <1>1. S \in SUBSET Nat /\ n + 1 \in S
    <2>1. n + 1 \in Nat /\ Ids!Power(n + 1) \in Nat /\ Ids!Power(n + 1) > n + 1
      BY PowerGrows, PowerUnfolded
    <2> QED
      BY <2>1
  <1>2. PICK m \in S : \A k \in S : m <= k
    <2> HIDE DEF S
    <2> QED
      BY <1>1, SmallestOf
  <1>3. Ids!Length(n) \in S /\ \A k \in S : Ids!Length(n) <= k
    <2>1. Ids!Length(n) = Ids!Min(S)
      BY DEF Ids!Length
    <2> HIDE DEF S
    <2> QED
      BY <1>2, <2>1 DEF Ids!Min
  <1>4. PICK l \in Nat \ {0} : l = Ids!Length(n) /\ l <= n + 1 /\ n < Ids!Power(l)
    BY <1>3
  <1>5. ASSUME NEW w \in Nat \ {0} PROVE l <= w <=> n < Ids!Power(w)
    <2>1. Ids!Power(w) \in Nat /\ Ids!Power(l) \in Nat
      BY PowerUnfolded
    <2>2. l <= w => Ids!Power(l) <= Ids!Power(w)
      BY PowerGrows
    <2>3. ASSUME n < Ids!Power(w), ~(l <= w) PROVE FALSE
      <3>1. w \in 1 .. n + 1
        BY <1>4, <2>3
      <3>2. w \in S
        BY <2>3, <3>1
      <3>3. l <= w
        BY <1>3, <1>4, <3>2
      <3> QED
        BY <2>3, <3>3
    <2> QED
      BY <1>4, <2>1, <2>2, <2>3
  <1> QED
    BY <1>4, <1>5

\* What a quotient and a remainder are.
LEMMA Divided ==
  ASSUME NEW a \in Nat, NEW d \in Nat \ {0}
  PROVE  a \div d \in Nat /\ a % d \in 0 .. d - 1 /\ a = d * (a \div d) + (a % d)
  OBVIOUS

\* There is one quotient.
LEMMA QuotientIs ==
  ASSUME NEW a \in Nat, NEW d \in Nat \ {0}, NEW q \in Nat, NEW r \in 0 .. d - 1, a = d * q + r
  PROVE  a \div d = q /\ a % d = r
  <1>1. PICK x \in Nat, y \in 0 .. d - 1 : x = a \div d /\ y = a % d /\ a = d * x + y
    BY Divided
  <1>2. ASSUME NEW u \in Nat, NEW v \in Nat, u < v PROVE d * u + d <= d * v
    <2>1. PICK e \in Nat : v = u + 1 + e
      <3>1. v - u - 1 \in Nat /\ v = u + 1 + (v - u - 1)
        BY <1>2
      <3> QED
        BY <3>1
    <2>2. d * (u + 1 + e) = d * u + d + d * e
      OBVIOUS
    <2>3. d * e \in Nat /\ d * u \in Nat
      OBVIOUS
    <2> QED
      BY <2>1, <2>2, <2>3
  <1>3. PICK dx \in Nat, dq \in Nat : dx = d * x /\ dq = d * q
    OBVIOUS
  <1>4. ~(x < q) /\ ~(q < x)
    <2>1. x < q => dx + d <= dq
      BY <1>2, <1>3
    <2>2. q < x => dq + d <= dx
      BY <1>2, <1>3
    <2>3. dx + y = dq + r
      BY <1>1, <1>3
    <2> QED
      BY <2>1, <2>2, <2>3
  <1>5. x = q
    BY <1>4
  <1> QED
    BY <1>1, <1>3, <1>5

\* Quotients keep the order.
LEMMA QuotientsOrdered ==
  ASSUME NEW a \in Nat, NEW b \in Nat, a <= b, NEW d \in Nat \ {0}
  PROVE  a \div d <= b \div d
  <1>1. PICK x \in Nat, y \in 0 .. d - 1 : x = a \div d /\ a = d * x + y
    BY Divided
  <1>2. PICK u \in Nat, v \in 0 .. d - 1 : u = b \div d /\ b = d * u + v
    BY Divided
  <1>3. ASSUME u < x PROVE FALSE
    <2>1. PICK e \in Nat : x = u + 1 + e
      <3>1. x - u - 1 \in Nat /\ x = u + 1 + (x - u - 1)
        BY <1>3
      <3> QED
        BY <3>1
    <2>2. d * (u + 1 + e) = d * u + d + d * e
      OBVIOUS
    <2>3. PICK de \in Nat, du \in Nat : de = d * e /\ du = d * u
      OBVIOUS
    <2>4. a = du + d + de + y /\ b = du + v
      BY <1>1, <1>2, <2>1, <2>2, <2>3
    <2> QED
      BY <2>3, <2>4
  <1> QED
    BY <1>1, <1>2, <1>3

DividedTwice(a, c, d) == (a \div c) \div d = a \div (c * d)

\* A quotient of a quotient is one by the product.
LEMMA QuotientTwice ==
  ASSUME NEW a \in Nat, NEW c \in Nat \ {0}, NEW d \in Nat \ {0}
  PROVE  DividedTwice(a, c, d)
  <1>0. PICK cd \in Nat \ {0} : cd = c * d
    <2>1. c * d \in Nat /\ c * d # 0
      OBVIOUS
    <2> QED
      BY <2>1
  <1>1. PICK x \in Nat, y \in 0 .. c - 1 : x = a \div c /\ a = c * x + y
    BY Divided
  <1>2. PICK u \in Nat, v \in 0 .. d - 1 : u = x \div d /\ x = d * u + v
    BY Divided
  <1>3. a = cd * u + (c * v + y)
    <2>1. a = c * (d * u + v) + y
      BY <1>1, <1>2
    <2>2. c * (d * u + v) = (c * d) * u + c * v
      OBVIOUS
    <2> QED
      BY <1>0, <2>1, <2>2
  <1>4. c * v + y \in 0 .. cd - 1
    <2>1. PICK e \in Nat : d = v + 1 + e
      <3>1. d - v - 1 \in Nat /\ d = v + 1 + (d - v - 1)
        OBVIOUS
      <3> QED
        BY <3>1
    <2>2. c * (v + 1 + e) = c * v + c + c * e
      OBVIOUS
    <2>3. PICK cv \in Nat, ce \in Nat : cv = c * v /\ ce = c * e
      OBVIOUS
    <2>4. cd = cv + c + ce
      BY <1>0, <2>1, <2>2, <2>3
    <2> QED
      BY <2>3, <2>4
  <1>5. PICK r \in 0 .. cd - 1 : r = c * v + y
    BY <1>4
  <1>6. a \div cd = u
    BY <1>3, <1>5, QuotientIs
  <1>7. (a \div c) \div d = a \div cd
    BY <1>1, <1>2, <1>6
  <1> QED
    BY <1>0, <1>7, Zenon DEF DividedTwice

-----------------------------------------------------------------------------
\* The digits of a number are a sequence of digits.
LEMMA DigitsType ==
  ASSUME NEW n \in Nat, NEW w \in Nat
  PROVE  /\ Ids!LastDigits(n, w) \in Seq(Nat) /\ Len(Ids!LastDigits(n, w)) = w
         /\ \A i \in 1 .. w : Ids!LastDigits(n, w)[i] = (n \div Ids!Power(w - i)) % Base
  <1> DEFINE s == [i \in 1 .. w |-> (n \div Ids!Power(w - i)) % Base]
  <1>1. Ids!LastDigits(n, w) = s
    BY DEF Ids!LastDigits
  <1>2. ASSUME NEW i \in 1 .. w PROVE (n \div Ids!Power(w - i)) % Base \in Nat
    <2>1. PICK p \in Nat \ {0} : p = Ids!Power(w - i)
      BY PowerUnfolded
    <2>2. PICK x \in Nat : x = n \div p
      BY Divided
    <2>3. x % Base \in 0 .. Base - 1 /\ Base \in Nat
      BY Divided, IdConstants
    <2>4. x % Base \in Nat
      BY <2>3
    <2> QED
      BY <2>1, <2>2, <2>4
  <1>3. s \in [1 .. w -> Nat]
    BY <1>2
  <1>4. s \in Seq(Nat) /\ Len(s) = w
    BY <1>3
  <1> QED
    BY <1>1, <1>4

\* What is before a place of a number's digits, and the digit at the place.
LEMMA QuotientGoesOn ==
  ASSUME NEW n \in Nat, NEW k \in Nat
  PROVE  n \div Ids!Power(k) =
           Base * (n \div Ids!Power(k + 1)) + ((n \div Ids!Power(k)) % Base)
  <1>1. PICK c \in Nat \ {0}, cd \in Nat \ {0} :
             c = Ids!Power(k) /\ cd = Ids!Power(k + 1) /\ cd = Base * c
    BY PowerUnfolded
  <1>2. PICK d \in Nat \ {0} : d = Base
    BY IdConstants
  <1>3. cd = c * d
    BY <1>1, <1>2
  <1>4. (n \div c) \div d = n \div cd
    <2>1. DividedTwice(n, c, d)
      BY QuotientTwice
    <2> QED
      BY <1>3, <2>1, Zenon DEF DividedTwice
  <1>5. PICK x \in Nat : x = n \div c
    BY Divided
  <1>6. x = d * (x \div d) + (x % d)
    BY Divided
  <1> QED
    BY <1>1, <1>2, <1>4, <1>5, <1>6

\* All of a number, and nothing of it.
LEMMA QuotientEnds ==
  ASSUME NEW n \in Nat, NEW w \in Nat, n < Ids!Power(w)
  PROVE  n \div Ids!Power(0) = n /\ n \div Ids!Power(w) = 0
  <1>1. PICK p \in Nat \ {0} : p = Ids!Power(w)
    BY PowerUnfolded
  <1>2. n = p * 0 + n /\ n \in 0 .. p - 1
    BY <1>1
  <1>3. n \div p = 0
    BY <1>2, QuotientIs
  <1>4. n = 1 * n + 0 /\ 0 \in 0 .. 1 - 1 /\ 1 \in Nat \ {0}
    OBVIOUS
  <1>5. n \div 1 = n
    BY <1>4, QuotientIs
  <1> QED
    BY <1>1, <1>3, <1>5, PowerUnfolded

\* The first place where two sequences of one length differ is lower in a.
Lower(a, b) ==
  \E i \in 1 .. Len(a) : a[i] < b[i] /\ \A j \in 1 .. i - 1 : a[j] = b[j]

\* The digits of a lower number are lower.
LEMMA LowerDigits ==
  ASSUME NEW n \in Nat, NEW m \in Nat, n < m, NEW w \in Nat \ {0}, m < Ids!Power(w)
  PROVE  Lower(Ids!LastDigits(n, w), Ids!LastDigits(m, w))
  <1> DEFINE N(i) == n \div Ids!Power(w - i)
             M(i) == m \div Ids!Power(w - i)
             S == {i \in 1 .. w : N(i) # M(i)}
  <1>1. n < Ids!Power(w)
    BY PowerUnfolded
  <1>2. N(w) = n /\ M(w) = m /\ N(0) = 0 /\ M(0) = 0
    <2>1. w - w = 0 /\ w - 0 = w
      OBVIOUS
    <2> QED
      BY <1>1, <2>1, QuotientEnds
  <1>3. S \in SUBSET Nat /\ w \in S
    BY <1>2
  <1>4. PICK i \in S : \A k \in S : i <= k
    <2> HIDE DEF S
    <2> QED
      BY <1>3, SmallestOf
  <1>5. N(i) # M(i) /\ i \in 1 .. w /\ \A j \in 1 .. i - 1 : N(j) = M(j)
    BY <1>4
  <1>6. N(i - 1) = M(i - 1)
    <2> HIDE DEF N, M
    <2>1. CASE i = 1
      BY <1>2, <2>1
    <2>2. CASE i # 1
      BY <1>5, <2>2
    <2> QED
      BY <2>1, <2>2
  <1>7. PICK k \in Nat : k = w - i /\ k + 1 = w - (i - 1)
    BY <1>5
  <1>8. /\ N(i) \in Nat /\ N(i - 1) \in Nat /\ N(i) = Base * N(i - 1) + (N(i) % Base)
        /\ M(i) \in Nat /\ M(i - 1) \in Nat /\ M(i) = Base * M(i - 1) + (M(i) % Base)
    <2>0. k + 1 \in Nat /\ Ids!Power(k) \in Nat \ {0} /\ Ids!Power(k + 1) \in Nat \ {0}
      BY PowerUnfolded
    <2>1. PICK c \in Nat \ {0}, d \in Nat \ {0} : c = Ids!Power(k) /\ d = Ids!Power(k + 1)
      BY <2>0
    <2>2. N(i) = n \div c /\ M(i) = m \div c /\ N(i - 1) = n \div d /\ M(i - 1) = m \div d
      BY <1>7, <2>1
    <2>3. n \div c \in Nat /\ m \div c \in Nat /\ n \div d \in Nat /\ m \div d \in Nat
      BY Divided
    <2>4. /\ n \div c = Base * (n \div d) + ((n \div c) % Base)
          /\ m \div c = Base * (m \div d) + ((m \div c) % Base)
      BY <2>1, QuotientGoesOn
    <2> QED
      BY <2>2, <2>3, <2>4
  <1>9. N(i) <= M(i)
    <2>1. Ids!Power(k) \in Nat \ {0}
      BY PowerUnfolded
    <2> QED
      BY <1>7, <2>1, QuotientsOrdered
  <1>10. N(i) % Base < M(i) % Base
    <2>1. PICK x \in Nat, y \in Nat, c \in Nat, b \in Nat \ {0} :
               x = N(i) /\ y = M(i) /\ c = N(i - 1) /\ c = M(i - 1) /\ b = Base
      BY <1>6, <1>8, IdConstants
    <2>2. PICK u \in Nat, v \in Nat, bc \in Nat : u = x % b /\ v = y % b /\ bc = b * c
      <3>1. x % b \in 0 .. b - 1 /\ y % b \in 0 .. b - 1
        BY Divided
      <3> QED
        BY <3>1
    <2>3. x = bc + u /\ y = bc + v
      BY <1>8, <2>1, <2>2
    <2>4. x < y
      BY <1>5, <1>9, <2>1
    <2>5. u < v
      BY <2>3, <2>4
    <2> QED
      BY <2>1, <2>2, <2>5
  <1> DEFINE a == Ids!LastDigits(n, w)
             b == Ids!LastDigits(m, w)
  <1>11. /\ Len(a) = w /\ \A j \in 1 .. w : a[j] = N(j) % Base
         /\ \A j \in 1 .. w : b[j] = M(j) % Base
    BY DigitsType
  <1> HIDE DEF a, b, N, M
  <1>12. a[i] < b[i] /\ i \in 1 .. Len(a) /\ \A j \in 1 .. i - 1 : a[j] = b[j]
    BY <1>5, <1>10, <1>11
  <1>13. Lower(a, b)
    BY <1>12 DEF Lower
  <1> QED
    BY <1>13 DEF a, b

\* A number that fits is padded to the width, and any other is longer.
LEMMA PaddedIs ==
  ASSUME NEW n \in Nat, NEW w \in Nat \ {0}
  PROVE  /\ Ids!Padded(n, w) \in Seq(Nat) /\ Len(Ids!Padded(n, w)) \in Nat
         /\ n < Ids!Power(w) => Ids!Padded(n, w) = Ids!LastDigits(n, w) /\ Len(Ids!Padded(n, w)) = w
         /\ ~(n < Ids!Power(w)) => Len(Ids!Padded(n, w)) > w
  <1>1. PICK l \in Nat \ {0} : l = Ids!Length(n) /\ (l <= w <=> n < Ids!Power(w))
    BY LengthFits
  <1>2. PICK k \in Nat : k = IF l < w THEN w ELSE l
    OBVIOUS
  <1>3. Ids!Padded(n, w) = Ids!LastDigits(n, k)
    BY <1>1, <1>2 DEF Ids!Padded
  <1>4. (n < Ids!Power(w) => k = w) /\ (~(n < Ids!Power(w)) => k > w)
    BY <1>1, <1>2
  <1> QED
    BY <1>3, <1>4, DigitsType

-----------------------------------------------------------------------------
\* Of texts of one length, the one before is the lower one.
LEMMA TextOrder ==
  ASSUME NEW a \in Seq(Nat), NEW b \in Seq(Nat), Len(a) = Len(b)
  PROVE  Ids!TextBefore(a, b) <=> Lower(a, b)
  <1>1. Len(a) \in Nat /\ ~(Len(a) < Len(b))
    OBVIOUS
  <1>2. 1 .. Len(a) \cap 1 .. Len(b) = 1 .. Len(a)
    OBVIOUS
  <1> QED
    BY <1>1, <1>2, Zenon DEF Ids!TextBefore, Lower

\* Of two texts at most one is lower.
LEMMA LowerOnce ==
  ASSUME NEW a \in Seq(Nat), NEW b \in Seq(Nat), Len(a) = Len(b), Lower(a, b), Lower(b, a)
  PROVE  FALSE
  <1>1. PICK i \in 1 .. Len(a) : a[i] < b[i] /\ \A j \in 1 .. i - 1 : a[j] = b[j]
    BY DEF Lower
  <1>2. PICK k \in 1 .. Len(a) : b[k] < a[k] /\ \A j \in 1 .. k - 1 : b[j] = a[j]
    BY DEF Lower
  <1>3. a[i] \in Nat /\ b[i] \in Nat /\ a[k] \in Nat /\ b[k] \in Nat /\ Len(a) \in Nat
    OBVIOUS
  <1>4. i \in 1 .. k - 1 \/ i = k \/ k \in 1 .. i - 1
    BY <1>3
  <1>5. CASE i \in 1 .. k - 1
    BY <1>1, <1>2, <1>3, <1>5
  <1>6. CASE i = k
    BY <1>1, <1>2, <1>3, <1>6
  <1>7. CASE k \in 1 .. i - 1
    BY <1>1, <1>2, <1>3, <1>7
  <1> QED
    BY <1>4, <1>5, <1>6, <1>7

\* What a concatenation has where.
LEMMA Joined ==
  ASSUME NEW a \in Seq(Nat), NEW c \in Seq(Nat)
  PROVE  /\ a \o c \in Seq(Nat) /\ Len(a \o c) = Len(a) + Len(c)
         /\ \A i \in 1 .. Len(a) : (a \o c)[i] = a[i]
         /\ \A i \in 1 .. Len(c) : (a \o c)[Len(a) + i] = c[i]
  OBVIOUS

\* A text with a lower first part is lower.
LEMMA LowerFirst ==
  ASSUME NEW a \in Seq(Nat), NEW b \in Seq(Nat), NEW c \in Seq(Nat), NEW d \in Seq(Nat),
         Len(a) = Len(b), Lower(a, b)
  PROVE  Lower(a \o c, b \o d)
  <1>1. PICK i \in 1 .. Len(a) : a[i] < b[i] /\ \A j \in 1 .. i - 1 : a[j] = b[j]
    BY DEF Lower
  <1>2. Len(a) \in Nat /\ Len(c) \in Nat
    OBVIOUS
  <1>3. \A j \in 1 .. Len(a) : (a \o c)[j] = a[j] /\ (b \o d)[j] = b[j]
    BY Joined
  <1>4. Len(a \o c) = Len(a) + Len(c)
    BY Joined
  <1>5. i \in 1 .. Len(a \o c) /\ 1 .. i - 1 \subseteq 1 .. Len(a)
    BY <1>2, <1>4
  <1>6. (a \o c)[i] < (b \o d)[i] /\ \A j \in 1 .. i - 1 : (a \o c)[j] = (b \o d)[j]
    BY <1>1, <1>3, <1>5
  <1> QED
    BY <1>5, <1>6, Zenon DEF Lower

\* A text with the same first part and a lower second one is lower.
LEMMA LowerSecond ==
  ASSUME NEW a \in Seq(Nat), NEW c \in Seq(Nat), NEW d \in Seq(Nat),
         Len(c) = Len(d), Lower(c, d)
  PROVE  Lower(a \o c, a \o d)
  <1>1. PICK i \in 1 .. Len(c) : c[i] < d[i] /\ \A j \in 1 .. i - 1 : c[j] = d[j]
    BY DEF Lower
  <1>2. PICK l \in Nat : l = Len(a)
    OBVIOUS
  <1>3. /\ \A j \in 1 .. l : (a \o c)[j] = a[j] /\ (a \o d)[j] = a[j]
        /\ \A j \in 1 .. Len(c) : (a \o c)[l + j] = c[j] /\ (a \o d)[l + j] = d[j]
    BY <1>2, Joined
  <1>4. Len(a \o c) = l + Len(c) /\ Len(c) \in Nat
    <2>1. Len(a \o c) = Len(a) + Len(c)
      BY Joined
    <2> QED
      BY <1>2, <2>1
  <1>5. l + i \in 1 .. Len(a \o c)
    BY <1>4
  <1>6. (a \o c)[l + i] < (a \o d)[l + i]
    BY <1>1, <1>3
  <1>7. ASSUME NEW j \in 1 .. (l + i) - 1 PROVE (a \o c)[j] = (a \o d)[j]
    <2>1. CASE j \in 1 .. l
      BY <1>3, <2>1
    <2>2. CASE ~(j \in 1 .. l)
      <3>1. PICK k \in 1 .. i - 1 : j = l + k
        <4>1. j - l \in 1 .. i - 1 /\ j = l + (j - l)
          BY <2>2
        <4> QED
          BY <4>1
      <3>2. k \in 1 .. Len(c)
        BY <1>4
      <3> QED
        BY <1>1, <1>3, <3>1, <3>2
    <2> QED
      BY <2>1, <2>2
  <1> QED
    BY <1>5, <1>6, <1>7, Zenon DEF Lower

-----------------------------------------------------------------------------
\* Where an event is.
LEMMA PositionFacts ==
  ASSUME NEW p \in Ids!Positions
  PROVE  p.block \in Nat /\ p.tx \in Nat /\ p.log \in Nat
         /\ p = [block |-> p.block, tx |-> p.tx, log |-> p.log]
  <1>1. p.block \in Blocks /\ p.tx \in TxIndexes /\ p.log \in LogIndexes
        /\ p = [block |-> p.block, tx |-> p.tx, log |-> p.log]
    BY DEF Ids!Positions
  <1> QED
    BY <1>1, IdConstants

\* An id is as long as the widths together when the numbers fit, and only then.
LEMMA IdLength ==
  ASSUME NEW p \in Ids!Positions
  PROVE  /\ Ids!CalcEventID(p) \in Seq(Nat)
         /\ Ids!TooWide(p) <=> Len(Ids!CalcEventID(p)) # BlockWidth + TxWidth + LogWidth
  <1>1. p.block \in Nat /\ p.tx \in Nat /\ p.log \in Nat
    BY PositionFacts
  <1>2. /\ Ids!Power(BlockWidth) \in Nat /\ Ids!Power(TxWidth) \in Nat /\ Ids!Power(LogWidth) \in Nat
        /\ BlockWidth \in Nat \ {0} /\ TxWidth \in Nat \ {0} /\ LogWidth \in Nat \ {0}
    BY IdConstants, PowerUnfolded
  <1>3. PICK a \in Seq(Nat) : a = Ids!Padded(p.block, BlockWidth)
    BY <1>1, <1>2, PaddedIs
  <1>4. PICK b \in Seq(Nat) : b = Ids!Padded(p.tx, TxWidth)
    BY <1>1, <1>2, PaddedIs
  <1>5. PICK c \in Seq(Nat) : c = Ids!Padded(p.log, LogWidth)
    BY <1>1, <1>2, PaddedIs
  <1>6. Ids!CalcEventID(p) = (a \o b) \o c
    BY <1>3, <1>4, <1>5 DEF Ids!CalcEventID
  <1>7. (a \o b) \o c \in Seq(Nat) /\ Len((a \o b) \o c) = Len(a) + Len(b) + Len(c)
    BY Joined
  <1>8. /\ IF p.block < Ids!Power(BlockWidth) THEN Len(a) = BlockWidth ELSE Len(a) > BlockWidth
        /\ IF p.tx < Ids!Power(TxWidth) THEN Len(b) = TxWidth ELSE Len(b) > TxWidth
        /\ IF p.log < Ids!Power(LogWidth) THEN Len(c) = LogWidth ELSE Len(c) > LogWidth
    BY <1>1, <1>2, <1>3, <1>4, <1>5, PaddedIs
  <1>9. Len(a) \in Nat /\ Len(b) \in Nat /\ Len(c) \in Nat
    OBVIOUS
  <1>10. Ids!TooWide(p) <=> Len(a) + Len(b) + Len(c) # BlockWidth + TxWidth + LogWidth
    <2>1. PICK x \in Nat, y \in Nat, z \in Nat : x = Len(a) /\ y = Len(b) /\ z = Len(c)
      BY <1>9
    <2>2. PICK u \in Nat, v \in Nat, w \in Nat : u = BlockWidth /\ v = TxWidth /\ w = LogWidth
      BY <1>2
    <2>3. /\ p.block < Ids!Power(BlockWidth) <=> x = u
          /\ p.tx < Ids!Power(TxWidth) <=> y = v
          /\ p.log < Ids!Power(LogWidth) <=> z = w
          /\ u <= x /\ v <= y /\ w <= z
      BY <1>8, <2>1, <2>2
    <2>4. Ids!TooWide(p) <=> ~(x = u /\ y = v /\ z = w)
      BY <1>1, <1>2, <2>3 DEF Ids!TooWide
    <2>5. (x = u /\ y = v /\ z = w) <=> x + y + z = u + v + w
      BY <2>3
    <2> QED
      BY <2>1, <2>2, <2>4, <2>5
  <1> QED
    BY <1>6, <1>7, <1>10

\* The parts of the id of an event whose numbers fit.
LEMMA NarrowId ==
  ASSUME NEW p \in Ids!Positions, ~Ids!TooWide(p)
  PROVE  \E a, b, c \in Seq(Nat) :
           /\ a = Ids!LastDigits(p.block, BlockWidth) /\ Len(a) = BlockWidth
           /\ b = Ids!LastDigits(p.tx, TxWidth) /\ Len(b) = TxWidth
           /\ c = Ids!LastDigits(p.log, LogWidth) /\ Len(c) = LogWidth
           /\ Ids!CalcEventID(p) = (a \o b) \o c
           /\ p.block < Ids!Power(BlockWidth) /\ p.tx < Ids!Power(TxWidth)
           /\ p.log < Ids!Power(LogWidth)
  <1>1. p.block \in Nat /\ p.tx \in Nat /\ p.log \in Nat
    BY PositionFacts
  <1>2. /\ Ids!Power(BlockWidth) \in Nat /\ Ids!Power(TxWidth) \in Nat /\ Ids!Power(LogWidth) \in Nat
        /\ BlockWidth \in Nat \ {0} /\ TxWidth \in Nat \ {0} /\ LogWidth \in Nat \ {0}
    BY IdConstants, PowerUnfolded
  <1>3. p.block < Ids!Power(BlockWidth) /\ p.tx < Ids!Power(TxWidth) /\ p.log < Ids!Power(LogWidth)
    BY <1>1, <1>2 DEF Ids!TooWide
  <1>4. PICK a \in Seq(Nat) : a = Ids!LastDigits(p.block, BlockWidth) /\ Len(a) = BlockWidth
    BY <1>1, <1>2, DigitsType
  <1>5. PICK b \in Seq(Nat) : b = Ids!LastDigits(p.tx, TxWidth) /\ Len(b) = TxWidth
    BY <1>1, <1>2, DigitsType
  <1>6. PICK c \in Seq(Nat) : c = Ids!LastDigits(p.log, LogWidth) /\ Len(c) = LogWidth
    BY <1>1, <1>2, DigitsType
  <1>7. Ids!Padded(p.block, BlockWidth) = a /\ Ids!Padded(p.tx, TxWidth) = b
        /\ Ids!Padded(p.log, LogWidth) = c
    BY <1>1, <1>2, <1>3, <1>4, <1>5, <1>6, PaddedIs
  <1>8. Ids!CalcEventID(p) = (a \o b) \o c
    BY <1>7 DEF Ids!CalcEventID
  <1> QED
    BY <1>3, <1>4, <1>5, <1>6, <1>8

\* Of two events whose numbers fit, the id of the earlier one is lower.
LEMMA EarlierIsLower ==
  ASSUME NEW p \in Ids!Positions, NEW q \in Ids!Positions,
         ~Ids!TooWide(p), ~Ids!TooWide(q), Ids!Precedes(p, q)
  PROVE  Lower(Ids!CalcEventID(p), Ids!CalcEventID(q))
  <1>1. PICK a, b, c \in Seq(Nat) :
           /\ a = Ids!LastDigits(p.block, BlockWidth) /\ Len(a) = BlockWidth
           /\ b = Ids!LastDigits(p.tx, TxWidth) /\ Len(b) = TxWidth
           /\ c = Ids!LastDigits(p.log, LogWidth) /\ Len(c) = LogWidth
           /\ Ids!CalcEventID(p) = (a \o b) \o c
    BY NarrowId
  <1>2. PICK d, e, f \in Seq(Nat) :
           /\ d = Ids!LastDigits(q.block, BlockWidth) /\ Len(d) = BlockWidth
           /\ e = Ids!LastDigits(q.tx, TxWidth) /\ Len(e) = TxWidth
           /\ f = Ids!LastDigits(q.log, LogWidth) /\ Len(f) = LogWidth
           /\ Ids!CalcEventID(q) = (d \o e) \o f
           /\ q.block < Ids!Power(BlockWidth) /\ q.tx < Ids!Power(TxWidth)
           /\ q.log < Ids!Power(LogWidth)
    BY NarrowId
  <1>3. /\ p.block \in Nat /\ p.tx \in Nat /\ p.log \in Nat
        /\ q.block \in Nat /\ q.tx \in Nat /\ q.log \in Nat
        /\ BlockWidth \in Nat \ {0} /\ TxWidth \in Nat \ {0} /\ LogWidth \in Nat \ {0}
    BY PositionFacts, IdConstants
  <1>4. Len(a) = Len(d) /\ Len(b) = Len(e) /\ Len(c) = Len(f)
    BY <1>1, <1>2
  <1>5. ASSUME Lower(a \o b, d \o e) PROVE Lower(Ids!CalcEventID(p), Ids!CalcEventID(q))
    <2>1. Len(a \o b) = Len(a) + Len(b)
      BY Joined
    <2>2. Len(d \o e) = Len(d) + Len(e)
      BY Joined
    <2>3. PICK ab \in Seq(Nat), de \in Seq(Nat) : ab = a \o b /\ de = d \o e
      BY Joined
    <2>4. Len(ab) = Len(de)
      BY <1>4, <2>1, <2>2, <2>3
    <2>5. Lower(ab, de)
      BY <1>5, <2>3
    <2>6. Lower(ab \o c, de \o f)
      BY <2>4, <2>5, LowerFirst
    <2> QED
      BY <1>1, <1>2, <2>3, <2>6
  <1>6. CASE p.block < q.block
    <2>1. Lower(a, d)
      BY <1>1, <1>2, <1>3, <1>6, LowerDigits
    <2>2. Lower(a \o b, d \o e)
      BY <1>4, <2>1, LowerFirst
    <2> QED
      BY <1>5, <2>2
  <1>7. CASE p.block = q.block /\ p.tx < q.tx
    <2>1. Lower(b, e) /\ a = d
      BY <1>1, <1>2, <1>3, <1>7, LowerDigits
    <2>2. Lower(a \o b, d \o e)
      BY <1>4, <2>1, LowerSecond
    <2> QED
      BY <1>5, <2>2
  <1>8. CASE p.block = q.block /\ p.tx = q.tx /\ p.log < q.log
    <2>1. Lower(c, f) /\ a = d /\ b = e
      BY <1>1, <1>2, <1>3, <1>8, LowerDigits
    <2>2. PICK ab \in Seq(Nat) : ab = a \o b
      BY Joined
    <2>3. Lower(ab \o c, ab \o f)
      BY <1>4, <2>1, LowerSecond
    <2> QED
      BY <1>1, <1>2, <2>1, <2>2, <2>3
  <1> QED
    BY <1>6, <1>7, <1>8 DEF Ids!Precedes

\* Of two events one is earlier.
LEMMA OneIsEarlier ==
  ASSUME NEW p \in Ids!Positions, NEW q \in Ids!Positions
  PROVE  p = q \/ Ids!Precedes(p, q) \/ Ids!Precedes(q, p)
  <1>1. /\ p.block \in Nat /\ p.tx \in Nat /\ p.log \in Nat
        /\ q.block \in Nat /\ q.tx \in Nat /\ q.log \in Nat
        /\ p = [block |-> p.block, tx |-> p.tx, log |-> p.log]
        /\ q = [block |-> q.block, tx |-> q.tx, log |-> q.log]
    BY PositionFacts
  <1>2. CASE p.block = q.block /\ p.tx = q.tx /\ p.log = q.log
    BY <1>1, <1>2, Zenon
  <1>3. CASE ~(p.block = q.block /\ p.tx = q.tx /\ p.log = q.log)
    BY <1>1, <1>3 DEF Ids!Precedes
  <1> QED
    BY <1>2, <1>3

-----------------------------------------------------------------------------
\* The ids are of the events stored, all of them committed; those reported are
\* the too wide ones, and every other committed event is stored.
IdsInv ==
  /\ seen \subseteq Ids!Positions
  /\ \A id \in DOMAIN rows : rows[id] \in seen /\ id = Ids!CalcEventID(rows[id])
  /\ warned = {p \in seen : Ids!TooWide(p)}
  /\ Ids!NarrowEventsStored

\* An event whose numbers fit has its id for itself.
LEMMA NarrowIdIsOwn ==
  ASSUME NEW p \in Ids!Positions, NEW q \in Ids!Positions, ~Ids!TooWide(p),
         Ids!CalcEventID(p) = Ids!CalcEventID(q)
  PROVE  p = q
  <1>1. PICK id \in Seq(Nat) : id = Ids!CalcEventID(p)
    BY IdLength
  <1>2. ~Ids!TooWide(q)
    BY IdLength
  <1>3. ~Lower(id, id)
    BY LowerOnce
  <1>4. ~Ids!Precedes(p, q) /\ ~Ids!Precedes(q, p)
    BY <1>1, <1>2, <1>3, EarlierIsLower
  <1> QED
    BY <1>4, OneIsEarlier

\* The order of the ids of events whose numbers fit is that of the chain.
LEMMA NarrowOrder ==
  ASSUME NEW p \in Ids!Positions, NEW q \in Ids!Positions, ~Ids!TooWide(p), ~Ids!TooWide(q)
  PROVE  Ids!TextBefore(Ids!CalcEventID(p), Ids!CalcEventID(q)) <=> Ids!Precedes(p, q)
  <1>1. PICK a \in Seq(Nat), b \in Seq(Nat) :
             a = Ids!CalcEventID(p) /\ b = Ids!CalcEventID(q) /\ Len(a) = Len(b)
    BY IdLength
  <1>2. Ids!TextBefore(a, b) <=> Lower(a, b)
    BY <1>1, TextOrder
  <1>3. Ids!Precedes(p, q) => Lower(a, b)
    BY <1>1, EarlierIsLower
  <1>4. Ids!Precedes(q, p) => Lower(b, a)
    BY <1>1, EarlierIsLower
  <1>5. ~(Lower(a, b) /\ Lower(b, a))
    BY <1>1, LowerOnce
  <1>6. p = q => ~Lower(a, b)
    BY <1>1, <1>5
  <1> QED
    BY <1>1, <1>2, <1>3, <1>4, <1>5, <1>6, OneIsEarlier

\* Committing an event keeps IdsInv.
LEMMA InsertEventIds ==
  ASSUME IdsInv, NEW p \in Ids!Positions, Ids!InsertEvent(p)
  PROVE  IdsInv'
  <1> DEFINE id == Ids!CalcEventID(p)
  <1>1. /\ seen' = seen \cup {p} /\ warned' = IF Ids!TooWide(p) THEN warned \cup {p} ELSE warned
        /\ rows' = IF id \in DOMAIN rows THEN rows
                   ELSE [i \in DOMAIN rows \cup {id} |-> IF i \in DOMAIN rows THEN rows[i] ELSE p]
    BY DEF Ids!InsertEvent
  <1>2. seen' \subseteq Ids!Positions
    BY <1>1 DEF IdsInv
  <1>3. \A i \in DOMAIN rows : i \in DOMAIN rows' /\ rows'[i] = rows[i]
    BY <1>1
  <1>4. \A i \in DOMAIN rows' : i \in DOMAIN rows \/ (i = id /\ rows'[i] = p)
    BY <1>1
  <1>5. id \in DOMAIN rows \/ (id \in DOMAIN rows' /\ rows'[id] = p)
    BY <1>1
  <1> HIDE DEF id
  <1>6. \A i \in DOMAIN rows' : rows'[i] \in seen' /\ i = Ids!CalcEventID(rows'[i])
    BY <1>1, <1>3, <1>4 DEF IdsInv, id
  <1>7. warned' = {q \in seen' : Ids!TooWide(q)}
    BY <1>1 DEF IdsInv
  <1>8. Ids!NarrowEventsStored'
    <2> SUFFICES ASSUME NEW q \in seen', q \notin warned'
                 PROVE  \E i \in DOMAIN rows' : rows'[i] = q
      BY DEF Ids!NarrowEventsStored, Ids!Stored
    <2>1. ~Ids!TooWide(q) /\ (q \in seen \/ q = p)
      BY <1>1, <1>7
    <2>2. CASE q \in seen
      <3>1. PICK i \in DOMAIN rows : rows[i] = q
        BY <2>1, <2>2 DEF IdsInv, Ids!NarrowEventsStored, Ids!Stored
      <3> QED
        BY <1>3, <3>1
    <2>3. CASE q = p /\ id \in DOMAIN rows
      <3>1. rows[id] \in Ids!Positions /\ id = Ids!CalcEventID(rows[id])
        BY <2>3 DEF IdsInv
      <3>2. rows[id] = p
        BY <2>1, <2>3, <3>1, NarrowIdIsOwn DEF id
      <3> QED
        BY <1>3, <2>3, <3>2
    <2>4. CASE q = p /\ id \notin DOMAIN rows
      BY <1>5, <2>4
    <2> QED
      BY <2>1, <2>2, <2>3, <2>4
  <1> QED
    BY <1>2, <1>6, <1>7, <1>8 DEF IdsInv

\* Nothing is committed at first.
LEMMA InitIds == ASSUME Ids!Init PROVE IdsInv
  BY DEF Ids!Init, IdsInv, Ids!NarrowEventsStored, Ids!Stored

\* Every step of the records keeps IdsInv.
LEMMA NextIds == ASSUME IdsInv, [RecordsNext]_recordsVars PROVE IdsInv'
  <1>1. CASE Ids!Next
    BY <1>1, InsertEventIds DEF Ids!Next
  <1>2. CASE UNCHANGED idVars
    BY <1>2 DEF idVars, IdsInv, Ids!NarrowEventsStored, Ids!Stored
  <1>3. CASE UNCHANGED recordsVars
    BY <1>2, <1>3 DEF recordsVars, idVars
  <1> QED
    BY <1>1, <1>2, <1>3 DEF RecordsNext

\* Of the ids that IdsInv allows, those that fit are in the order of the chain.
LEMMA IdsAreTrue == ASSUME IdsInv PROVE NarrowIdsAreTrue
  <1>1. \A id \in DOMAIN rows : rows[id] \in Ids!Positions /\ id = Ids!CalcEventID(rows[id])
    BY DEF IdsInv
  <1>2. Ids!NarrowIdsFollowChain
    BY <1>1, NarrowOrder DEF Ids!NarrowIdsFollowChain
  <1> QED
    BY <1>2 DEF IdsInv, NarrowIdsAreTrue

\* However wide the ids are and whatever numbers occur: among events whose
\* numbers fit, the order of the ids is that of the chain, and none of them is
\* ignored because another one, wide or not, has its id (CalcEventID, INSERT OR
\* IGNORE).
THEOREM NarrowIdsAreAlwaysTrue == RecordsSpec => []NarrowIdsAreTrue
  <1>1. RecordsInit => IdsInv
    BY InitIds DEF RecordsInit
  <1>2. IdsInv /\ [RecordsNext]_recordsVars => IdsInv'
    BY NextIds
  <1>3. IdsInv => NarrowIdsAreTrue
    BY IdsAreTrue
  <1> QED
    BY <1>1, <1>2, <1>3, PTL DEF RecordsSpec

-----------------------------------------------------------------------------
(* Types *)

\* No transaction is open outside of a start.
MigrationTypes ==
  /\ SchemaInv /\ DOMAIN applied \subseteq Names /\ DOMAIN txApplied \subseteq Names
  /\ pc \in {"down", "migrating", "up"} /\ deploys \in 0 .. MaxDeploys
  /\ pc # "migrating" => txLog = log /\ txApplied = applied

\* Every step of a start keeps MigrationTypes.
LEMMA NextMigration == ASSUME MigrationTypes, [Next]_vars PROVE MigrationTypes'
  <1>1. SchemaInv'
    BY NextSchema DEF MigrationTypes
  <1>2. CASE Deploy
    BY <1>1, <1>2, MigrationAssumption DEF MigrationTypes, Deploy
  <1>3. CASE Start \/ Fail \/ Crash
    BY <1>1, <1>3 DEF MigrationTypes, Start, Fail, Crash, Down
  <1>4. CASE Visit
    <2>1. Head(todo) \in Names
      BY <1>4 DEF Visit, MigrationTypes, SchemaInv
    <2>2. DOMAIN txApplied' \subseteq Names
      BY <1>4, <2>1 DEF Visit, Execute, Put, MigrationTypes
    <2> QED
      BY <1>1, <1>4, <2>2 DEF Visit, MigrationTypes
  <1>5. CASE Commit
    BY <1>1, <1>5 DEF MigrationTypes, Commit
  <1>6. CASE UNCHANGED vars
    BY <1>1, <1>6 DEF MigrationTypes, vars
  <1> QED
    BY <1>2, <1>3, <1>4, <1>5, <1>6 DEF Next

\* MigrationTypes are types.
LEMMA MigrationTyped == ASSUME MigrationTypes PROVE TypeOK
  <1>1. log \in Seq(Names \X Versions)
    BY DEF MigrationTypes, SchemaInv, Agree
  <1>2. \A i \in 1 .. Len(log) : log[i] \in Names \X Versions
    BY <1>1
  <1> QED
    BY <1>2 DEF MigrationTypes, SchemaInv, TypeOK

-----------------------------------------------------------------------------
\* What a client was given is of the category it asks for.
GivenInCategory ==
  \A i \in 1 .. Len(listed) : \E r \in InCategory(launches, walk.category) : r.token = listed[i]

\* The watermark is not ahead of the chain.
QueryTypes == QueryInv /\ GivenInCategory /\ last <= head /\ head <= MaxHead

\* The scanner's and the health's steps.
LEMMA HealthTypes ==
  ASSUME Query!QueriesAssumption, QueryTypes,
         Query!NewBlock \/ Query!Commit \/ Query!HealthState \/ Query!HealthHead
  PROVE  QueryTypes'
  <1>1. QueryInv'
    BY NextQuery DEF QueryTypes, Query!Next
  <1>2. last \in Nat /\ head \in Nat /\ MaxHead \in Nat
    BY DEF QueryTypes, QueryInv, LaunchesInv, HealthInv, Query!QueriesAssumption
  <1>3. last' <= head' /\ head' <= MaxHead
    <2>1. \/ head' = head + 1 /\ head < MaxHead /\ last' = last
          \/ head' = head /\ last' = last + 1 /\ last < head
          \/ head' = head /\ last' = last
      BY Zenon DEF Query!NewBlock, Query!Commit, Query!HealthState, Query!HealthHead
    <2> QED
      BY <1>2, <2>1 DEF QueryTypes
  <1>4. listed' = listed /\ walk' = walk /\ launches \subseteq launches'
    BY DEF Query!NewBlock, Query!Commit, Query!HealthState, Query!HealthHead
  <1>5. InCategory(launches, walk.category) \subseteq InCategory(launches', walk'.category)
    BY <1>4 DEF InCategory
  <1>6. GivenInCategory'
    BY <1>4, <1>5 DEF QueryTypes, GivenInCategory
  <1> QED
    BY <1>1, <1>3, <1>6 DEF QueryTypes

\* The client's requests.
LEMMA WalkTypes ==
  ASSUME Query!QueriesAssumption, QueryTypes, Query!StartWalk \/ Query!Page
  PROVE  QueryTypes'
  <1>1. QueryInv'
    BY NextQuery DEF QueryTypes, Query!Next
  <1>2. last' = last /\ head' = head /\ launches' = launches
    BY DEF Query!StartWalk, Query!Page
  <1>3. CASE Query!StartWalk
    <2>1. 1 .. Len(listed') = {}
      BY <1>3, NothingGiven, Zenon DEF Query!StartWalk
    <2> QED
      BY <1>1, <1>2, <2>1 DEF QueryTypes, GivenInCategory
  <1>4. CASE Query!Page
    <2>1. PICK R : R = Found(launches, walk.category, walk.cursor)
      OBVIOUS
    <2>2. PICK page : page = Query!ListLaunches(walk.category, walk.cursor, PageLimit)
      OBVIOUS
    <2>3. Launched(R) /\ IsPage(page, R, PageSize(R)) /\ R \subseteq InCategory(launches, walk.category)
      BY <2>1, <2>2, ListedIsPage DEF QueryTypes, QueryInv, Found
    <2>4. PICK n \in Nat : n = PageSize(R)
      BY <2>3, FS_CardinalityType DEF Launched, PageSize, Query!QueriesAssumption
    <2>5. page \in [1 .. n -> R]
      BY <2>3, <2>4 DEF IsPage
    <2>6. /\ listed' = listed \o [i \in 1 .. Len(page) |-> page[i].token]
          /\ walk' = IF Query!HasNext(page)
                       THEN [walk EXCEPT !.cursor = [at |-> Query!Last(page).at, token |-> Query!Last(page).token]]
                       ELSE [walk EXCEPT !.more = FALSE]
      BY <1>4, <2>2, Zenon DEF Query!Page
    <2>7. walk'.category = walk.category
      BY <2>6 DEF QueryTypes, QueryInv, WalkInv
    <2>8. PICK m \in Nat : m = Len(listed)
      BY ListedTokens DEF QueryTypes
    <2>9. PICK tokens : tokens = [i \in 1 .. n |-> page[i].token]
      OBVIOUS
    <2>10. PICK given \in Seq(Tokens) : given = listed
      BY ListedTokens DEF QueryTypes
    <2>11. Len(page) = n
      BY <2>5
    <2>12. listed' = given \o tokens
      BY <2>6, <2>9, <2>10, <2>11
    <2>13. \A i \in 1 .. n : tokens[i] \in Tokens
      <3>1. R \subseteq Rows
        BY <2>3 DEF Launched
      <3> QED
        BY <2>5, <2>9, <3>1 DEF Rows
    <2>14. tokens \in Seq(Tokens) /\ Len(tokens) = n
      BY <2>9, <2>13
    <2>15. /\ Len(given \o tokens) = m + n
           /\ \A i \in 1 .. m : (given \o tokens)[i] = given[i]
           /\ \A i \in 1 .. n : (given \o tokens)[m + i] = tokens[i]
      BY <2>8, <2>10, <2>14
    <2>16. ASSUME NEW i \in 1 .. m + n
           PROVE  \E r \in InCategory(launches, walk.category) : r.token = (given \o tokens)[i]
      <3>1. CASE i \in 1 .. m
        BY <2>8, <2>10, <2>15, <3>1 DEF QueryTypes, GivenInCategory
      <3>2. CASE i \notin 1 .. m
        <4>1. PICK k \in 1 .. n : i = m + k
          <5>1. i - m \in 1 .. n /\ i = m + (i - m)
            BY <3>2
          <5> QED
            BY <5>1
        <4>2. (given \o tokens)[i] = page[k].token
          BY <2>9, <2>15, <4>1
        <4>3. page[k] \in InCategory(launches, walk.category)
          BY <2>3, <2>5
        <4> QED
          BY <4>2, <4>3
      <3> QED
        BY <3>1, <3>2
    <2>17. GivenInCategory'
      BY <1>2, <2>7, <2>12, <2>15, <2>16 DEF GivenInCategory
    <2> QED
      BY <1>1, <1>2, <2>17 DEF QueryTypes
  <1> QED
    BY <1>3, <1>4

\* Nothing was launched and nobody asked.
LEMMA InitQueryTypes == ASSUME Query!QueriesAssumption, Query!Init PROVE QueryTypes
  <1>1. QueryInv
    BY InitQuery
  <1>2. 1 .. Len(listed) = {}
    BY NothingGiven, Zenon DEF Query!Init
  <1>3. MaxHead \in Nat /\ head = 0 /\ last = 0
    BY DEF Query!Init, Query!QueriesAssumption
  <1> QED
    BY <1>1, <1>2, <1>3 DEF QueryTypes, GivenInCategory

\* QueryTypes are types.
LEMMA QueryTyped == ASSUME Query!QueriesAssumption, QueryTypes PROVE Query!TypeOK
  <1>1. /\ launches \subseteq Rows
        /\ \A r, s \in launches : r.token = s.token => r = s
    BY DEF QueryTypes, QueryInv, LaunchesInv, Launched
  <1>2. \A r \in launches : r.token \in Tokens /\ r.category \in Categories
    BY <1>1 DEF Rows
  <1>3. \A t \in Query!ToSet(listed) : \E i \in 1 .. Len(listed) : t = listed[i]
    BY ListedTokens DEF QueryTypes, Query!ToSet
  <1>4. \A t \in Query!ToSet(listed) \cup atStart :
          \E r \in InCategory(launches, walk.category) : r.token = t
    <2>1. \A t \in atStart : \E r \in InCategory(launches, walk.category) : r.token = t
      BY DEF QueryTypes, QueryInv, WalkInv
    <2> QED
      BY <1>3, <2>1 DEF QueryTypes, GivenInCategory
  <1>5. \A t \in Query!ToSet(listed) \cup atStart :
          \E r \in launches : r.token = t /\ walk.category \in {"", r.category}
    BY <1>4 DEF InCategory
  <1>6. \A r \in launches :
          r.token \in Query!ToSet(listed) \cup atStart => walk.category \in {"", r.category}
    BY <1>1, <1>5
  <1> QED
    BY <1>1, <1>2, <1>5, <1>6 DEF QueryTypes, Query!TypeOK

-----------------------------------------------------------------------------
\* The types of the ids.
LEMMA IdsTyped == ASSUME IdsInv PROVE Ids!TypeOK
  <1>1. \A p \in seen : Ids!TooWide(p) <=> Len(Ids!CalcEventID(p)) # BlockWidth + TxWidth + LogWidth
    BY IdLength DEF IdsInv
  <1>2. Ids!Stored \subseteq seen /\ \A id \in DOMAIN rows : id = Ids!CalcEventID(rows[id])
    BY DEF IdsInv, Ids!Stored
  <1>3. warned = {p \in seen : Len(Ids!CalcEventID(p)) # BlockWidth + TxWidth + LogWidth}
    BY <1>1 DEF IdsInv
  <1> QED
    BY <1>2, <1>3 DEF IdsInv, Ids!TypeOK

-----------------------------------------------------------------------------
\* What one account has gained others have paid.
Balanced(b) == SumFunctionOnSet(b, Accounts) = 0

\* The balances when v was moved.
Moved(A, b, from, to, v) ==
  [a \in A |-> b[a] + (IF a = to THEN v ELSE 0) - (IF a = from THEN v ELSE 0)]

\* A call only moves what there is.
LEMMA MovedBalance ==
  ASSUME NEW A, IsFiniteSet(A), NEW b \in [A -> Int], NEW v \in Int, NEW from \in A, NEW to \in A
  PROVE  SumFunctionOnSet(Moved(A, b, from, to, v), A) = SumFunctionOnSet(b, A)
  <1>0. PICK c : c = Moved(A, b, from, to, v)
    OBVIOUS
  <1>1. \A a \in A : c[a] = b[a] + (IF a = to THEN v ELSE 0) - (IF a = from THEN v ELSE 0)
    BY <1>0 DEF Moved
  <1>2. \A a \in A : c[a] \in Int
    BY <1>1
  <1>3. Integral(b, A) /\ Integral(c, A)
    BY <1>2 DEF Integral
  <1>4. CASE to = from
    <2>1. \A a \in A : c[a] = b[a]
      BY <1>1, <1>4
    <2>2. SumFunctionOnSet(c, A) = SumFunctionOnSet(b, A)
      BY <1>3, <2>1, SumOfSame
    <2> QED
      BY <1>0, <2>2
  <1>5. CASE to # from
    <2> DEFINE B == A \ {to}
               R == B \ {from}
    <2>1. from \in B /\ Integral(b, B) /\ Integral(c, B) /\ Integral(b, R) /\ Integral(c, R)
      BY <1>3, <1>5, FS_Subset DEF Integral
    <2>2. \A a \in R : c[a] = b[a]
      BY <1>1
    <2> HIDE DEF R, B
    <2>3. SumFunctionOnSet(c, R) = SumFunctionOnSet(b, R) /\ SumFunctionOnSet(b, R) \in Int
      <3>1. SumFunctionOnSet(c, R) = SumFunctionOnSet(b, R)
        BY <2>1, <2>2, SumOfSame
      <3>2. SumFunctionOnSet(b, R) \in Int
        BY <2>1, SumOfSome
      <3> QED
        BY <3>1, <3>2
    <2>4. /\ SumFunctionOnSet(b, B) = b[from] + SumFunctionOnSet(b, R)
          /\ SumFunctionOnSet(c, B) = c[from] + SumFunctionOnSet(c, R)
      BY <2>1, SumOfOne DEF R
    <2>5. /\ SumFunctionOnSet(b, A) = b[to] + SumFunctionOnSet(b, B)
          /\ SumFunctionOnSet(c, A) = c[to] + SumFunctionOnSet(c, B)
      BY <1>3, SumOfOne DEF B
    <2>6. c[to] = b[to] + v /\ c[from] = b[from] - v /\ b[to] \in Int /\ b[from] \in Int
      BY <1>1, <1>5
    <2>7. SumFunctionOnSet(c, A) = SumFunctionOnSet(b, A)
      BY <2>3, <2>4, <2>5, <2>6
    <2> QED
      BY <1>0, <2>7
  <1> QED
    BY <1>4, <1>5

\* The balances, those that were saved too, are balanced, and the bound is kept.
TraceTypes ==
  /\ TraceInv /\ Balanced(balance) /\ \A k \in 1 .. Len(saved) : Balanced(saved[k])
  /\ Len(frames) <= MaxFrames

\* Nothing was called.
LEMMA InitTraceTypes == ASSUME Tracer!TraceAssumption, Tracer!Init PROVE TraceTypes
  <1>1. TraceInv
    BY InitTrace
  <1>2. /\ balance = [a \in Accounts |-> 0] /\ 1 .. Len(saved) = {} /\ Len(frames) = 0
        /\ MaxFrames \in Nat
    BY DEF Tracer!Init, Tracer!TraceAssumption
  <1>3. IsFiniteSet(Accounts)
    BY Zenon DEF Tracer!TraceAssumption, Tracer!IsFiniteSet, IsFiniteSet
  <1>4. Balanced(balance)
    BY <1>2, <1>3, SumOfZeros DEF Balanced
  <1> QED
    BY <1>1, <1>2, <1>4 DEF TraceTypes

\* A frame is entered.
LEMMA EnterTypes ==
  ASSUME Tracer!TraceAssumption, TraceTypes, TraceInv', NEW f, f.value \in Nat, f.from \in Accounts,
         f.to \in Accounts, Tracer!Enter(f), Len(frames) < MaxFrames
  PROVE  TraceTypes'
  <1>1. IsFiniteSet(Accounts) /\ MaxFrames \in Nat
    BY Zenon DEF Tracer!TraceAssumption, Tracer!IsFiniteSet, IsFiniteSet
  <1>2. Tree(frames) /\ balance \in [Accounts -> Int] /\ saved \in Seq([Accounts -> Int])
    BY DEF TraceTypes, TraceInv, StackInv
  <1>3. Balanced(balance')
    <2>1. CASE Tracer!Moves(f)
      <3>1. PICK from \in Accounts, to \in Accounts, v \in Int : from = f.from /\ to = f.to /\ v = f.value
        OBVIOUS
      <3>2. balance' = Moved(Accounts, balance, from, to, v)
        BY <2>1, <3>1, Zenon DEF Tracer!Enter, Moved
      <3>3. SumFunctionOnSet(Moved(Accounts, balance, from, to, v), Accounts)
              = SumFunctionOnSet(balance, Accounts)
        BY <1>1, <1>2, MovedBalance
      <3> QED
        BY <3>2, <3>3 DEF TraceTypes, Balanced
    <2>2. CASE ~Tracer!Moves(f)
      BY <2>2 DEF Tracer!Enter, TraceTypes
    <2> QED
      BY <2>1, <2>2
  <1>4. \A k \in 1 .. Len(saved') : Balanced(saved'[k])
    <2>1. PICK m \in Nat : m = Len(saved)
      BY <1>2
    <2>2. saved' = Append(saved, balance)
      BY DEF Tracer!Enter
    <2>3. /\ Len(saved') = m + 1 /\ saved'[m + 1] = balance
          /\ \A k \in 1 .. m : saved'[k] = saved[k]
      BY <1>2, <2>1, <2>2
    <2>4. \A k \in 1 .. m + 1 : k \in 1 .. m \/ k = m + 1
      OBVIOUS
    <2> QED
      BY <2>1, <2>3, <2>4 DEF TraceTypes
  <1>5. Len(frames') <= MaxFrames
    <2>1. frames' = Append(frames, f) /\ Len(frames') = Len(frames) + 1 /\ Len(frames) \in Nat
      BY <1>2 DEF Tracer!Enter, Tree
    <2> QED
      BY <1>1, <2>1
  <1> QED
    BY <1>3, <1>4, <1>5 DEF TraceTypes

\* A frame is left.
LEMMA LeaveTypes ==
  ASSUME TraceTypes, TraceInv', NEW failed \in BOOLEAN, Tracer!Leave(failed)
  PROVE  TraceTypes'
  <1>1. Tree(frames) /\ saved \in Seq([Accounts -> Int]) /\ stack \in Seq(Nat) /\ Len(saved) = Len(stack)
    BY DEF TraceTypes, TraceInv, StackInv
  <1>2. PICK m \in Nat : m = Len(saved)
    BY <1>1
  <1>3. m \in 1 .. m
    BY <1>1, <1>2 DEF Tracer!Leave
  <1>4. Len(frames') = Len(frames)
    <2>1. \E f, i : frames' = [frames EXCEPT ![i] = f]
      BY DEF Tracer!Leave
    <2> QED
      BY <1>1, <2>1 DEF Tree
  <1>5. saved' = SubSeq(saved, 1, m - 1) /\ balance' = IF failed THEN saved[m] ELSE balance
    BY <1>2 DEF Tracer!Leave, Tracer!Front, Tracer!Last
  <1>6. Len(saved') = m - 1 /\ \A k \in 1 .. m - 1 : saved'[k] = saved[k]
    BY <1>1, <1>2, <1>3, <1>5
  <1>7. \A k \in 1 .. m - 1 : k \in 1 .. m
    BY <1>2
  <1> QED
    BY <1>2, <1>3, <1>4, <1>5, <1>6, <1>7 DEF TraceTypes

\* Every step of the transaction and of the trace keeps TraceTypes.
LEMMA NextTraceTypes ==
  ASSUME Tracer!TraceAssumption, TraceTypes, Tracer!Next
  PROVE  TraceTypes'
  <1>1. TraceInv'
    BY NextTrace DEF TraceTypes
  <1>2. CASE Tracer!Begin
    <2>1. PICK from \in Accounts, to \in Accounts, value \in Values :
            Tracer!Enter([parent |-> 0, kind |-> "CALL", from |-> from, to |-> to,
                          value |-> value, failed |-> FALSE])
      BY <1>2 DEF Tracer!Begin
    <2> DEFINE f == [parent |-> 0, kind |-> "CALL", from |-> from, to |-> to,
                     value |-> value, failed |-> FALSE]
    <2>2. f.value \in Nat /\ f.from \in Accounts /\ f.to \in Accounts
      BY DEF Tracer!TraceAssumption
    <2>3. Len(frames) < MaxFrames
      <3>1. Len(frames) = 0 /\ MaxFrames \in Nat \ {0}
        BY <1>2 DEF Tracer!Begin, Tracer!TraceAssumption
      <3> QED
        BY <3>1
    <2>4. Tracer!Enter(f)
      BY <2>1
    <2> HIDE DEF f
    <2> QED
      BY <1>1, <2>2, <2>3, <2>4, EnterTypes
  <1>3. CASE Tracer!Call
    <2> DEFINE p == Tracer!Last(stack)
    <2>1. PICK kind \in Tracer!Kinds, to \in Accounts, value \in Values \cup {0} :
            Tracer!Enter([parent |-> p, kind |-> kind, from |-> Tracer!Acts(frames[p]), to |-> to,
                          value |-> value, failed |-> FALSE])
      BY <1>3 DEF Tracer!Call
    <2>2. p \in 1 .. Len(frames)
      <3>1. stack # <<>> /\ p = stack[Len(stack)]
        BY <1>3 DEF Tracer!Call, Tracer!Last
      <3>2. Len(stack) \in 1 .. Len(stack)
        BY <3>1 DEF TraceTypes, TraceInv, StackInv
      <3> QED
        BY <3>1, <3>2 DEF TraceTypes, TraceInv, StackInv
    <2> HIDE DEF p
    <2>3. Tracer!Acts(frames[p]) \in Accounts
      <3>1. frames[p] \in Frames
        BY <2>2, TreeFacts DEF TraceTypes, TraceInv
      <3> QED
        BY <3>1 DEF Frames, Tracer!Acts
    <2> DEFINE f == [parent |-> p, kind |-> kind, from |-> Tracer!Acts(frames[p]), to |-> to,
                     value |-> value, failed |-> FALSE]
    <2>4. f.value \in Nat /\ f.from \in Accounts /\ f.to \in Accounts
      BY <2>3 DEF Tracer!TraceAssumption
    <2>5. Len(frames) < MaxFrames
      BY <1>3 DEF Tracer!Call
    <2>6. Tracer!Enter(f)
      BY <2>1
    <2> HIDE DEF f
    <2> QED
      BY <1>1, <2>4, <2>5, <2>6, EnterTypes
  <1>4. CASE \E failed \in BOOLEAN : Tracer!Leave(failed)
    BY <1>1, <1>4, LeaveTypes
  <1>5. CASE Tracer!Trace
    BY <1>1, <1>5 DEF Tracer!Trace, TraceTypes
  <1> QED
    BY <1>2, <1>3, <1>4, <1>5 DEF Tracer!Next

\* A net is a number.
LEMMA NetIsInt == ASSUME TraceInv PROVE Tracer!NativeNet \in Int
  <1> DEFINE n == Len(frames)
             d == [i \in DOMAIN frames |-> Tracer!Delta(frames[i])]
             C == {i \in 1 .. n : Tracer!Counts(i)}
  <1>1. n \in Nat /\ DOMAIN frames = 1 .. n /\ \A i \in 1 .. n : frames[i] \in Frames
    BY TreeFacts DEF TraceInv
  <1>2. \A i \in 1 .. n : d[i] \in Int
    <2>1. \A f \in Frames : Tracer!Delta(f) \in Int
      BY DEF Frames, Tracer!Delta
    <2> HIDE DEF Frames
    <2> QED
      BY <1>1, <2>1
  <1>3. IsFiniteSet(C)
    <2>1. IsFiniteSet(1 .. n) /\ C \in SUBSET (1 .. n)
      BY <1>1, FS_Interval
    <2> QED
      BY <2>1, FS_Subset
  <1>4. Integral(d, C)
    BY <1>2, <1>3 DEF Integral
  <1>5. Tracer!NativeNet = SumFunctionOnSet(d, C)
    BY TracerCopies, Zenon DEF Tracer!NativeNet
  <1> HIDE DEF d, C
  <1> QED
    BY <1>4, <1>5, SumOfSome

\* TraceTypes are types.
LEMMA TraceTyped == ASSUME Tracer!TraceAssumption, TraceTypes PROVE Tracer!TypeOK
  <1>1. Len(saved) = Len(stack) /\ \A i \in 1 .. Len(frames) : frames[i].parent < i
    BY DEF TraceTypes, TraceInv, StackInv, Tree
  <1>2. Tracer!SumFunctionOnSet(balance, Accounts) = 0
    BY TracerCopies DEF TraceTypes, Balanced
  <1>3. ASSUME answer # <<>>, NEW side \in {"buy", "sell"}, answer[side] # Tracer!None
        PROVE  answer[side] > 0 /\ Len(frames) <= MaxTraceNodes
    <2>1. answer[side] = Tracer!TraceNativeAmount(side)
      BY <1>3 DEF TraceTypes, TraceInv
    <2>2. ~Tracer!TooLarge /\ Tracer!FitsSide(side)
          /\ answer[side] = IF Tracer!NativeNet < 0 THEN -Tracer!NativeNet ELSE Tracer!NativeNet
      BY <1>3, <2>1, Zenon DEF Tracer!TraceNativeAmount
    <2>3. Tracer!NativeNet \in Int
      BY NetIsInt DEF TraceTypes
    <2>4. answer[side] > 0
      BY <2>2, <2>3 DEF Tracer!FitsSide
    <2>5. Len(frames) \in Nat /\ MaxTraceNodes \in Nat
      BY TreeFacts DEF TraceTypes, TraceInv, Tracer!TraceAssumption
    <2>6. ~(Len(frames) > MaxTraceNodes)
      BY <2>2, Zenon DEF Tracer!TooLarge
    <2> QED
      BY <2>4, <2>5, <2>6
  <1> QED
    BY <1>1, <1>2, <1>3 DEF TraceTypes, Tracer!TypeOK, Tracer!Answered

-----------------------------------------------------------------------------
\* The types of the fills.
LEMMA FillsTyped == ASSUME Fill!AttributionAssumption, FillInv PROVE Fill!TypeOK
  <1>1. steps \in 0 .. MaxSteps /\ Len(trades) = Len(swaps)
    BY DEF FillInv, FillTypes
  <1>2. ASSUME NEW f \in fills, NEW got \in f.got
        PROVE  /\ got.meme > 0 /\ got.quote >= 0 /\ got.user \in Users \cup {NoUser}
               /\ got.user = NoUser => ~native /\ got.quote > 0
    <2>1. PICK u \in Fill!Attributions(Fill!Nets("meme")), q \in Fill!Attributions(Fill!Nets("quote")) :
               f.got = IF u = Fill!Nobody THEN Fill!UnattributedFills(swaps[f.log], q)
                       ELSE {Fill!AttributedFill(swaps[f.log], u)}
      BY FillIs
    <2>2. CASE u = Fill!Nobody
      <3>1. got \in Fill!UnattributedFills(swaps[f.log], q)
        BY <2>1, <2>2
      <3>2. /\ ~native /\ swaps[f.log].tokenDelta # 0 /\ q.user # NoUser
            /\ got.user = NoUser /\ got.meme = Fill!Size(swaps[f.log].tokenDelta) /\ got.quote = q.size
        BY <3>1 DEF Fill!UnattributedFills
      <3>3. swaps[f.log].tokenDelta \in Int
        <4>1. f.log \in 1 .. Len(swaps) /\ swaps \in Seq(SwapLogs)
          BY FillIs DEF FillInv, FillTypes
        <4>2. swaps[f.log] \in SwapLogs
          BY <4>1
        <4> QED
          BY <4>2 DEF SwapLogs
      <3>4. q.size \in Nat \ {0}
        <4>1. PICK net \in [Fill!Addresses -> Int] : net = Fill!Nets("quote")
          BY NetsKnown
        <4>2. q = Fill!Nobody \/ q.size \in Nat \ {0}
          BY <4>1, AttributedInAnyOrder
        <4> QED
          BY <3>2, <4>2 DEF Fill!Nobody
      <3> QED
        BY <3>2, <3>3, <3>4 DEF Fill!Size
    <2>3. CASE u # Fill!Nobody
      <3>1. u.user \in Users /\ u.size \in Nat \ {0}
        BY <2>3, AttributedTo
      <3>2. /\ got.user = u.user /\ got.meme = u.size
            /\ got.quote = IF native THEN Fill!NativeQuote(u.user) ELSE Fill!Size(Fill!Net("quote", u.user))
        BY <2>1, <2>3 DEF Fill!AttributedFill
      <3>3. Fill!NativeQuote(u.user) >= 0
        <4>1. CASE Len(swaps) = 1
          <5>1. Fill!EthNet(u.user) \in Int
            BY NetsKnown DEF Fill!EthNet
          <5> QED
            BY <5>1 DEF Fill!NativeQuote, Fill!Size
        <4>2. CASE Len(swaps) # 1
          BY <4>2 DEF Fill!NativeQuote
        <4> QED
          BY <4>1, <4>2
      <3>4. Fill!Size(Fill!Net("quote", u.user)) >= 0
        <4>1. Fill!Net("quote", u.user) \in Int
          BY NetsKnown
        <4> QED
          BY <4>1 DEF Fill!Size
      <3>5. u.user # NoUser
        BY <3>1 DEF Fill!AttributionAssumption
      <3> QED
        BY <3>1, <3>2, <3>3, <3>4, <3>5
    <2> QED
      BY <2>2, <2>3
  <1>3. \A got \in Fill!AllFills : \E f \in fills : got \in f.got
    BY DEF Fill!AllFills
  <1> QED
    BY <1>1, <1>2, <1>3 DEF Fill!TypeOK

-----------------------------------------------------------------------------
\* What a turn of the loop matches it takes from what remains.
LEMMA MatchAccounts ==
  ASSUME Profit!FifoAssumption, NEW e \in Profit!Trades, NEW s \in SellStates, NEW lot \in Lots
  PROVE  Profit!Match(e, s, lot).matched + Profit!Match(e, s, lot).remaining = s.matched + s.remaining
  <1>1. s.remaining \in Int /\ s.matched \in Int /\ lot.qty \in Int
    BY DEF SellStates, Lots
  <1>2. PICK take : take = Profit!Lesser(s.remaining, lot.qty)
    OBVIOUS
  <1>3. take \in Int
    BY <1>1, <1>2 DEF Profit!Lesser
  <1>4. \/ \E more : Profit!Match(e, s, lot) = [s EXCEPT !.lots = more]
        \/ Profit!Match(e, s, lot) = [s EXCEPT !.failed = TRUE]
        \/ \E rest, gain : Profit!Match(e, s, lot) =
             [s EXCEPT !.lots = rest, !.remaining = s.remaining - take, !.matched = s.matched + take, !.pnl = gain]
    BY <1>2, Zenon DEF Profit!Match
  <1>5. CASE \E rest, gain : Profit!Match(e, s, lot) =
               [s EXCEPT !.lots = rest, !.remaining = s.remaining - take, !.matched = s.matched + take, !.pnl = gain]
    <2>1. PICK r \in Int, m \in Int : r = s.remaining - take /\ m = s.matched + take
      BY <1>1, <1>3
    <2>2. PICK rest, gain : Profit!Match(e, s, lot) =
            [s EXCEPT !.lots = rest, !.remaining = r, !.matched = m, !.pnl = gain]
      BY <1>5, <2>1, Zenon
    <2>3. Profit!Match(e, s, lot).matched = m /\ Profit!Match(e, s, lot).remaining = r
      BY <2>2 DEF SellStates
    <2> QED
      BY <1>1, <1>3, <2>1, <2>3
  <1>6. CASE \/ \E more : Profit!Match(e, s, lot) = [s EXCEPT !.lots = more]
             \/ Profit!Match(e, s, lot) = [s EXCEPT !.failed = TRUE]
    BY <1>6 DEF SellStates
  <1> QED
    BY <1>4, <1>5, <1>6, Zenon

\* What a sell matches and what it does not are the whole sell.
LEMMA SellAccounts ==
  ASSUME Profit!FifoAssumption, NEW e \in Profit!Trades, NEW L \in Seq(Lots)
  PROVE  Profit!Sell(e, L).matched + Profit!Sell(e, L).remaining = Profit!Quantity(e)
  <1>1. PICK n \in Nat : n = Len(L)
    OBVIOUS
  <1>2. PICK h : SellRun(e, L, h)
    BY SellRuns
  <1>3. /\ h \in [0 .. n -> SellStates] /\ h[0] = SellStart(e)
        /\ \A j \in 1 .. n : h[j] = Profit!Match(e, h[j - 1], L[j])
        /\ Profit!Sell(e, L) = h[n]
    BY <1>1, <1>2 DEF SellRun
  <1>4. PICK Q \in Int : Q = Profit!Quantity(e)
    BY TradeFacts
  <1> DEFINE H == {j \in Nat : j <= n => h[j].matched + h[j].remaining = Q}
  <1>5. 0 \in H
    BY <1>3, <1>4 DEF SellStart
  <1>6. ASSUME NEW j \in Nat, j \in H PROVE j + 1 \in H
    <2> SUFFICES ASSUME j + 1 <= n PROVE h[j + 1].matched + h[j + 1].remaining = Q
      OBVIOUS
    <2>1. j + 1 \in 1 .. n /\ (j + 1) - 1 = j /\ j \in 0 .. n
      OBVIOUS
    <2>2. PICK s \in SellStates, lot \in Lots : s = h[j] /\ lot = L[j + 1]
      BY <1>1, <1>3, <2>1
    <2>3. h[j + 1] = Profit!Match(e, s, lot)
      BY <1>3, <2>1, <2>2
    <2>4. s.matched + s.remaining = Q
      BY <1>6, <2>1, <2>2
    <2> QED
      BY <2>3, <2>4, MatchAccounts
  <1>7. n \in H
    <2>1. Nat \subseteq H
      <3> HIDE DEF H
      <3> QED
        BY <1>5, <1>6, EveryNat
    <2> QED
      BY <2>1
  <1> QED
    BY <1>3, <1>4, <1>7

\* A result is of a sell, and all of it.
Accounted(es, r) ==
  \E i \in 1 .. Len(es) : /\ es[i].direction = "sell" /\ r.id = es[i].id
                          /\ r.matched + r.overflow = Profit!Quantity(es[i])

AllAccounted(es, s) == \A j \in 1 .. Len(s.results) : Accounted(es, s.results[j])

\* One more trade of the replay.
LEMMA StepAccounts ==
  ASSUME Profit!FifoAssumption, NEW es \in Seq(Profit!Trades), NEW k \in 1 .. Len(es),
         NEW s \in ReplayStates, AllAccounted(es, s)
  PROVE  AllAccounted(es, Profit!Step(s, es[k]))
  <1>1. PICK e \in Profit!Trades : e = es[k]
    OBVIOUS
  <1>2. PICK sold : sold = Profit!Sell(e, s.lots)
    OBVIOUS
  <1>3. PICK result : result = [id |-> e.id, matched |-> sold.matched, pnl |-> sold.pnl,
                                overflow |-> sold.remaining]
    OBVIOUS
  <1>4. \/ Profit!Step(s, e) = s
        \/ \E more : Profit!Step(s, e) = [s EXCEPT !.lots = more]
        \/ /\ e.direction # "buy"
           /\ Profit!Step(s, e) = [lots |-> sold.lots, failed |-> sold.failed,
                                   results |-> Append(s.results, result)]
    BY <1>2, <1>3, Zenon DEF Profit!Step
  <1>5. s.results \in Seq(SellResults) /\ s.lots \in Seq(Lots)
    BY DEF ReplayStates
  <1>6. CASE Profit!Step(s, e) = s \/ \E more : Profit!Step(s, e) = [s EXCEPT !.lots = more]
    <2>1. Profit!Step(s, e).results = s.results
      BY <1>6 DEF ReplayStates
    <2> QED
      BY <1>1, <2>1 DEF AllAccounted
  <1>7. CASE /\ e.direction # "buy"
             /\ Profit!Step(s, e) = [lots |-> sold.lots, failed |-> sold.failed,
                                     results |-> Append(s.results, result)]
    <2>1. Accounted(es, result)
      <3>1. e.direction = "sell"
        BY <1>7, TradeFacts
      <3>2. sold.matched + sold.remaining = Profit!Quantity(e)
        BY <1>2, <1>5, SellAccounts
      <3>3. result.id = e.id /\ result.matched = sold.matched /\ result.overflow = sold.remaining
        BY <1>3
      <3> QED
        BY <1>1, <3>1, <3>2, <3>3 DEF Accounted
    <2>2. PICK m \in Nat : m = Len(s.results)
      BY <1>5
    <2>3. PICK rs : rs = Append(s.results, result)
      OBVIOUS
    <2>4. Len(rs) = m + 1 /\ rs[m + 1] = result /\ \A j \in 1 .. m : rs[j] = s.results[j]
      BY <1>5, <2>2, <2>3
    <2>5. \A j \in 1 .. m + 1 : j \in 1 .. m \/ j = m + 1
      OBVIOUS
    <2>6. Profit!Step(s, e).results = rs
      BY <1>7, <2>3
    <2>7. \A j \in 1 .. Len(rs) : Accounted(es, rs[j])
      BY <2>1, <2>2, <2>4, <2>5 DEF AllAccounted
    <2> QED
      BY <1>1, <2>6, <2>7 DEF AllAccounted
  <1> QED
    BY <1>4, <1>6, <1>7, Zenon

\* Each result of a replay accounts for its sell, whatever the decimals.
LEMMA ReplayAccounts ==
  ASSUME Profit!FifoAssumption, NEW es \in Seq(Profit!Trades), NEW r \in Profit!Results(es)
  PROVE  Accounted(es, r)
  <1>1. PICK n \in Nat : n = Len(es)
    OBVIOUS
  <1>2. PICK h : ReplayRun(es, h)
    BY ReplayRuns
  <1>3. /\ h \in [0 .. n -> ReplayStates] /\ h[0] = ReplayStart
        /\ \A k \in 1 .. n : h[k] = Profit!Step(h[k - 1], es[k])
        /\ Profit!ReplayFIFO(es) = h[n]
    BY <1>1, <1>2 DEF ReplayRun
  <1> DEFINE H == {k \in Nat : k <= n => AllAccounted(es, h[k])}
  <1>4. 0 \in H
    <2>1. ReplayStart.results = <<>> /\ Len(<<>>) = 0
      BY DEF ReplayStart
    <2> QED
      BY <1>3, <2>1 DEF AllAccounted
  <1>5. ASSUME NEW k \in Nat, k \in H PROVE k + 1 \in H
    <2> SUFFICES ASSUME k + 1 <= n PROVE AllAccounted(es, h[k + 1])
      OBVIOUS
    <2>1. k + 1 \in 1 .. Len(es) /\ (k + 1) - 1 = k /\ k \in 0 .. n
      BY <1>1
    <2>2. PICK j \in 1 .. Len(es) : j = k + 1
      BY <2>1
    <2>3. PICK s \in ReplayStates : s = h[k]
      BY <1>3, <2>1
    <2>4. AllAccounted(es, s) /\ h[j] = Profit!Step(s, es[j])
      BY <1>1, <1>3, <1>5, <2>1, <2>2, <2>3
    <2> QED
      BY <2>2, <2>4, StepAccounts
  <1>6. AllAccounted(es, h[n])
    <2>1. Nat \subseteq H
      <3> HIDE DEF H
      <3> QED
        BY <1>4, <1>5, EveryNat
    <2> QED
      BY <2>1
  <1>7. h[n] \in ReplayStates
    BY <1>3
  <1>8. h[n].results \in Seq(SellResults)
    BY <1>7 DEF ReplayStates
  <1>9. r \in Profit!ToSet(h[n].results)
    BY <1>3, Zenon DEF Profit!Results, Profit!InOrder
  <1>10. PICK j \in 1 .. Len(h[n].results) : r = h[n].results[j]
    BY <1>8, <1>9 DEF Profit!ToSet
  <1> QED
    BY <1>6, <1>10 DEF AllAccounted

\* The types of the profit.
LEMMA ProfitTyped == ASSUME Profit!FifoAssumption, FifoInv PROVE Profit!TypeOK
  <1>1. PICK n \in Nat : n = Len(events)
    BY DEF FifoInv, FifoTypes
  <1>2. /\ events \in Seq(Profit!Trades) /\ inserted \in Nat /\ Numbered(events, inserted)
        /\ unlogged \in Seq(Nat) /\ \A i \in 1 .. Len(unlogged) : unlogged[i] \in 1 .. inserted
        /\ steady \subseteq 1 .. inserted
    BY DEF FifoInv, FifoTypes
  <1>3. \A i \in 1 .. Len(events) : events[i].id = inserted - Len(events) + i
    BY <1>2 DEF Numbered
  <1>4. ASSUME NEW i \in 1 .. Len(events), NEW r \in Profit!ResultOf(events[i].id)
        PROVE  events[i].direction = "sell" /\ r.matched + r.overflow = Profit!Quantity(events[i])
    <2>1. r \in Profit!Results(events) /\ r.id = events[i].id
      BY DEF Profit!ResultOf
    <2>2. PICK j \in 1 .. Len(events) : /\ events[j].direction = "sell" /\ r.id = events[j].id
                                        /\ r.matched + r.overflow = Profit!Quantity(events[j])
      BY <1>2, <2>1, ReplayAccounts DEF Accounted
    <2>3. i = j
      BY <1>2, <2>1, <2>2, OneId
    <2> QED
      BY <2>2, <2>3
  <1>5. Profit!ToSet(unlogged) \cup steady \subseteq 1 .. inserted
    <2>1. DOMAIN unlogged = 1 .. Len(unlogged)
      BY <1>2
    <2>2. ASSUME NEW x \in Profit!ToSet(unlogged) PROVE x \in 1 .. inserted
      <3>1. PICK i \in DOMAIN unlogged : x = unlogged[i]
        BY <2>2, Zenon DEF Profit!ToSet
      <3> QED
        BY <1>2, <2>1, <3>1
    <2> QED
      BY <1>2, <2>2
  <1> QED
    BY <1>3, <1>4, <1>5 DEF Profit!TypeOK

-----------------------------------------------------------------------------
\* Types, with all that the types of one rest on.
RecordsTypes == MigrationTypes /\ FifoInv /\ IdsInv /\ QueryTypes /\ TraceTypes /\ FillInv

\* Before anything is recorded.
LEMMA InitTypes == ASSUME RecordsInit PROVE RecordsTypes
  <1>1. MigrationTypes
    <2>1. Init
      BY DEF RecordsInit
    <2> QED
      BY <2>1, InitSchema, MigrationAssumption DEF Init, Empty, MigrationTypes
  <1>2. FifoInv /\ IdsInv /\ QueryTypes /\ TraceTypes /\ FillInv
    BY RecordsAssumption, InitFifo, InitIds, InitQueryTypes, InitTraceTypes, InitFill DEF RecordsInit
  <1> QED
    BY <1>1, <1>2 DEF RecordsTypes

\* As long as a part stands still.
LEMMA RestTypes == ASSUME RecordsTypes
                   PROVE  /\ UNCHANGED queryVars => QueryTypes'
                          /\ UNCHANGED traceVars => TraceTypes'
  <1>1. UNCHANGED queryVars => QueryTypes'
    <2> SUFFICES ASSUME UNCHANGED queryVars PROVE QueryTypes'
      OBVIOUS
    <2>1. QueryInv'
      BY RestQuery DEF RecordsTypes, QueryTypes
    <2>2. head' = head /\ last' = last /\ launches' = launches /\ walk' = walk /\ listed' = listed
      BY DEF queryVars
    <2> QED
      BY <2>1, <2>2 DEF RecordsTypes, QueryTypes, GivenInCategory
  <1>2. UNCHANGED traceVars => TraceTypes'
    <2> SUFFICES ASSUME UNCHANGED traceVars PROVE TraceTypes'
      OBVIOUS
    <2>1. TraceInv'
      BY RestTrace DEF RecordsTypes, TraceTypes
    <2>2. balance' = balance /\ saved' = saved /\ frames' = frames
      BY DEF traceVars
    <2> QED
      BY <2>1, <2>2 DEF RecordsTypes, TraceTypes
  <1> QED
    BY <1>1, <1>2

\* Every step of the records keeps the types.
LEMMA NextTypes == ASSUME RecordsTypes, [RecordsNext]_recordsVars PROVE RecordsTypes'
  <1>1. [Next]_vars
    BY DEF RecordsNext, recordsVars
  <1>2. Profit!Next \/ UNCHANGED fifoVars
    BY DEF RecordsNext, recordsVars
  <1>3. Query!Next \/ UNCHANGED queryVars
    BY DEF RecordsNext, recordsVars
  <1>4. Tracer!Next \/ UNCHANGED traceVars
    BY DEF RecordsNext, recordsVars
  <1>5. Fill!Next \/ UNCHANGED fillVars
    BY DEF RecordsNext, recordsVars
  <1>6. MigrationTypes'
    BY <1>1, NextMigration DEF RecordsTypes
  <1>7. FifoInv'
    BY <1>2, RecordsAssumption, NextFifo DEF RecordsTypes
  <1>8. IdsInv'
    BY NextIds DEF RecordsTypes
  <1>9. QueryTypes'
    BY <1>3, RecordsAssumption, HealthTypes, WalkTypes, RestTypes DEF RecordsTypes, Query!Next
  <1>10. TraceTypes'
    BY <1>4, RecordsAssumption, NextTraceTypes, RestTypes DEF RecordsTypes
  <1>11. FillInv'
    BY <1>5, RecordsAssumption, NextFill, ReceiptFill DEF RecordsTypes
  <1> QED
    BY <1>6, <1>7, <1>8, <1>9, <1>10, <1>11 DEF RecordsTypes

\* For any constants: what is stored, reported and told has its type; a result
\* of a replay accounts for the whole sell, whatever decimals its trades have
\* (ReplayFIFO); an event is reported as too wide exactly when its id is too long
\* (CalcEventID); what a transaction's calls move is neither made nor lost, and a
\* trace beyond the limits has no amount (TraceNativeAmount); a page gives no launch
\* of another category (ListLaunches); and no transaction of a start stays open
\* (Migrate).
THEOREM RecordsTypesAlwaysOK == RecordsSpec => []RecordsTypeOK
  <1>1. RecordsTypes => RecordsTypeOK
    BY RecordsAssumption, MigrationTyped, ProfitTyped, IdsTyped, QueryTyped, TraceTyped, FillsTyped
       DEF RecordsTypes, RecordsTypeOK
  <1> QED
    BY <1>1, InitTypes, NextTypes, PTL DEF RecordsSpec

=============================================================================
