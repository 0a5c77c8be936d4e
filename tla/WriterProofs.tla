---------------------------- MODULE WriterProofs ----------------------------
(***************************************************************************)
(* The safety properties of the serial writer, for any set of callers and  *)
(* any capacity of its channel.                                            *)
(***************************************************************************)
EXTENDS Writer, TLAPS

\* Close's progress and the read lock of the senders.
LockInv ==
  /\ closed <=> closer \in {"waiting", "closed"}
  /\ closed => \A r \in Requests : pc[r] # "sending"
  /\ stopped => closed /\ requests = <<>> /\ current = None
  /\ closer = "closed" => stopped

\* A request is on the channel once, and in one place: before the channel, on
\* it, in the transaction, or answered.
Distinct == \A i, j \in 1 .. Len(requests) : requests[i] = requests[j] => i = j

Place(r) ==
  /\ Queued(r) \/ current = r =>
       pc[r] \in {"waiting", "returned"} /\ done[r] = "none" /\ r \notin applied
  /\ ~(Queued(r) /\ current = r)
  /\ pc[r] \in {"call", "sending"} => done[r] = "none" /\ r \notin applied
  /\ pc[r] = "waiting" => Queued(r) \/ current = r \/ done[r] # "none"

\* What the answers, buffered and returned, say of the database.
Answer(r) ==
  /\ done[r] # "closed"
  /\ done[r] = "ok" => r \in applied
  /\ done[r] \in {"error", "ctx"} => r \notin applied
  /\ done[r] = "ctx" => r \in ctxDone
  /\ pc[r] # "returned" <=> result[r] = "none"
  /\ result[r] \in {"ok", "error"} => done[r] = result[r]
  /\ result[r] = "ctx" => r \in ctxDone
  /\ result[r] = "closed" =>
       done[r] = "none" /\ r \notin applied /\ ~Queued(r) /\ current # r

PlaceInv == \A r \in Requests : Place(r) /\ Answer(r)

WInv == TypeOK /\ LockInv /\ Distinct /\ PlaceInv

-----------------------------------------------------------------------------
\* What the channel holds after a send.
LEMMA AppendFacts ==
  ASSUME TypeOK, NEW q \in Requests, requests' = Append(requests, q)
  PROVE  /\ requests' \in Seq(Requests) /\ Len(requests') = Len(requests) + 1
         /\ \A r \in Requests : Queued(r)' <=> Queued(r) \/ r = q
         /\ ~Queued(q) /\ Distinct => Distinct'
  <1>1. requests \in Seq(Requests) /\ Len(requests) \in Nat
    BY DEF TypeOK
  <1>2. requests' \in Seq(Requests) /\ Len(requests') = Len(requests) + 1
    BY <1>1
  <1>3. /\ \A i \in 1 .. Len(requests) : requests'[i] = requests[i]
        /\ requests'[Len(requests) + 1] = q
    BY <1>1
  <1>4. \A r \in Requests : Queued(r)' <=> Queued(r) \/ r = q
    <2> SUFFICES ASSUME NEW r \in Requests PROVE Queued(r)' <=> Queued(r) \/ r = q
      OBVIOUS
    <2>1. ASSUME Queued(r)' PROVE Queued(r) \/ r = q
      BY <2>1, <1>1, <1>2, <1>3 DEF Queued
    <2>2. ASSUME Queued(r) PROVE Queued(r)'
      BY <2>2, <1>1, <1>2, <1>3 DEF Queued
    <2>3. ASSUME r = q PROVE Queued(r)'
      BY <2>3, <1>1, <1>2, <1>3 DEF Queued
    <2> QED
      BY <2>1, <2>2, <2>3
  <1>5. ASSUME ~Queued(q), Distinct PROVE Distinct'
    <2> SUFFICES ASSUME NEW i \in 1 .. Len(requests) + 1, NEW j \in 1 .. Len(requests) + 1,
                        requests'[i] = requests'[j]
                 PROVE  i = j
      BY <1>2 DEF Distinct
    <2>1. CASE i \in 1 .. Len(requests) /\ j \in 1 .. Len(requests)
      BY <2>1, <1>3, <1>5 DEF Distinct
    <2>2. CASE i = Len(requests) + 1 \/ j = Len(requests) + 1
      BY <2>2, <1>1, <1>3, <1>5 DEF Queued
    <2> QED
      BY <1>1, <2>1, <2>2
  <1> QED
    BY <1>2, <1>4, <1>5

\* What the channel holds after a receive.
LEMMA TailFacts ==
  ASSUME TypeOK, Distinct, requests # <<>>, requests' = Tail(requests),
         NEW h, h = Head(requests)
  PROVE  /\ requests' \in Seq(Requests) /\ Len(requests') = Len(requests) - 1
         /\ h \in Requests /\ Queued(h) /\ ~Queued(h)'
         /\ \A r \in Requests : Queued(r) <=> Queued(r)' \/ r = h
         /\ Distinct'
  <1>1. requests \in Seq(Requests) /\ Len(requests) \in Nat \ {0}
    BY DEF TypeOK
  <1>2. requests' \in Seq(Requests) /\ Len(requests') = Len(requests) - 1
    BY <1>1
  <1>3. h = requests[1] /\ \A i \in 1 .. Len(requests) - 1 : requests'[i] = requests[i + 1]
    BY <1>1
  <1>4. h \in Requests /\ Queued(h)
    BY <1>1, <1>3 DEF Queued
  <1>5. ~Queued(h)'
    <2> SUFFICES ASSUME Queued(h)' PROVE FALSE
      OBVIOUS
    <2>1. PICK i \in 1 .. Len(requests) - 1 : requests'[i] = h
      BY <1>2 DEF Queued
    <2>2. requests[i + 1] = requests[1] /\ i + 1 \in 1 .. Len(requests) /\ 1 \in 1 .. Len(requests)
      BY <1>1, <1>3, <2>1
    <2> QED
      BY <1>1, <2>1, <2>2 DEF Distinct
  <1>6. \A r \in Requests : Queued(r) <=> Queued(r)' \/ r = h
    <2> SUFFICES ASSUME NEW r \in Requests PROVE Queued(r) <=> Queued(r)' \/ r = h
      OBVIOUS
    <2>1. ASSUME Queued(r), r # h PROVE Queued(r)'
      <3>1. PICK i \in 1 .. Len(requests) : requests[i] = r
        BY <2>1 DEF Queued
      <3>2. i - 1 \in 1 .. Len(requests) - 1 /\ requests'[i - 1] = r
        BY <1>1, <1>3, <2>1, <3>1
      <3> QED
        BY <1>2, <3>2 DEF Queued
    <2>2. ASSUME Queued(r)' PROVE Queued(r)
      <3>1. PICK i \in 1 .. Len(requests) - 1 : requests'[i] = r
        BY <2>2, <1>2 DEF Queued
      <3>2. i + 1 \in 1 .. Len(requests) /\ requests[i + 1] = r
        BY <1>1, <1>3, <3>1
      <3> QED
        BY <3>2 DEF Queued
    <2> QED
      BY <1>4, <2>1, <2>2
  <1>7. Distinct'
    <2> SUFFICES ASSUME NEW i \in 1 .. Len(requests) - 1, NEW j \in 1 .. Len(requests) - 1,
                        requests'[i] = requests'[j]
                 PROVE  i = j
      BY <1>2 DEF Distinct
    <2>1. requests[i + 1] = requests[j + 1] /\ i + 1 \in 1 .. Len(requests) /\ j + 1 \in 1 .. Len(requests)
      BY <1>1, <1>3
    <2> QED
      BY <2>1 DEF Distinct
  <1> QED
    BY <1>2, <1>4, <1>5, <1>6, <1>7

\* A step that leaves the channel alone leaves what is on it alone.
LEMMA SameChannel ==
  ASSUME UNCHANGED requests
  PROVE  (\A r \in Requests : Queued(r)' <=> Queued(r)) /\ (Distinct => Distinct')
  BY DEF Queued, Distinct

-----------------------------------------------------------------------------
\* At the start nobody has called.
LEMMA InitInv == Init => WInv
  <1> SUFFICES ASSUME Init PROVE WInv
    OBVIOUS
  <1>1. TypeOK
    <2>1. requests \in Seq(Requests) /\ Len(requests) <= Capacity
      BY WriterAssumption DEF Init
    <2>2. /\ pc \in [Requests -> {"call", "sending", "waiting", "returned"}]
          /\ result \in [Requests -> Answers] /\ done \in [Requests -> Answers]
      BY DEF Init, Answers
    <2> QED
      BY <2>1, <2>2 DEF Init, TypeOK
  <1>2. LockInv /\ Distinct
    BY DEF Init, LockInv, Distinct
  <1>3. PlaceInv
    <2> SUFFICES ASSUME NEW r \in Requests PROVE Place(r) /\ Answer(r)
      BY DEF PlaceInv
    <2>1. Len(requests) = 0 /\ ~Queued(r)
      BY DEF Init, Queued
    <2>2. pc[r] = "call" /\ result[r] = "none" /\ done[r] = "none"
      BY DEF Init
    <2>3. current # r /\ r \notin applied
      BY WriterAssumption DEF Init
    <2> QED
      BY <2>1, <2>2, <2>3 DEF Place, Answer
  <1> QED
    BY <1>1, <1>2, <1>3 DEF WInv

\* Write tests closed under the read lock.
LEMMA EnterInv ==
  ASSUME WInv, NEW r \in Requests, Enter(r)
  PROVE  WInv'
  <1> USE DEF callerVars, runVars, closeVars
  <1>1. TypeOK /\ LockInv /\ Distinct /\ PlaceInv
    BY DEF WInv
  <1>2. TypeOK'
    BY <1>1 DEF Enter, TypeOK, Answers
  <1>3. LockInv'
    BY <1>1 DEF Enter, TypeOK, LockInv
  <1>4. Distinct' /\ \A x \in Requests : Queued(x)' <=> Queued(x)
    BY <1>1, SameChannel DEF Enter
  <1>5. PlaceInv'
    <2> SUFFICES ASSUME NEW x \in Requests PROVE Place(x)' /\ Answer(x)'
      BY DEF PlaceInv
    <2>1. Place(x) /\ Answer(x) /\ (Queued(x)' <=> Queued(x))
      BY <1>1, <1>4 DEF PlaceInv
    <2>2. CASE x = r
      BY <1>1, <2>1, <2>2 DEF Enter, TypeOK, Place, Answer
    <2>3. CASE x # r
      BY <1>1, <2>1, <2>3 DEF Enter, TypeOK, Place, Answer
    <2> QED
      BY <2>2, <2>3
  <1> QED
    BY <1>2, <1>3, <1>4, <1>5 DEF WInv

\* The channel takes a request nobody has seen yet.
LEMMA SendInv ==
  ASSUME WInv, NEW r \in Requests, Send(r)
  PROVE  WInv'
  <1> USE DEF callerVars, runVars, closeVars
  <1>1. TypeOK /\ LockInv /\ Distinct /\ PlaceInv
    BY DEF WInv
  <1>2. ~Queued(r) /\ pc[r] = "sending" /\ Place(r)
    BY <1>1 DEF Send, Place, PlaceInv
  <1>3. /\ requests' \in Seq(Requests) /\ Len(requests') = Len(requests) + 1
        /\ Distinct' /\ \A x \in Requests : Queued(x)' <=> Queued(x) \/ x = r
    BY <1>1, <1>2, AppendFacts DEF Send
  <1>4. TypeOK'
    <2>1. Len(requests') <= Capacity
      BY <1>1, <1>3, WriterAssumption DEF Send, Room, TypeOK
    <2>2. pc' \in [Requests -> {"call", "sending", "waiting", "returned"}]
      BY <1>1 DEF Send, TypeOK
    <2> QED
      BY <1>1, <1>3, <2>1, <2>2 DEF Send, TypeOK
  <1>5. LockInv'
    <2>1. ~closed /\ ~stopped
      BY <1>1, <1>2 DEF LockInv, TypeOK
    <2> QED
      BY <1>1, <2>1 DEF Send, TypeOK, LockInv
  <1>6. PlaceInv'
    <2> SUFFICES ASSUME NEW x \in Requests PROVE Place(x)' /\ Answer(x)'
      BY DEF PlaceInv
    <2>1. Place(x) /\ Answer(x) /\ (Queued(x)' <=> Queued(x) \/ x = r)
      BY <1>1, <1>3 DEF PlaceInv
    <2>2. CASE x = r
      BY <1>1, <1>2, <2>1, <2>2 DEF Send, TypeOK, Place, Answer
    <2>3. CASE x # r
      BY <1>1, <2>1, <2>3 DEF Send, TypeOK, Place, Answer
    <2> QED
      BY <2>2, <2>3
  <1> QED
    BY <1>3, <1>4, <1>5, <1>6 DEF WInv

\* A caller whose context is over may leave its request behind.
LEMMA GiveUpInv ==
  ASSUME WInv, NEW r \in Requests, GiveUp(r)
  PROVE  WInv'
  <1> USE DEF callerVars, runVars, closeVars
  <1>1. TypeOK /\ LockInv /\ Distinct /\ PlaceInv
    BY DEF WInv
  <1>2. TypeOK'
    BY <1>1 DEF GiveUp, TypeOK, Answers
  <1>3. LockInv'
    BY <1>1 DEF GiveUp, TypeOK, LockInv
  <1>4. Distinct' /\ \A x \in Requests : Queued(x)' <=> Queued(x)
    BY <1>1, SameChannel DEF GiveUp
  <1>5. PlaceInv'
    <2> SUFFICES ASSUME NEW x \in Requests PROVE Place(x)' /\ Answer(x)'
      BY DEF PlaceInv
    <2>1. Place(x) /\ Answer(x) /\ (Queued(x)' <=> Queued(x))
      BY <1>1, <1>4 DEF PlaceInv
    <2>2. CASE x = r
      BY <1>1, <2>1, <2>2 DEF GiveUp, TypeOK, Place, Answer, Answers
    <2>3. CASE x # r
      BY <1>1, <2>1, <2>3 DEF GiveUp, TypeOK, Place, Answer
    <2> QED
      BY <2>2, <2>3
  <1> QED
    BY <1>2, <1>3, <1>4, <1>5 DEF WInv

\* A caller returns the answer its request was given.
LEMMA ReceiveInv ==
  ASSUME WInv, NEW r \in Requests, Receive(r)
  PROVE  WInv'
  <1> USE DEF callerVars, runVars, closeVars
  <1>1. TypeOK /\ LockInv /\ Distinct /\ PlaceInv
    BY DEF WInv
  <1>2. TypeOK'
    BY <1>1 DEF Receive, TypeOK, Answers
  <1>3. LockInv'
    BY <1>1 DEF Receive, TypeOK, LockInv
  <1>4. Distinct' /\ \A x \in Requests : Queued(x)' <=> Queued(x)
    BY <1>1, SameChannel DEF Receive
  <1>5. PlaceInv'
    <2> SUFFICES ASSUME NEW x \in Requests PROVE Place(x)' /\ Answer(x)'
      BY DEF PlaceInv
    <2>1. Place(x) /\ Answer(x) /\ (Queued(x)' <=> Queued(x))
      BY <1>1, <1>4 DEF PlaceInv
    <2>2. CASE x = r
      BY <1>1, <2>1, <2>2 DEF Receive, TypeOK, Place, Answer, Answers
    <2>3. CASE x # r
      BY <1>1, <2>1, <2>3 DEF Receive, TypeOK, Place, Answer
    <2> QED
      BY <2>2, <2>3
  <1> QED
    BY <1>2, <1>3, <1>4, <1>5 DEF WInv

\* A cancelled context changes nothing else.
LEMMA CancelInv ==
  ASSUME WInv, NEW r \in Requests, Cancel(r)
  PROVE  WInv'
  <1> USE DEF callerVars, runVars, closeVars
  <1>1. TypeOK /\ LockInv /\ Distinct /\ PlaceInv
    BY DEF WInv
  <1>2. TypeOK'
    BY <1>1 DEF Cancel, TypeOK, Answers
  <1>3. LockInv'
    BY <1>1 DEF Cancel, TypeOK, LockInv
  <1>4. Distinct' /\ \A x \in Requests : Queued(x)' <=> Queued(x)
    BY <1>1, SameChannel DEF Cancel
  <1>5. PlaceInv'
    <2> SUFFICES ASSUME NEW x \in Requests PROVE Place(x)' /\ Answer(x)'
      BY DEF PlaceInv
    <2>1. Place(x) /\ Answer(x) /\ (Queued(x)' <=> Queued(x))
      BY <1>1, <1>4 DEF PlaceInv
    <2>2. CASE x = r
      BY <1>1, <2>1, <2>2 DEF Cancel, TypeOK, Place, Answer, Answers
    <2>3. CASE x # r
      BY <1>1, <2>1, <2>3 DEF Cancel, TypeOK, Place, Answer
    <2> QED
      BY <2>2, <2>3
  <1> QED
    BY <1>2, <1>3, <1>4, <1>5 DEF WInv

\* run takes the head, and answers it at once when its context is over.
LEMMA TakeInv ==
  ASSUME WInv, Take
  PROVE  WInv'
  <1> USE DEF callerVars, closeVars
  <1>1. TypeOK /\ LockInv /\ Distinct /\ PlaceInv
    BY DEF WInv
  <1> DEFINE h == Head(requests)
  <1>2. /\ requests' \in Seq(Requests) /\ Len(requests') = Len(requests) - 1
        /\ h \in Requests /\ Queued(h) /\ Distinct'
        /\ \A x \in Requests : Queued(x) <=> Queued(x)' \/ x = h
    BY <1>1, TailFacts DEF Take
  <1>3. \A x \in Requests : x = h => ~Queued(x)'
    BY <1>1, TailFacts DEF Take
  <1>4. /\ current = None
        /\ \/ h \in ctxDone /\ done' = [done EXCEPT ![h] = "ctx"] /\ current' = current
           \/ h \notin ctxDone /\ current' = h /\ done' = done
        /\ pc' = pc /\ ctxDone' = ctxDone /\ result' = result /\ closer' = closer
        /\ closed' = closed /\ ~stopped /\ stopped' = stopped /\ applied' = applied
    BY DEF Take
  <1> HIDE DEF h
  <1>5. TypeOK'
    <2>1. Len(requests') <= Capacity
      BY <1>1, <1>2, WriterAssumption DEF TypeOK
    <2> QED
      BY <1>1, <1>2, <1>4, <2>1 DEF TypeOK, Answers
  <1>6. LockInv'
    BY <1>1, <1>4 DEF LockInv
  <1>7. PlaceInv'
    <2> SUFFICES ASSUME NEW x \in Requests PROVE Place(x)' /\ Answer(x)'
      BY DEF PlaceInv
    <2>1. Place(x) /\ Answer(x) /\ (Queued(x) <=> Queued(x)' \/ x = h)
      BY <1>1, <1>2 DEF PlaceInv
    <2>2. CASE x = h
      <3>1. Queued(x) /\ ~Queued(x)' /\ done[x] = "none" /\ x \notin applied
        BY <1>2, <1>3, <2>1, <2>2 DEF Place
      <3> QED
        BY <1>1, <1>4, <2>1, <2>2, <3>1, WriterAssumption DEF TypeOK, Place, Answer
    <2>3. CASE x # h
      BY <1>1, <1>4, <2>1, <2>3, WriterAssumption DEF TypeOK, Place, Answer
    <2> QED
      BY <2>2, <2>3
  <1> QED
    BY <1>2, <1>5, <1>6, <1>7 DEF WInv

\* A failed transaction leaves nothing behind.
LEMMA TxFailsInv ==
  ASSUME WInv, TxFails
  PROVE  WInv'
  <1> USE DEF callerVars, closeVars
  <1>1. TypeOK /\ LockInv /\ Distinct /\ PlaceInv
    BY DEF WInv
  <1>2. PICK a \in {"error", "ctx"} :
          (a = "ctx" => current \in ctxDone) /\ done' = [done EXCEPT ![current] = a]
    BY DEF TxFails
  <1>3. /\ current \in Requests /\ current' = None /\ applied' = applied /\ requests' = requests
        /\ pc' = pc /\ ctxDone' = ctxDone /\ result' = result /\ closer' = closer
        /\ closed' = closed /\ stopped' = stopped
    BY <1>1 DEF TxFails, RolledBack, TypeOK
  <1>4. TypeOK'
    BY <1>1, <1>2, <1>3 DEF TypeOK, Answers
  <1>5. LockInv'
    BY <1>1, <1>3 DEF LockInv
  <1>6. Distinct' /\ \A x \in Requests : Queued(x)' <=> Queued(x)
    BY <1>1, <1>3, SameChannel
  <1>7. PlaceInv'
    <2> SUFFICES ASSUME NEW x \in Requests PROVE Place(x)' /\ Answer(x)'
      BY DEF PlaceInv
    <2>1. Place(x) /\ Answer(x) /\ (Queued(x)' <=> Queued(x))
      BY <1>1, <1>6 DEF PlaceInv
    <2>2. CASE x = current
      BY <1>1, <1>2, <1>3, <2>1, <2>2, WriterAssumption DEF TypeOK, Place, Answer
    <2>3. CASE x # current
      BY <1>1, <1>2, <1>3, <2>1, <2>3, WriterAssumption DEF TypeOK, Place, Answer
    <2> QED
      BY <2>2, <2>3
  <1> QED
    BY <1>4, <1>5, <1>6, <1>7 DEF WInv

\* A commit and its answer are one step of run.
LEMMA TxCommitsInv ==
  ASSUME WInv, TxCommits
  PROVE  WInv'
  <1> USE DEF callerVars, closeVars
  <1>1. TypeOK /\ LockInv /\ Distinct /\ PlaceInv
    BY DEF WInv
  <1>2. /\ current \in Requests /\ current' = None /\ applied' = applied \cup {current}
        /\ done' = [done EXCEPT ![current] = "ok"] /\ requests' = requests
        /\ pc' = pc /\ ctxDone' = ctxDone /\ result' = result /\ closer' = closer
        /\ closed' = closed /\ stopped' = stopped
    BY <1>1 DEF TxCommits, TypeOK
  <1>3. TypeOK'
    BY <1>1, <1>2 DEF TypeOK, Answers
  <1>4. LockInv'
    BY <1>1, <1>2 DEF LockInv
  <1>5. Distinct' /\ \A x \in Requests : Queued(x)' <=> Queued(x)
    BY <1>1, <1>2, SameChannel
  <1>6. PlaceInv'
    <2> SUFFICES ASSUME NEW x \in Requests PROVE Place(x)' /\ Answer(x)'
      BY DEF PlaceInv
    <2>1. Place(x) /\ Answer(x) /\ (Queued(x)' <=> Queued(x))
      BY <1>1, <1>5 DEF PlaceInv
    <2>2. CASE x = current
      BY <1>1, <1>2, <2>1, <2>2, WriterAssumption DEF TypeOK, Place, Answer
    <2>3. CASE x # current
      BY <1>1, <1>2, <2>1, <2>3, WriterAssumption DEF TypeOK, Place, Answer
    <2> QED
      BY <2>2, <2>3
  <1> QED
    BY <1>3, <1>4, <1>5, <1>6 DEF WInv

\* The steps of run's end and of Close touch no request.
LEMMA ClosingInv ==
  ASSUME WInv, RunEnds \/ CloseCalled \/ Closing
  PROVE  WInv'
  <1> USE DEF callerVars, runVars, closeVars
  <1>1. TypeOK /\ LockInv /\ Distinct /\ PlaceInv
    BY DEF WInv
  <1>2. /\ pc' = pc /\ ctxDone' = ctxDone /\ result' = result /\ requests' = requests
        /\ current' = current /\ done' = done /\ applied' = applied
    BY DEF RunEnds, CloseCalled, Closing, CloseLocks, CloseReturns
  <1>3. closer' \in {"open", "locking", "waiting", "closed"} /\ closed' \in BOOLEAN /\ stopped' \in BOOLEAN
    BY <1>1 DEF TypeOK, RunEnds, CloseCalled, Closing, CloseLocks, CloseReturns
  <1>4. TypeOK'
    BY <1>1, <1>2, <1>3 DEF TypeOK
  <1>5. LockInv'
    <2>1. CASE RunEnds
      BY <1>1, <2>1, WriterAssumption DEF RunEnds, RangeEnded, LockInv, TypeOK
    <2>2. CASE CloseCalled
      BY <1>1, <2>2 DEF CloseCalled, LockInv, TypeOK
    <2>3. CASE CloseLocks
      BY <1>1, <2>3 DEF CloseLocks, ReadLocked, LockInv, TypeOK
    <2>4. CASE CloseReturns
      BY <1>1, <2>4 DEF CloseReturns, WaitDone, LockInv, TypeOK
    <2> QED
      BY <2>1, <2>2, <2>3, <2>4 DEF Closing
  <1>6. Distinct' /\ PlaceInv'
    BY <1>1, <1>2 DEF Distinct, PlaceInv, Place, Answer, Queued
  <1> QED
    BY <1>4, <1>5, <1>6 DEF WInv

\* Every step preserves the invariant.
LEMMA NextInv == WInv /\ [Next]_vars => WInv'
  <1> SUFFICES ASSUME WInv, [Next]_vars PROVE WInv'
    OBVIOUS
  <1>1. CASE Run
    BY <1>1, TakeInv, TxFailsInv, TxCommitsInv, ClosingInv DEF Run
  <1>2. CASE CloseCalled \/ Closing
    BY <1>2, ClosingInv
  <1>3. ASSUME NEW r \in Requests, Caller(r) \/ Cancel(r) PROVE WInv'
    BY <1>3, EnterInv, SendInv, GiveUpInv, ReceiveInv, CancelInv DEF Caller
  <1>4. CASE UNCHANGED vars
    BY <1>4 DEF vars, callerVars, runVars, closeVars, WInv, TypeOK, LockInv, Distinct, PlaceInv,
                Place, Answer, Queued
  <1> QED
    BY <1>1, <1>2, <1>3, <1>4 DEF Next

\* What the runs check of the writer follows from the invariant.
LEMMA InvGivesSafety ==
  WInv => TypeOK /\ NoSendAfterClose /\ AnsweredTruthfully /\ ClosedIsQuiet
  <1> SUFFICES ASSUME WInv PROVE TypeOK /\ NoSendAfterClose /\ AnsweredTruthfully /\ ClosedIsQuiet
    OBVIOUS
  <1>1. TypeOK /\ LockInv /\ PlaceInv
    BY DEF WInv
  <1>2. NoSendAfterClose
    BY <1>1 DEF LockInv, NoSendAfterClose
  <1>3. AnsweredTruthfully
    <2> SUFFICES ASSUME NEW r \in Requests
                 PROVE  /\ result[r] = "ok" => r \in applied
                        /\ result[r] \in {"error", "closed"} =>
                             r \notin applied /\ current # r /\ ~Queued(r)
                        /\ result[r] = "ctx" => r \in ctxDone
      BY DEF AnsweredTruthfully
    <2>1. Place(r) /\ Answer(r)
      BY <1>1 DEF PlaceInv
    <2> QED
      BY <2>1 DEF Place, Answer
  <1>4. ClosedIsQuiet
    <2> SUFFICES ASSUME closer = "closed"
                 PROVE  /\ requests = <<>> /\ current = None
                        /\ \A r \in Requests : pc[r] = "waiting" => done[r] # "none"
      BY DEF ClosedIsQuiet
    <2>1. requests = <<>> /\ current = None
      BY <1>1 DEF LockInv
    <2>2. \A r \in Requests : ~Queued(r) /\ current # r
      BY <2>1, WriterAssumption DEF Queued
    <2> QED
      BY <1>1, <2>1, <2>2 DEF PlaceInv, Place
  <1> QED
    BY <1>1, <1>2, <1>3, <1>4

\* The invariant holds throughout, and with it what follows from it.
LEMMA WriterSafe == Spec => [](TypeOK /\ NoSendAfterClose /\ AnsweredTruthfully /\ ClosedIsQuiet)
  BY InitInv, NextInv, InvGivesSafety, PTL DEF Spec

\* The channel never holds more than its capacity, for any set of callers.
THEOREM ChannelIsBounded == Spec => []TypeOK
  BY WriterSafe, PTL

\* Nobody sends on the closed channel (Write against Close).
THEOREM SendsAreSafe == Spec => []NoSendAfterClose
  BY WriterSafe, PTL

\* Every answer Write returns is the database's fate (Write, run).
THEOREM AnswersAreFinal == Spec => []AnsweredTruthfully
  BY WriterSafe, PTL

\* When Close returns nothing that was accepted is undecided (Close, run).
THEOREM CloseDrains == Spec => []ClosedIsQuiet
  BY WriterSafe, PTL
=============================================================================
