------------------------------- MODULE Writer -------------------------------
(***************************************************************************)
(* internal/store/writer.go: the process's only SQLite writer. Any         *)
(* goroutine calls Write, which queues its function on a bounded channel   *)
(* and waits for the answer or for its own context; one goroutine takes    *)
(* the requests in order and runs each in a transaction of its own; Close  *)
(* refuses new requests and waits until the queue is drained.              *)
(***************************************************************************)
EXTENDS Naturals, Sequences

CONSTANTS
  Requests,  \* the calls of Write, each made once
  Capacity,  \* length of the channel (256 in the code)
  None       \* no request

ASSUME WriterAssumption == Capacity \in Nat \ {0} /\ None \notin Requests

VARIABLES
  pc,        \* where each caller is in Write
  ctxDone,   \* requests whose context is cancelled
  result,    \* what each Write returned
  requests,  \* the channel
  current,   \* the request run is working on
  done,      \* the answers, buffered in each request's own channel
  closer,    \* where the caller of Close is
  closed, stopped,
  applied    \* requests whose transaction was committed

callerVars == <<pc, ctxDone, result>>
runVars    == <<current, done, stopped, applied>>
closeVars  == <<closer, closed>>
vars       == <<callerVars, requests, runVars, closeVars>>

Answers == {"none", "ok", "error", "ctx", "closed"}

-----------------------------------------------------------------------------
(* Write *)

\* RLock, which a waiting Lock holds up, and the test of closed under it.
Enter(r) ==
  /\ pc[r] = "call" /\ closer # "locking"
  /\ IF closed
     THEN pc' = [pc EXCEPT ![r] = "returned"] /\ result' = [result EXCEPT ![r] = "closed"]
     ELSE pc' = [pc EXCEPT ![r] = "sending"] /\ result' = result
  /\ UNCHANGED <<ctxDone, requests, runVars, closeVars>>

RoomUnchecked == TRUE

Room == Len(requests) < Capacity

\* The channel takes the request; RUnlock.
Send(r) ==
  /\ pc[r] = "sending" /\ Room
  /\ requests' = Append(requests, r)
  /\ pc' = [pc EXCEPT ![r] = "waiting"]
  /\ UNCHANGED <<ctxDone, result, runVars, closeVars>>

\* Either select may prefer the cancelled context.
GiveUp(r) ==
  /\ pc[r] \in {"sending", "waiting"} /\ r \in ctxDone
  /\ pc' = [pc EXCEPT ![r] = "returned"]
  /\ result' = [result EXCEPT ![r] = "ctx"]
  /\ UNCHANGED <<ctxDone, requests, runVars, closeVars>>

Receive(r) ==
  /\ pc[r] = "waiting" /\ done[r] # "none"
  /\ pc' = [pc EXCEPT ![r] = "returned"]
  /\ result' = [result EXCEPT ![r] = done[r]]
  /\ UNCHANGED <<ctxDone, requests, runVars, closeVars>>

\* The owner of the context cancels it.
Cancel(r) ==
  /\ pc[r] # "returned" /\ r \notin ctxDone
  /\ ctxDone' = ctxDone \cup {r}
  /\ UNCHANGED <<pc, result, requests, runVars, closeVars>>

-----------------------------------------------------------------------------
(* run *)

\* A request whose context is over is answered without a transaction.
Take ==
  /\ current = None /\ ~stopped /\ requests # <<>>
  /\ requests' = Tail(requests)
  /\ IF Head(requests) \in ctxDone
     THEN done' = [done EXCEPT ![Head(requests)] = "ctx"] /\ UNCHANGED current
     ELSE current' = Head(requests) /\ UNCHANGED done
  /\ UNCHANGED <<callerVars, stopped, applied, closeVars>>

FailsHalfWritten(r) == applied \cup {r}

\* Rollback undoes whatever fn had written.
RolledBack(r) == applied

\* BeginTx, fn or Commit failed, or fn found its context cancelled.
TxFails ==
  /\ current # None
  /\ \E a \in {"error"} \cup (IF current \in ctxDone THEN {"ctx"} ELSE {}) :
       done' = [done EXCEPT ![current] = a]
  /\ applied' = RolledBack(current)
  /\ current' = None
  /\ UNCHANGED <<callerVars, requests, stopped, closeVars>>

\* The commit may win the race against a context cancelled meanwhile.
TxCommits ==
  /\ current # None
  /\ applied' = applied \cup {current}
  /\ done' = [done EXCEPT ![current] = "ok"]
  /\ current' = None
  /\ UNCHANGED <<callerVars, requests, stopped, closeVars>>

LeavesOnClosed  == closed

\* The range loop ends when the channel is closed and empty.
RangeEnded == closed /\ requests = <<>>

RunEnds ==
  /\ current = None /\ ~stopped /\ RangeEnded
  /\ stopped' = TRUE
  /\ UNCHANGED <<callerVars, requests, current, done, applied, closeVars>>

-----------------------------------------------------------------------------
(* Close *)

ReadLockForTheTestOnly == FALSE

\* Write holds its read lock until the request is on the channel.
ReadLocked == \E r \in Requests : pc[r] = "sending"

CloseCalled ==
  /\ closer = "open"
  /\ closer' = "locking"
  /\ UNCHANGED <<callerVars, requests, runVars, closed>>

CloseLocks ==
  /\ closer = "locking" /\ ~ReadLocked
  /\ closed' = TRUE
  /\ closer' = "waiting"
  /\ UNCHANGED <<callerVars, requests, runVars>>

WaitSkipped == TRUE
WaitDone    == stopped

\* Store.Close goes on to close the database handles.
CloseReturns ==
  /\ closer = "waiting" /\ WaitDone
  /\ closer' = "closed"
  /\ UNCHANGED <<callerVars, requests, runVars, closed>>

-----------------------------------------------------------------------------
Init ==
  /\ pc = [r \in Requests |-> "call"] /\ ctxDone = {}
  /\ result = [r \in Requests |-> "none"]
  /\ requests = <<>> /\ current = None
  /\ done = [r \in Requests |-> "none"]
  /\ closer = "open" /\ closed = FALSE /\ stopped = FALSE
  /\ applied = {}

Caller(r) == Enter(r) \/ Send(r) \/ GiveUp(r) \/ Receive(r)
Run       == Take \/ TxFails \/ TxCommits \/ RunEnds
Closing   == CloseLocks \/ CloseReturns

Next == Run \/ CloseCalled \/ Closing \/ \E r \in Requests : Caller(r) \/ Cancel(r)

Spec == Init /\ [][Next]_vars

\* Every goroutine that can run does; nobody has to cancel or to close.
Fairness ==
  /\ WF_vars(Run) /\ WF_vars(Closing)
  /\ \A r \in Requests : WF_vars(Enter(r)) /\ SF_vars(Send(r))
                         /\ WF_vars(GiveUp(r)) /\ WF_vars(Receive(r))

FairSpec == Spec /\ Fairness

-----------------------------------------------------------------------------
\* Types, and the channel within its capacity.
TypeOK ==
  /\ pc \in [Requests -> {"call", "sending", "waiting", "returned"}]
  /\ ctxDone \subseteq Requests /\ applied \subseteq Requests
  /\ result \in [Requests -> Answers] /\ done \in [Requests -> Answers]
  /\ requests \in Seq(Requests) /\ Len(requests) <= Capacity
  /\ current \in Requests \cup {None}
  /\ closer \in {"open", "locking", "waiting", "closed"}
  /\ closed \in BOOLEAN /\ stopped \in BOOLEAN

Queued(r) == \E i \in 1 .. Len(requests) : requests[i] = r

\* No caller can ever send on the closed channel, which would panic: the read
\* lock spans the test of closed and the send (Write against Close).
NoSendAfterClose == closed => \A r \in Requests : pc[r] # "sending"

\* What Write reports is the database's fate for good: ok means committed, an
\* error of the transaction or ErrWriterClosed that it never will be. Only a
\* cancelled caller does not know.
AnsweredTruthfully ==
  \A r \in Requests :
    /\ result[r] = "ok" => r \in applied
    /\ result[r] \in {"error", "closed"} => r \notin applied /\ current # r /\ ~Queued(r)
    /\ result[r] = "ctx" => r \in ctxDone

\* When Close returns nothing accepted is left undecided and nothing can reach
\* the handles that Store.Close is about to close.
ClosedIsQuiet ==
  closer = "closed" =>
    /\ requests = <<>> /\ current = None
    /\ \A r \in Requests : pc[r] = "waiting" => done[r] # "none"

\* Once a caller is in Write it returns, in every race of a full channel, a
\* cancelled context and Close; and Close is never held up for good by callers
\* blocked on a full channel (Write against run and Close).
WriteReturns       == \A r \in Requests : <>(pc[r] = "returned")
CloseCompletes     == closer = "locking" ~> closer = "closed"
NobodyWaitsForever == WriteReturns /\ CloseCompletes
=============================================================================
