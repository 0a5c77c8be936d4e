------------------------------ MODULE RpcPool ------------------------------
(***************************************************************************)
(* internal/chain/pool.go and the calls of client.go that go through it:   *)
(* callers take a node by smooth weighted round robin among the nodes with *)
(* a token, sleep when there is none, and put a node that answers "rate    *)
(* limited" on a cool-down of a second.                                    *)
(* Time moves in ticks, Sec of them to the second. Times are kept relative *)
(* to the present, so that the model needs no end of time; a token is Sec  *)
(* units, of which a node gains Qps in a tick.                             *)
(***************************************************************************)
EXTENDS Integers, Sequences, FiniteSets, Functions

CONSTANTS
  N,         \* configured endpoints, in the order of the configuration
  QpsOf,     \* RPCEndpoint.QPS of each
  Callers,   \* goroutines that call through the client
  Sec,       \* ticks of a second (rpcRateLimitPenalty, and the refill of qps)
  MaxLag,    \* bound: ticks between a caller's now() and its critical section
  MaxCalls   \* bound: calls made in all

PoolAssumption ==
  /\ N \in Nat \ {0} /\ Sec \in Nat \ {0} /\ {MaxLag, MaxCalls} \subseteq Nat
  /\ QpsOf \in Seq(Nat \ {0}) /\ Len(QpsOf) = N

Endpoints == 1 .. N
None == 0

VARIABLES
  members,  \* the endpoints that answered the expected chain id at start
  current,  \* rpcMember.current
  tokens,   \* rpcMember.tokens, in units
  age,      \* ticks since rpcMember.last
  cool,     \* ticks until rpcMember.coolUntil, negative when it is past
  caller,   \* where each caller is, since when, and with which node
  calls,
  recent    \* the calls each node was given in the ticks of the last second

poolVars == <<current, tokens, age, cool>>
vars == <<members, poolVars, caller, calls, recent>>

Idle == [pc |-> "idle", ticks |-> 0, at |-> None]
Qps(m) == QpsOf[m]
Smaller(a, b) == IF a < b THEN a ELSE b
Larger(a, b) == IF a > b THEN a ELSE b

-----------------------------------------------------------------------------
(* A node's bucket, seen at a time that is lag ticks old *)

\* refill: nothing is gained when the caller's now is not after last.
Refilled(m, lag) == Smaller(Qps(m) * Sec, tokens[m] + Larger(0, age[m] - lag) * Qps(m))

CoolingNever(m, lag) == FALSE

Cooling(m, lag) == -lag < cool[m]

WaitDurationStrict(m, lag) ==
  LET missing == Sec - Refilled(m, lag) IN
  IF Cooling(m, lag) THEN cool[m] + lag
  ELSE IF missing < 0 THEN 0 ELSE Larger(1, (missing + Qps(m) - 1) \div Qps(m))

\* waitDuration, in ticks rounded up: 0 when the node may be called now. The code
\* cuts the wait to nanoseconds and so calls a node that is short of a token by
\* less than one's worth ready. Here at least a unit is missing, which takes a
\* Qps-th of a tick, and a tick stands for at least Qps nanoseconds.
WaitDuration(m, lag) ==
  LET missing == Sec - Refilled(m, lag) IN
  IF Cooling(m, lag) THEN cool[m] + lag
  ELSE IF missing <= 0 THEN 0 ELSE (missing + Qps(m) - 1) \div Qps(m)

Ready(lag) == {m \in members : WaitDuration(m, lag) = 0}

\* minWait
MinWait(lag) ==
  CHOOSE w \in {WaitDuration(m, lag) : m \in members} :
    \A m \in members : w <= WaitDuration(m, lag)

-----------------------------------------------------------------------------
(* weightedPick: smooth weighted round robin over the ready nodes *)

Raised(ready) == [m \in Endpoints |-> IF m \in ready THEN current[m] + Qps(m) ELSE current[m]]

\* The first of the nodes with the highest current.
Best(ready) ==
  CHOOSE b \in ready : \A m \in ready :
    Raised(ready)[m] < Raised(ready)[b] \/ (Raised(ready)[m] = Raised(ready)[b] /\ b <= m)

CurrentAfterOwnWeight(ready) == [Raised(ready) EXCEPT ![Best(ready)] = @ - Qps(Best(ready))]

CurrentAfter(ready) ==
  [Raised(ready) EXCEPT ![Best(ready)] = @ - SumFunctionOnSet(QpsOf, ready)]

-----------------------------------------------------------------------------
(* The callers *)

\* Call and CallBatch: post asks the pool for a node.
Begin(c) ==
  /\ caller[c] = Idle /\ calls < MaxCalls /\ calls' = calls + 1
  /\ caller' = [caller EXCEPT ![c] = [pc |-> "waiting", ticks |-> 0, at |-> None]]
  /\ UNCHANGED <<members, poolVars, recent>>

\* acquire reads the clock before it has the lock.
ReadNow(c) ==
  /\ caller[c].pc = "waiting"
  /\ caller' = [caller EXCEPT ![c].pc = "locking", ![c].ticks = 0]
  /\ UNCHANGED <<members, poolVars, calls, recent>>

\* The critical section. waitDuration refills every node that is not cooling.
Scan(lag) ==
  /\ tokens' = [m \in Endpoints |->
       IF m \notin members \/ Cooling(m, lag) THEN tokens[m]
       ELSE Refilled(m, lag) - IF Ready(lag) # {} /\ m = Best(Ready(lag)) THEN Sec ELSE 0]
  /\ age' = [m \in Endpoints |->
       IF m \notin members \/ Cooling(m, lag) THEN age[m] ELSE Smaller(age[m], lag)]

Acquire(c) ==
  /\ caller[c].pc = "locking"
  /\ LET ready == Ready(caller[c].ticks) IN
     /\ Scan(caller[c].ticks)
     /\ \/ /\ ready # {}
           /\ current' = CurrentAfter(ready)
           /\ caller' = [caller EXCEPT ![c] = [pc |-> "calling", ticks |-> 0, at |-> Best(ready)]]
           /\ recent' = [recent EXCEPT ![Best(ready)][1] = @ + 1]
        \/ /\ ready = {}
           /\ caller' = [caller EXCEPT ![c] =
                [pc |-> "asleep", ticks |-> MinWait(caller[c].ticks), at |-> None]]
           /\ UNCHANGED <<current, recent>>
  /\ UNCHANGED <<members, cool, calls>>

\* The timer fires and acquire starts over.
Wake(c) ==
  /\ caller[c].pc = "asleep" /\ caller[c].ticks = 0
  /\ caller' = [caller EXCEPT ![c].pc = "waiting"]
  /\ UNCHANGED <<members, poolVars, calls, recent>>

\* The context ends while the caller waits.
GiveUp(c) ==
  /\ caller[c].pc \in {"waiting", "asleep"}
  /\ caller' = [caller EXCEPT ![c] = Idle]
  /\ UNCHANGED <<members, poolVars, calls, recent>>

\* What may come back: a result, any other failure (transport, timeout, HTTP
\* status, body that is too long or not the answer to the request, an RPC
\* error), and the three forms of "too many requests".
Answers == {"result", "failure", "http 429", "limit text", "limit error"}

\* The status is tested in post, the text on the body and on the message of an
\* RPC error, and its code.
IsRateLimited(a) == a \in {"http 429", "limit text", "limit error"}

\* post, call, CallBatch, annotateRPCError, penalize. The call is over either
\* way: no layer of the client tries another node.
Answered(c, a) ==
  /\ caller[c].pc = "calling"
  /\ caller' = [caller EXCEPT ![c] = Idle]
  /\ \/ /\ IsRateLimited(a)
        /\ LET m == caller[c].at IN
           /\ tokens' = [tokens EXCEPT ![m] = 0]
           /\ age' = [age EXCEPT ![m] = 0]
           /\ cool' = [cool EXCEPT ![m] = Sec]
     \/ ~IsRateLimited(a) /\ UNCHANGED <<tokens, age, cool>>
  /\ UNCHANGED <<members, current, calls, recent>>

\* Beyond these ages a time makes no difference any more.
OldestAge == Sec + MaxLag

Tick ==
  /\ \A c \in Callers : caller[c].pc = "locking" => caller[c].ticks < MaxLag
  /\ age' = [m \in Endpoints |-> Smaller(age[m] + 1, OldestAge)]
  /\ cool' = [m \in Endpoints |-> Larger(cool[m] - 1, -MaxLag)]
  /\ caller' = [c \in Callers |->
       CASE caller[c].pc = "locking" -> [caller[c] EXCEPT !.ticks = @ + 1]
         [] caller[c].pc = "asleep" -> [caller[c] EXCEPT !.ticks = Larger(0, @ - 1)]
         [] OTHER -> caller[c]]
  /\ recent' = [m \in Endpoints |-> <<0>> \o SubSeq(recent[m], 1, Sec - 1)]
  /\ UNCHANGED <<members, current, tokens, calls>>

\* NewPoolClient: the endpoints that fail the probe of the chain id are left
\* out; it refuses to start when all do. The buckets start full.
Init ==
  /\ members \in (SUBSET Endpoints) \ {{}}
  /\ current = [m \in Endpoints |-> 0]
  /\ tokens = [m \in Endpoints |-> Qps(m) * Sec]
  /\ age = [m \in Endpoints |-> 0] /\ cool = [m \in Endpoints |-> -MaxLag]
  /\ caller = [c \in Callers |-> Idle] /\ calls = 0
  /\ recent = [m \in Endpoints |-> [t \in 1 .. Sec |-> 0]]

Step(c) == ReadNow(c) \/ Acquire(c) \/ Wake(c) \/ (\E a \in Answers : Answered(c, a))

Next == (\E c \in Callers : Begin(c) \/ GiveUp(c) \/ Step(c)) \/ Tick

Spec == Init /\ [][Next]_vars

\* Time passes; a caller that can go on does, and the HTTP client's timeout
\* ends every call. Nobody has to call, to give up or to be rate limited.
Fairness ==
  /\ WF_vars(Tick)
  /\ \A c \in Callers : WF_vars(ReadNow(c) \/ Acquire(c) \/ Wake(c))
                        /\ WF_vars(\E a \in Answers : Answered(c, a))

FairSpec == Spec /\ Fairness

-----------------------------------------------------------------------------
\* Types. No bucket goes negative or over its capacity (refill, take).
TypeOK ==
  /\ members \in (SUBSET Endpoints) \ {{}}
  /\ current \in [Endpoints -> Int]
  /\ \A m \in Endpoints : tokens[m] \in 0 .. Qps(m) * Sec
  /\ age \in [Endpoints -> 0 .. OldestAge] /\ cool \in [Endpoints -> -MaxLag .. Sec]
  /\ \A c \in Callers :
       /\ caller[c].pc \in {"idle", "waiting", "locking", "asleep", "calling"}
       /\ caller[c].ticks \in 0 .. OldestAge
       /\ caller[c].at \in members \cup {None}
       /\ (caller[c].at = None) <=> (caller[c].pc # "calling")
  /\ calls \in 0 .. MaxCalls

\* weightedPick keeps the nodes in balance whatever subset of them is ready at
\* each pick: the currents add up to zero, and none drifts by more than a round,
\* less one, for each other node, so that a node back from its cool-down neither
\* starves nor is flooded. (One round for all does not do: with four nodes, of
\* weights 5, 1, 1 and 1, there are picks that bring a current to -8.)
WeightsBalance ==
  LET round == SumFunctionOnSet(QpsOf, members)
      far == (round - 1) * (Cardinality(members) - 1)
  IN  SumFunction(current) = 0 /\ \A m \in Endpoints : current[m] \in -far .. far

\* A node that answered 429 is not given another call until its second of
\* cool-down is over, although callers read the clock before they have the
\* lock and other calls to it are still in flight (penalize, waitDuration).
NoCallWhileCooling ==
  [][\A c \in Callers :
       caller'[c].pc = "calling" /\ caller[c].pc # "calling" => cool[caller'[c].at] <= 0]_vars

CallsInLastSecond(m) == SumFunction(recent[m])

\* What the token bucket does promise: a node is never given more than its full
\* bucket and what it gains in a second, plus the time a caller's reading of
\* the clock was old, however the callers interleave (refill, take, penalize).
BurstBound ==
  \A m \in members : CallsInLastSecond(m) * Sec <= Qps(m) * (2 * Sec - 1 + MaxLag)

\* The shares that weightedPick and the buckets give the nodes.
SharesAreKept == WeightsBalance /\ BurstBound

\* While there is an end to the calls that compete with it, each call gets its
\* answer: nobody sleeps forever for a node that the others took or whose
\* cool-down they renewed (acquire).
EveryCallReturns == \A c \in Callers : caller[c].pc # "idle" ~> caller[c].pc = "idle"
=============================================================================
