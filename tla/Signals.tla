------------------------------ MODULE Signals -------------------------------
(***************************************************************************)
(* The log of signals: logSignals and rememberSignal of                    *)
(* internal/app/ticks.go. Each round queries the three kinds of signals    *)
(* and logs those it does not remember; a key names the day, the kind and  *)
(* the token or wallet, and the memory holds Cap keys. What the queries    *)
(* find is not modelled: any keys of the day, up to Limit of a round.      *)
(***************************************************************************)
EXTENDS Naturals, FiniteSets

CONSTANTS
  Subjects,      \* kind and token, or wallet
  Cap,           \* 1000
  Limit,         \* 20 of each of the three kinds
  RoundsPerDay,  \* 24
  MaxRounds      \* bound: rounds

SignalsAssumption ==
  {Cap, Limit, RoundsPerDay} \subseteq Nat \ {0} /\ MaxRounds \in Nat

VARIABLES
  now,         \* the round, which stands for its time
  todo,        \* the keys this round found and has not looked at
  signalSeen,  \* App.signalSeen: the remembered keys with their times
  lastLog      \* when each key was last logged by this process, 0 for never

vars == <<now, todo, signalSeen, lastLog>>

Day  == now \div RoundsPerDay
Keys == (0 .. MaxRounds \div RoundsPerDay) \X Subjects

Remembered == DOMAIN signalSeen

-----------------------------------------------------------------------------
\* A query that fails leaves its kind out of the round.
LogSignals(found) ==
  /\ todo = {} /\ now < MaxRounds
  /\ now' = now + 1
  /\ Cardinality(found) <= Limit
  /\ todo' = {(now + 1) \div RoundsPerDay} \X found
  /\ UNCHANGED <<signalSeen, lastLog>>

NewestKeys == {k \in Remembered : \A l \in Remembered : signalSeen[l] <= signalSeen[k]}

\* Of several of one time, the one the map's order happens to give.
OldestKeys == {k \in Remembered : \A l \in Remembered : signalSeen[k] <= signalSeen[l]}

\* What is kept to make place for a key that is not remembered.
Kept(k) ==
  IF Cardinality(Remembered) < Cap THEN {Remembered}
  ELSE {Remembered \ {oldest} : oldest \in OldestKeys}

\* A key that is found again keeps the time it was logged at.
RememberSignal(k) ==
  /\ k \in todo /\ todo' = todo \ {k}
  /\ \/ /\ k \in Remembered
        /\ UNCHANGED <<signalSeen, lastLog>>
     \/ /\ k \notin Remembered
        /\ \E kept \in Kept(k) :
             signalSeen' = [l \in kept \cup {k} |-> IF l = k THEN now ELSE signalSeen[l]]
        /\ lastLog' = [lastLog EXCEPT ![k] = now]
  /\ UNCHANGED now

Init ==
  /\ now = 0 /\ todo = {} /\ signalSeen = [k \in {} |-> 0]
  /\ lastLog = [k \in Keys |-> 0]

\* The memory is the process's.
Restart ==
  /\ todo' = {} /\ signalSeen' = [k \in {} |-> 0]
  /\ lastLog' = [k \in Keys |-> 0]
  /\ UNCHANGED now

Next ==
  \/ \E found \in SUBSET Subjects : LogSignals(found)
  \/ \E k \in todo : RememberSignal(k)
  \/ Restart

Spec == Init /\ [][Next]_vars

-----------------------------------------------------------------------------
\* Types; the memory is bounded.
TypeOK ==
  /\ now \in 0 .. MaxRounds /\ todo \subseteq {Day} \X Subjects
  /\ Remembered \subseteq Keys /\ Cardinality(Remembered) <= Cap
  /\ \A k \in Remembered : signalSeen[k] = lastLog[k] /\ lastLog[k] \in 1 .. now

Others(k) == {l \in Keys \ {k} : lastLog[l] >= lastLog[k]}

\* A key is logged twice on its day only when at least Cap others were logged
\* no earlier than it (the eviction of rememberSignal).
RepeatsOnlyOverCap ==
  [][\A k \in Keys :
       lastLog[k] > 0 /\ lastLog'[k] # lastLog[k] /\ lastLog'[k] # 0
         => Cardinality(Others(k)) >= Cap]_vars
=============================================================================
