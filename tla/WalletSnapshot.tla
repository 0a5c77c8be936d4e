--------------------------- MODULE WalletSnapshot ---------------------------
(***************************************************************************)
(* The followed wallets: internal/wallets/snapshot.go and its two callers, *)
(* runTicks (internal/app/ticks.go) and ProcessBlock with                  *)
(* launchWalletEvent (internal/app/process_block.go). The operator edits   *)
(* the table at any time; both goroutines call RefreshIfDue, which loads   *)
(* the whole table under refreshMu, at most once per interval, and swaps   *)
(* the snapshot; the scanner matches addresses against it meanwhile.       *)
(* The snapshot is represented by the version of the list it was read      *)
(* from. Time passes in units; a load takes at most Slow of them.          *)
(***************************************************************************)
EXTENDS Naturals, Sequences, FiniteSets

CONSTANTS
  EOA, Contract,  \* tx.from of a launch, and the creating contract it names
  Interval,       \* WalletReloadMS
  Slow,           \* how long a load takes at most
  MaxEdits,       \* bound: edits of the operator
  MaxFaults,      \* bound: loads that fail by themselves
  Nobody

WalletAssumption ==
  /\ Interval \in Nat \ {0} /\ {Slow, MaxEdits, MaxFaults} \subseteq Nat
  /\ EOA # Contract /\ Nobody \notin {"ticks", "scan"}

Addresses == {EOA, Contract}
Rows      == {"active", "paused", "malformed"}
Callers   == {"ticks", "scan"}
LongAgo   == Interval + Slow + 1  \* ages are not counted beyond this

VARIABLES
  lists,      \* the versions of smart_wallets, the oldest first
  listAge,    \* the age of each
  shown,      \* all and active: the version they were built from
  tryAge, okAge,  \* the time since lastTry, and since lastOK
  failed,     \* the last attempt to load failed
  refreshMu,  \* the caller in RefreshIfDue, or Nobody
  pc,         \* where each caller is
  read,       \* the version LoadSmartWallets read for each caller
  launch,     \* what the last launchWalletEvent returned
  faults

listVars == <<lists, listAge>>
tryVars  == <<tryAge, okAge, failed>>
loadVars == <<shown, tryVars, refreshMu, read>>
vars     == <<listVars, loadVars, pc, launch, faults>>

Current       == Len(lists)
WellFormed(v) == \A a \in Addresses : lists[v][a] # "malformed"
At(c, p)      == pc' = [pc EXCEPT ![c] = p]

\* Where a caller goes on after RefreshIfDue, whatever it returned.
After(c) == IF c = "scan" THEN "from" ELSE "idle"

-----------------------------------------------------------------------------
\* One statement of the operator.
Edit(a, row) ==
  /\ Current <= MaxEdits /\ lists[Current][a] # row
  /\ lists' = Append(lists, [lists[Current] EXCEPT ![a] = row])
  /\ listAge' = Append(listAge, 0)
  /\ UNCHANGED <<loadVars, pc, launch, faults>>

Older(age) == IF age < LongAgo THEN age + 1 ELSE LongAgo

Pass ==
  /\ refreshMu # Nobody => tryAge < Slow
  /\ listAge' = [v \in 1 .. Current |-> Older(listAge[v])]
  /\ tryAge' = Older(tryAge) /\ okAge' = Older(okAge)
  /\ UNCHANGED <<lists, shown, failed, refreshMu, read, pc, launch, faults>>

-----------------------------------------------------------------------------
(* RefreshIfDue, by the wallet tick and by the scanner before each block *)

Call(c) ==
  /\ pc[c] = "idle" /\ At(c, "calls")
  /\ UNCHANGED <<listVars, loadVars, launch, faults>>

NoMutex == TRUE

MutexFree == refreshMu = Nobody

Due == tryAge >= Interval

NotDue(c) ==
  /\ pc[c] = "calls" /\ MutexFree /\ ~Due
  /\ At(c, After(c))
  /\ UNCHANGED <<listVars, loadVars, launch, faults>>

\* lastTry is set before the load, so that a failure waits for the interval.
Try(c) ==
  /\ pc[c] = "calls" /\ MutexFree /\ Due
  /\ refreshMu' = c /\ tryAge' = 0
  /\ At(c, "loads")
  /\ UNCHANGED <<listVars, shown, okAge, failed, read, launch, faults>>

LoadSmartWallets(c) ==
  /\ pc[c] = "loads"
  /\ read' = [read EXCEPT ![c] = Current]
  /\ At(c, "builds")
  /\ UNCHANGED <<listVars, shown, tryVars, refreshMu, launch, faults>>

\* A row that is not an address fails the whole load.
Swap(c) ==
  /\ pc[c] = "builds" /\ WellFormed(read[c])
  /\ shown' = read[c]
  /\ tryAge' = 0 /\ okAge' = 0 /\ failed' = FALSE
  /\ refreshMu' = Nobody /\ At(c, After(c))
  /\ UNCHANGED <<listVars, read, launch, faults>>

\* defer refreshMu.Unlock(), on the way out of a failure too.
Unlocked == Nobody

SnapshotKept == shown

LoadFails(c) ==
  /\ \/ pc[c] = "builds" /\ ~WellFormed(read[c]) /\ UNCHANGED faults
     \/ pc[c] = "loads" /\ faults < MaxFaults /\ faults' = faults + 1
  /\ shown' = SnapshotKept /\ failed' = TRUE
  /\ refreshMu' = Unlocked /\ At(c, After(c))
  /\ UNCHANGED <<listVars, tryAge, okAge, read, launch>>

-----------------------------------------------------------------------------
(* launchWalletEvent: tx.from first, then the contract *)

Active(a) == lists[shown][a] = "active"

ActiveFrom ==
  /\ pc["scan"] = "from"
  /\ \/ Active(EOA) /\ launch' = EOA /\ At("scan", "idle")
     \/ ~Active(EOA) /\ launch' = Nobody /\ At("scan", "contract")
  /\ UNCHANGED <<listVars, loadVars, faults>>

ActiveContract ==
  /\ pc["scan"] = "contract"
  /\ launch' = IF Active(Contract) THEN Contract ELSE "missed"
  /\ At("scan", "idle")
  /\ UNCHANGED <<listVars, loadVars, faults>>

Init ==
  /\ lists \in {<<rows>> : rows \in [Addresses -> {"active", "paused"}]}
  /\ listAge = <<0>> /\ shown = 1
  /\ tryAge = 0 /\ okAge = 0 /\ failed = FALSE
  /\ refreshMu = Nobody /\ pc = [c \in Callers |-> "idle"] /\ read = [c \in Callers |-> 1]
  /\ launch = Nobody /\ faults = 0

RefreshIfDue(c) ==
  NotDue(c) \/ Try(c) \/ LoadSmartWallets(c) \/ Swap(c) \/ LoadFails(c)

Next ==
  \/ \E a \in Addresses, row \in Rows : Edit(a, row)
  \/ Pass
  \/ \E c \in Callers : Call(c) \/ RefreshIfDue(c)
  \/ ActiveFrom \/ ActiveContract

Spec == Init /\ [][Next]_vars

\* Time passes, the wallet tick comes, a load ends and a waiting goroutine gets
\* the mutex.
Fairness ==
  /\ WF_vars(Pass) /\ WF_vars(Call("ticks"))
  /\ \A c \in Callers : SF_vars(RefreshIfDue(c))

FairSpec == Spec /\ Fairness

-----------------------------------------------------------------------------
\* Types; and what is shown was once the whole list, and well formed.
TypeOK ==
  /\ \A v \in 1 .. Current : lists[v] \in [Addresses -> Rows] /\ listAge[v] \in 0 .. LongAgo
  /\ shown \in 1 .. Current /\ WellFormed(shown)
  /\ tryAge \in 0 .. LongAgo /\ okAge \in tryAge .. LongAgo /\ failed \in BOOLEAN
  /\ refreshMu \in Callers \cup {Nobody}
  /\ pc \in [Callers -> {"idle", "calls", "loads", "builds", "from", "contract"}]
  /\ \A c \in Callers : refreshMu = c <=> pc[c] \in {"loads", "builds"}
  /\ read \in [Callers -> 1 .. Current]
  /\ launch \in Addresses \cup {Nobody, "missed"}
  /\ faults \in 0 .. MaxFaults

\* The two goroutines never put an older list back over a newer one
\* (refreshMu around the load, not only around the swap).
NeverBack == [][shown' >= shown]_vars

\* When the scanner begins a block, a list that was current for Interval + Slow
\* has been seen, unless the last attempt to load failed (RefreshIfDue before
\* the block).
BlockSeesOldEdits ==
  [][pc["scan"] # "from" /\ pc'["scan"] = "from"
     => failed' \/ \A v \in shown' + 1 .. Current : listAge[v] < Interval + Slow]_vars

\* When the operator stops editing, and has left no malformed row, the last
\* list comes to be shown and stays (RefreshIfDue on the wallet tick).
LastListIsShown == <>[](WellFormed(Current) => shown = Current)
=============================================================================
