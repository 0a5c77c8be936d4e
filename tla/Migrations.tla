----------------------------- MODULE Migrations -----------------------------
(***************************************************************************)
(* Store.Migrate (internal/store/migrate.go), run by app.New before        *)
(* anything else touches the database: the files of migrations/ not yet    *)
(* executed are executed in the order of their names, all in one           *)
(* transaction, and a file that was executed before must be unchanged.     *)
(* The program is deployed again, with other files, while it is down or    *)
(* while it starts; it may crash or fail at any step of the start.         *)
(* A name is a number (its place in the sorted order) and a checksum is    *)
(* the version of the file.                                                *)
(***************************************************************************)
EXTENDS Naturals, Sequences, FiniteSets, SequencesExt

CONSTANTS
  Names,       \* the names a file may have
  Versions,    \* the contents a file may have
  MaxDeploys   \* bound: changes to the directory

ASSUME MigrationAssumption ==
  Names \subseteq Nat \ {0} /\ Versions \subseteq Nat \ {0} /\ MaxDeploys \in Nat

VARIABLES
  dir,      \* the directory: version of each file there
  log,      \* the files executed on the database and committed, in order
  applied,  \* schema_migrations, committed: checksum of each name
  pc,       \* "down", "migrating" or "up"
  todo,     \* the names listed by this start and not yet visited, in order
  txLog, txApplied,  \* log and applied as the open transaction sees them
  read,     \* what this start read: version of each file visited
  deploys

vars == <<dir, log, applied, pc, todo, txLog, txApplied, read, deploys>>

Empty == [n \in {} |-> 0]
Put(f, n, v) == [m \in DOMAIN f \cup {n} |-> IF m = n THEN v ELSE f[m]]

-----------------------------------------------------------------------------
\* A file is added, edited or removed.
Deploy ==
  /\ deploys < MaxDeploys
  /\ deploys' = deploys + 1
  /\ \/ \E n \in Names, v \in Versions :
          dir' = Put(dir, n, v) /\ dir' # dir
     \/ \E n \in DOMAIN dir : dir' = [m \in DOMAIN dir \ {n} |-> dir[m]]
  /\ UNCHANGED <<log, applied, pc, todo, txLog, txApplied, read>>

\* ReadDir, sort and the BEGIN of Writer.Write.
Start ==
  /\ pc = "down"
  /\ pc' = "migrating"
  /\ todo' = SetToSortSeq(DOMAIN dir, <)
  /\ txLog' = log /\ txApplied' = applied /\ read' = Empty
  /\ UNCHANGED <<dir, log, applied, deploys>>

\* The program stops and its open transaction, if any, is rolled back.
Down ==
  /\ pc' = "down"
  /\ todo' = <<>> /\ txLog' = log /\ txApplied' = applied /\ read' = Empty
  /\ UNCHANGED <<dir, log, applied, deploys>>

\* An executed file was edited.
Refuses(n) == n \in DOMAIN txApplied /\ txApplied[n] # dir[n]

ExecuteUnrecorded(n) ==
  /\ txLog' = Append(txLog, <<n, dir[n]>>)
  /\ UNCHANGED txApplied

Execute(n) ==
  /\ txLog' = Append(txLog, <<n, dir[n]>>)
  /\ txApplied' = Put(txApplied, n, dir[n])

\* One turn of the loop: the file is refused, skipped or executed.
VisitAndCommit ==
  /\ pc = "migrating" /\ todo # <<>> /\ Head(todo) \in DOMAIN dir
  /\ LET n == Head(todo) IN
       /\ ~Refuses(n)
       /\ IF n \in DOMAIN txApplied THEN UNCHANGED <<txLog, txApplied>> ELSE Execute(n)
       /\ read' = Put(read, n, dir[n])
  /\ todo' = Tail(todo)
  /\ log' = txLog' /\ applied' = txApplied'
  /\ UNCHANGED <<dir, pc, deploys>>

Visit ==
  /\ pc = "migrating" /\ todo # <<>> /\ Head(todo) \in DOMAIN dir
  /\ LET n == Head(todo) IN
       /\ ~Refuses(n)
       /\ IF n \in DOMAIN txApplied THEN UNCHANGED <<txLog, txApplied>> ELSE Execute(n)
       /\ read' = Put(read, n, dir[n])
  /\ todo' = Tail(todo)
  /\ UNCHANGED <<dir, log, applied, pc, deploys>>

\* A file was refused, has gone since it was listed, or its SQL failed:
\* rollback, and app.New fails.
Fail ==
  /\ pc = "migrating" /\ todo # <<>>
  /\ \/ Head(todo) \notin DOMAIN dir
     \/ Head(todo) \in DOMAIN dir /\ Refuses(Head(todo))
     \/ Head(todo) \notin DOMAIN txApplied
  /\ Down

Commit ==
  /\ pc = "migrating" /\ todo = <<>>
  /\ log' = txLog /\ applied' = txApplied
  /\ pc' = "up"
  /\ UNCHANGED <<dir, todo, txLog, txApplied, read, deploys>>

Crash == pc # "down" /\ Down

Init ==
  /\ dir = Empty /\ log = <<>> /\ applied = Empty /\ pc = "down"
  /\ todo = <<>> /\ txLog = <<>> /\ txApplied = Empty /\ read = Empty /\ deploys = 0

Next == Deploy \/ Start \/ Visit \/ Fail \/ Commit \/ Crash

Spec == Init /\ [][Next]_vars

-----------------------------------------------------------------------------
\* Types; and nothing is left of a transaction outside of a start.
TypeOK ==
  /\ DOMAIN dir \subseteq Names /\ DOMAIN applied \subseteq Names
  /\ pc \in {"down", "migrating", "up"} /\ deploys \in 0 .. MaxDeploys
  /\ \A i \in 1 .. Len(log) : log[i] \in Names \X Versions
  /\ pc # "migrating" => txLog = log /\ txApplied = applied

\* Through crashes and failed starts, schema_migrations tells what was executed:
\* no file runs twice on a database, and the checksum kept is of what ran
\* (Migrate: the file and its row are of one transaction).
ExecutedOnce ==
  /\ Cardinality(DOMAIN applied) = Len(log)
  /\ \A i \in 1 .. Len(log) :
       log[i][1] \in DOMAIN applied /\ applied[log[i][1]] = log[i][2]

\* A start that failed or crashed leaves the database as it was, however many
\* files it had executed: the schema changes only when the program comes up.
AllOrNothing ==
  [][log' # log => pc = "migrating" /\ pc' = "up" /\ IsPrefix(log, log')]_vars

\* The program never runs on a schema other than that of the files it read when
\* it started: no file was edited after it was executed.
UpOnWhatWasRead ==
  pc = "up" => \A n \in DOMAIN read : n \in DOMAIN applied /\ applied[n] = read[n]

\* Both: what the database's schema is, is known from schema_migrations, and is
\* what the running program was written for.
SchemaIsKnown == ExecutedOnce /\ UpOnWhatWasRead
=============================================================================
