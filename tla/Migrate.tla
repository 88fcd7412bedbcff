------------------------------ MODULE Migrate ------------------------------
(***************************************************************************)
(* The migrate command: cmd/migrate/main.go and internal/migrate.  It      *)
(* lists what the table migrations records, then executes the pending up   *)
(* files, or the down files of the last n, each in a transaction with the  *)
(* change of the record.  Two people may run it at once, and the server    *)
(* may start meanwhile: connecting adds to the schema what the models      *)
(* name (db.go).                                                           *)
(*                                                                         *)
(* A file is what the splitter makes of it, chunks that end in a semicolon *)
(* outside quotes.  A chunk's statement adds or drops one item of the      *)
(* schema, a column, an index or a table.  Statements lock as they do in   *)
(* Postgres, where one that finds nothing to do may hold nothing.          *)
(***************************************************************************)
EXTENDS Integers, Sequences, FiniteSets, SequencesExt

CONSTANTS
  Runners,   \* the processes of the command
  Versions,  \* of the up files, in the order of their names
  Up,        \* the chunks of the up file of each version
  Down,      \* and of those down files that exist
  Tables,
  Models     \* the items that the models name

\* An item is named with its table; a table is an item of its own.
Items == Tables \X STRING

Whole(table) == <<table, "table">>

Chunks == [kind : {"table", "column", "index"}, item : Items,
           adds : BOOLEAN,      \* or drops it
           lenient : BOOLEAN,   \* says IF NOT EXISTS or IF EXISTS
           commented : BOOLEAN] \* the statement follows a comment line

ASSUME VersionsOrdered == Versions \subseteq Nat /\ IsFiniteSet(Versions)
ASSUME UpFiles == Up \in [Versions -> Seq(Chunks)]
ASSUME DownFiles == DOMAIN Down \subseteq Versions /\ Down \in [DOMAIN Down -> Seq(Chunks)]
ASSUME ModelsAreItems == IsFiniteSet(Models) /\ Models \subseteq Items

VARIABLES
  schema,   \* the items there are
  records,  \* the rows of table migrations: their versions, by executed_at
  op        \* op[r]: where runner r is.  overtaken is history: the versions whose up or down
            \* file another command has committed since r listed its own

migrateVars == <<schema, records, op>>

Idle == [pc |-> "idle"]

InTxn(r) == op[r].pc = "exec"

Recorded == ToSet(records)

-----------------------------------------------------------------------------
(* Order *)

\* The numbers of a finite set in ascending order: the k-th has k of them up to it.
Ascending(S) == [k \in 1..Cardinality(S) |-> CHOOSE n \in S : Cardinality({m \in S : m <= n}) = k]

\* The elements of a sequence at these places, in their order.
At(s, places) == [k \in 1..Cardinality(places) |-> s[Ascending(places)[k]]]

-----------------------------------------------------------------------------
(* Statements *)

\* A chunk that starts with a comment is dropped, with the statement that follows in it.
Executable(file) == At(file, {i \in DOMAIN file : ~file[i].commented})

\* The schema as the transaction of r sees it, and would leave it: names that others added
\* are looked up in vain, and those that others dropped are found, until they commit.
Seen(r) == (schema \cup op[r].added) \ op[r].dropped

\* There is nothing to do, what is to be added being there or what is to be dropped being gone.
Moot(r, s) == s.adds <=> s.item \in Seen(r)

\* ALTER TABLE and CREATE INDEX need their table.
OnTable(s) == s.kind = "column" \/ (s.kind = "index" /\ s.adds)

TableSeen(r, s) == Whole(s.item[1]) \in Seen(r)

Refused(r, s) == (~s.lenient /\ Moot(r, s)) \/ (OnTable(s) /\ ~TableSeen(r, s))

\* ALTER TABLE locks its table even when it has nothing to do; the creation of a table and the
\* dropping of a table or an index do so only when they have.
Exclusive(r, s) == IF OnTable(s) THEN s.kind = "column" /\ TableSeen(r, s) ELSE ~Moot(r, s)

\* CREATE INDEX takes a SHARE lock, which others may have too.
Shares(r, s) == OnTable(s) /\ s.kind = "index" /\ TableSeen(r, s)

\* Locks are kept to the end of the transaction, and of two that create the same index the
\* second waits for the first.
Granted(r, s) ==
  \A q \in Runners \ {r} : InTxn(q) =>
    /\ Exclusive(r, s) => s.item[1] \notin op[q].held \cup op[q].shared
    /\ Shares(r, s) => /\ s.item[1] \notin op[q].held
                       /\ Moot(r, s) \/ s.item \notin op[q].added

Goto(r, o) == op' = [op EXCEPT ![r] = o]

\* Connecting adds what the models name and is not there, for the command as for the server; it
\* waits for whoever holds the table it lacks something of.
AutoMigrate ==
  /\ \A q \in Runners : InTxn(q) => \A i \in Models \ schema : i[1] \notin op[q].held
  /\ schema' = schema \cup Models
  /\ UNCHANGED records

ServerStarts == AutoMigrate /\ UNCHANGED op

Connect(r) == op[r].pc = "idle" /\ AutoMigrate /\ Goto(r, [pc |-> "connected"])

List(r, do, todo) ==
  /\ op[r].pc = "connected"
  /\ Goto(r, [pc |-> "next", do |-> do, todo |-> todo, overtaken |-> {}])
  /\ UNCHANGED <<schema, records>>

\* Mutant of Pending: in the order of the directory, which happens to be the reverse.
Pending_Unsorted == Reverse(Ascending(Versions \ Recorded))

Pending == Ascending(Versions \ Recorded)

Run(r) == List(r, "run", Pending)

\* Mutant of Latest: ascending.
Latest_First(n) == SubSeq(records, 1, n)

Latest(n) == SubSeq(Reverse(records), 1, n)

\* LIMIT n of the records, the last first.
Rollback(r) == \E n \in 1..Len(records) : List(r, "rollback", Latest(n))

\* -check, and the rollback of an empty table.
CheckOnly(r) ==
  /\ op[r].pc = "connected"
  /\ Goto(r, Idle)
  /\ UNCHANGED <<schema, records>>

Version(r) == Head(op[r].todo)

\* A migration without a down file is skipped.
Skip(r) ==
  /\ op[r].pc = "next" /\ op[r].do = "rollback" /\ op[r].todo # <<>>
  /\ Version(r) \notin DOMAIN Down
  /\ Goto(r, [op[r] EXCEPT !.todo = Tail(@)])
  /\ UNCHANGED <<schema, records>>

BeginTransaction(r, file) ==
  /\ Goto(r, [pc |-> "exec", do |-> op[r].do, todo |-> op[r].todo,
              overtaken |-> op[r].overtaken, left |-> Executable(file),
              added |-> {}, dropped |-> {}, held |-> {}, shared |-> {}])
  /\ UNCHANGED <<schema, records>>

BeginUp(r) ==
  /\ op[r].pc = "next" /\ op[r].do = "run" /\ op[r].todo # <<>>
  /\ BeginTransaction(r, Up[Version(r)])

BeginDown(r) ==
  /\ op[r].pc = "next" /\ op[r].do = "rollback" /\ op[r].todo # <<>>
  /\ Version(r) \in DOMAIN Down
  /\ BeginTransaction(r, Down[Version(r)])

\* s adds or drops i, itself or with its table.
Concerns(s, i) == s.item = i \/ (s.kind = "table" /\ ~s.adds /\ s.item[1] = i[1])

Added(r, s) == IF s.adds THEN {s.item} \ Seen(r) ELSE {}

Dropped(r, s) == IF s.adds THEN {} ELSE {i \in Seen(r) : Concerns(s, i)}

\* Where r is after executing s.
After(r, s) ==
  [op[r] EXCEPT !.left = Tail(@),
                !.added = (@ \ Dropped(r, s)) \cup Added(r, s),
                !.dropped = (@ \ Added(r, s)) \cup Dropped(r, s),
                !.held = IF Exclusive(r, s) THEN @ \cup {s.item[1]} ELSE @,
                !.shared = IF Shares(r, s) THEN @ \cup {s.item[1]} ELSE @]

\* Mutant of Execute: every statement is committed at once.
Execute_Autocommit(r) ==
  /\ InTxn(r) /\ op[r].left # <<>>
  /\ LET s == Head(op[r].left) IN
       /\ Granted(r, s) /\ ~Refused(r, s)
       /\ Goto(r, [op[r] EXCEPT !.left = Tail(@)])
       /\ schema' = (schema \ Dropped(r, s)) \cup Added(r, s)
  /\ UNCHANGED records

Execute(r) ==
  /\ InTxn(r) /\ op[r].left # <<>>
  /\ LET s == Head(op[r].left) IN Granted(r, s) /\ ~Refused(r, s) /\ Goto(r, After(r, s))
  /\ UNCHANGED <<schema, records>>

\* An error ends the command: nothing of the transaction stays.
StatementFails(r) ==
  /\ InTxn(r) /\ op[r].left # <<>>
  /\ LET s == Head(op[r].left) IN Granted(r, s) /\ Refused(r, s)
  /\ Goto(r, Idle)
  /\ UNCHANGED <<schema, records>>

\* The transaction of r ends, with these records.
Commit(r, new) ==
  /\ schema' = Seen(r)
  /\ records' = new
  /\ op' = [q \in Runners |->
              IF q = r THEN [pc |-> "next", do |-> op[r].do, todo |-> Tail(op[r].todo),
                             overtaken |-> op[r].overtaken]
              ELSE IF op[q].pc \in {"next", "exec"}
                   THEN [op[q] EXCEPT !.overtaken = @ \cup {Version(r)}]
              ELSE op[q]]

\* Mutant of RecordMigration: nothing keeps a version from being recorded twice.
RecordMigration_NotUnique(r) ==
  /\ InTxn(r) /\ op[r].left = <<>> /\ op[r].do = "run"
  /\ Commit(r, Append(records, Version(r)))

RecordMigration(r) ==
  /\ InTxn(r) /\ op[r].left = <<>> /\ op[r].do = "run"
  /\ Version(r) \notin Recorded
  /\ Commit(r, Append(records, Version(r)))

\* The unique index on version: another run has recorded it.
RecordFails(r) ==
  /\ InTxn(r) /\ op[r].left = <<>> /\ op[r].do = "run"
  /\ Version(r) \in Recorded
  /\ Goto(r, Idle)
  /\ UNCHANGED <<schema, records>>

\* DELETE of the record, which another rollback may have deleted before.
RemoveRecord(r) ==
  /\ InTxn(r) /\ op[r].left = <<>> /\ op[r].do = "rollback"
  /\ LET v == Version(r) IN Commit(r, At(records, {i \in DOMAIN records : records[i] # v}))

Done(r) ==
  /\ op[r].pc = "next" /\ op[r].todo = <<>>
  /\ Goto(r, Idle)
  /\ UNCHANGED <<schema, records>>

\* The database refuses or ends a transaction for a reason of its own, a deadlock or an index
\* that another has created meanwhile among them, or the process dies.
Abort(r) ==
  /\ op[r].pc # "idle"
  /\ Goto(r, Idle)
  /\ UNCHANGED <<schema, records>>

-----------------------------------------------------------------------------
MigrateInit == schema = {} /\ records = <<>> /\ op = [r \in Runners |-> Idle]

Commands(r) == Connect(r) \/ Run(r) \/ Rollback(r) \/ CheckOnly(r)

UpSteps(r) == BeginUp(r) \/ RecordMigration(r) \/ RecordFails(r)

DownSteps(r) == Skip(r) \/ BeginDown(r) \/ RemoveRecord(r)

MigrateNext ==
  \/ ServerStarts
  \/ \E r \in Runners :
       \/ Commands(r) \/ UpSteps(r) \/ DownSteps(r)
       \/ Execute(r) \/ StatementFails(r) \/ Done(r) \/ Abort(r)

MigrateSpec == MigrateInit /\ [][MigrateNext]_migrateVars

-----------------------------------------------------------------------------
(* Properties *)

Ups(v) == ToSet(Executable(Up[v]))

Downs(v) == IF v \in DOMAIN Down THEN ToSet(Executable(Down[v])) ELSE {}

\* What each version alone brings, and takes away if it can be rolled back.
Owned ==
  [v \in Versions |->
     {i \in {s.item : s \in Ups(v)} \ Models :
        /\ \A s \in Ups(v) : Concerns(s, i) => s.adds
        /\ \A s \in Downs(v) : Concerns(s, i) => ~s.adds
        /\ v \in DOMAIN Down => \E s \in Downs(v) : Concerns(s, i)
        /\ \A u \in Versions \ {v} : \A s \in Ups(u) \cup Downs(u) : ~Concerns(s, i)}]

\* i comes and goes by ALTER TABLE alone, which locks the table whatever it finds.
Guarded(v, i) == \A s \in Ups(v) \cup Downs(v) : Concerns(s, i) => s.kind = "column"

\* i is there exactly if v is recorded.
InStep(v, i) == i \in schema <=> v \in Recorded

\* The schema is a set of items, a version is recorded once, and every runner has the locals
\* of its place.
MigrateTypeOK ==
  /\ IsFiniteSet(schema) /\ schema \subseteq Items
  /\ records \in Seq(Versions) /\ IsInjective(records)
  /\ \A r \in Runners :
       \/ op[r].pc \in {"idle", "connected"}
       \/ /\ op[r].pc \in {"next", "exec"} /\ op[r].do \in {"run", "rollback"}
          /\ op[r].todo \in Seq(Versions) /\ op[r].overtaken \subseteq Versions
          /\ InTxn(r) => /\ op[r].todo # <<>> /\ op[r].left \in Seq(Chunks)
                         /\ op[r].held \cup op[r].shared \subseteq Tables
                         /\ op[r].added \cap op[r].dropped = {}

\* What the executed statements of a version bring comes and goes with its record, whichever
\* statement fails and however commands overlap.  Only the transaction of that version can part
\* the two, in a command that another has overtaken since it listed the version, and not for a
\* column, whose ALTER TABLE makes the two wait for each other (migrate.go:121-150, 208-231).
InStepUnlessOvertaken ==
  [][\A v \in Versions : \A i \in Owned[v] :
       InStep(v, i) /\ ~InStep(v, i)'
         => /\ ~Guarded(v, i)
            /\ \E r \in Runners : /\ InTxn(r) /\ ~InTxn(r)' /\ Version(r) = v
                                 /\ v \in op[r].overtaken]_migrateVars

\* models/migration.go:5, "tracks which database migrations have been executed": what an executed
\* migration brought is there exactly while the table has it.
MigrationsTracked == \A v \in Versions : \A i \in Owned[v] : InStep(v, i)

\* A run records a version only after those before it, but for what other commands committed
\* since it listed them (migrate.go:84, sort.Strings; an error ends the run).
AppliedInOrder ==
  [][\A r \in Runners : \A v \in Recorded' \ Recorded :
       InTxn(r) /\ ~InTxn(r)' /\ Version(r) = v
         => {u \in Versions : u < v} \subseteq Recorded \cup op[r].overtaken]_migrateVars

\* A rollback removes a version only after those recorded later, but for those without a down
\* file and what other commands committed since it listed them (migrate.go:176).
RolledBackFromTheEnd ==
  [][\A r \in Runners : \A i \in DOMAIN records :
       InTxn(r) /\ ~InTxn(r)' /\ records[i] \notin Recorded' /\ records[i] = Version(r)
         => \A j \in DOMAIN records : j > i =>
              records[j] \in (Versions \ DOMAIN Down) \cup op[r].overtaken]_migrateVars

\* README.md:70, "apply pending migrations": what an up file adds is there once its version is
\* recorded, nothing else having been rolled back.
EveryStatementApplied ==
  \A v \in Recorded : \A s \in ToSet(Up[v]) : s.adds => s.item \in schema
=============================================================================
