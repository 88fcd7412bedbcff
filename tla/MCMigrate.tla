----------------------------- MODULE MCMigrate -----------------------------
(***************************************************************************)
(* Instances of Migrate for TLC.                                           *)
(***************************************************************************)
EXTENDS Migrate

CONSTANTS r1, r2, r3

MigrateSymmetry == Permutations(Runners)

Chunk(kind, item, adds, lenient, commented) ==
  [kind |-> kind, item |-> item, adds |-> adds, lenient |-> lenient, commented |-> commented]

\* Items: of the columns, the models name the first only.
Duration == <<"scenes", "duration">>
Note     == <<"scenes", "note">>
UserId50 == <<"tours", "user_id_50">>
Auto     == <<"tours", "auto_change_index">>
Order    == <<"scenes", "order_index">>
Email    == <<"contacts", "email_index">>
Contacts == Whole("contacts")

\* In the manner of 003 (its comments hide the columns, of the index statements one is left each
\* way), 001 (ALTER TABLE, no down file) and 007 (a table and an index of its own), with a column
\* in the manner of 016, but one that the models do not name.
UpFilesOf == <<
  << Chunk("column", Duration, TRUE, TRUE, TRUE),
     Chunk("index", Auto, TRUE, TRUE, TRUE),
     Chunk("index", Order, TRUE, TRUE, FALSE) >>,
  << Chunk("column", UserId50, TRUE, TRUE, FALSE) >>,
  << Chunk("column", Note, TRUE, TRUE, FALSE),
     Chunk("table", Contacts, TRUE, TRUE, FALSE),
     Chunk("index", Email, TRUE, FALSE, FALSE) >> >>

DownFilesOf == [v \in {1, 3} |->
  IF v = 1 THEN << Chunk("index", Auto, FALSE, TRUE, TRUE),
                   Chunk("index", Order, FALSE, TRUE, FALSE),
                   Chunk("column", Duration, FALSE, TRUE, TRUE) >>
  ELSE << Chunk("table", Contacts, FALSE, TRUE, FALSE),
          Chunk("column", Note, FALSE, TRUE, FALSE) >>]

AllTables == {"tours", "scenes", "contacts"}

ModelItems == {Whole("tours"), Whole("scenes"), Duration}
=============================================================================
