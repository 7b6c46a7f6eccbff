------------------------------ MODULE Migrations ------------------------------
(***************************************************************************)
(* How the tables come to be: the program init_db, which runs the schema,  *)
(* the migrations that are not recorded yet and the sample data, and the   *)
(* server, which runs schema and sample data on an empty database.         *)
(*                                                                         *)
(* A script is the sequence of its commits: a statement, or a whole        *)
(* transaction.  The database is the set of things (tables, columns,       *)
(* indexes, rows) that are there.  A program may end between any two       *)
(* commits, and any statement may fail because another program holds the   *)
(* database.  Of the two programs only one sets up at a time.              *)
(***************************************************************************)
EXTENDS Naturals, Sequences

CONSTANTS
  Schema,       (* schema.sql                                              *)
  Migration,    (* the files of the directory, in the order of their names *)
  Sample        (* sample_data.sql                                         *)

Commit(Thing) ==
  [needs : SUBSET Thing, unless : SUBSET Thing, gives : SUBSET Thing, drops : SUBSET Thing]

N == Len(Migration)

(* What a program runs, in order: schema, migrations, sample data.         *)
Script == [i \in 0..N + 1 |-> IF i = 0 THEN Schema ELSE IF i <= N THEN Migration[i] ELSE Sample]

Migrations == 1..N

(* What the first k commits of script i give, and what they drop.          *)
Given(i, k) == UNION {Script[i][l].gives : l \in 1..k}

Dropped(i, k) == UNION {Script[i][l].drops : l \in 1..k}

Gives(i) == Given(i, Len(Script[i]))

Drops(i) == Dropped(i, Len(Script[i]))

(* The same of the migrations before i and its own first k commits.        *)
GivenUpTo(i, k) == (UNION {Gives(j) : j \in 1..i - 1}) \cup Given(i, k)

DroppedUpTo(i, k) == (UNION {Drops(j) : j \in 1..i - 1}) \cup Dropped(i, k)

ASSUME ScriptAssumption ==
  LET Things == UNION {Gives(i) : i \in 0..N + 1}
  IN  /\ Schema \in Seq(Commit(Things)) /\ Schema # <<>>
      /\ Sample \in Seq(Commit(Things)) /\ Sample # <<>>
      /\ Migration \in Seq(Seq(Commit(Things)) \ {<<>>})

(* What a commit finds when the scripts before it have run: no script      *)
(* drops what a migration gives, nothing of a migration is there before    *)
(* it, and what it needs comes from the schema, if no migration up to it   *)
(* drops that, from an earlier migration or from the migration itself.     *)
ASSUME OrderAssumption ==
  /\ \A i \in Migrations, j \in 0..N + 1 : Drops(j) \cap Gives(i) = {}
  /\ Drops(0) \cap Gives(0) = {}
  /\ \A i \in Migrations : \A k \in 1..Len(Script[i]) :
       /\ Script[i][k].unless
            \cap (Gives(0) \cup Gives(N + 1) \cup GivenUpTo(i, k - 1)) = {}
       /\ Script[i][k].needs
            \subseteq (Gives(0) \ DroppedUpTo(i, k - 1)) \cup GivenUpTo(i, k - 1)

VARIABLES
  db,         (* the things that are there                                 *)
  recorded,   (* the rows of table migrations                              *)
  program,    (* which program sets up: "none", "init_db" or "server"      *)
  at,         (* the script it has come to                                 *)
  stage,      (* "check": is it recorded?  "exec": it runs                 *)
  done,       (* number of the script's commits that are done              *)
  refused,    (* history: migrations refused for what is there             *)
  cut         (* history: scripts left part way, or run and not recorded,
                 or recorded and not run, or run though recorded           *)

vars == <<db, recorded, program, at, stage, done, refused, cut>>

Init ==
  /\ db = {} /\ recorded = {}
  /\ program = "none" /\ at = 0 /\ stage = "exec" /\ done = 0
  /\ refused = {} /\ cut = {}

----------------------------------------------------------------------------

(* To script i; only migrations are checked.                               *)
GoesTo(i) ==
  /\ at' = i /\ done' = 0
  /\ stage' = IF i \in Migrations THEN "check" ELSE "exec"
  /\ UNCHANGED program

Stops == program' = "none" /\ at' = 0 /\ stage' = "exec" /\ done' = 0

(* init_db's main, and the server's when its database is empty.            *)
Starts ==
  /\ program = "none"
  /\ program' = "init_db" \/ (db = {} /\ program' = "server")
  /\ UNCHANGED <<db, recorded, at, stage, done, refused, cut>>

(* The script has failed: the server does not look at that.                *)
GivesUp == IF program = "server" /\ at = 0 THEN GoesTo(N + 1) ELSE Stops

(* Done in part, or wholly and not recorded.                               *)
IsCut == IF at = N + 1 THEN done \in 1..Len(Sample) - 1 ELSE at # 0 /\ done # 0

Leaves == cut' = IF IsCut THEN cut \cup {at} ELSE cut

----------------------------------------------------------------------------
(* applyMigrations: is the migration recorded?                             *)

Checks == program # "none" /\ stage = "check"

(* Wrong: nobody looks.                                                    *)
neverApplied == FALSE

alreadyApplied == at \in recorded

Skip ==
  /\ Checks /\ alreadyApplied
  /\ GoesTo(at + 1)
  /\ UNCHANGED <<db, recorded, refused, cut>>

Apply ==
  /\ Checks /\ ~alreadyApplied
  /\ stage' = "exec"
  /\ UNCHANGED <<db, recorded, program, at, done, refused, cut>>

(* The file cannot be read: the empty script that is run does not fail.    *)
ApplyUnread ==
  /\ Checks /\ ~alreadyApplied
  /\ stage' = "exec" /\ done' = Len(Script[at])
  /\ cut' = cut \cup {at}
  /\ UNCHANGED <<db, recorded, program, at, refused>>

(* The query fails, which reads as no.                                     *)
ApplyUnchecked ==
  /\ Checks /\ alreadyApplied
  /\ stage' = "exec"
  /\ cut' = cut \cup {at}
  /\ UNCHANGED <<db, recorded, program, at, done, refused>>

----------------------------------------------------------------------------
(* sqlite3_exec, commit by commit.                                         *)

Runs == program # "none" /\ stage = "exec" /\ done < Len(Script[at])

NextCommit == Script[at][done + 1]

Works(c) == c.needs \subseteq db /\ c.unless \cap db = {}

execute ==
  /\ Runs /\ Works(NextCommit)
  /\ db' = (db \ NextCommit.drops) \cup NextCommit.gives
  /\ done' = done + 1
  /\ UNCHANGED <<recorded, program, at, stage, refused, cut>>

Refuses ==
  /\ Runs /\ ~Works(NextCommit)
  /\ refused' = IF at \in Migrations THEN refused \cup {at} ELSE refused
  /\ GivesUp /\ Leaves
  /\ UNCHANGED <<db, recorded>>

(* schema.sql and sample_data.sql may be missing too.                      *)
IsBusy ==
  /\ Runs
  /\ GivesUp /\ Leaves
  /\ UNCHANGED <<db, recorded, refused>>

Ran == program # "none" /\ stage = "exec" /\ done = Len(Script[at])

initSchemaFromFile ==
  /\ Ran /\ at = 0
  /\ GoesTo(IF program = "server" THEN N + 1 ELSE 1)
  /\ UNCHANGED <<db, recorded, refused, cut>>

(* A statement of its own, which refuses a name that is there.             *)
Record ==
  /\ Ran /\ at \in Migrations \ recorded
  /\ recorded' = recorded \cup {at}
  /\ GoesTo(at + 1)
  /\ UNCHANGED <<db, refused, cut>>

RecordRefused ==
  /\ Ran /\ at \in recorded
  /\ Stops
  /\ refused' = refused \cup {at}
  /\ UNCHANGED <<db, recorded, cut>>

RecordFails ==
  /\ Ran /\ at \in Migrations
  /\ Stops /\ Leaves
  /\ UNCHANGED <<db, recorded, refused>>

loadSampleDataFromFile ==
  /\ Ran /\ at = N + 1
  /\ Stops
  /\ UNCHANGED <<db, recorded, refused, cut>>

Crash ==
  /\ program # "none"
  /\ Stops /\ Leaves
  /\ UNCHANGED <<db, recorded, refused>>

Next ==
  \/ Starts \/ Skip \/ Apply \/ ApplyUnread \/ ApplyUnchecked
  \/ execute \/ Refuses \/ IsBusy \/ initSchemaFromFile
  \/ Record \/ RecordRefused \/ RecordFails \/ loadSampleDataFromFile \/ Crash

Spec == Init /\ [][Next]_vars

----------------------------------------------------------------------------
(* Properties.                                                             *)

(* However often init_db and the server are started, ended or find the     *)
(* database busy, a migration is refused only if it or an earlier one was  *)
(* cut; and when the migrations are through, they are all recorded, and    *)
(* what those that were not cut give is there (applyMigrations).           *)
WholeUnlessCut ==
  /\ \A i \in refused : \E j \in cut : j <= i
  /\ program = "init_db" /\ at = N + 1
       => /\ recorded = Migrations
          /\ \A i \in Migrations \ cut : Gives(i) \subseteq db
=============================================================================
