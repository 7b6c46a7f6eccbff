-------------------------- MODULE Migrations_proofs --------------------------
(***************************************************************************)
(* What init_db leaves of the migrations, for every sequence of scripts    *)
(* that fit one another (OrderAssumption; TLC evaluates it on those of the *)
(* repository).                                                            *)
(*                                                                         *)
(* The invariant says of a migration that was not cut, nor any before it:  *)
(* until it is recorded nothing of it or of a later one is there           *)
(* (NothingTooEarly), so none of its commits finds its own things in the   *)
(* way; and what the schema and the recorded migrations give stays, until  *)
(* a migration on the way drops it (NothingLost), so every commit finds    *)
(* what it needs.                                                          *)
(***************************************************************************)
EXTENDS Migrations, TLAPS

TypeOK ==
  /\ recorded \subseteq Migrations
  /\ program \in {"none", "init_db", "server"}
  /\ at \in 0..N + 1
  /\ stage \in {"check", "exec"}
  /\ done \in 0..Len(Script[at])
  /\ refused \subseteq Migrations
  /\ cut \subseteq 1..N + 1

(* Where a program can be.                                                 *)
Control ==
  /\ program = "none" => at = 0 /\ stage = "exec" /\ done = 0
  /\ at \in Migrations => program = "init_db"
  /\ stage = "check" => at \in Migrations /\ done = 0
  /\ stage = "exec" /\ at \in recorded => at \in cut

(* init_db has all migrations behind it recorded, and any recorded         *)
(* migration has all before it recorded.                                   *)
InOrder ==
  /\ program = "init_db" => \A i \in Migrations : i < at => i \in recorded
  /\ \A i \in recorded : \A j \in Migrations : j < i => j \in recorded

(* Neither i nor a script before it was cut.                               *)
Uncut(i) == \A j \in cut : i < j

(* What i and the migrations before it have done in this run.              *)
Progress(i) == IF at = i /\ stage = "exec" THEN done ELSE 0

(* A migration that is not recorded has left nothing, its own run excepted. *)
NothingTooEarly ==
  \A i \in Migrations \ recorded : Uncut(i) =>
    db \subseteq Gives(0) \cup Gives(N + 1) \cup GivenUpTo(i, Progress(i))

NothingLost ==
  /\ \A i \in recorded \ cut : Gives(i) \subseteq db
  /\ at \in Migrations \ cut => Given(at, Progress(at)) \subseteq db
  /\ program # "none" /\ at = 0 => Given(0, done) \subseteq db
  /\ at \in Migrations => Gives(0) \ DroppedUpTo(at, Progress(at)) \subseteq db

RefusedOnlyIfCut == \A i \in refused : ~Uncut(i)

IInv ==
  /\ TypeOK
  /\ Control
  /\ InOrder
  /\ NothingTooEarly
  /\ NothingLost
  /\ RefusedOnlyIfCut

----------------------------------------------------------------------------
(* The scripts.                                                            *)
LEMMA ScriptFacts ==
  /\ N \in Nat
  /\ \A i \in 0..N + 1 : Len(Script[i]) \in Nat \ {0}
  /\ Script[N + 1] = Sample
  <1>1. N \in Nat /\ \A i \in 1..N : Len(Migration[i]) \in Nat \ {0}
    <2>1. PICK C : Migration \in Seq(Seq(C) \ {<<>>})
      BY ScriptAssumption
    <2>2. PICK T : T = Seq(C) \ {<<>>}
      OBVIOUS
    <2>3. \A s \in T : Len(s) \in Nat \ {0}
      BY <2>2
    <2>4. N \in Nat /\ \A i \in 1..N : Migration[i] \in T
      BY <2>1, <2>2 DEF N
    <2>5. QED
      BY <2>3, <2>4
  <1>2. Len(Schema) \in Nat \ {0} /\ Len(Sample) \in Nat \ {0}
    BY ScriptAssumption
  <1>3. Script[N + 1] = Sample
    BY <1>1 DEF Script
  <1>4. ASSUME NEW i \in 0..N + 1 PROVE Len(Script[i]) \in Nat \ {0}
    BY <1>1, <1>2, <1>4 DEF Script
  <1>5. QED
    BY <1>1, <1>3, <1>4

(* What the commits give and drop, one by one.                             *)
LEMMA GivenFacts ==
  ASSUME NEW i
  PROVE  /\ Given(i, 0) = {}
         /\ Dropped(i, 0) = {}
         /\ \A k \in Nat : Given(i, k + 1) = Given(i, k) \cup Script[i][k + 1].gives
         /\ \A k \in Nat : Dropped(i, k + 1) = Dropped(i, k) \cup Script[i][k + 1].drops
  <1>1. Given(i, 0) = {} /\ Dropped(i, 0) = {}
    BY DEF Given, Dropped
  <1>2. ASSUME NEW k \in Nat
        PROVE  /\ Given(i, k + 1) = Given(i, k) \cup Script[i][k + 1].gives
               /\ Dropped(i, k + 1) = Dropped(i, k) \cup Script[i][k + 1].drops
    <2>1. 1..k + 1 = 1..k \cup {k + 1}
      OBVIOUS
    <2>2. QED
      BY <2>1 DEF Given, Dropped
  <1>3. QED
    BY <1>1, <1>2

(* The first commits of a script are part of it.                           *)
LEMMA PartOfScript ==
  ASSUME NEW i \in 0..N + 1, NEW k \in 0..Len(Script[i])
  PROVE  Given(i, k) \subseteq Gives(i) /\ Dropped(i, k) \subseteq Drops(i)
  <1>1. 1..k \subseteq 1..Len(Script[i])
    BY ScriptFacts
  <1>2. QED
    BY <1>1 DEF Given, Dropped, Gives, Drops

(* Before anything has run.                                                *)
LEMMA InitIInv == Init => IInv
  <1> SUFFICES ASSUME Init PROVE IInv
    OBVIOUS
  <1>1. TypeOK
    BY ScriptFacts DEF Init, TypeOK
  <1>2. Control
    BY DEF Init, Control, Migrations
  <1>3. InOrder /\ RefusedOnlyIfCut
    BY DEF Init, InOrder, RefusedOnlyIfCut
  <1>4. NothingTooEarly
    BY DEF Init, NothingTooEarly
  <1>5. NothingLost
    BY GivenFacts DEF Init, NothingLost, Migrations
  <1>6. QED
    BY <1>1, <1>2, <1>3, <1>4, <1>5 DEF IInv

----------------------------------------------------------------------------
(* A program ends, wherever it is: a migration that had begun is cut, and  *)
(* one that had not has left nothing.                                      *)
LEMMA StopStep ==
  ASSUME IInv, Stops, Leaves, db' = db, recorded' = recorded,
         refused' \subseteq Migrations, RefusedOnlyIfCut'
  PROVE  IInv'
  <1>1. cut' \subseteq 1..N + 1 /\ cut \subseteq cut'
    BY ScriptFacts DEF IInv, TypeOK, Leaves, IsCut
  <1>2. at' = 0 /\ done' = 0 /\ stage' = "exec" /\ program' = "none"
    BY DEF Stops
  <1>3. TypeOK'
    BY <1>1, <1>2, ScriptFacts DEF IInv, TypeOK
  <1>4. Control'
    BY <1>2 DEF IInv, TypeOK, Control, Migrations
  <1>5. InOrder'
    BY <1>2 DEF IInv, InOrder
  <1>6. NothingTooEarly'
    <2> SUFFICES ASSUME NEW i \in Migrations \ recorded, Uncut(i)'
                 PROVE  db \subseteq Gives(0) \cup Gives(N + 1)
                                       \cup GivenUpTo(i, Progress(i)')
      BY DEF NothingTooEarly
    <2>1. Uncut(i) /\ i \notin cut'
      BY <1>1, ScriptFacts DEF Uncut, Migrations
    <2>2. Progress(i) = 0
      BY <2>1, ScriptFacts DEF Leaves, IsCut, Progress, Migrations
    <2>3. Progress(i)' = 0
      BY <1>2 DEF Progress, Migrations
    <2>4. QED
      BY <2>1, <2>2, <2>3 DEF IInv, NothingTooEarly
  <1>7. NothingLost'
    <2>1. at' \notin Migrations /\ ~(program' # "none")
      BY <1>2 DEF Migrations
    <2>2. \A i \in recorded' \ cut' : Gives(i) \subseteq db'
      BY <1>1 DEF IInv, NothingLost
    <2>3. QED
      BY <2>1, <2>2 DEF NothingLost
  <1>8. QED
    BY <1>3, <1>4, <1>5, <1>6, <1>7 DEF IInv

(* A program goes on to script j.                                          *)
LEMMA GoStep ==
  ASSUME IInv, NEW j \in 1..N + 1, GoesTo(j), program # "none",
         db' = db, cut' = cut, refused' = refused,
         recorded \subseteq recorded', recorded' \subseteq Migrations, InOrder',
         j \in Migrations =>
           program = "init_db" /\ Gives(0) \ DroppedUpTo(j, 0) \subseteq db,
         \A i \in recorded' \ recorded : i \notin cut => Gives(i) \subseteq db,
         at \in recorded' \/ at \notin Migrations
  PROVE  IInv'
  <1>1. at' = j /\ done' = 0 /\ program' = program
        /\ stage' = IF j \in Migrations THEN "check" ELSE "exec"
    BY DEF GoesTo
  <1>2. N \in Nat /\ j \in 0..N + 1 /\ j # 0
    BY ScriptFacts
  <1>3. TypeOK'
    <2>1. 0 \in 0..Len(Script[j])
      BY <1>2, ScriptFacts
    <2>2. QED
      BY <1>1, <1>2, <2>1 DEF IInv, TypeOK
  <1>4. Control'
    BY <1>1 DEF IInv, TypeOK, Control
  <1>5. NothingTooEarly'
    <2> SUFFICES ASSUME NEW i \in Migrations \ recorded', Uncut(i)
                 PROVE  db \subseteq Gives(0) \cup Gives(N + 1)
                                       \cup GivenUpTo(i, Progress(i)')
      BY DEF NothingTooEarly, Uncut
    <2>1. Progress(i) = 0 /\ Progress(i)' = 0
      BY <1>1 DEF Progress
    <2>2. QED
      BY <2>1 DEF IInv, NothingTooEarly
  <1>6. NothingLost'
    <2>1. \A i \in recorded' \ cut : Gives(i) \subseteq db
      BY DEF IInv, NothingLost
    <2>2. Progress(at)' = 0
      BY <1>1 DEF Progress
    <2>3. Given(j, 0) = {}
      BY GivenFacts
    <2>4. Given(at', Progress(at)') = {} /\ DroppedUpTo(at', Progress(at)') = DroppedUpTo(j, 0)
      BY <1>1, <2>2, <2>3
    <2>5. QED
      BY <1>1, <1>2, <2>1, <2>4 DEF NothingLost
  <1>7. RefusedOnlyIfCut'
    BY DEF IInv, RefusedOnlyIfCut, Uncut
  <1>8. QED
    BY <1>3, <1>4, <1>5, <1>6, <1>7 DEF IInv

----------------------------------------------------------------------------
(* The next commit of a script that runs.                                  *)
LEMMA NextCommitFacts ==
  ASSUME IInv, Runs
  PROVE  /\ done \in Nat /\ done + 1 \in 1..Len(Script[at]) /\ (done + 1) - 1 = done
         /\ Given(at, done + 1) = Given(at, done) \cup NextCommit.gives
         /\ Dropped(at, done + 1) = Dropped(at, done) \cup NextCommit.drops
         /\ Given(at, done + 1) \subseteq Gives(at)
         /\ Dropped(at, done + 1) \subseteq Drops(at)
  <1>1. at \in 0..N + 1 /\ Len(Script[at]) \in Nat /\ done \in 0..Len(Script[at])
    BY ScriptFacts DEF IInv, TypeOK
  <1>2. done \in Nat /\ done + 1 \in 1..Len(Script[at]) /\ done + 1 \in 0..Len(Script[at])
        /\ (done + 1) - 1 = done
    BY <1>1 DEF Runs
  <1>3. /\ Given(at, done + 1) = Given(at, done) \cup NextCommit.gives
        /\ Dropped(at, done + 1) = Dropped(at, done) \cup NextCommit.drops
    BY <1>2, GivenFacts DEF NextCommit
  <1>4. QED
    BY <1>1, <1>2, <1>3, PartOfScript

(* As long as nothing was cut, every commit of a migration works.          *)
LEMMA CommitWorks ==
  ASSUME IInv, Runs, at \in Migrations, Uncut(at)
  PROVE  Works(NextCommit)
  <1>1. at \notin cut /\ at \notin recorded /\ program = "init_db" /\ Progress(at) = done
    BY ScriptFacts DEF IInv, TypeOK, Control, Runs, Uncut, Migrations, Progress
  <1>2. /\ done + 1 \in 1..Len(Script[at]) /\ (done + 1) - 1 = done
        /\ Given(at, done) \subseteq db
    BY <1>1, NextCommitFacts DEF IInv, NothingLost
  <1>3. /\ NextCommit.unless \cap (Gives(0) \cup Gives(N + 1) \cup GivenUpTo(at, done)) = {}
        /\ NextCommit.needs \subseteq
             (Gives(0) \ DroppedUpTo(at, done)) \cup GivenUpTo(at, done)
    BY <1>2, OrderAssumption DEF NextCommit
  <1>4. NextCommit.unless \cap db = {}
    BY <1>1, <1>3 DEF IInv, NothingTooEarly
  <1>5. Gives(0) \ DroppedUpTo(at, done) \subseteq db
    BY <1>1 DEF IInv, NothingLost
  <1>6. GivenUpTo(at, done) \subseteq db
    <2>1. ASSUME NEW j \in 1..at - 1 PROVE Gives(j) \subseteq db
      <3>1. j \in Migrations /\ j < at /\ j < N + 1
        BY ScriptFacts DEF Migrations
      <3>2. j \in recorded
        BY <1>1, <3>1 DEF IInv, InOrder
      <3>3. j \notin cut
        BY <3>1, ScriptFacts DEF Uncut, Migrations
      <3>4. QED
        BY <3>2, <3>3 DEF IInv, NothingLost
    <2>2. QED
      BY <1>2, <2>1 DEF GivenUpTo
  <1>7. QED
    BY <1>3, <1>4, <1>5, <1>6 DEF Works

(* A commit of the schema, of a migration or of the sample data.           *)
LEMMA ExecuteStep ==
  ASSUME IInv, execute
  PROVE  IInv'
  <1> DEFINE gives == NextCommit.gives
             drops == NextCommit.drops
  <1>1. /\ Runs /\ db' = (db \ drops) \cup gives /\ done' = done + 1
        /\ recorded' = recorded /\ program' = program /\ at' = at /\ stage' = stage
        /\ refused' = refused /\ cut' = cut
        /\ stage = "exec" /\ program # "none"
    BY DEF execute, Runs
  <1>2. /\ done \in Nat /\ done + 1 \in 1..Len(Script[at])
        /\ Given(at, done + 1) = Given(at, done) \cup gives
        /\ Dropped(at, done + 1) = Dropped(at, done) \cup drops
        /\ Given(at, done + 1) \subseteq Gives(at)
        /\ Dropped(at, done + 1) \subseteq Drops(at)
    BY <1>1, NextCommitFacts
  <1>3. N \in Nat /\ at \in 0..N + 1 /\ (at \in Migrations => program = "init_db")
    BY ScriptFacts DEF IInv, TypeOK, Control
  <1>4. drops \subseteq Drops(at) /\ gives \subseteq Gives(at)
    BY <1>2
  <1> HIDE DEF gives, drops
  <1>5. \A i \in Migrations : drops \cap Gives(i) = {}
    BY <1>3, <1>4, OrderAssumption
  <1>6. TypeOK'
    BY <1>1, <1>2, <1>3 DEF IInv, TypeOK
  <1>7. Control'
    BY <1>1 DEF IInv, Control
  <1>8. InOrder' /\ RefusedOnlyIfCut'
    BY <1>1 DEF IInv, InOrder, RefusedOnlyIfCut, Uncut
  <1>9. NothingTooEarly'
    <2> SUFFICES ASSUME NEW i \in Migrations \ recorded, Uncut(i)
                 PROVE  db' \subseteq Gives(0) \cup Gives(N + 1)
                                        \cup GivenUpTo(i, Progress(i)')
      BY <1>1 DEF NothingTooEarly, Uncut
    <2>1. db \subseteq Gives(0) \cup Gives(N + 1) \cup GivenUpTo(i, Progress(i))
      BY DEF IInv, NothingTooEarly
    <2>2. CASE at = i
      <3>1. Progress(i) = done /\ Progress(i)' = done + 1
        BY <1>1, <2>2 DEF Progress
      <3>2. GivenUpTo(i, done + 1) = GivenUpTo(i, done) \cup gives
        BY <1>2, <2>2 DEF GivenUpTo
      <3>3. QED
        BY <1>1, <2>1, <3>1, <3>2
    <2>3. CASE at # i
      <3>1. Progress(i) = 0 /\ Progress(i)' = 0
        BY <1>1, <2>3 DEF Progress
      <3>2. at \in Migrations => at < i
        BY <1>3, <2>3 DEF IInv, InOrder, Migrations
      <3>3. at = 0 \/ at = N + 1 \/ at \in 1..i - 1
        BY <1>3, <3>2 DEF Migrations
      <3>4. gives \subseteq Gives(0) \cup Gives(N + 1) \cup GivenUpTo(i, 0)
        BY <1>4, <3>3 DEF GivenUpTo
      <3>5. QED
        BY <1>1, <2>1, <3>1, <3>4
    <2>4. QED
      BY <2>2, <2>3
  <1>10. NothingLost'
    <2>1. \A i \in recorded \ cut : Gives(i) \subseteq db'
      <3>1. ASSUME NEW i \in recorded \ cut PROVE Gives(i) \subseteq db'
        <4>1. i \in Migrations /\ Gives(i) \subseteq db
          BY DEF IInv, TypeOK, NothingLost
        <4>2. QED
          BY <1>1, <1>5, <4>1
      <3>2. QED
        BY <3>1
    <2>2. Progress(at) = done /\ Progress(at)' = done + 1
      BY <1>1 DEF Progress
    <2>3. ASSUME at \in Migrations \ cut PROVE Given(at, done + 1) \subseteq db'
      <3>1. Given(at, done) \subseteq db
        BY <2>2, <2>3 DEF IInv, NothingLost
      <3>2. drops \cap Given(at, done) = {}
        BY <1>2, <1>5, <2>3
      <3>3. QED
        BY <1>1, <1>2, <3>1, <3>2
    <2>4. ASSUME at = 0 PROVE Given(0, done + 1) \subseteq db'
      <3>1. Given(0, done) \subseteq db
        BY <1>1, <2>4 DEF IInv, NothingLost
      <3>2. drops \cap Given(0, done) = {}
        BY <1>2, <1>4, <2>4, OrderAssumption
      <3>3. QED
        BY <1>1, <1>2, <2>4, <3>1, <3>2
    <2>5. ASSUME at \in Migrations
          PROVE  Gives(0) \ DroppedUpTo(at, done + 1) \subseteq db'
      <3>1. Gives(0) \ DroppedUpTo(at, done) \subseteq db
        BY <2>2, <2>5 DEF IInv, NothingLost
      <3>2. DroppedUpTo(at, done + 1) = DroppedUpTo(at, done) \cup drops
        BY <1>2 DEF DroppedUpTo
      <3>3. QED
        BY <1>1, <3>1, <3>2
    <2>6. QED
      BY <1>1, <2>1, <2>2, <2>3, <2>4, <2>5 DEF NothingLost
  <1>11. QED
    BY <1>6, <1>7, <1>8, <1>9, <1>10 DEF IInv

----------------------------------------------------------------------------
(* After a script that failed.                                             *)
LEMMA GiveUpStep ==
  ASSUME IInv, program # "none", stage = "exec", GivesUp, Leaves,
         db' = db, recorded' = recorded,
         \/ refused' = refused
         \/ at \in Migrations /\ ~Uncut(at) /\ refused' = refused \cup {at}
  PROVE  IInv'
  <1>1. cut \subseteq cut'
    BY DEF Leaves
  <1>2. RefusedOnlyIfCut'
    BY <1>1 DEF IInv, RefusedOnlyIfCut, Uncut
  <1>3. refused' \subseteq Migrations
    BY DEF IInv, TypeOK
  <1>4. CASE Stops
    BY <1>2, <1>3, <1>4, StopStep
  <1>5. CASE program = "server" /\ at = 0 /\ GoesTo(N + 1)
    <2>1. N \in Nat /\ N + 1 \in 1..N + 1 /\ N + 1 \notin Migrations /\ at \notin Migrations
      BY <1>5, ScriptFacts DEF Migrations
    <2>2. cut' = cut /\ refused' = refused
      BY <1>5, <2>1 DEF Leaves, IsCut
    <2>3. InOrder'
      BY <1>5 DEF IInv, InOrder, GoesTo
    <2>4. recorded' \subseteq Migrations
      BY DEF IInv, TypeOK
    <2>5. QED
      BY <1>5, <2>1, <2>2, <2>3, <2>4, GoStep
  <1>6. QED
    BY <1>4, <1>5 DEF GivesUp

(* A migration that is refused, or an earlier one, was cut.                *)
LEMMA RefusesStep ==
  ASSUME IInv, Refuses
  PROVE  IInv'
  <1>1. /\ program # "none" /\ stage = "exec" /\ GivesUp /\ Leaves
        /\ db' = db /\ recorded' = recorded
    BY DEF Refuses, Runs
  <1>2. at \in Migrations => ~Uncut(at)
    BY CommitWorks DEF Refuses
  <1>3. \/ refused' = refused
        \/ at \in Migrations /\ ~Uncut(at) /\ refused' = refused \cup {at}
    BY <1>2 DEF Refuses
  <1>4. QED
    BY <1>1, <1>3, GiveUpStep

(* The schema has run: what it gives is there.                             *)
LEMMA SchemaStep ==
  ASSUME IInv, initSchemaFromFile
  PROVE  IInv'
  <1>1. /\ program # "none" /\ at = 0 /\ done = Len(Script[0])
        /\ GoesTo(IF program = "server" THEN N + 1 ELSE 1)
        /\ db' = db /\ recorded' = recorded /\ refused' = refused /\ cut' = cut
    BY DEF initSchemaFromFile, Ran
  <1>2. N \in Nat /\ at \notin Migrations /\ program \in {"init_db", "server"}
    BY <1>1, ScriptFacts DEF IInv, TypeOK, Migrations
  <1>3. Gives(0) \subseteq db
    BY <1>1 DEF IInv, NothingLost, Gives
  <1>4. PICK j \in 1..N + 1 : /\ GoesTo(j)
                              /\ j = IF program = "server" THEN N + 1 ELSE 1
    BY <1>1, <1>2
  <1>5. j \in Migrations => program = "init_db" /\ Gives(0) \ DroppedUpTo(j, 0) \subseteq db
    BY <1>2, <1>3, <1>4 DEF Migrations
  <1>6. InOrder'
    BY <1>1, <1>2, <1>4 DEF IInv, InOrder, GoesTo, Migrations
  <1>7. recorded' \subseteq Migrations
    BY <1>1 DEF IInv, TypeOK
  <1>8. QED
    BY <1>1, <1>2, <1>4, <1>5, <1>6, <1>7, GoStep

(* From migration i on to the next, once i is recorded.                    *)
LEMMA NextScript ==
  ASSUME IInv, at \in Migrations, GoesTo(at + 1),
         Gives(0) \ DroppedUpTo(at, Progress(at)) \subseteq db,
         Progress(at) \in 0..Len(Script[at]),
         recorded' = recorded \cup {at}, db' = db, cut' = cut, refused' = refused,
         at \notin recorded /\ at \notin cut => Gives(at) \subseteq db
  PROVE  IInv'
  <1>1. /\ N \in Nat /\ at \in 1..N /\ at + 1 \in 1..N + 1 /\ at \in 0..N + 1
        /\ program = "init_db" /\ (at + 1) - 1 = at
    BY ScriptFacts DEF IInv, Control, Migrations
  <1>2. Gives(0) \ DroppedUpTo(at + 1, 0) \subseteq db
    <2>1. Dropped(at, Progress(at)) \subseteq Drops(at)
      BY <1>1, PartOfScript
    <2>2. 1..at = 1..at - 1 \cup {at}
      BY <1>1
    <2>3. DroppedUpTo(at, Progress(at)) \subseteq DroppedUpTo(at + 1, 0)
      BY <1>1, <2>1, <2>2 DEF DroppedUpTo
    <2>4. QED
      BY <2>3
  <1>3. InOrder'
    <2>1. \A i \in Migrations : i < at => i \in recorded
      BY <1>1 DEF IInv, InOrder
    <2>2. \A i \in Migrations : i < at + 1 => i < at \/ i = at
      BY <1>1 DEF Migrations
    <2>3. at' = at + 1 /\ program' = program
      BY DEF GoesTo
    <2>4. \A i \in recorded' : \A j \in Migrations : j < i => j \in recorded'
      BY <2>1 DEF IInv, InOrder
    <2>5. QED
      BY <2>1, <2>2, <2>3, <2>4 DEF InOrder
  <1>4. recorded' \subseteq Migrations
    BY DEF IInv, TypeOK
  <1>5. PICK j \in 1..N + 1 : j = at + 1
    BY <1>1
  <1>6. j \in Migrations => program = "init_db" /\ Gives(0) \ DroppedUpTo(j, 0) \subseteq db
    BY <1>1, <1>2, <1>5
  <1>7. QED
    BY <1>1, <1>3, <1>4, <1>5, <1>6, GoStep

(* A recorded migration is passed over.                                    *)
LEMMA SkipStep ==
  ASSUME IInv, Skip
  PROVE  IInv'
  <1>1. at \in Migrations /\ at \in recorded /\ stage = "check" /\ done = 0
    BY DEF IInv, Control, Skip, Checks, alreadyApplied
  <1>2. Progress(at) = 0 /\ 0 \in 0..Len(Script[at])
    BY <1>1, ScriptFacts DEF Progress, Migrations
  <1>3. Gives(0) \ DroppedUpTo(at, Progress(at)) \subseteq db
    BY <1>1 DEF IInv, NothingLost
  <1>4. QED
    BY <1>1, <1>2, <1>3, NextScript DEF Skip

(* A migration that has run is recorded.                                   *)
LEMMA RecordStep ==
  ASSUME IInv, Record
  PROVE  IInv'
  <1>1. /\ at \in Migrations /\ stage = "exec" /\ done = Len(Script[at])
        /\ at \in 0..N + 1
    BY DEF IInv, TypeOK, Record, Ran
  <1>2. Progress(at) = Len(Script[at]) /\ Len(Script[at]) \in 0..Len(Script[at])
    BY <1>1, ScriptFacts DEF Progress
  <1>3. Gives(0) \ DroppedUpTo(at, Progress(at)) \subseteq db
    BY <1>1 DEF IInv, NothingLost
  <1>4. at \notin cut => Gives(at) \subseteq db
    BY <1>1, <1>2 DEF IInv, NothingLost, Gives
  <1>5. QED
    BY <1>1, <1>2, <1>3, <1>4, NextScript DEF Record

(* A recorded migration was run only because nobody could look.            *)
LEMMA RecordRefusedStep ==
  ASSUME IInv, RecordRefused
  PROVE  IInv'
  <1>1. at \in recorded /\ at \in cut /\ at \in Migrations /\ at \in 1..N /\ done # 0
    BY ScriptFacts DEF IInv, TypeOK, Control, RecordRefused, Ran, Migrations
  <1>2. ~Uncut(at)
    BY <1>1 DEF Uncut
  <1>3. Leaves
    BY <1>1 DEF Leaves, IsCut, RecordRefused
  <1>4. RefusedOnlyIfCut' /\ refused' \subseteq Migrations
    BY <1>1, <1>2 DEF IInv, TypeOK, RefusedOnlyIfCut, Uncut, RecordRefused
  <1>5. QED
    BY <1>3, <1>4, StopStep DEF RecordRefused

(* The other ways for a program to end.                                    *)
LEMMA EndStep ==
  ASSUME IInv, RecordFails \/ loadSampleDataFromFile \/ Crash
  PROVE  IInv'
  <1>1. Stops /\ db' = db /\ recorded' = recorded /\ refused' = refused
    BY DEF RecordFails, loadSampleDataFromFile, Crash
  <1>2. Leaves
    <2>1. CASE loadSampleDataFromFile
      <3>1. N \in Nat /\ at = N + 1 /\ done = Len(Sample) /\ Len(Sample) \in Nat
        BY <2>1, ScriptFacts DEF loadSampleDataFromFile, Ran
      <3>2. ~IsCut
        BY <3>1 DEF IsCut
      <3>3. QED
        BY <2>1, <3>2 DEF loadSampleDataFromFile, Leaves
    <2>2. QED
      BY <2>1 DEF RecordFails, Crash
  <1>3. RefusedOnlyIfCut' /\ refused' \subseteq Migrations
    BY <1>1, <1>2 DEF IInv, TypeOK, RefusedOnlyIfCut, Uncut, Leaves
  <1>4. QED
    BY <1>1, <1>2, <1>3, StopStep

(* The checks of applyMigrations: a script begins.                         *)
LEMMA BeginStep ==
  ASSUME IInv, Apply \/ ApplyUnread \/ ApplyUnchecked
  PROVE  IInv'
  <1>1. /\ at \in Migrations /\ at \in 0..N + 1 /\ done = 0 /\ stage = "check"
        /\ program = "init_db"
    BY DEF IInv, TypeOK, Control, Apply, ApplyUnread, ApplyUnchecked, Checks
  <1>2. /\ at' = at /\ program' = program /\ stage' = "exec" /\ db' = db
        /\ recorded' = recorded /\ refused' = refused
        /\ cut \subseteq cut' /\ cut' \subseteq cut \cup {at}
        /\ at \in recorded => at \in cut'
        /\ done' = 0 \/ (done' = Len(Script[at]) /\ at \in cut')
    BY <1>1 DEF Apply, ApplyUnread, ApplyUnchecked, alreadyApplied
  <1>3. N \in Nat /\ Len(Script[at]) \in Nat /\ at \in 1..N + 1 /\ at # 0
    BY <1>1, ScriptFacts DEF Migrations
  <1>4. TypeOK'
    <2>1. done' \in 0..Len(Script[at])
      BY <1>2, <1>3
    <2>2. QED
      BY <1>2, <1>3, <2>1 DEF IInv, TypeOK
  <1>5. Control'
    BY <1>1, <1>2 DEF IInv, Control
  <1>6. InOrder' /\ RefusedOnlyIfCut'
    BY <1>2 DEF IInv, InOrder, RefusedOnlyIfCut, Uncut
  <1>7. \A i : Progress(i) = 0
    BY <1>1 DEF Progress
  <1>8. at \notin cut' => done' = 0
    BY <1>2
  <1>9. NothingTooEarly'
    <2> SUFFICES ASSUME NEW i \in Migrations \ recorded, Uncut(i)'
                 PROVE  db \subseteq Gives(0) \cup Gives(N + 1)
                                       \cup GivenUpTo(i, Progress(i)')
      BY <1>2 DEF NothingTooEarly
    <2>1. Uncut(i)
      BY <1>2 DEF Uncut
    <2>2. i \notin cut'
      BY <1>3 DEF Uncut, Migrations
    <2>3. Progress(i)' = 0
      BY <1>2, <1>8, <2>2 DEF Progress
    <2>4. QED
      BY <1>7, <2>1, <2>3 DEF IInv, NothingTooEarly
  <1>10. NothingLost'
    <2>1. \A i \in recorded' \ cut' : Gives(i) \subseteq db
      BY <1>2 DEF IInv, NothingLost
    <2>2. at \notin cut' => Given(at, Progress(at)') \subseteq db
      BY <1>2, <1>8, GivenFacts DEF Progress
    <2>3. Gives(0) \ DroppedUpTo(at, Progress(at)') \subseteq db
      <3>1. Gives(0) \ DroppedUpTo(at, 0) \subseteq db
        BY <1>1, <1>7 DEF IInv, NothingLost
      <3>2. DroppedUpTo(at, 0) \subseteq DroppedUpTo(at, Progress(at)')
        BY GivenFacts DEF DroppedUpTo
      <3>3. QED
        BY <3>1, <3>2
    <2>4. Progress(at') = Progress(at)
      BY <1>2
    <2>5. QED
      BY <1>2, <1>3, <2>1, <2>2, <2>3 DEF NothingLost
  <1>11. QED
    BY <1>4, <1>5, <1>6, <1>9, <1>10 DEF IInv

(* A program starts with the schema.                                       *)
LEMMA StartsStep ==
  ASSUME IInv, Starts
  PROVE  IInv'
  <1>1. /\ at = 0 /\ done = 0 /\ stage = "exec"
        /\ program' \in {"init_db", "server"}
        /\ db' = db /\ recorded' = recorded /\ at' = at /\ stage' = stage
        /\ done' = done /\ refused' = refused /\ cut' = cut
    BY DEF IInv, Control, Starts
  <1>2. at \notin Migrations
    BY <1>1 DEF Migrations
  <1>3. TypeOK' /\ Control'
    BY <1>1, <1>2 DEF IInv, TypeOK, Control
  <1>4. InOrder'
    BY <1>1 DEF IInv, InOrder, Migrations
  <1>5. RefusedOnlyIfCut'
    BY <1>1 DEF IInv, RefusedOnlyIfCut, Uncut
  <1>6. NothingTooEarly'
    BY <1>1 DEF IInv, NothingTooEarly, Uncut, Progress
  <1>7. NothingLost'
    <2>1. Given(0, 0) = {}
      BY GivenFacts
    <2>2. QED
      BY <1>1, <1>2, <2>1 DEF IInv, NothingLost
  <1>8. QED
    BY <1>3, <1>4, <1>5, <1>6, <1>7 DEF IInv

(* Every step keeps the invariant.                                         *)
LEMMA NextIInv == IInv /\ [Next]_vars => IInv'
  <1> SUFFICES ASSUME IInv, [Next]_vars PROVE IInv'
    OBVIOUS
  <1>1. CASE IsBusy
    <2>1. /\ program # "none" /\ stage = "exec" /\ GivesUp /\ Leaves
          /\ db' = db /\ recorded' = recorded /\ refused' = refused
      BY <1>1 DEF IsBusy, Runs
    <2>2. QED
      BY <2>1, GiveUpStep
  <1>2. CASE UNCHANGED vars
    BY <1>2 DEF vars, IInv, TypeOK, Control, InOrder, NothingTooEarly, NothingLost,
       RefusedOnlyIfCut, Uncut, Progress
  <1>3. CASE Next
    BY <1>1, <1>3, StartsStep, SkipStep, BeginStep, ExecuteStep, RefusesStep, SchemaStep,
       RecordStep, RecordRefusedStep, EndStep DEF Next
  <1>4. QED
    BY <1>2, <1>3

(* The inductive invariant holds whatever the scripts, if they fit one     *)
(* another.                                                                *)
THEOREM Invariance == Spec => []IInv
  BY InitIInv, NextIInv, PTL DEF Spec

(* For every sequence of fitting scripts, however often init_db and the    *)
(* server are started, ended or find the database busy: a migration is     *)
(* refused only if it or an earlier one was cut, and when the migrations   *)
(* are through they are all recorded and what they gave is there           *)
(* (applyMigrations).                                                      *)
THEOREM MigrationsAreWhole == Spec => []WholeUnlessCut
  <1>1. IInv => WholeUnlessCut
    <2> SUFFICES ASSUME IInv PROVE WholeUnlessCut
      OBVIOUS
    <2>1. N \in Nat /\ cut \subseteq 1..N + 1 /\ refused \subseteq 1..N
      BY ScriptFacts DEF IInv, TypeOK, Migrations
    <2>2. ASSUME NEW i \in refused PROVE \E j \in cut : j <= i
      <3>1. PICK j \in cut : ~(i < j)
        BY DEF IInv, RefusedOnlyIfCut, Uncut
      <3>2. j <= i
        BY <2>1, <3>1
      <3>3. QED
        BY <3>2
    <2>3. ASSUME program = "init_db", at = N + 1 PROVE recorded = Migrations
      <3>1. \A i \in Migrations : i < at
        BY <2>1, <2>3 DEF Migrations
      <3>2. QED
        BY <2>3, <3>1 DEF IInv, TypeOK, InOrder
    <2>4. QED
      BY <2>2, <2>3 DEF IInv, NothingLost, WholeUnlessCut
  <1>2. QED
    BY <1>1, Invariance, PTL
=============================================================================
