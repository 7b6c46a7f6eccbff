----------------------------- MODULE MCMigrations -----------------------------
(***************************************************************************)
(* The scripts of the repository, each statement with what it needs and    *)
(* what it gives.  CREATE TABLE IF NOT EXISTS is refused by nothing; ADD   *)
(* COLUMN and CREATE INDEX are refused when theirs is there, the sample    *)
(* players when their names are.  What no migration tells apart is one     *)
(* thing: the tables of the schema but two, the indexes of a table, the    *)
(* sample rooms; so are one set of the wheel's rewards and two, which give *)
(* the same chances.                                                       *)
(***************************************************************************)
EXTENDS Migrations

create(t) == [needs |-> {}, unless |-> {}, gives |-> {t}, drops |-> {}]

add(t, c) == [needs |-> {t}, unless |-> {c}, gives |-> {c}, drops |-> {}]

insert(t, r) == [needs |-> {t}, unless |-> {}, gives |-> {r}, drops |-> {}]

schema == <<create("players"), create("chats"), create("migrations")>>

lucky_spin ==
  << create("rewards"), insert("rewards", "8 rewards"), create("spin history") >>

auth_and_challenges ==
  << add("players", "password_hash"), insert("password_hash", "hashes"),
     create("sessions"), add("sessions", "session indexes"),
     create("challenges"), add("challenges", "challenge indexes") >>

rename_chats ==
  << [needs |-> {"chats"}, unless |-> {"room_chats"},
      gives |-> {"room_chats", "private_chats"}, drops |-> {"chats"}] >>

add_status ==
  << [needs |-> {"room_chats", "private_chats"}, unless |-> {"status"},
      gives |-> {"status"}, drops |-> {}] >>

migrations == <<lucky_spin, auth_and_challenges, rename_chats, add_status>>

sample_data ==
  << add("players", "sample players"), insert("players", "rooms"), insert("players", "cards") >>
=============================================================================
