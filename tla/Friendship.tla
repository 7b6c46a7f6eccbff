------------------------------ MODULE Friendship -------------------------------
(***************************************************************************)
(* What the server promises about friendships, whatever the tables hold:   *)
(* a friendship is between two users, it begins between two users of whom  *)
(* one has asked the other, and it ends for both of them at once.          *)
(***************************************************************************)
CONSTANT User

VARIABLES
  asked,    (* pairs: the first has asked the second                       *)
  couples   (* sets of two users who are friends                           *)

vars == <<asked, couples>>

Init == asked = {} /\ couples = {}

Ask(s, r) ==
  /\ asked' = asked \cup {<<s, r>>}
  /\ UNCHANGED couples

Befriend(s, r) ==
  /\ <<s, r>> \in asked
  /\ couples' = couples \cup {{s, r}}
  /\ UNCHANGED asked

Part(s, r) ==
  /\ couples' = couples \ {{s, r}}
  /\ UNCHANGED asked

Next == \E s, r \in User : s # r /\ (Ask(s, r) \/ Befriend(s, r) \/ Part(s, r))

Spec == Init /\ [][Next]_vars
=============================================================================
