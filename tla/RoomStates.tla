----------------------------- MODULE RoomStates -----------------------------
(***************************************************************************)
(* A SamLocGame as GameHandler sees it: who has a seat, who of them is     *)
(* disconnected, and whether a hand is running.  GameHandler erases a game *)
(* without seats; such a game and one just constructed are Fresh.          *)
(***************************************************************************)
EXTENDS Integers, FiniteSets

CONSTANT MaxPlayers  (* DBRoom::maxPlayers *)

Fresh == [seated |-> {}, gone |-> {}, phase |-> "WAITING"]

Connected(g) == g.seated \ g.gone

(* A join is let through to addPlayer.                                     *)
MayEnter(g) == Cardinality(g.seated) < MaxPlayers /\ g.phase = "WAITING"

WithPlayer(g, p) == [g EXCEPT !.seated = @ \cup {p}]

WithoutPlayer(g, p) ==
  IF g.seated \ {p} = {} THEN Fresh
  ELSE [g EXCEPT !.seated = @ \ {p}, !.gone = @ \ {p}]

(* A broken connection gives up the seat between hands; in a hand it keeps *)
(* it, and ends the hand when one connected player is left.                *)
WithoutConnection(g, p) ==
  IF g.phase # "PLAYING" THEN WithoutPlayer(g, p)
  ELSE IF p \notin Connected(g) THEN g
  ELSE IF Cardinality(Connected(g) \ {p}) = 1 THEN Fresh
  ELSE [g EXCEPT !.gone = @ \cup {p}]

MayStart(g) == g.phase = "WAITING" /\ Cardinality(g.seated) >= 2

Started(g) == [g EXCEPT !.phase = "PLAYING"]

(* handleWin: all seats are given up.                                      *)
Ended == [seated |-> {}, gone |-> {}, phase |-> "FINISHED"]

Reopened(g) == [g EXCEPT !.phase = "WAITING"]
=============================================================================
