----------------------------- MODULE TurnOrder -----------------------------
(***************************************************************************)
(* What a room promises about turns, without cards, money or indices: who  *)
(* moves after whom and when a trick ends.  SamLocGame implements it.      *)
(*                                                                         *)
(* The turn goes round the ring of seats among the players who are still   *)
(* in the trick.  The trick ends when it reaches its owner again, who then *)
(* leads, or when nobody but the mover could go on; then the first         *)
(* connected seat leads.  While a hand runs a seat may be given up, and    *)
(* then nothing is promised about where the turn goes, except that it goes *)
(* on.                                                                     *)
(***************************************************************************)
EXTENDS Integers, Sequences, FiniteSets

CONSTANTS Player, NoPlayer, MaxPlayers

VARIABLES
  seats,     (* players round the table                                    *)
  playing,   (* is a hand running?                                         *)
  passed,    (* out of the running trick                                   *)
  gone,      (* disconnected during the hand                               *)
  turn,      (* whose turn it is; NoPlayer between hands or when lost      *)
  owner      (* who laid the combination on the table                      *)

turnOrderVars == <<seats, playing, passed, gone, turn, owner>>

Seated == {seats[i] : i \in 1..Len(seats)}

Init ==
  /\ seats = <<>> /\ playing = FALSE
  /\ passed = {} /\ gone = {}
  /\ turn = NoPlayer /\ owner = NoPlayer

Position(p) == CHOOSE i \in 1..Len(seats) : seats[i] = p

(* How many seats after p's does q sit?                                    *)
Distance(p, q) == (Position(q) - Position(p)) % Len(seats)

Nearest(p, S) == CHOOSE q \in S : \A r \in S : Distance(p, q) <= Distance(p, r)

FirstSeat(S) == CHOOSE q \in S : \A r \in S : Position(q) <= Position(r)

----------------------------------------------------------------------------
(* The room between hands.                                                 *)

Join(p) ==
  /\ ~playing
  /\ p \notin Seated
  /\ Len(seats) < MaxPlayers
  /\ seats' = Append(seats, p)
  /\ UNCHANGED <<playing, passed, gone, turn, owner>>

Deal ==
  /\ ~playing
  /\ Len(seats) >= 2
  /\ playing' = TRUE
  /\ turn' \in Seated
  /\ UNCHANGED <<seats, passed, gone, owner>>

(* The hand is over, or an empty room is dismantled.                       *)
Clear ==
  /\ seats' = <<>> /\ playing' = FALSE
  /\ passed' = {} /\ gone' = {}
  /\ turn' = NoPlayer /\ owner' = NoPlayer

(* A seat is given up and the others close ranks.                          *)
Leave(p) ==
  /\ p \in Seated
  /\ Seated # {p}
  /\ seats' = [k \in 1..(Len(seats) - 1) |->
                 IF k < Position(p) THEN seats[k] ELSE seats[k + 1]]
  /\ passed' = passed \ {p}
  /\ gone' = gone \ {p}
  /\ turn' \in IF playing THEN (Seated \ {p}) \cup {NoPlayer} ELSE {NoPlayer}
  /\ UNCHANGED <<playing, owner>>

----------------------------------------------------------------------------
(* Wrong: nobody is taken into the trick again.                            *)
AllStayOut(out, away) == out

(* Who is out of a trick that begins: the disconnected only.               *)
StillOut(out, away) == out \cap away

(* The turn goes on from p, with `out` passed, `away` disconnected and     *)
(* `own` owning the trick.                                                 *)
GoOn(p, out, away, own) ==
  LET others == Seated \ (out \cup away \cup {p})
      next   == Nearest(p, others)
  IN  \/ /\ others # {}
         /\ turn' = next
         /\ IF next = own
            THEN passed' = StillOut(out, away) /\ owner' = NoPlayer
            ELSE passed' = out /\ owner' = own
      \/ /\ others = {}
         /\ passed' = StillOut(out, away) /\ owner' = NoPlayer
         /\ turn' = IF Seated \subseteq away THEN p ELSE FirstSeat(Seated \ away)

(* A lost turn is picked up by anybody, in the same trick or a new one.    *)
PickUp(away) ==
  /\ turn' \in Seated
  /\ \/ passed' = passed /\ owner' = owner
     \/ passed' = StillOut(passed, away) /\ owner' = NoPlayer

Play ==
  /\ playing
  /\ turn # NoPlayer
  /\ GoOn(turn, passed, gone, turn)
  /\ UNCHANGED <<seats, playing, gone>>

Pass ==
  /\ playing
  /\ \/ turn # NoPlayer /\ GoOn(turn, passed \cup {turn}, gone, owner)
     \/ turn = NoPlayer /\ PickUp(gone)
  /\ UNCHANGED <<seats, playing, gone>>

(* A disconnected player keeps the seat, is out of the trick and, when on  *)
(* turn, passes.                                                           *)
Disconnect(p) ==
  /\ playing
  /\ p \in Seated \ gone
  /\ gone' = gone \cup {p}
  /\ \/ turn = p /\ GoOn(p, passed \cup {p}, gone', owner)
     \/ turn # p /\ passed' = passed \cup {p} /\ UNCHANGED <<turn, owner>>
     \/ /\ turn = NoPlayer
        /\ turn' \in Seated
        /\ \/ passed' = passed \cup {p} /\ owner' = owner
           \/ passed' = StillOut(passed \cup {p}, gone') /\ owner' = NoPlayer
  /\ UNCHANGED <<seats, playing>>

Next ==
  \/ \E p \in Player : Join(p) \/ Leave(p) \/ Disconnect(p)
  \/ Deal
  \/ Play
  \/ Pass
  \/ Clear

Spec == Init /\ [][Next]_turnOrderVars

(* Whoever is on turn is timed out in the end.                             *)
FairSpec == Spec /\ WF_turnOrderVars(Pass)

----------------------------------------------------------------------------
(* A connected player who keeps the seat is asked to move again and again  *)
(* until the hand ends: no sequence of plays, passes and timeouts shuts a  *)
(* player out (nextTurnIndex, update).                                     *)
EveryoneGetsTheTurn ==
  \A p \in Player :
    (playing /\ p \in Seated \ gone) ~>
      (turn = p \/ p \notin Seated \ gone \/ ~playing)
=============================================================================
