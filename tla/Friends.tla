------------------------------- MODULE Friends ---------------------------------
(***************************************************************************)
(* Friend requests and friendships on the server: the tables friend_requests *)
(* (of which only the pending rows are ever read for an effect) and        *)
(* friends, one row per direction.                                         *)
(*                                                                         *)
(* The server handles one message at a time; a handler is one action,      *)
(* except the acceptance, whose three statements are three actions,        *)
(* because the process may end between them.  Each statement may fail: a   *)
(* change is then not made and answered with an error, and a query finds   *)
(* fewer rows than there are, which nobody notices.                        *)
(***************************************************************************)
EXTENDS Naturals, FiniteSets

CONSTANTS
  User,    (* ids in table players                                         *)
  NoUser   (* a name nobody has; also: no acceptance is going on           *)

(* What the server knows of an acceptance between its statements.          *)
Acceptance == [receiver : User, sender : User, ok : BOOLEAN, inserted : {0, 1}]

ASSUME FriendsAssumption == IsFiniteSet(User) /\ NoUser \notin User \cup Acceptance

VARIABLES
  friends,    (* rows <<player_id, friend_id>>                             *)
  pending,    (* rows <<sender_id, receiver_id>> with status 'pending'     *)
  accepting,  (* the acceptance the server is in, or NoUser                *)
  asked,      (* history: requests ever inserted                           *)
  cut         (* history: pairs whose acceptance a crash has interrupted,  *)
              (* or one of whose missing rows an INSERT has failed to make *)

serverVars == <<friends, pending, accepting, asked, cut>>

ServerInit ==
  /\ friends = {} /\ pending = {} /\ accepting = NoUser
  /\ asked = {} /\ cut = {}

Idle == accepting = NoUser

areFriends(a, b) == <<a, b>> \in friends

hasPendingRequest(a, b) == <<a, b>> \in pending

getUserFriends(u) == {f \in User : <<u, f>> \in friends}

(* Wrong: the requests the user has sent.                                  *)
SentRequests(u) == {r \in User : <<u, r>> \in pending}

getPendingRequests(u) == {s \in User : <<s, u>> \in pending}

IsSelf(s, r) == s = r

(* What a query may say that finds something or not.                       *)
Reads(found) == {found, FALSE}

(* The checks of the logic, then those of the repository.  As three of the *)
(* four refuse by what they find, nobody can rely on them.                 *)
MayRequest(s, r) ==
  \E self \in Reads(IsSelf(s, r)), exists \in Reads(r # NoUser),
     known \in Reads(areFriends(s, r)), waiting \in Reads(hasPendingRequest(s, r)) :
    ~self /\ exists /\ ~known /\ ~waiting

(* The INSERT may fail as well.                                            *)
sendFriendRequest(s, r, ok) ==
  /\ Idle
  /\ ok => MayRequest(s, r)
  /\ pending' = IF ok THEN pending \cup {<<s, r>>} ELSE pending
  /\ asked' = IF ok THEN asked \cup {<<s, r>>} ELSE asked
  /\ UNCHANGED <<friends, accepting, cut>>

(* The UPDATE succeeds even when no request is pending.  Only when it      *)
(* fails are the INSERTs left out.                                         *)
acceptFriendRequest(r, s, ok) ==
  /\ Idle
  /\ pending' = IF ok THEN pending \ {<<s, r>>} ELSE pending
  /\ accepting' = IF ok THEN [receiver |-> r, sender |-> s, ok |-> TRUE, inserted |-> 0]
                  ELSE NoUser
  /\ UNCHANGED <<friends, asked, cut>>

(* An INSERT into table friends.  With the row present already it fails.   *)
InsertFriend(row) ==
  \/ /\ friends' = friends \cup {row}
     /\ UNCHANGED cut
  \/ /\ row \notin friends
     /\ cut' = cut \cup {{row[1], row[2]}}
     /\ UNCHANGED friends

(* Wrong: the same id bound twice.                                         *)
InsertSelf ==
  /\ ~Idle /\ accepting.inserted = 0
  /\ InsertFriend(<<accepting.receiver, accepting.receiver>>)
  /\ accepting' = [accepting EXCEPT !.inserted = 1, !.ok = friends' # friends]
  /\ UNCHANGED <<pending, asked>>

InsertForReceiver ==
  /\ ~Idle /\ accepting.inserted = 0
  /\ InsertFriend(<<accepting.receiver, accepting.sender>>)
  /\ accepting' = [accepting EXCEPT !.inserted = 1, !.ok = friends' # friends]
  /\ UNCHANGED <<pending, asked>>

(* The second INSERT is tried whatever became of the first.                *)
InsertForSender ==
  /\ ~Idle /\ accepting.inserted = 1
  /\ InsertFriend(<<accepting.sender, accepting.receiver>>)
  /\ accepting' = NoUser
  /\ UNCHANGED <<pending, asked>>

(* Success is reported when both INSERTs have made their row.              *)
AcceptedAnew == accepting.ok /\ friends' # friends

declineFriendRequest(r, s, ok) ==
  /\ Idle
  /\ pending' = IF ok THEN pending \ {<<s, r>>} ELSE pending
  /\ UNCHANGED <<friends, accepting, asked, cut>>

(* Wrong: one direction only.                                              *)
removeOneWay(u, f, ok) ==
  /\ Idle
  /\ friends' = IF ok THEN friends \ {<<u, f>>} ELSE friends
  /\ UNCHANGED <<pending, accepting, asked, cut>>

removeFriend(u, f, ok) ==
  /\ Idle
  /\ friends' = IF ok THEN friends \ {<<u, f>>, <<f, u>>} ELSE friends
  /\ UNCHANGED <<pending, accepting, asked, cut>>

(* The process ends and is started again.                                  *)
Restart ==
  /\ accepting' = NoUser
  /\ cut' = IF Idle THEN cut ELSE cut \cup {{accepting.sender, accepting.receiver}}
  /\ UNCHANGED <<friends, pending, asked>>

Couples == {{p[1], p[2]} : p \in friends}

AsFriendship == INSTANCE Friendship WITH couples <- Couples

----------------------------------------------------------------------------
(* Properties.                                                             *)

(* Between two messages a friendship has both rows, unless an acceptance   *)
(* between these two has met a crash or an INSERT that failed with the row *)
(* missing; nothing else makes half a friendship, no UPDATE, DELETE or     *)
(* query that fails, and no order of messages (acceptFriendRequest,        *)
(* removeFriend).                                                          *)
SymmetricUnlessCut ==
  Idle => \A p \in friends : <<p[2], p[1]>> \in friends \/ {p[1], p[2]} \in cut

(* Users become friends only after one has asked the other, and part on    *)
(* both sides at once; crossed requests, repeated answers, crashes and     *)
(* failed statements included (sendFriendRequest, acceptFriendRequest,     *)
(* removeFriend).                                                          *)
ImplementsFriendship == AsFriendship!Spec
=============================================================================
