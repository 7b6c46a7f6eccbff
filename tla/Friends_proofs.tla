---------------------------- MODULE Friends_proofs -----------------------------
(***************************************************************************)
(* The friends' tables and one client's screen of them, for any number of  *)
(* users: rows come in pairs, consent, what the tables promise about       *)
(* friendships, and the list on the screen.                                *)
(*                                                                         *)
(* The tables' invariant rests on what arrives with an acceptance: the     *)
(* sender has asked and the receiver has agreed.  For Me that comes from   *)
(* the requests the server has shown, so SoundRequest and SoundAnswer say  *)
(* of every message under way that it goes back to a row of the table.     *)
(* Every statement may fail; what an INSERT that failed leaves is in cut.  *)
(***************************************************************************)
EXTENDS FriendsScreen, FiniteSetTheorems, SequenceTheorems, TLAPS

HalfWay == ~Idle /\ accepting.inserted = 1

Pair == {accepting.receiver, accepting.sender}

(* The friendship whose first row has just been made.                      *)
Beginning(a, b) == HalfWay /\ accepting.ok /\ {a, b} = Pair

TablesTypeOK ==
  /\ friends \subseteq User \X User /\ pending \subseteq asked
  /\ asked \subseteq User \X User /\ agreed \subseteq User \X User
  /\ accepting \in Acceptance \cup {NoUser}

NoSelfRequest == \A p \in asked : p[1] # p[2]

(* Of the two, the first has asked and the second has agreed.              *)
Consented(s, r) == <<s, r>> \in asked /\ <<r, s>> \in agreed

AcceptanceSound ==
  ~Idle => /\ Consented(accepting.sender, accepting.receiver)
           /\ HalfWay => \/ <<accepting.receiver, accepting.sender>> \in friends
                         \/ Pair \in cut

RowSound(p) ==
  /\ Consented(p[1], p[2]) \/ Consented(p[2], p[1])
  /\ \/ <<p[2], p[1]>> \in friends
     \/ {p[1], p[2]} \in cut
     \/ Beginning(p[1], p[2])

RowsSound == \A p \in friends : RowSound(p)

(* A first row that was new was not there in the other direction either.   *)
SecondRowNew ==
  HalfWay /\ accepting.ok
    => <<accepting.sender, accepting.receiver>> \notin friends \/ Pair \in cut

Tables == TablesTypeOK /\ NoSelfRequest /\ AcceptanceSound /\ RowsSound /\ SecondRowNew

----------------------------------------------------------------------------
(* The invariant of the tables says what the runs check of them.           *)
LEMMA TablesSuffice == Tables => SymmetricUnlessCut /\ FriendsByConsent
  <1> SUFFICES ASSUME Tables PROVE SymmetricUnlessCut /\ FriendsByConsent
    OBVIOUS
  <1>1. SymmetricUnlessCut
    BY DEF Tables, RowsSound, RowSound, Beginning, HalfWay, SymmetricUnlessCut
  <1>2. ASSUME NEW p \in friends
        PROVE  \E s \in {p[1], p[2]} :
                 LET r == IF s = p[1] THEN p[2] ELSE p[1]
                 IN  <<s, r>> \in asked /\ <<r, s>> \in agreed
    <2>1. CASE Consented(p[1], p[2])
      <3>1. WITNESS p[1] \in {p[1], p[2]}
      <3>2. QED
        BY <2>1 DEF Consented
    <2>2. CASE Consented(p[2], p[1]) /\ p[1] # p[2]
      <3>1. WITNESS p[2] \in {p[1], p[2]}
      <3>2. QED
        BY <2>2 DEF Consented
    <2>3. QED
      BY <2>1, <2>2 DEF Tables, RowsSound, RowSound
  <1>3. QED
    BY <1>1, <1>2 DEF FriendsByConsent

(* An acceptance as a record.                                              *)
LEMMA AcceptanceType ==
  ASSUME Tables, ~Idle
  PROVE  /\ accepting \in Acceptance
         /\ accepting.sender \in User /\ accepting.receiver \in User
         /\ accepting.sender # accepting.receiver
  <1>1. accepting \in Acceptance
    BY DEF Tables, TablesTypeOK, Idle
  <1>2. accepting.sender # accepting.receiver
    BY DEF Tables, NoSelfRequest, AcceptanceSound, Consented
  <1>3. QED
    BY <1>1, <1>2 DEF Acceptance

(* Nothing is in the tables at the start.                                  *)
LEMMA TablesInit == Init => Tables
  BY DEF Init, ServerInit, Tables, TablesTypeOK, NoSelfRequest, AcceptanceSound, RowsSound,
         SecondRowNew, HalfWay, Idle

(* What is not in the tables does not matter to them.                      *)
LEMMA TablesUnchanged ==
  ASSUME Tables, UNCHANGED serverVars, agreed \subseteq agreed', agreed' \subseteq User \X User
  PROVE  Tables'
  <1> USE DEF Tables, serverVars
  <1>1. TablesTypeOK'
    BY DEF TablesTypeOK
  <1>2. NoSelfRequest' /\ SecondRowNew'
    BY DEF NoSelfRequest, SecondRowNew, HalfWay, Idle, Pair
  <1>3. AcceptanceSound' /\ RowsSound'
    BY DEF AcceptanceSound, RowsSound, RowSound, Consented, Beginning, HalfWay, Idle, Pair
  <1>4. QED
    BY <1>1, <1>2, <1>3

(* A request that is granted is not to nobody, whatever the queries find.  *)
LEMMA SendKeepsTables ==
  ASSUME Tables, NEW s \in User, NEW r \in User \cup {NoUser}, NEW ok \in BOOLEAN,
         s # r, sendFriendRequest(s, r, ok), agreed' = agreed
  PROVE  Tables' /\ asked \subseteq asked'
  <1>0. /\ asked \subseteq asked'
        /\ \/ asked' = asked /\ pending' = pending
           \/ /\ s # r /\ r \in User
              /\ asked' = asked \cup {<<s, r>>} /\ pending' = pending \cup {<<s, r>>}
        /\ friends' = friends /\ accepting' = accepting /\ cut' = cut /\ Idle
    BY DEF sendFriendRequest, MayRequest, Reads
  <1> USE DEF Tables
  <1>1. TablesTypeOK'
    BY <1>0 DEF TablesTypeOK
  <1>2. NoSelfRequest'
    BY <1>0 DEF NoSelfRequest
  <1>3. AcceptanceSound' /\ SecondRowNew'
    BY <1>0 DEF AcceptanceSound, SecondRowNew, HalfWay, Idle
  <1>4. RowsSound'
    BY <1>0 DEF RowsSound, RowSound, Consented, Beginning, HalfWay, Idle
  <1>5. QED
    BY <1>0, <1>1, <1>2, <1>3, <1>4

(* Who accepts has been asked, and agrees by accepting.                    *)
LEMMA AcceptKeepsTables ==
  ASSUME Tables, NEW r \in User, NEW s \in User, NEW ok \in BOOLEAN,
         acceptFriendRequest(r, s, ok), <<s, r>> \in asked, <<r, s>> \in agreed',
         agreed \subseteq agreed', agreed' \subseteq User \X User
  PROVE  Tables' /\ asked' = asked
  <1>0. /\ asked' = asked /\ friends' = friends /\ cut' = cut /\ pending' \subseteq pending /\ Idle
        /\ \/ accepting' = [receiver |-> r, sender |-> s, ok |-> TRUE, inserted |-> 0]
           \/ accepting' = NoUser
    BY DEF acceptFriendRequest
  <1>1. \/ /\ accepting' \in Acceptance /\ accepting'.sender = s /\ accepting'.receiver = r
           /\ accepting'.inserted = 0
        \/ accepting' = NoUser
    <2>1. CASE accepting' = NoUser
      BY <2>1
    <2>2. CASE accepting' = [receiver |-> r, sender |-> s, ok |-> TRUE, inserted |-> 0]
      BY <2>2 DEF Acceptance
    <2>3. QED
      BY <1>0, <2>1, <2>2
  <1> USE DEF Tables
  <1>2. TablesTypeOK'
    BY <1>0, <1>1 DEF TablesTypeOK
  <1>3. NoSelfRequest'
    BY <1>0 DEF NoSelfRequest
  <1>4. AcceptanceSound' /\ SecondRowNew'
    BY <1>0, <1>1 DEF AcceptanceSound, SecondRowNew, HalfWay, Idle, Consented
  <1>5. RowsSound'
    BY <1>0 DEF RowsSound, RowSound, Consented, Beginning, HalfWay, Idle
  <1>6. QED
    BY <1>0, <1>2, <1>3, <1>4, <1>5

(* Declining withdraws a request and makes no row.                         *)
LEMMA DeclineKeepsTables ==
  ASSUME Tables, NEW r, NEW s, NEW ok, declineFriendRequest(r, s, ok), agreed' = agreed
  PROVE  Tables' /\ asked' = asked
  <1>0. /\ asked' = asked /\ friends' = friends /\ cut' = cut /\ pending' \subseteq pending
        /\ accepting' = accepting /\ Idle
    BY DEF declineFriendRequest
  <1> USE DEF Tables
  <1>1. TablesTypeOK' /\ NoSelfRequest'
    BY <1>0 DEF TablesTypeOK, NoSelfRequest
  <1>2. AcceptanceSound' /\ SecondRowNew'
    BY <1>0 DEF AcceptanceSound, SecondRowNew, HalfWay, Idle
  <1>3. RowsSound'
    BY <1>0 DEF RowsSound, RowSound, Consented, Beginning, HalfWay, Idle
  <1>4. QED
    BY <1>0, <1>1, <1>2, <1>3

(* Both rows go, or the DELETE fails and neither does.                     *)
LEMMA RemoveKeepsTables ==
  ASSUME Tables, NEW u, NEW f, NEW ok, removeFriend(u, f, ok), agreed' = agreed
  PROVE  Tables' /\ asked' = asked
  <1>0. /\ asked' = asked /\ pending' = pending /\ cut' = cut /\ accepting' = accepting /\ Idle
        /\ friends' = friends \/ friends' = friends \ {<<u, f>>, <<f, u>>}
    BY DEF removeFriend
  <1> USE DEF Tables
  <1>1. TablesTypeOK' /\ NoSelfRequest'
    BY <1>0 DEF TablesTypeOK, NoSelfRequest
  <1>2. AcceptanceSound' /\ SecondRowNew'
    BY <1>0 DEF AcceptanceSound, SecondRowNew, HalfWay, Idle
  <1>3. ASSUME NEW p \in friends' PROVE RowSound(p)'
    <2>1. p \in friends /\ p \in User \X User
      BY <1>0, <1>3 DEF TablesTypeOK
    <2>2. RowSound(p) /\ ~Beginning(p[1], p[2])
      BY <1>0, <2>1 DEF RowsSound, Beginning, HalfWay
    <2>3. CASE friends' = friends
      BY <1>0, <2>2, <2>3 DEF RowSound, Consented
    <2>4. CASE friends' = friends \ {<<u, f>>, <<f, u>>}
      <3>1. p # <<u, f>> /\ p # <<f, u>>
        BY <1>3, <2>4
      <3>2. <<p[2], p[1]>> # <<u, f>> /\ <<p[2], p[1]>> # <<f, u>>
        BY <2>1, <3>1
      <3>3. QED
        BY <1>0, <2>2, <2>4, <3>2 DEF RowSound, Consented
    <2>5. QED
      BY <1>0, <2>3, <2>4
  <1>4. QED
    BY <1>0, <1>1, <1>2, <1>3 DEF RowsSound

(* What an INSERT does: the row is there afterwards, or it failed without. *)
LEMMA InsertResult ==
  ASSUME NEW a, NEW b, InsertFriend(<<a, b>>)
  PROVE  \/ friends' = friends \cup {<<a, b>>} /\ cut' = cut
         \/ friends' = friends /\ <<a, b>> \notin friends /\ cut' = cut \cup {{a, b}}
  BY DEF InsertFriend

(* The first row is new, or it is there already, or it could not be made.  *)
LEMMA FirstRowKeepsTables ==
  ASSUME Tables, InsertForReceiver, agreed' = agreed
  PROVE  Tables' /\ asked' = asked
  <1> DEFINE s == accepting.sender
             r == accepting.receiver
             row == <<r, s>>
  <1>0. /\ asked' = asked /\ pending' = pending /\ ~Idle /\ accepting.inserted = 0
        /\ accepting' = [accepting EXCEPT !.inserted = 1, !.ok = friends' # friends]
    BY DEF InsertForReceiver
  <1>1. s \in User /\ r \in User /\ s # r /\ accepting \in Acceptance
    BY <1>0, AcceptanceType
  <1>a. \/ friends' = friends \cup {row} /\ cut' = cut
        \/ friends' = friends /\ row \notin friends /\ cut' = cut \cup {{r, s}}
    BY InsertResult DEF InsertForReceiver
  <1>2. /\ accepting' \in Acceptance /\ accepting'.sender = s /\ accepting'.receiver = r
        /\ accepting'.inserted = 1 /\ accepting'.ok = (friends' # friends)
    BY <1>0, <1>1 DEF Acceptance
  <1>3. Idle' = FALSE /\ HalfWay' = TRUE /\ HalfWay = FALSE /\ Pair' = {r, s}
    BY <1>0, <1>2, FriendsAssumption DEF Idle, HalfWay, Pair
  <1>4. Consented(s, r)
    BY <1>0 DEF Tables, AcceptanceSound
  <1>5. TablesTypeOK'
    BY <1>0, <1>1, <1>2, <1>a DEF Tables, TablesTypeOK
  <1>6. NoSelfRequest'
    BY <1>0 DEF Tables, NoSelfRequest
  <1>7. AcceptanceSound'
    BY <1>0, <1>2, <1>3, <1>4, <1>a DEF AcceptanceSound, Consented
  <1>8. ASSUME NEW p \in friends' PROVE RowSound(p)'
    <2>1. CASE p \in friends
      <3>1. RowSound(p) /\ ~Beginning(p[1], p[2])
        BY <1>3, <2>1 DEF Tables, RowsSound, Beginning
      <3>2. friends \subseteq friends' /\ cut \subseteq cut'
        BY <1>a
      <3>3. QED
        BY <1>0, <3>1, <3>2 DEF RowSound, Consented
    <2>2. CASE p = row /\ p \notin friends
      <3>1. p[1] = r /\ p[2] = s
        BY <2>2
      <3>2. Beginning(p[1], p[2])'
        BY <1>2, <1>3, <1>8, <2>2, <3>1 DEF Beginning
      <3>3. (Consented(p[2], p[1]))'
        BY <1>0, <1>4, <3>1 DEF Consented
      <3>4. QED
        BY <3>2, <3>3 DEF RowSound
    <2>3. QED
      BY <1>8, <1>a, <2>1, <2>2
  <1>9. SecondRowNew'
    <2>1. SUFFICES ASSUME friends' # friends, <<s, r>> \in friends'
                   PROVE  {r, s} \in cut'
      BY <1>2, <1>3 DEF SecondRowNew
    <2>2. <<s, r>> \in friends /\ row \notin friends
      BY <1>1, <1>a, <2>1
    <2>3. RowSound(<<s, r>>) /\ ~Beginning(s, r)
      BY <1>3, <2>2 DEF Tables, RowsSound, Beginning
    <2>4. {s, r} \in cut
      BY <2>2, <2>3 DEF RowSound
    <2>5. QED
      BY <1>a, <2>4
  <1>10. QED
    BY <1>0, <1>5, <1>6, <1>7, <1>8, <1>9 DEF Tables, RowsSound

(* With the second row the friendship has both, or an INSERT has failed.   *)
LEMMA SecondRowKeepsTables ==
  ASSUME Tables, InsertForSender, agreed' = agreed
  PROVE  Tables' /\ asked' = asked
  <1> DEFINE s == accepting.sender
             r == accepting.receiver
  <1>0. asked' = asked /\ pending' = pending /\ HalfWay /\ Idle' /\ accepting' = NoUser
    BY DEF InsertForSender, HalfWay, Idle
  <1>1. s \in User /\ r \in User
    BY <1>0, AcceptanceType DEF HalfWay
  <1>a. \/ friends' = friends \cup {<<s, r>>} /\ cut' = cut
        \/ friends' = friends /\ cut' = cut \cup {{s, r}}
    BY InsertResult DEF InsertForSender
  <1>b. friends \subseteq friends' /\ cut \subseteq cut'
    BY <1>a
  <1>2. Consented(s, r) /\ (<<r, s>> \in friends \/ {r, s} \in cut)
    BY <1>0 DEF Tables, AcceptanceSound, HalfWay, Pair
  <1>3. TablesTypeOK'
    BY <1>0, <1>1, <1>a DEF Tables, TablesTypeOK
  <1>4. NoSelfRequest' /\ AcceptanceSound' /\ SecondRowNew'
    BY <1>0 DEF Tables, NoSelfRequest, AcceptanceSound, SecondRowNew, HalfWay
  <1>5. ASSUME NEW p \in friends' PROVE RowSound(p)'
    <2>1. CASE p \in friends /\ ~Beginning(p[1], p[2])
      BY <1>0, <1>b, <2>1 DEF Tables, RowsSound, RowSound, Consented
    <2>2. CASE p \in friends /\ Beginning(p[1], p[2])
      <3>1. RowSound(p) /\ p \in User \X User /\ {p[1], p[2]} = {r, s}
        BY <2>2 DEF Tables, TablesTypeOK, RowsSound, Beginning, Pair
      <3>2. (p[1] = r /\ p[2] = s) \/ (p[1] = s /\ p[2] = r)
        BY <1>1, <3>1
      <3>3. <<p[2], p[1]>> \in friends' \/ {p[1], p[2]} \in cut'
        BY <1>a, <1>b, <1>2, <3>1, <3>2
      <3>4. QED
        BY <1>0, <3>1, <3>3 DEF RowSound, Consented
    <2>3. CASE p = <<s, r>>
      <3>1. p[1] = s /\ p[2] = r
        BY <2>3
      <3>2. QED
        BY <1>0, <1>b, <1>2, <3>1 DEF RowSound, Consented
    <2>4. QED
      BY <1>5, <1>a, <2>1, <2>2, <2>3
  <1>6. QED
    BY <1>0, <1>3, <1>4, <1>5 DEF Tables, RowsSound

(* A crash between the rows is remembered.                                 *)
LEMMA RestartKeepsTables ==
  ASSUME Tables, Restart, agreed' = agreed
  PROVE  Tables' /\ asked' = asked
  <1>0. /\ asked' = asked /\ pending' = pending /\ friends' = friends
        /\ accepting' = NoUser /\ Idle' /\ cut \subseteq cut'
        /\ ~Idle => Pair \in cut'
    BY DEF Restart, Idle, Pair
  <1>1. TablesTypeOK'
    BY <1>0 DEF Tables, TablesTypeOK
  <1>2. NoSelfRequest' /\ AcceptanceSound' /\ SecondRowNew'
    BY <1>0 DEF Tables, NoSelfRequest, AcceptanceSound, SecondRowNew, HalfWay
  <1>3. ASSUME NEW p \in friends' PROVE RowSound(p)'
    <2>1. RowSound(p) /\ p \in friends
      BY <1>0 DEF Tables, RowsSound
    <2>2. Beginning(p[1], p[2]) => {p[1], p[2]} \in cut'
      BY <1>0 DEF Beginning, HalfWay
    <2>3. QED
      BY <1>0, <2>1, <2>2 DEF RowSound, Consented
  <1>4. QED
    BY <1>0, <1>1, <1>2, <1>3 DEF Tables, RowsSound

----------------------------------------------------------------------------
(* What the steps are to the abstract specification.                       *)

(* A couple is a row, in one of the two directions.                        *)
LEMMA CoupleIsRow ==
  ASSUME NEW a, NEW b
  PROVE  {a, b} \in Couples <=> \E p \in friends : {p[1], p[2]} = {a, b}
  BY DEF Couples

(* The couples depend on the rows only.                                    *)
LEMMA CouplesUnchanged == ASSUME friends' = friends PROVE Couples' = Couples
  BY DEF Couples

(* A request that is granted is one of the abstract specification.         *)
LEMMA SendRefines ==
  ASSUME Tables, NEW s \in User, NEW r \in User \cup {NoUser}, NEW ok \in BOOLEAN,
         s # r, sendFriendRequest(s, r, ok)
  PROVE  [AsFriendship!Next]_AsFriendship!vars
  <1>1. friends' = friends /\ Couples' = Couples
    BY CouplesUnchanged DEF sendFriendRequest
  <1>2. CASE ok
    <2>1. r \in User /\ asked' = asked \cup {<<s, r>>}
      BY <1>2 DEF MayRequest, Reads, sendFriendRequest
    <2>2. AsFriendship!Ask(s, r)
      BY <1>1, <2>1 DEF AsFriendship!Ask
    <2>3. QED
      BY <2>1, <2>2 DEF AsFriendship!Next
  <1>3. CASE ~ok
    BY <1>1, <1>3 DEF sendFriendRequest, AsFriendship!vars
  <1>4. QED
    BY <1>2, <1>3

(* Steps that touch no friendship and no request are stutters.             *)
LEMMA QuietRefines ==
  ASSUME asked' = asked, friends' = friends
  PROVE  [AsFriendship!Next]_AsFriendship!vars
  BY CouplesUnchanged DEF AsFriendship!vars

(* With a row between the two their friendship begins, if it has not yet.  *)
LEMMA RowRefines ==
  ASSUME Tables, InsertForReceiver \/ InsertForSender
  PROVE  [AsFriendship!Next]_AsFriendship!vars
  <1> DEFINE s == accepting.sender
             r == accepting.receiver
  <1>1. ~Idle /\ asked' = asked
    BY DEF InsertForReceiver, InsertForSender
  <1>2. s \in User /\ r \in User /\ s # r /\ <<s, r>> \in asked
    BY <1>1, AcceptanceType DEF Tables, AcceptanceSound, Consented
  <1>3. CASE friends' = friends
    BY <1>1, <1>3, QuietRefines
  <1>4. ASSUME NEW row \in {<<r, s>>, <<s, r>>}, friends' = friends \cup {row}
        PROVE  [AsFriendship!Next]_AsFriendship!vars
    <2>1. {row[1], row[2]} = {s, r}
      OBVIOUS
    <2>2. Couples' = Couples \cup {{s, r}}
      BY <1>4, <2>1 DEF Couples
    <2>3. AsFriendship!Befriend(s, r)
      BY <1>1, <1>2, <2>2 DEF AsFriendship!Befriend
    <2>4. QED
      BY <1>2, <2>3 DEF AsFriendship!Next
  <1>5. QED
    BY <1>3, <1>4, InsertResult DEF InsertForReceiver, InsertForSender

(* Both rows go at once, which parts the two.                              *)
LEMMA RemoveRefines ==
  ASSUME Tables, NEW u \in User, NEW f \in User, NEW ok \in BOOLEAN, removeFriend(u, f, ok)
  PROVE  [AsFriendship!Next]_AsFriendship!vars
  <1>0. CASE ~ok
    BY <1>0, QuietRefines DEF removeFriend
  <1> SUFFICES ASSUME ok PROVE [AsFriendship!Next]_AsFriendship!vars
    BY <1>0
  <1>1. friends' = friends \ {<<u, f>>, <<f, u>>} /\ asked' = asked
    BY DEF removeFriend
  <1>2. friends \subseteq User \X User /\ \A p \in friends : p[1] # p[2]
    BY DEF Tables, TablesTypeOK, NoSelfRequest, RowsSound, RowSound, Consented
  <1>3. CASE u = f
    BY <1>1, <1>2, <1>3, QuietRefines
  <1>4. CASE u # f
    <2>1. \A p \in friends : p \in friends' <=> {p[1], p[2]} # {u, f}
      BY <1>1, <1>2
    <2>2. Couples' = Couples \ {{u, f}}
      BY <1>1, <2>1 DEF Couples
    <2>3. AsFriendship!Part(u, f)
      BY <1>1, <2>2 DEF AsFriendship!Part
    <2>4. QED
      BY <1>4, <2>3 DEF AsFriendship!Next
  <1>5. QED
    BY <1>3, <1>4

----------------------------------------------------------------------------
(* Messages and the screen.                                                *)

Askers == {u \in User : <<u, Me>> \in asked}

MessageType ==
  {"SEND_FRIEND_REQUEST", "ACCEPT_FRIEND_REQUEST", "DECLINE_FRIEND_REQUEST", "REMOVE_FRIEND",
   "GET_PENDING_REQUESTS", "GET_FRIEND_LIST"}

Message == [type : MessageType, who : User \cup {NoUser}]

(* Me accepts only what it has been shown, and never asks itself.          *)
SoundRequest ==
  {m \in Message :
     /\ m.type = "ACCEPT_FRIEND_REQUEST" => m.who \in User /\ Consented(m.who, Me)
     /\ m.type = "SEND_FRIEND_REQUEST" => m.who # Me}

AnswerToMe == [type : MessageType, ok : BOOLEAN, rows : (SUBSET User) \cup Seq(User)]

SoundAnswer ==
  {m \in AnswerToMe : /\ m.type = "GET_PENDING_REQUESTS" => m.rows \subseteq Askers
                      /\ m.type = "GET_FRIEND_LIST" => m.rows \in Seq(User)}

Dialog == [index : Nat \ {0}, name : User]

ScreenSound ==
  /\ open \in BOOLEAN
  /\ displayFriends \in Seq(User)
  /\ displayRequests \subseteq Askers
  /\ dialog \in Dialog \cup {NoUser}

Messages == ScreenSound /\ toServer \in Seq(SoundRequest) /\ toMe \in Seq(SoundAnswer)

(* What is sound stays sound while requests and agreements only grow.      *)
LEMMA SoundnessGrows ==
  ASSUME asked \subseteq asked', agreed \subseteq agreed'
  PROVE  /\ Askers \subseteq Askers'
         /\ SoundRequest \subseteq SoundRequest' /\ SoundAnswer \subseteq SoundAnswer'
         /\ Seq(SoundRequest) \subseteq Seq(SoundRequest')
         /\ Seq(SoundAnswer) \subseteq Seq(SoundAnswer')
  <1>1. Askers \subseteq Askers'
    BY DEF Askers
  <1>2. SoundRequest \subseteq SoundRequest'
    BY DEF SoundRequest, Message, Consented
  <1>3. SoundAnswer \subseteq SoundAnswer'
    BY <1>1 DEF SoundAnswer, AnswerToMe
  <1>4. QED
    BY <1>1, <1>2, <1>3, SeqMonotonic

(* A request that is not an acceptance, nor one to oneself; an answer that *)
(* is not a list.                                                          *)
LEMMA PlainMessages ==
  /\ \A type \in MessageType, who \in User \cup {NoUser} :
       type # "ACCEPT_FRIEND_REQUEST" /\ (type = "SEND_FRIEND_REQUEST" => who # Me)
         => Request(type, who) \in SoundRequest
  /\ \A type \in MessageType, ok \in BOOLEAN :
       type \notin {"GET_PENDING_REQUESTS", "GET_FRIEND_LIST"}
         => Answer(type, ok, <<>>) \in SoundAnswer
  /\ ListRequest \in SoundRequest /\ PendingListRequest \in SoundRequest
  /\ <<PendingListRequest, ListRequest>> \in Seq(SoundRequest)
  <1>1. \A type \in MessageType, who \in User \cup {NoUser} :
          type # "ACCEPT_FRIEND_REQUEST" /\ (type = "SEND_FRIEND_REQUEST" => who # Me)
            => Request(type, who) \in SoundRequest
    BY DEF SoundRequest, Message, Request
  <1>2. ASSUME NEW type \in MessageType, NEW ok \in BOOLEAN,
               type \notin {"GET_PENDING_REQUESTS", "GET_FRIEND_LIST"}
        PROVE  Answer(type, ok, <<>>) \in SoundAnswer
    <2>1. <<>> \in Seq(User)
      BY EmptySeq
    <2>2. Answer(type, ok, <<>>) \in AnswerToMe /\ Answer(type, ok, <<>>).type = type
      BY <2>1 DEF Answer, AnswerToMe
    <2>3. QED
      BY <1>2, <2>2 DEF SoundAnswer
  <1>3. ListRequest \in SoundRequest /\ PendingListRequest \in SoundRequest
    <2>1. ListRequest \in Message /\ PendingListRequest \in Message
      BY DEF ListRequest, PendingListRequest, Message, MessageType, Request
    <2>2. ListRequest.type = "GET_FRIEND_LIST" /\ PendingListRequest.type = "GET_PENDING_REQUESTS"
      BY DEF ListRequest, PendingListRequest, Request
    <2>3. QED
      BY <2>1, <2>2 DEF SoundRequest
  <1>4. QED
    BY <1>1, <1>2, <1>3

(* The first message of a queue, and the queue without it.                 *)
LEMMA FirstMessage ==
  /\ Messages /\ toServer # <<>>
       => Head(toServer) \in SoundRequest /\ Tail(toServer) \in Seq(SoundRequest)
  /\ Messages /\ toMe # <<>> => Head(toMe) \in SoundAnswer /\ Tail(toMe) \in Seq(SoundAnswer)
  BY HeadTailProperties DEF Messages

----------------------------------------------------------------------------
(* One step and the tables: their invariant is kept, what was asked and    *)
(* agreed is kept, and the step is one of the abstract specification.      *)
LEMMA TablesStep ==
  ASSUME Tables, Messages, [Next]_vars
  PROVE  /\ Tables' /\ asked \subseteq asked' /\ agreed \subseteq agreed'
         /\ [AsFriendship!Next]_AsFriendship!vars
  <1> DEFINE Goal == /\ Tables' /\ asked \subseteq asked' /\ agreed \subseteq agreed'
                     /\ [AsFriendship!Next]_AsFriendship!vars
  <1>0. Me \in User /\ agreed \subseteq User \X User
    BY ScreenAssumption DEF Tables, TablesTypeOK
  <1>1. ASSUME UNCHANGED serverVars,
               agreed' = agreed \/ \E u \in User : agreed' = agreed \cup {<<Me, u>>}
        PROVE  Goal
    <2>1. agreed \subseteq agreed' /\ agreed' \subseteq User \X User
      BY <1>0, <1>1
    <2>2. Tables'
      BY <1>1, <2>1, TablesUnchanged
    <2>3. asked' = asked /\ friends' = friends
      BY <1>1 DEF serverVars
    <2>4. QED
      BY <2>1, <2>2, <2>3, QuietRefines
  <1>2. CASE UNCHANGED vars
    BY <1>1, <1>2 DEF vars
  <1>3. CASE Click
    BY <1>1, <1>3 DEF Click, onEnter, onExit, onSendFriendRequestClicked, onAcceptRequestClicked,
         onDeclineRequestClicked, onRemoveFriendClicked, ConfirmRemoval, closeRemovalConfirmation
  <1>4. CASE Client
    BY <1>1, <1>4 DEF Client, onResponse, onGetPendingRequestsResponse, onGetFriendListResponse
  <1>5. CASE Server
    <2>0. ASSUME toServer # <<>>
          PROVE  /\ Who \in User \cup {NoUser}
                 /\ Head(toServer).type = "ACCEPT_FRIEND_REQUEST"
                      => Who \in User /\ <<Who, Me>> \in asked /\ <<Me, Who>> \in agreed
                 /\ Head(toServer).type = "SEND_FRIEND_REQUEST" => Who # Me
      BY <2>0, FirstMessage DEF Who, SoundRequest, Message, Consented
    <2>1. CASE handleSendFriendRequest
      <3>1. PICK ok \in BOOLEAN : sendFriendRequest(Me, Who, ok)
        BY <2>1 DEF handleSendFriendRequest
      <3>2. agreed' = agreed /\ Who \in User \cup {NoUser} /\ Who # Me
        BY <2>0, <2>1 DEF handleSendFriendRequest, Handles
      <3>3. QED
        BY <1>0, <3>1, <3>2, SendKeepsTables, SendRefines
    <2>2. CASE handleAcceptFriendRequest
      <3>1. PICK ok \in BOOLEAN : acceptFriendRequest(Me, Who, ok)
        BY <2>2 DEF handleAcceptFriendRequest
      <3>a. /\ agreed' = agreed /\ Who \in User
            /\ <<Who, Me>> \in asked /\ <<Me, Who>> \in agreed
        BY <2>0, <2>2 DEF handleAcceptFriendRequest, Handles
      <3>2. asked' = asked /\ friends' = friends
        BY <3>1 DEF acceptFriendRequest
      <3>3. QED
        BY <1>0, <3>1, <3>a, <3>2, AcceptKeepsTables, QuietRefines
    <2>3. CASE handleDeclineFriendRequest
      <3>1. PICK ok \in BOOLEAN : declineFriendRequest(Me, Who, ok) /\ agreed' = agreed
        BY <2>3 DEF handleDeclineFriendRequest
      <3>2. asked' = asked /\ friends' = friends
        BY <3>1 DEF declineFriendRequest
      <3>3. QED
        BY <3>1, <3>2, DeclineKeepsTables, QuietRefines
    <2>4. CASE handleRemoveFriend
      <3>1. PICK ok \in BOOLEAN : removeFriend(Me, Who, ok)
        BY <2>4 DEF handleRemoveFriend
      <3>a. agreed' = agreed /\ Who \in User \cup {NoUser}
        BY <2>0, <2>4 DEF handleRemoveFriend, Handles
      <3>2. Tables' /\ asked' = asked
        BY <3>1, <3>a, RemoveKeepsTables
      <3>3. CASE Who \in User
        BY <1>0, <3>1, <3>a, <3>2, <3>3, RemoveRefines
      <3>4. CASE Who = NoUser /\ Who \notin User
        <4>1. friends' = friends
          BY <3>1, <3>4 DEF removeFriend, Tables, TablesTypeOK
        <4>2. QED
          BY <3>a, <3>2, <4>1, QuietRefines
      <3>5. QED
        BY <3>a, <3>3, <3>4
    <2>5. CASE handleGetPendingRequests
      BY <1>1, <2>5 DEF handleGetPendingRequests
    <2>6. CASE handleGetFriendList
      BY <1>1, <2>6 DEF handleGetFriendList
    <2>7. CASE GoOnAccepting
      <3>1. agreed' = agreed /\ (InsertForReceiver \/ InsertForSender)
        BY <2>7 DEF GoOnAccepting
      <3>2. QED
        BY <3>1, FirstRowKeepsTables, SecondRowKeepsTables, RowRefines
    <2>8. ASSUME NEW u \in User, OthersAct(u) PROVE Goal
      <3>0. u # Me
        BY <2>8 DEF OthersAct
      <3>1. ASSUME NEW ok \in BOOLEAN, sendFriendRequest(u, Me, ok), agreed' = agreed PROVE Goal
        BY <1>0, <3>0, <3>1, SendKeepsTables, SendRefines
      <3>2. ASSUME NEW ok \in BOOLEAN, <<Me, u>> \in asked, acceptFriendRequest(u, Me, ok),
                   agreed' = agreed \cup {<<u, Me>>}
            PROVE  Goal
        <4>1. asked' = asked /\ friends' = friends
          BY <3>2 DEF acceptFriendRequest
        <4>2. agreed \subseteq agreed' /\ agreed' \subseteq User \X User /\ <<u, Me>> \in agreed'
          BY <1>0, <3>2
        <4>3. QED
          BY <1>0, <3>2, <4>1, <4>2, AcceptKeepsTables, QuietRefines
      <3>3. ASSUME NEW ok \in BOOLEAN, declineFriendRequest(u, Me, ok), agreed' = agreed
            PROVE  Goal
        <4>1. asked' = asked /\ friends' = friends
          BY <3>3 DEF declineFriendRequest
        <4>2. QED
          BY <3>3, <4>1, DeclineKeepsTables, QuietRefines
      <3>4. ASSUME NEW ok \in BOOLEAN, removeFriend(u, Me, ok), agreed' = agreed PROVE Goal
        BY <1>0, <3>4, RemoveKeepsTables, RemoveRefines
      <3>5. QED
        BY <2>8, <3>1, <3>2, <3>3, <3>4 DEF OthersAct
    <2>9. CASE Crash
      <3>1. Restart /\ agreed' = agreed
        BY <2>9 DEF Crash
      <3>2. asked' = asked /\ friends' = friends
        BY <3>1 DEF Restart
      <3>3. QED
        BY <3>1, <3>2, RestartKeepsTables, QuietRefines
    <2>10. QED
      BY <1>5, <2>1, <2>2, <2>3, <2>4, <2>5, <2>6, <2>7, <2>8, <2>9 DEF Server
  <1>6. QED
    BY <1>2, <1>3, <1>4, <1>5 DEF Next

----------------------------------------------------------------------------
(* A list of a finite set's elements is a sequence, and has them all.      *)
LEMMA ListOfSet ==
  ASSUME NEW S \in SUBSET User, NEW rows \in SetToSeqs(S)
  PROVE  rows \in Seq(User) /\ ToSet(rows) = S
  <1> DEFINE n == Cardinality(S)
  <1>1. IsFiniteSet(S) /\ n \in Nat
    BY FriendsAssumption, FS_Subset, FS_CardinalityType
  <1>2. rows \in [1..n -> S] /\ \A i, j \in 1..n : i # j => rows[i] # rows[j]
    BY DEF SetToSeqs
  <1>3. rows \in Seq(User)
    <2>1. rows \in [1..n -> User]
      BY <1>2
    <2>2. QED
      BY <1>1, <2>1, SeqDef
  <1>4. rows \in Injection(1..n, S)
    BY <1>2 DEF Injection, IsInjective
  <1>5. Cardinality(1..n) = Cardinality(S)
    BY <1>1, FS_Interval
  <1>6. rows \in Surjection(1..n, S)
    BY <1>1, <1>4, <1>5, FS_Injection
  <1>7. ToSet(rows) = S
    BY <1>2, <1>6 DEF Surjection, ToSet
  <1>8. QED
    BY <1>3, <1>7

(* No message is under way at the start.                                   *)
LEMMA MessagesInit == Init => Messages
  BY EmptySeq DEF Init, Messages, ScreenSound

(* A request is appended while tables and answers stay as they are.        *)
LEMMA Sent ==
  ASSUME Messages, NEW m, asked' = asked, agreed \subseteq agreed',
         m \in SoundRequest', Deliver(m)
  PROVE  toServer' \in Seq(SoundRequest')
  BY SoundnessGrows, AppendProperties DEF Deliver, Messages

(* An answer takes the place of the request it answers.                    *)
LEMMA Replied ==
  ASSUME Messages, NEW type, NEW ok, NEW rows, asked \subseteq asked', agreed \subseteq agreed',
         toServer # <<>>, Answer(type, ok, rows) \in SoundAnswer', Reply(type, ok, rows)
  PROVE  toServer' \in Seq(SoundRequest') /\ toMe' \in Seq(SoundAnswer')
  BY SoundnessGrows, FirstMessage, AppendProperties DEF Reply, Messages

(* What a click asks for goes back to what the screen shows.               *)
LEMMA ClickKeepsMessages ==
  ASSUME Messages, Click, asked \subseteq asked', agreed \subseteq agreed'
  PROVE  Messages'
  <1>0. asked' = asked /\ Askers' = Askers /\ toMe' = toMe
    BY DEF Click, onEnter, onExit, onSendFriendRequestClicked, onAcceptRequestClicked,
           onDeclineRequestClicked, onRemoveFriendClicked, ConfirmRemoval,
           closeRemovalConfirmation, serverVars, Askers
  <1>a. /\ SoundRequest \subseteq SoundRequest' /\ toServer \in Seq(SoundRequest')
        /\ toMe' \in Seq(SoundAnswer')
    BY <1>0, SoundnessGrows DEF Messages
  <1>b. <<>> \in Seq(User)
    BY EmptySeq
  <1>c. /\ <<PendingListRequest, ListRequest>> \in Seq(SoundRequest')
        /\ \A type \in MessageType, who \in User \cup {NoUser} :
             type # "ACCEPT_FRIEND_REQUEST" /\ (type = "SEND_FRIEND_REQUEST" => who # Me)
               => Request(type, who) \in SoundRequest'
    BY <1>a, PlainMessages, SeqMonotonic
  <1>1. CASE onEnter
    <2>1. toServer' \in Seq(SoundRequest')
      BY <1>1, <1>a, <1>c, ConcatProperties DEF onEnter
    <2>2. ScreenSound'
      BY <1>1, <1>b DEF onEnter, ScreenSound
    <2>3. QED
      BY <1>a, <2>1, <2>2 DEF Messages
  <1>2. CASE onExit
    BY <1>2, <1>a, <1>b DEF onExit, ScreenSound, Messages
  <1>3. ASSUME NEW u \in User \cup {NoUser}, onSendFriendRequestClicked(u) PROVE Messages'
    <2>1. Deliver(Request("SEND_FRIEND_REQUEST", u)) /\ UNCHANGED clientVars /\ u # Me
      BY <1>3 DEF onSendFriendRequestClicked, Send, IsSelf
    <2>2. Request("SEND_FRIEND_REQUEST", u) \in SoundRequest'
      BY <1>c, <2>1 DEF MessageType
    <2>3. QED
      BY <1>0, <1>a, <2>1, <2>2, Sent DEF clientVars, ScreenSound, Messages
  <1>4. ASSUME NEW u \in User, onAcceptRequestClicked(u) PROVE Messages'
    <2>1. /\ Deliver(Request("ACCEPT_FRIEND_REQUEST", u)) /\ UNCHANGED clientVars
          /\ u \in displayRequests /\ <<Me, u>> \in agreed'
      BY <1>4 DEF onAcceptRequestClicked, Send
    <2>2. Consented(u, Me)'
      BY <1>0, <2>1 DEF Messages, ScreenSound, Askers, Consented
    <2>3. Request("ACCEPT_FRIEND_REQUEST", u) \in SoundRequest'
      BY <2>2 DEF SoundRequest, Message, MessageType, Request
    <2>4. QED
      BY <1>0, <1>a, <2>1, <2>3, Sent DEF clientVars, ScreenSound, Messages
  <1>5. ASSUME NEW u \in User, onDeclineRequestClicked(u) PROVE Messages'
    <2>1. Deliver(Request("DECLINE_FRIEND_REQUEST", u)) /\ UNCHANGED clientVars
      BY <1>5 DEF onDeclineRequestClicked, Send
    <2>2. Request("DECLINE_FRIEND_REQUEST", u) \in SoundRequest'
      BY <1>c DEF MessageType
    <2>3. QED
      BY <1>0, <1>a, <2>1, <2>2, Sent DEF clientVars, ScreenSound, Messages
  <1>6. ASSUME NEW i \in DOMAIN displayFriends, onRemoveFriendClicked(i) PROVE Messages'
    <2>1. i \in Nat \ {0} /\ displayFriends[i] \in User
      BY ElementOfSeq, LenProperties DEF Messages, ScreenSound
    <2>2. dialog' \in Dialog
      BY <1>6, <2>1 DEF onRemoveFriendClicked, showRemovalConfirmation, Dialog
    <2>3. QED
      BY <1>0, <1>6, <1>a, <2>2 DEF onRemoveFriendClicked, ScreenSound, Messages
  <1>7. CASE ConfirmRemoval
    <2>1. dialog' = NoUser /\ UNCHANGED <<open, displayFriends, displayRequests>>
      BY <1>7 DEF ConfirmRemoval
    <2>2. CASE dialog.index <= Len(displayFriends) /\ dialog # NoUser
      <3>1. dialog.index \in 1..Len(displayFriends)
        BY <2>2, LenProperties DEF Messages, ScreenSound, Dialog
      <3>2. displayFriends[dialog.index] \in User
        BY <3>1, ElementOfSeq DEF Messages, ScreenSound
      <3>3. Request("REMOVE_FRIEND", displayFriends[dialog.index]) \in SoundRequest'
        BY <1>c, <3>2 DEF MessageType
      <3>4. Deliver(Request("REMOVE_FRIEND", displayFriends[dialog.index]))
        BY <1>7, <2>2 DEF ConfirmRemoval, Send
      <3>5. QED
        BY <1>0, <1>a, <2>1, <3>3, <3>4, Sent DEF ScreenSound, Messages
    <2>3. CASE toServer' = toServer
      BY <1>0, <1>a, <2>1, <2>3 DEF ScreenSound, Messages
    <2>4. QED
      BY <1>7, <2>2, <2>3 DEF ConfirmRemoval
  <1>8. CASE closeRemovalConfirmation
    BY <1>0, <1>8, <1>a DEF closeRemovalConfirmation, ScreenSound, Messages
  <1>9. QED
    BY <1>1, <1>2, <1>3, <1>4, <1>5, <1>6, <1>7, <1>8 DEF Click

(* What the server answers is in the tables, or was asked for.             *)
LEMMA ServerKeepsMessages ==
  ASSUME Tables, Messages, Server, asked \subseteq asked', agreed \subseteq agreed'
  PROVE  Messages'
  <1>a. /\ Askers \subseteq Askers' /\ toServer \in Seq(SoundRequest')
        /\ toMe \in Seq(SoundAnswer') /\ SoundAnswer \subseteq SoundAnswer'
    BY SoundnessGrows DEF Messages
  <1>b. UNCHANGED clientVars => ScreenSound'
    BY <1>a DEF clientVars, ScreenSound, Messages
  <1>c. /\ \A ok \in BOOLEAN : /\ Answer("SEND_FRIEND_REQUEST", ok, <<>>) \in SoundAnswer
                             /\ Answer("ACCEPT_FRIEND_REQUEST", ok, <<>>) \in SoundAnswer
                             /\ Answer("DECLINE_FRIEND_REQUEST", ok, <<>>) \in SoundAnswer
                             /\ Answer("REMOVE_FRIEND", ok, <<>>) \in SoundAnswer
        /\ AcceptedAnew \in BOOLEAN
    BY PlainMessages DEF MessageType, AcceptedAnew
  <1>1. CASE handleSendFriendRequest
    BY <1>1, <1>a, <1>b, <1>c, Replied DEF handleSendFriendRequest, Handles, Messages
  <1>2. CASE handleAcceptFriendRequest
    <2>1. CASE Reply("ACCEPT_FRIEND_REQUEST", FALSE, <<>>)
      BY <1>2, <1>a, <1>b, <1>c, <2>1, Replied DEF handleAcceptFriendRequest, Handles, Messages
    <2>2. CASE toServer' = Tail(toServer) /\ toMe' = toMe
      BY <1>2, <1>a, <1>b, <2>2, HeadTailProperties
         DEF handleAcceptFriendRequest, Handles, Messages
    <2>3. QED
      BY <1>2, <2>1, <2>2 DEF handleAcceptFriendRequest
  <1>3. CASE handleDeclineFriendRequest
    BY <1>3, <1>a, <1>b, <1>c, Replied DEF handleDeclineFriendRequest, Handles, Messages
  <1>4. CASE handleRemoveFriend
    BY <1>4, <1>a, <1>b, <1>c, Replied DEF handleRemoveFriend, Handles, Messages
  <1>5. CASE handleGetPendingRequests
    <2>1. PICK found \in SUBSET getPendingRequests(Me) :
            Reply("GET_PENDING_REQUESTS", TRUE, found)
      BY <1>5 DEF handleGetPendingRequests
    <2>2. found \subseteq Askers'
      BY <1>a DEF getPendingRequests, Tables, TablesTypeOK, Askers
    <2>3. Answer("GET_PENDING_REQUESTS", TRUE, found) \in SoundAnswer'
      BY <2>2 DEF Answer, SoundAnswer, AnswerToMe, MessageType, Askers
    <2>4. QED
      BY <1>5, <1>a, <1>b, <2>1, <2>3, Replied DEF handleGetPendingRequests, Handles, Messages
  <1>6. CASE handleGetFriendList
    <2>a. PICK found \in SUBSET getUserFriends(Me) :
            \E rows \in SetToSeqs(found) : Reply("GET_FRIEND_LIST", TRUE, rows)
      BY <1>6 DEF handleGetFriendList
    <2>1. PICK rows \in SetToSeqs(found) : Reply("GET_FRIEND_LIST", TRUE, rows)
      BY <2>a
    <2>2. rows \in Seq(User)
      BY ListOfSet DEF getUserFriends
    <2>3. Answer("GET_FRIEND_LIST", TRUE, rows) \in SoundAnswer'
      BY <2>2 DEF Answer, SoundAnswer, AnswerToMe, MessageType
    <2>4. QED
      BY <1>6, <1>a, <1>b, <2>1, <2>3, Replied DEF handleGetFriendList, Handles, Messages
  <1>7. CASE GoOnAccepting
    <2>1. toServer' = toServer /\ UNCHANGED clientVars
      BY <1>7 DEF GoOnAccepting
    <2>2. toMe' = toMe \/ toMe' = Append(toMe, Answer("ACCEPT_FRIEND_REQUEST", AcceptedAnew, <<>>))
      BY <1>7 DEF GoOnAccepting
    <2>3. toMe' \in Seq(SoundAnswer')
      BY <1>a, <1>c, <2>2, AppendProperties
    <2>4. QED
      BY <1>a, <1>b, <2>1, <2>3 DEF Messages
  <1>8. ASSUME NEW u \in User, OthersAct(u) PROVE Messages'
    BY <1>8, <1>a, <1>b DEF OthersAct, Messages
  <1>9. CASE Crash
    BY <1>9, EmptySeq DEF Crash, Messages, ScreenSound
  <1>10. QED
    BY <1>1, <1>2, <1>3, <1>4, <1>5, <1>6, <1>7, <1>8, <1>9 DEF Server

(* What the client takes from an answer is as sound as the answer.         *)
LEMMA ClientKeepsMessages ==
  ASSUME Messages, Client
  PROVE  Messages'
  <1>0. /\ UNCHANGED serverVars /\ agreed' = agreed /\ Askers' = Askers
        /\ SoundRequest' = SoundRequest /\ SoundAnswer' = SoundAnswer
        /\ toMe # <<>> /\ toMe' = Tail(toMe)
    BY DEF Client, onResponse, onGetPendingRequestsResponse, onGetFriendListResponse, serverVars,
           Askers, SoundRequest, SoundAnswer, Consented
  <1>1. Head(toMe) \in SoundAnswer /\ toMe' \in Seq(SoundAnswer')
    BY <1>0, FirstMessage
  <1>2. CASE onResponse
    <2>1. Refreshes(Head(toMe)) \in Seq(SoundRequest)
      <3>1. <<PendingListRequest>> \in Seq(SoundRequest) /\ <<ListRequest>> \in Seq(SoundRequest)
        BY PlainMessages
      <3>2. QED
        BY <3>1, PlainMessages, EmptySeq DEF Refreshes
    <2>2. toServer' \in Seq(SoundRequest')
      BY <1>0, <1>2, <2>1, ConcatProperties DEF onResponse, Messages
    <2>3. QED
      BY <1>0, <1>1, <1>2, <2>2 DEF onResponse, Messages, ScreenSound, clientVars
  <1>3. CASE onGetPendingRequestsResponse
    BY <1>0, <1>1, <1>3 DEF onGetPendingRequestsResponse, SoundAnswer, Messages, ScreenSound
  <1>4. CASE onGetFriendListResponse
    BY <1>0, <1>1, <1>4 DEF onGetFriendListResponse, SoundAnswer, Messages, ScreenSound
  <1>5. QED
    BY <1>2, <1>3, <1>4 DEF Client

----------------------------------------------------------------------------
(* The list on the screen.  While nobody else has acted and the last list  *)
(* was read in full, either a new list is asked for, or an answer is under *)
(* way that will ask for one, or the last list that has come, or is        *)
(* coming, is what the table holds.                                        *)

IsList(m) == m.type = "GET_FRIEND_LIST"

WillAsk(m) == m.ok /\ m.type \in {"REMOVE_FRIEND", "ACCEPT_FRIEND_REQUEST"}

ListAsked(q) == \E i \in 1..Len(q) : IsList(q[i])

SomeWillAsk(q) == \E i \in 1..Len(q) : WillAsk(q[i])

(* The last list in q, or else the one that is shown, is in C.             *)
LatestIn(q, shown, C) ==
  \/ \E i \in 1..Len(q) : /\ IsList(q[i]) /\ q[i].rows \in C
                          /\ \A j \in i + 1..Len(q) : ~IsList(q[j])
  \/ shown \in C /\ ~ListAsked(q)

Exempt(u) == {Me, u} \in cut \/ Beginning(Me, u)

CurrentLists ==
  {rows \in Seq(User) :
     \A u \in User : Exempt(u) \/ (u \in ToSet(rows) <=> <<Me, u>> \in friends)}

ListComes ==
  open /\ ~outdated
    => \/ ListAsked(toServer)
       \/ SomeWillAsk(toMe)
       \/ LatestIn(toMe, displayFriends, CurrentLists)

(* Queues without their first message.                                     *)
LEMMA TailOfQueue ==
  ASSUME NEW S, NEW q \in Seq(S), q # <<>>, NEW shown, NEW C
  PROVE  /\ ListAsked(q) => ListAsked(Tail(q)) \/ IsList(Head(q))
         /\ SomeWillAsk(q) => SomeWillAsk(Tail(q)) \/ WillAsk(Head(q))
         /\ LatestIn(q, shown, C)
              => LatestIn(Tail(q), IF IsList(Head(q)) THEN Head(q).rows ELSE shown, C)
  <1>1. /\ Len(q) \in Nat \ {0} /\ Head(q) = q[1] /\ Len(Tail(q)) = Len(q) - 1
        /\ \A i \in 1..Len(Tail(q)) : Tail(q)[i] = q[i + 1]
    BY EmptySeq, HeadTailProperties
  <1>2. \A i \in 1..Len(q) : i = 1 \/ (i - 1 \in 1..Len(Tail(q)) /\ Tail(q)[i - 1] = q[i])
    BY <1>1
  <1>3. ListAsked(q) => ListAsked(Tail(q)) \/ IsList(Head(q))
    BY <1>1, <1>2 DEF ListAsked
  <1>4. SomeWillAsk(q) => SomeWillAsk(Tail(q)) \/ WillAsk(Head(q))
    BY <1>1, <1>2 DEF SomeWillAsk
  <1>5. ASSUME NEW i \in 1..Len(q), IsList(q[i]), q[i].rows \in C,
               \A j \in i + 1..Len(q) : ~IsList(q[j])
        PROVE  LatestIn(Tail(q), IF IsList(Head(q)) THEN Head(q).rows ELSE shown, C)
    <2>1. CASE i = 1
      <3>1. \A j \in 1..Len(Tail(q)) : ~IsList(Tail(q)[j])
        BY <1>1, <1>5, <2>1
      <3>2. QED
        BY <1>1, <1>5, <2>1, <3>1 DEF LatestIn, ListAsked
    <2>2. CASE i # 1
      <3>1. i - 1 \in 1..Len(Tail(q)) /\ Tail(q)[i - 1] = q[i]
        BY <1>2, <2>2
      <3>2. \A j \in (i - 1) + 1..Len(Tail(q)) : ~IsList(Tail(q)[j])
        BY <1>1, <1>5, <2>2
      <3>3. QED
        BY <1>5, <3>1, <3>2 DEF LatestIn
    <2>3. QED
      BY <2>1, <2>2
  <1>6. ASSUME shown \in C, ~ListAsked(q)
        PROVE  LatestIn(Tail(q), IF IsList(Head(q)) THEN Head(q).rows ELSE shown, C)
    <2>1. ~IsList(Head(q)) /\ ~ListAsked(Tail(q))
      BY <1>1, <1>6 DEF ListAsked
    <2>2. QED
      BY <1>6, <2>1 DEF LatestIn
  <1>7. QED
    BY <1>3, <1>4, <1>5, <1>6 DEF LatestIn

(* Queues that have got one more message.                                  *)
LEMMA EndOfQueue ==
  ASSUME NEW S, NEW q \in Seq(S), NEW m \in S, NEW shown, NEW C
  PROVE  LET r == Append(q, m)
         IN  /\ ListAsked(q) \/ IsList(m) => ListAsked(r)
             /\ SomeWillAsk(q) \/ WillAsk(m) => SomeWillAsk(r)
             /\ LatestIn(q, shown, C) /\ ~IsList(m) => LatestIn(r, shown, C)
             /\ IsList(m) /\ m.rows \in C => LatestIn(r, shown, C)
  <1> DEFINE r == Append(q, m)
  <1>1. /\ Len(q) \in Nat /\ Len(r) = Len(q) + 1 /\ r[Len(q) + 1] = m
        /\ \A i \in 1..Len(q) : r[i] = q[i]
    BY AppendProperties, LenProperties
  <1>2. (ListAsked(q) \/ IsList(m) => ListAsked(r)) /\ (SomeWillAsk(q) \/ WillAsk(m) => SomeWillAsk(r))
    BY <1>1 DEF ListAsked, SomeWillAsk
  <1>3. IsList(m) /\ m.rows \in C => LatestIn(r, shown, C)
    BY <1>1 DEF LatestIn
  <1>4. ASSUME LatestIn(q, shown, C), ~IsList(m) PROVE LatestIn(r, shown, C)
    <2>1. \A j \in 1..Len(r) : j \in 1..Len(q) \/ ~IsList(r[j])
      BY <1>1, <1>4
    <2>2. CASE shown \in C /\ ~ListAsked(q)
      <3>1. ~ListAsked(r)
        BY <1>1, <2>1, <2>2 DEF ListAsked
      <3>2. QED
        BY <2>2, <3>1 DEF LatestIn
    <2>3. ASSUME NEW i \in 1..Len(q), IsList(q[i]), q[i].rows \in C,
                 \A j \in i + 1..Len(q) : ~IsList(q[j])
          PROVE  LatestIn(r, shown, C)
      <3>1. i \in 1..Len(r) /\ r[i] = q[i]
        BY <1>1
      <3>2. \A j \in i + 1..Len(r) : ~IsList(r[j])
        BY <1>1, <1>4, <2>3
      <3>3. QED
        BY <2>3, <3>1, <3>2 DEF LatestIn
    <2>4. QED
      BY <1>4, <2>2, <2>3 DEF LatestIn
  <1>5. QED
    BY <1>2, <1>3, <1>4

(* Requests put behind others, the last of them perhaps for a list.        *)
LEMMA MoreRequests ==
  ASSUME NEW S, NEW q \in Seq(S), NEW more \in Seq(S)
  PROVE  ListAsked(q) \/ ListAsked(more) => ListAsked(q \o more)
  <1>1. /\ Len(q) \in Nat /\ Len(more) \in Nat /\ Len(q \o more) = Len(q) + Len(more)
        /\ \A i \in 1..Len(q) + Len(more) :
             (q \o more)[i] = IF i <= Len(q) THEN q[i] ELSE more[i - Len(q)]
    BY ConcatProperties, LenProperties
  <1>2. \A i \in 1..Len(q) : i \in 1..Len(q \o more) /\ (q \o more)[i] = q[i]
    BY <1>1
  <1>3. \A i \in 1..Len(more) : /\ Len(q) + i \in 1..Len(q \o more)
                                /\ (q \o more)[Len(q) + i] = more[i]
    BY <1>1
  <1>4. QED
    BY <1>2, <1>3 DEF ListAsked

(* A list that is in C is also in any larger set.                          *)
LEMMA LatestGrows ==
  ASSUME NEW q, NEW shown, NEW C, NEW D, C \subseteq D, LatestIn(q, shown, C)
  PROVE  LatestIn(q, shown, D)
  BY DEF LatestIn

----------------------------------------------------------------------------
(* What a step of the tables is to the lists that are current.             *)
LEMMA CurrentUnchanged ==
  ASSUME friends' = friends, cut' = cut, accepting' = accepting
  PROVE  CurrentLists' = CurrentLists
  BY DEF CurrentLists, Exempt, Beginning, HalfWay, Idle, Pair

(* An acceptance that begins, or fails to, has made no row yet, so the     *)
(* same lists are current.                                                 *)
LEMMA AcceptKeepsCurrent ==
  ASSUME NEW r, NEW s, NEW ok, acceptFriendRequest(r, s, ok)
  PROVE  CurrentLists' = CurrentLists
  <1>1. /\ friends' = friends /\ cut' = cut /\ ~HalfWay
        /\ \/ accepting' = [receiver |-> r, sender |-> s, ok |-> TRUE, inserted |-> 0]
           \/ accepting' = NoUser
    BY DEF acceptFriendRequest, HalfWay
  <1>2. ~HalfWay'
    BY <1>1 DEF HalfWay, Idle
  <1>3. QED
    BY <1>1, <1>2 DEF CurrentLists, Exempt, Beginning

(* A new first row makes its couple exempt, and so does one that failed.   *)
LEMMA FirstRowKeepsCurrent ==
  ASSUME Tables, Tables', InsertForReceiver
  PROVE  CurrentLists \subseteq CurrentLists'
  <1> DEFINE row == <<accepting.receiver, accepting.sender>>
  <1>1. /\ ~HalfWay /\ accepting \in Acceptance
        /\ accepting' = [accepting EXCEPT !.inserted = 1, !.ok = friends' # friends]
    BY AcceptanceType DEF InsertForReceiver, HalfWay
  <1>a. (friends' = friends \cup {row} \/ friends' = friends) /\ cut \subseteq cut'
    BY InsertResult DEF InsertForReceiver
  <1>2. /\ accepting' \in Acceptance /\ accepting'.inserted = 1 /\ Pair' = {row[1], row[2]}
        /\ accepting'.ok = (friends' # friends)
    BY <1>1 DEF Acceptance, Pair
  <1>3. HalfWay'
    BY <1>2, FriendsAssumption DEF HalfWay, Idle
  <1>4. ASSUME NEW u \in User
        PROVE  /\ Exempt(u) => Exempt(u)'
               /\ Exempt(u)' \/ (<<Me, u>> \in friends' <=> <<Me, u>> \in friends)
    <2>1. Exempt(u) => Exempt(u)'
      BY <1>1, <1>a DEF Exempt, Beginning
    <2>2. CASE <<Me, u>> = row /\ row \notin friends /\ friends' = friends \cup {row}
      <3>1. {Me, u} = {row[1], row[2]} /\ friends' # friends
        BY <2>2
      <3>2. QED
        BY <1>2, <1>3, <2>1, <2>2, <3>1 DEF Exempt, Beginning
    <2>3. QED
      BY <1>a, <2>1, <2>2
  <1>5. QED
    BY <1>4 DEF CurrentLists

(* An acceptance by Me that is answered with an error has added no row of  *)
(* Me's, or it is exempt: one of its INSERTs has failed for want of the    *)
(* table, or a crash had left the friendship half made before.             *)
LEMMA SecondRowKeepsCurrent ==
  ASSUME Tables, InsertForSender, accepting.receiver = Me, ~AcceptedAnew
  PROVE  CurrentLists \subseteq CurrentLists'
  <1> DEFINE row == <<accepting.sender, accepting.receiver>>
  <1>1. HalfWay /\ ~HalfWay' /\ accepting.sender # Me
    BY AcceptanceType DEF InsertForSender, HalfWay, Idle
  <1>a. \/ friends' = friends \cup {row} /\ cut' = cut
        \/ /\ friends' = friends /\ row \notin friends
           /\ cut' = cut \cup {{accepting.sender, accepting.receiver}}
    BY InsertResult DEF InsertForSender
  <1>2. \A u : <<Me, u>> \in friends' <=> <<Me, u>> \in friends
    BY <1>1, <1>a
  <1>3. ASSUME NEW u \in User, Exempt(u) PROVE Exempt(u)'
    <2>1. CASE {Me, u} \in cut
      BY <1>a, <2>1 DEF Exempt
    <2>2. CASE Beginning(Me, u)
      <3>1. accepting.ok /\ {Me, u} = Pair
        BY <2>2 DEF Beginning
      <3>2. CASE friends' = friends \cup {row} /\ cut' = cut
        <4>1. row \in friends
          BY <3>1, <3>2 DEF AcceptedAnew
        <4>2. Pair \in cut
          BY <1>1, <3>1, <4>1 DEF Tables, SecondRowNew
        <4>3. QED
          BY <3>1, <3>2, <4>2 DEF Exempt
      <3>3. CASE cut' = cut \cup {{accepting.sender, accepting.receiver}}
        <4>1. Pair \in cut'
          BY <3>3 DEF Pair
        <4>2. QED
          BY <3>1, <4>1 DEF Exempt
      <3>4. QED
        BY <1>a, <3>2, <3>3
    <2>3. QED
      BY <1>3, <2>1, <2>2 DEF Exempt
  <1>4. QED
    BY <1>2, <1>3 DEF CurrentLists

----------------------------------------------------------------------------

(* A click does not change the tables; what it asks for comes with a list. *)
LEMMA ClickKeepsList ==
  ASSUME Messages, ListComes, Click
  PROVE  ListComes'
  <1>1. serverVars' = serverVars /\ toMe' = toMe /\ outdated' = outdated
    BY DEF Click, onEnter, onExit, onSendFriendRequestClicked, onAcceptRequestClicked,
           onDeclineRequestClicked, onRemoveFriendClicked, ConfirmRemoval,
           closeRemovalConfirmation
  <1>2. CurrentLists' = CurrentLists
    BY <1>1, CurrentUnchanged DEF serverVars
  <1>3. CASE onEnter
    <2>1. ListAsked(<<PendingListRequest, ListRequest>>)
      BY DEF ListAsked, IsList, ListRequest, Request
    <2>2. ListAsked(toServer')
      BY <1>3, <2>1, MoreRequests, PlainMessages DEF onEnter, Messages
    <2>3. QED
      BY <2>2 DEF ListComes
  <1>4. CASE onExit
    BY <1>4 DEF onExit, ListComes
  <1>5. ASSUME NEW m, Deliver(m), open' = open, displayFriends' = displayFriends
        PROVE  ListComes'
    <2>1. ListAsked(toServer) => ListAsked(toServer')
      <3>1. /\ Len(toServer) \in Nat /\ Len(toServer') = Len(toServer) + 1
            /\ \A i \in 1..Len(toServer) : toServer'[i] = toServer[i]
        BY <1>5, LenProperties DEF Deliver, Messages
      <3>2. QED
        BY <3>1 DEF ListAsked
    <2>2. QED
      BY <1>1, <1>2, <1>5, <2>1 DEF ListComes
  <1>6. ASSUME toServer' = toServer, open' = open, displayFriends' = displayFriends
        PROVE  ListComes'
    BY <1>1, <1>2, <1>6 DEF ListComes
  <1>7. QED
    BY <1>3, <1>4, <1>5, <1>6
       DEF Click, onSendFriendRequestClicked, onAcceptRequestClicked, onDeclineRequestClicked,
           onRemoveFriendClicked, ConfirmRemoval, closeRemovalConfirmation, Send, clientVars

(* A request that is no request for a list is answered, or taken up.       *)
LEMMA HandlingKeepsList ==
  ASSUME Messages, Messages', ListComes, NEW type, Handles(type), type # "GET_FRIEND_LIST",
         toServer' = Tail(toServer), UNCHANGED clientVars, outdated' = outdated,
         CurrentLists \subseteq CurrentLists', toMe \in Seq(SoundAnswer'),
         \/ toMe' = toMe
         \/ \E ok, rows : /\ toMe' = Append(toMe, Answer(type, ok, rows))
                          /\ Answer(type, ok, rows) \in SoundAnswer'
  PROVE  ListComes'
  <1>1. ListAsked(toServer) => ListAsked(toServer')
    <2>1. ~IsList(Head(toServer)) /\ toServer # <<>>
      BY DEF Handles, IsList
    <2>2. QED
      BY <2>1, TailOfQueue DEF Messages
  <1>2. SomeWillAsk(toMe) => SomeWillAsk(toMe')
    BY EndOfQueue
  <1>3. LatestIn(toMe, displayFriends, CurrentLists)
          => LatestIn(toMe', displayFriends, CurrentLists')
    <2>1. \A ok, rows : ~IsList(Answer(type, ok, rows))
      BY DEF Answer, IsList
    <2>2. LatestIn(toMe, displayFriends, CurrentLists)
            => LatestIn(toMe, displayFriends, CurrentLists')
      BY LatestGrows
    <2>3. QED
      BY <2>1, <2>2, EndOfQueue
  <1>4. QED
    BY <1>1, <1>2, <1>3 DEF ListComes, clientVars

(* What changes the tables for the user puts an answer behind the lists    *)
(* under way.                                                              *)
LEMMA ServerKeepsList ==
  ASSUME Tables, Tables', Messages, Messages', ListComes, Server,
         asked \subseteq asked', agreed \subseteq agreed'
  PROVE  ListComes'
  <1>0. /\ toMe \in Seq(SoundAnswer') /\ SoundAnswer \subseteq SoundAnswer'
        /\ toServer \in Seq(SoundRequest)
    BY SoundnessGrows DEF Messages
  <1>a. /\ \A ok \in BOOLEAN : /\ Answer("SEND_FRIEND_REQUEST", ok, <<>>) \in SoundAnswer'
                             /\ Answer("ACCEPT_FRIEND_REQUEST", ok, <<>>) \in SoundAnswer'
                             /\ Answer("DECLINE_FRIEND_REQUEST", ok, <<>>) \in SoundAnswer'
                             /\ Answer("REMOVE_FRIEND", ok, <<>>) \in SoundAnswer'
        /\ AcceptedAnew \in BOOLEAN
    BY <1>0, PlainMessages DEF MessageType, AcceptedAnew
  <1>1. CASE handleSendFriendRequest
    <2>1. PICK ok \in BOOLEAN :
            sendFriendRequest(Me, Who, ok) /\ Reply("SEND_FRIEND_REQUEST", ok, <<>>)
      BY <1>1 DEF handleSendFriendRequest
    <2>2. CurrentLists' = CurrentLists
      BY <2>1, CurrentUnchanged DEF sendFriendRequest
    <2>3. QED
      BY <1>0, <1>1, <1>a, <2>1, <2>2, HandlingKeepsList DEF handleSendFriendRequest, Reply
  <1>2. CASE handleAcceptFriendRequest
    <2>1. CurrentLists' = CurrentLists
      BY <1>2, AcceptKeepsCurrent DEF handleAcceptFriendRequest
    <2>2. QED
      BY <1>0, <1>2, <1>a, <2>1, HandlingKeepsList DEF handleAcceptFriendRequest, Reply
  <1>3. CASE handleDeclineFriendRequest
    <2>1. PICK ok \in BOOLEAN :
            declineFriendRequest(Me, Who, ok) /\ Reply("DECLINE_FRIEND_REQUEST", ok, <<>>)
      BY <1>3 DEF handleDeclineFriendRequest
    <2>2. CurrentLists' = CurrentLists
      BY <2>1, CurrentUnchanged DEF declineFriendRequest
    <2>3. QED
      BY <1>0, <1>3, <1>a, <2>1, <2>2, HandlingKeepsList DEF handleDeclineFriendRequest, Reply
  <1>4. CASE handleRemoveFriend
    <2>1. PICK ok \in BOOLEAN : removeFriend(Me, Who, ok) /\ Reply("REMOVE_FRIEND", ok, <<>>)
      BY <1>4 DEF handleRemoveFriend
    <2>2. CASE ok
      <3>1. WillAsk(Answer("REMOVE_FRIEND", ok, <<>>))
        BY <2>2 DEF WillAsk, Answer
      <3>2. SomeWillAsk(toMe')
        BY <1>0, <1>a, <2>1, <3>1, EndOfQueue DEF Reply
      <3>3. QED
        BY <3>2 DEF ListComes
    <2>3. CASE ~ok
      <3>1. CurrentLists' = CurrentLists
        BY <2>1, <2>3, CurrentUnchanged DEF removeFriend
      <3>2. QED
        BY <1>0, <1>4, <1>a, <2>1, <3>1, HandlingKeepsList DEF handleRemoveFriend, Reply
    <2>4. QED
      BY <2>2, <2>3
  <1>5. CASE handleGetPendingRequests
    <2>1. CurrentLists' = CurrentLists
      BY <1>5, CurrentUnchanged DEF handleGetPendingRequests, serverVars
    <2>2. PICK found \in SUBSET getPendingRequests(Me) :
            Reply("GET_PENDING_REQUESTS", TRUE, found)
      BY <1>5 DEF handleGetPendingRequests
    <2>3. Answer("GET_PENDING_REQUESTS", TRUE, found) \in SoundAnswer'
      <3>1. found \subseteq Askers'
        BY DEF getPendingRequests, Tables, TablesTypeOK, Askers
      <3>2. QED
        BY <3>1 DEF Answer, SoundAnswer, AnswerToMe, MessageType, Askers
    <2>4. QED
      BY <1>0, <1>5, <2>1, <2>2, <2>3, HandlingKeepsList DEF handleGetPendingRequests, Reply
  <1>6. CASE handleGetFriendList
    <2>a. PICK found \in SUBSET getUserFriends(Me) :
            /\ \E rows \in SetToSeqs(found) : Reply("GET_FRIEND_LIST", TRUE, rows)
            /\ outdated' = (found # getUserFriends(Me))
      BY <1>6 DEF handleGetFriendList
    <2>b. CASE found # getUserFriends(Me)
      BY <2>a, <2>b DEF ListComes
    <2>c. CASE found = getUserFriends(Me)
      <3>1. PICK rows \in SetToSeqs(found) : Reply("GET_FRIEND_LIST", TRUE, rows)
        BY <2>a
      <3>2. rows \in Seq(User) /\ ToSet(rows) = getUserFriends(Me)
        BY <2>c, ListOfSet DEF getUserFriends
      <3>3. rows \in CurrentLists'
        BY <1>6, <3>2 DEF handleGetFriendList, serverVars, CurrentLists, getUserFriends
      <3>4. Answer("GET_FRIEND_LIST", TRUE, rows) \in SoundAnswer'
        BY <3>2 DEF Answer, SoundAnswer, AnswerToMe, MessageType
      <3>5. /\ IsList(Answer("GET_FRIEND_LIST", TRUE, rows))
            /\ Answer("GET_FRIEND_LIST", TRUE, rows).rows = rows
        BY DEF IsList, Answer
      <3>6. LatestIn(toMe', displayFriends', CurrentLists')
        BY <1>0, <3>1, <3>3, <3>4, <3>5, EndOfQueue DEF Reply
      <3>7. QED
        BY <3>6 DEF ListComes
    <2>d. QED
      BY <2>b, <2>c
  <1>7. CASE InsertForReceiver /\ UNCHANGED <<clientVars, toServer, toMe, agreed, outdated>>
    <2>1. CurrentLists \subseteq CurrentLists'
      BY <1>7, FirstRowKeepsCurrent
    <2>2. QED
      BY <1>7, <2>1, LatestGrows DEF ListComes, clientVars
  <1>8. CASE /\ InsertForSender /\ UNCHANGED <<clientVars, toServer, agreed>>
             /\ toMe' = IF accepting.receiver = Me
                        THEN Append(toMe, Answer("ACCEPT_FRIEND_REQUEST", AcceptedAnew, <<>>))
                        ELSE toMe
             /\ outdated' = (outdated \/ accepting.receiver # Me)
    <2> DEFINE m == Answer("ACCEPT_FRIEND_REQUEST", AcceptedAnew, <<>>)
    <2>1. CASE accepting.receiver # Me
      BY <1>8, <2>1 DEF ListComes
    <2>2. CASE accepting.receiver = Me /\ AcceptedAnew
      <3>1. WillAsk(m)
        BY <2>2 DEF WillAsk, Answer
      <3>2. SomeWillAsk(toMe')
        BY <1>0, <1>8, <1>a, <2>2, <3>1, EndOfQueue
      <3>3. QED
        BY <3>2 DEF ListComes
    <2>3. CASE accepting.receiver = Me /\ ~AcceptedAnew
      <3>1. CurrentLists \subseteq CurrentLists' /\ ~IsList(m)
        BY <1>8, <2>3, SecondRowKeepsCurrent DEF IsList, Answer
      <3>2. toMe' = Append(toMe, m) /\ m \in SoundAnswer'
        BY <1>8, <1>a, <2>3
      <3>3. SomeWillAsk(toMe) => SomeWillAsk(toMe')
        BY <1>0, <3>2, EndOfQueue
      <3>4. LatestIn(toMe, displayFriends, CurrentLists)
              => LatestIn(toMe', displayFriends, CurrentLists')
        BY <1>0, <3>1, <3>2, LatestGrows, EndOfQueue
      <3>5. QED
        BY <1>8, <2>3, <3>3, <3>4 DEF ListComes, clientVars
    <2>4. QED
      BY <2>1, <2>2, <2>3
  <1>9. ASSUME NEW u \in User, OthersAct(u) PROVE ListComes'
    <2>1. CASE outdated'
      BY <2>1 DEF ListComes
    <2>2. CASE (outdated => outdated') /\ CurrentLists' = CurrentLists
      BY <1>9, <2>2 DEF OthersAct, ListComes, clientVars
    <2>3. ASSUME NEW ok \in BOOLEAN, removeFriend(u, Me, ok), outdated' = (outdated \/ ok)
          PROVE  outdated' \/ ((outdated => outdated') /\ CurrentLists' = CurrentLists)
      <3>1. CASE ok
        BY <2>3, <3>1
      <3>2. CASE ~ok
        <4>1. CurrentLists' = CurrentLists
          BY <2>3, <3>2, CurrentUnchanged DEF removeFriend
        <4>2. outdated => outdated'
          BY <2>3
        <4>3. QED
          BY <4>1, <4>2
      <3>3. QED
        BY <3>1, <3>2
    <2>4. QED
      BY <1>9, <2>1, <2>2, <2>3, CurrentUnchanged, AcceptKeepsCurrent
         DEF OthersAct, sendFriendRequest, declineFriendRequest
  <1>10. CASE Crash
    BY <1>10 DEF Crash, ListComes
  <1>11. QED
    BY <1>1, <1>2, <1>3, <1>4, <1>5, <1>6, <1>7, <1>8, <1>9, <1>10 DEF Server, GoOnAccepting

(* The client shows the last list, or asks for another.                    *)
LEMMA ClientKeepsList ==
  ASSUME Messages, Messages', ListComes, Client
  PROVE  ListComes'
  <1> DEFINE m == Head(toMe)
  <1>0. /\ UNCHANGED serverVars /\ outdated' = outdated /\ open' = open
        /\ toMe # <<>> /\ toMe' = Tail(toMe) /\ toMe \in Seq(SoundAnswer)
        /\ toServer \in Seq(SoundRequest) /\ Seq(SoundRequest') = Seq(SoundRequest)
    BY DEF Client, onResponse, onGetPendingRequestsResponse, onGetFriendListResponse, serverVars,
           clientVars, Messages, SoundRequest, Consented
  <1>1. CurrentLists' = CurrentLists
    BY <1>0, CurrentUnchanged DEF serverVars
  <1>2. /\ SomeWillAsk(toMe) => SomeWillAsk(toMe') \/ WillAsk(m)
        /\ LatestIn(toMe, displayFriends, CurrentLists)
             => LatestIn(toMe', IF IsList(m) THEN m.rows ELSE displayFriends, CurrentLists)
    BY <1>0, TailOfQueue
  <1>3. CASE onResponse
    <2>1. displayFriends' = displayFriends /\ ~IsList(m) /\ toServer' = toServer \o Refreshes(m)
      BY <1>3 DEF onResponse, clientVars, IsList
    <2>2. Refreshes(m) \in Seq(SoundRequest)
      <3>1. <<PendingListRequest>> \in Seq(SoundRequest) /\ <<ListRequest>> \in Seq(SoundRequest)
        BY PlainMessages
      <3>2. QED
        BY <3>1, PlainMessages, EmptySeq DEF Refreshes
    <2>3. open /\ WillAsk(m) => ListAsked(Refreshes(m))
      <3>1. /\ ListAsked(<<PendingListRequest, ListRequest>>)
            /\ ListAsked(<<ListRequest>>)
        BY DEF ListAsked, IsList, ListRequest, Request
      <3>2. QED
        BY <3>1 DEF WillAsk, Refreshes
    <2>4. ListAsked(toServer) \/ ListAsked(Refreshes(m)) => ListAsked(toServer')
      BY <1>0, <2>1, <2>2, MoreRequests
    <2>5. QED
      BY <1>0, <1>1, <1>2, <2>1, <2>3, <2>4 DEF ListComes
  <1>4. CASE onGetPendingRequestsResponse
    <2>1. displayFriends' = displayFriends /\ ~IsList(m) /\ ~WillAsk(m) /\ toServer' = toServer
      BY <1>4 DEF onGetPendingRequestsResponse, IsList, WillAsk
    <2>2. QED
      BY <1>0, <1>1, <1>2, <2>1 DEF ListComes
  <1>5. CASE onGetFriendListResponse
    <2>1. /\ open => displayFriends' = m.rows
          /\ IsList(m) /\ ~WillAsk(m) /\ toServer' = toServer
      BY <1>5 DEF onGetFriendListResponse, IsList, WillAsk
    <2>2. QED
      BY <1>0, <1>1, <1>2, <2>1 DEF ListComes
  <1>6. QED
    BY <1>3, <1>4, <1>5 DEF Client

----------------------------------------------------------------------------

IInv == Tables /\ Messages /\ ListComes

(* The invariant holds at the start, with a closed screen.                 *)
LEMMA InitIInv == Init => IInv
  BY TablesInit, MessagesInit DEF IInv, Init, ListComes

(* Every step keeps the invariant and is a step of Friendship, or          *)
(* invisible to it.                                                        *)
LEMMA StepIInv == IInv /\ [Next]_vars => IInv' /\ [AsFriendship!Next]_AsFriendship!vars
  <1> SUFFICES ASSUME IInv, [Next]_vars
               PROVE  IInv' /\ [AsFriendship!Next]_AsFriendship!vars
    OBVIOUS
  <1>0. Tables /\ Messages /\ ListComes
    BY DEF IInv
  <1>1. /\ Tables' /\ asked \subseteq asked' /\ agreed \subseteq agreed'
        /\ [AsFriendship!Next]_AsFriendship!vars
    BY <1>0, TablesStep
  <1>2. Messages'
    <2>1. CASE UNCHANGED vars
      BY <1>0, <2>1 DEF vars, clientVars, serverVars, Messages, ScreenSound, Askers, SoundRequest,
             SoundAnswer, Consented
    <2>2. QED
      BY <1>0, <1>1, <2>1, ClickKeepsMessages, ServerKeepsMessages, ClientKeepsMessages DEF Next
  <1>3. ListComes'
    <2>1. CASE UNCHANGED vars
      BY <1>0, <2>1, CurrentUnchanged DEF vars, clientVars, serverVars, ListComes
    <2>2. QED
      BY <1>0, <1>1, <1>2, <2>1, ClickKeepsList, ServerKeepsList, ClientKeepsList DEF Next
  <1>4. QED
    BY <1>1, <1>2, <1>3 DEF IInv

(* The invariant says of the screen and the tables what the run checks.    *)
LEMMA IInvSuffices == IInv => SymmetricUnlessCut /\ FriendsByConsent /\ OwnChangesAreShown
  <1> SUFFICES ASSUME IInv PROVE SymmetricUnlessCut /\ FriendsByConsent /\ OwnChangesAreShown
    OBVIOUS
  <1>1. SymmetricUnlessCut /\ FriendsByConsent
    BY TablesSuffice DEF IInv
  <1>2. SUFFICES ASSUME open, Idle, toServer = <<>>, toMe = <<>>, ~outdated,
                        NEW u \in User, {Me, u} \notin cut
                 PROVE  u \in ToSet(displayFriends) <=> u \in getUserFriends(Me)
    BY <1>1 DEF OwnChangesAreShown
  <1>3. displayFriends \in CurrentLists
    BY <1>2, EmptySeq DEF IInv, ListComes, ListAsked, SomeWillAsk, LatestIn
  <1>4. ~Exempt(u)
    BY <1>2 DEF Exempt, Beginning, HalfWay
  <1>5. QED
    BY <1>3, <1>4 DEF CurrentLists, getUserFriends

(* Tables, messages under way and the screen's list fit together in every  *)
(* reachable state (the friend repository, handler and screen).            *)
THEOREM Invariance == Spec => []IInv
  <1>1. Init => IInv
    BY InitIInv
  <1>2. IInv /\ [Next]_vars => IInv'
    BY StepIInv
  <1>3. QED
    BY <1>1, <1>2, PTL DEF Spec

(* A friendship has both rows between two messages, unless a crash came    *)
(* between its two INSERTs or one of them failed with its row missing:     *)
(* nothing else that fails leaves half a friendship (acceptFriendRequest,  *)
(* removeFriend).                                                          *)
THEOREM RowsComeInPairs == Spec => []SymmetricUnlessCut
  BY Invariance, IInvSuffices, PTL

(* Nobody is Me's friend without one of the two having asked and the other *)
(* agreed (handleAcceptFriendRequest, onAcceptRequestClicked).             *)
THEOREM Consent == Spec => []FriendsByConsent
  BY Invariance, IInvSuffices, PTL

(* Once all is answered the screen lists Me's friends as the table has     *)
(* them, whatever Me has clicked and whatever changes have failed          *)
(* meanwhile, but for a list that was itself not read in full and for      *)
(* friendships an acceptance has left half made                            *)
(* (onAcceptFriendRequestResponse, onRemoveFriendResponse,                 *)
(* onGetFriendListResponse).                                               *)
THEOREM OwnChanges == Spec => []OwnChangesAreShown
  BY Invariance, IInvSuffices, PTL

(* The tables do what is promised of friendships: two become friends after *)
(* one has asked the other, and part at once (the friend repository).      *)
THEOREM FriendsImplementFriendship == Spec => ImplementsFriendship
  <1>1. Init => AsFriendship!Init
    BY DEF Init, ServerInit, AsFriendship!Init, Couples
  <1>2. IInv /\ [Next]_vars => [AsFriendship!Next]_AsFriendship!vars
    BY StepIInv
  <1>3. QED
    BY <1>1, <1>2, Invariance, PTL DEF Spec, ImplementsFriendship, AsFriendship!Spec
=============================================================================
