------------------------------ MODULE ChatService ------------------------------
(***************************************************************************)
(* The server's private chat for one user, Me, and the peers that write to *)
(* Me: a message is forwarded, then saved, then acknowledged, whatever the *)
(* saving has come to, and a list of messages that was read in part, or    *)
(* not at all, is answered like a whole one.  The friends of Me do not     *)
(* change here (module Friends), and a peer's own screen is not followed.  *)
(***************************************************************************)
EXTENDS ClientNetwork, Bags, BagsExt

CONSTANTS
  Me, Peer, NoPeer,
  Writer,           (* bound: the peers that write to Me                   *)
  MaxTheirs         (* bound: messages of the peers                        *)

ASSUME PeerAssumption ==
  /\ Me \notin Peer /\ NoPeer \notin Peer \cup {Me}
  /\ Writer \subseteq Peer /\ MaxTheirs \in Nat

VARIABLES
  privateChats,     (* table private_chats, a bag: sent_at orders it by
                       the second only                                     *)
  theirs            (* number of messages the peers have written           *)

service == <<privateChats, theirs>>

(* The text is a number, its writer's count.                               *)
Row(from, to, n) == [from |-> from, to |-> to, n |-> n]

ServiceInit == privateChats = EmptyBag /\ theirs = 0

Handles(type) == serverOpen /\ toServer # <<>> /\ Head(toServer).type = type

Answer(m) ==
  /\ toServer' = Tail(toServer)
  /\ toMe' = Append(toMe, m)
  /\ UNCHANGED <<serverOpen, connected, receiver, events, program>>

(* The INSERT, or its failure, which is ignored.                           *)
save(row) ==
  privateChats' = BagAdd(privateChats, row) \/ UNCHANGED privateChats

(* found: the rows that are read before the query fails, if it does.       *)
getPrivateChatHistory(p, found) ==
  LET rows == {row \in found : {row.from, row.to} = {Me, p}}
  IN  [row \in rows |-> privateChats[row]]

Saved == BagToSet(privateChats)

handleChatDirect ==
  /\ Handles("CHAT_DIRECT")
  /\ save(Row(Me, Head(toServer).peer, Head(toServer).n))
  /\ Answer([type |-> "CHAT_DIRECT_ACK", n |-> Head(toServer).n])
  /\ UNCHANGED theirs

handlePrivateChatHistoryRequest ==
  /\ Handles("PRIVATE_CHAT_HISTORY_REQUEST")
  /\ \E found \in SUBSET Saved :
       Answer([type |-> "PRIVATE_CHAT_HISTORY_RESPONSE",
               rows |-> getPrivateChatHistory(Head(toServer).peer, found)])
  /\ UNCHANGED service

handleFriendListRequest ==
  /\ Handles("FRIEND_LIST_REQUEST")
  /\ Answer([type |-> "FRIEND_LIST_RESPONSE"])
  /\ UNCHANGED service

Handle ==
  handleChatDirect \/ handlePrivateChatHistoryRequest \/ handleFriendListRequest

(* A message of a peer, forwarded to the connection Me is bound to.        *)
PeerWrites(p) ==
  /\ serverOpen /\ theirs < MaxTheirs
  /\ theirs' = theirs + 1
  /\ save(Row(p, Me, theirs'))
  /\ toMe' = Append(toMe, [type |-> "CHAT_DIRECT", from |-> p, n |-> theirs'])
  /\ UNCHANGED <<toServer, serverOpen, connected, receiver, events, program>>
=============================================================================
