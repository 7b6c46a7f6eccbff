----------------------------- MODULE ClientNetwork -----------------------------
(***************************************************************************)
(* The client's connection: the socket that the user interface sends on    *)
(* and the receiver thread reads from, the queue between the two, and the  *)
(* end of the program.  The other end is the server's.                     *)
(*                                                                         *)
(* The sockets are Linux's: a recv that is blocked keeps the socket open   *)
(* when another thread closes its descriptor, and does not return for it;  *)
(* a send on a connection that the peer has closed is lost, fails, or      *)
(* kills a program that does not ignore SIGPIPE, and the client does not.  *)
(***************************************************************************)
EXTENDS Naturals, Sequences

VARIABLES
  toServer, toMe,   (* messages under way, records with a type             *)
  serverOpen,       (* the server's end of the connection                  *)
  connected,        (* ClientSocket: connected, a valid socketFd           *)
  receiver,         (* NetworkClient::run: in "recv", "ended", or on the
                       way back to a socket that is closed ("returns")     *)
  events,           (* eventQueue                                          *)
  program           (* main "runs", "stops" (it joins the receiver), or is
                       "over" and no longer followed, nor is its server    *)

network == <<toServer, toMe, serverOpen, connected, receiver, events, program>>

DisconnectEvent == [type |-> "DISCONNECT"]

NetworkInit ==
  /\ toServer = <<>> /\ toMe = <<>>
  /\ serverOpen = TRUE
  /\ connected = TRUE
  /\ receiver = "recv"
  /\ events = <<>>
  /\ program = "runs"

push(e) == events' = IF program = "runs" THEN Append(events, e) ELSE events

----------------------------------------------------------------------------
(* The receiver thread.                                                    *)

pushDisconnect == push(DisconnectEvent) /\ receiver' = "ended"

(* isConnected, or a recv that fails at once on a closed descriptor.       *)
isConnected ==
  /\ receiver = "returns"
  /\ pushDisconnect
  /\ UNCHANGED <<toServer, toMe, serverOpen, connected, program>>

(* What comes after a disconnect is dropped.                               *)
receiveMessage ==
  /\ receiver = "recv" /\ toMe # <<>>
  /\ toMe' = Tail(toMe)
  /\ \/ connected /\ push(Head(toMe)) /\ UNCHANGED receiver
     \/ ~connected /\ pushDisconnect
  /\ UNCHANGED <<toServer, serverOpen, connected, program>>

(* Wrong: the end of the stream is tried again like EINTR.                 *)
RetryAtEOF ==
  /\ receiver = "recv" /\ toMe = <<>> /\ ~serverOpen
  /\ connected' = FALSE
  /\ UNCHANGED <<toServer, toMe, serverOpen, receiver, events, program>>

receiveEOF ==
  /\ receiver = "recv" /\ toMe = <<>> /\ ~serverOpen
  /\ connected' = FALSE
  /\ pushDisconnect
  /\ UNCHANGED <<toServer, toMe, serverOpen, program>>

Receive == isConnected \/ receiveMessage \/ receiveEOF

----------------------------------------------------------------------------
(* The thread of the user interface.                                       *)

(* The receiver may be in recv just then, or between two calls of it.      *)
disconnect ==
  /\ connected' = FALSE
  /\ \/ receiver = "recv" /\ receiver' = "returns"
     \/ UNCHANGED receiver

(* ClientSocket::send returns true, whether or not the bytes arrive.       *)
Sends(m) ==
  /\ connected
  /\ toServer' = IF serverOpen THEN Append(toServer, m) ELSE toServer
  /\ UNCHANGED <<connected, receiver, program>>

(* It returns false, and the socket is closed.                             *)
SendFails ==
  /\ \/ connected /\ ~serverOpen /\ disconnect
     \/ ~connected /\ UNCHANGED <<connected, receiver>>
  /\ UNCHANGED <<toServer, program>>

SendKills ==
  /\ connected /\ ~serverOpen
  /\ program' = "over"
  /\ UNCHANGED <<toServer, connected, receiver>>

(* tryPop                                                                  *)
Pops(e) == program = "runs" /\ events # <<>> /\ e = Head(events) /\ events' = Tail(events)

(* The window is closed; stop joins the receiver, nobody pops an event.    *)
stop ==
  /\ program = "runs"
  /\ program' = "stops"
  /\ disconnect
  /\ events' = <<>>
  /\ UNCHANGED <<toServer, toMe, serverOpen>>

Joined ==
  /\ program = "stops" /\ receiver = "ended"
  /\ program' = "over"
  /\ UNCHANGED <<toServer, toMe, serverOpen, connected, receiver, events>>

----------------------------------------------------------------------------
(* The server's end.                                                       *)

(* The descriptor is closed and no recv keeps the socket.                  *)
Hangup == ~connected /\ receiver # "recv"

closeConnection ==
  /\ serverOpen /\ Hangup /\ toServer = <<>>
  /\ serverOpen' = FALSE
  /\ UNCHANGED <<toServer, toMe, connected, receiver, events, program>>

(* The server's process ends.                                              *)
ServerCrash ==
  /\ serverOpen
  /\ serverOpen' = FALSE /\ toServer' = <<>>
  /\ UNCHANGED <<toMe, connected, receiver, events, program>>

(* Once the window is closed and the server closes the connection or sends *)
(* anything at all, the program ends: the join of the receiver waits for   *)
(* no more than that (stop, receive).                                      *)
StopReturns ==
  (program = "stops" /\ (receiver # "recv" \/ toMe # <<>> \/ ~serverOpen))
    ~> program = "over"
=============================================================================
