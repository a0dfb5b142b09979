----------------------------- MODULE SocketApi -----------------------------
(***************************************************************************)
(* What udp_socket.h promises of its sockets, whatever the platform: every *)
(* call concerns the socket it is given and no other, an open socket stays *)
(* open until it is freed, and udp_socket_send goes to the receiver that   *)
(* was last set for this socket.                                           *)
(***************************************************************************)
CONSTANTS
  Sockets,     \* UdpSocket structures of the program
  Addresses,   \* endpoints a datagram may be sent to
  None         \* no receiver, no datagram

VARIABLES
  open,        \* which sockets are open
  receiver,    \* where udp_socket_send of a socket goes
  result       \* of the last call: its name, its code and the address it used

vars == <<open, receiver, result>>

Result(call, code, to) == [call |-> call, code |-> code, to |-> to]

Init ==
  /\ open = [s \in Sockets |-> FALSE]
  /\ receiver = [s \in Sockets |-> None]
  /\ result = None

\* A socket is open from a successful initialisation on, with no receiver; a
\* failed initialisation leaves it as it was.
Initialize(s) ==
  /\ ~open[s]
  /\ \/ /\ open' = [open EXCEPT ![s] = TRUE]
        /\ result' = Result("initialize", "OK", None)
     \/ /\ UNCHANGED open
        /\ \E code \in {"SOCKET_CREATION_FAILED", "PORT_IN_USE",
                        "SET_NONBLOCKING_FAILED"} :
             result' = Result("initialize", code, None)
  /\ UNCHANGED receiver

\* Freeing an open socket closes it.
Free(s) ==
  /\ open' = [open EXCEPT ![s] = FALSE]
  /\ receiver' = [receiver EXCEPT ![s] = None]
  /\ \/ result' = Result("free", "OK", None)
     \/ ~open[s] /\ result' = Result("free", "FREE_FAILED", None)

\* A receiver is set, or taken away, or everything stays as it was.
SetReceiver(s) ==
  /\ open[s]
  /\ \/ \E a \in Addresses \cup {None} :
          /\ receiver' = [receiver EXCEPT ![s] = a]
          /\ result' = Result("set", "OK", a)
     \/ /\ UNCHANGED receiver
        /\ \E code \in {"RESOLVE_HOSTNAME_FAILED", "CONNECT_FAILED"} :
             result' = Result("set", code, None)
  /\ UNCHANGED open

\* A datagram goes to the receiver of the socket; there must be one.
Send(s) ==
  /\ open[s]
  /\ \/ receiver[s] # None /\ result' = Result("send", "OK", receiver[s])
     \/ receiver[s] = None /\ result' = Result("send", "NO_RECEIVER", None)
     \/ \E code \in {"BAD_BROADCAST", "WOULDBLOCK", "PACKET_TOO_BIG", "SEND_FAILED"} :
          result' = Result("send", code, None)
  /\ UNCHANGED <<open, receiver>>

\* A datagram goes to the address given, whoever the receiver is.
SendTo(s) ==
  /\ open[s]
  /\ \/ \E a \in Addresses : result' = Result("send_to", "OK", a)
     \/ \E code \in {"BAD_BROADCAST", "WOULDBLOCK", "PACKET_TOO_BIG", "SEND_FAILED"} :
          result' = Result("send_to", code, None)
  /\ UNCHANGED <<open, receiver>>

Receive(s) ==
  /\ open[s]
  /\ \E code \in {"OK", "NOTHING_RECEIVED", "RECEIVE_FAILED"} :
       result' = Result("receive", code, None)
  /\ UNCHANGED <<open, receiver>>

Next ==
  \E s \in Sockets :
    \/ Initialize(s) \/ Free(s) \/ SetReceiver(s)
    \/ Send(s) \/ SendTo(s) \/ Receive(s)

Spec == Init /\ [][Next]_vars
=============================================================================
