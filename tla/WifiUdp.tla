------------------------------ MODULE WifiUdp ------------------------------
(***************************************************************************)
(* The sockets of src/udp_socket/udp_socket_wifiudp.cpp on an ESP8266: the *)
(* structure holds nothing, all of them share one WiFiUDP object and one   *)
(* receiver.  udp_socket_set_receiver is not implemented there, so only a  *)
(* sink can be built on it.                                                *)
(***************************************************************************)
CONSTANTS
  Sockets,     \* UdpSocket structures of the program
  Addresses,   \* endpoints a datagram may be sent to
  None         \* no receiver, no datagram

VARIABLES
  begun,         \* which structures are initialised
  has_receiver,
  receiver,      \* keeps its value when has_receiver is cleared
  result         \* of the last call: its name, its code and the address it used

wifiVars == <<begun, has_receiver, receiver, result>>

Result(call, code, to) == [call |-> call, code |-> code, to |-> to]

Init ==
  /\ begun = [s \in Sockets |-> FALSE]
  /\ has_receiver = FALSE
  /\ receiver = None
  /\ result = None

\* Mutant: the receiver of an earlier socket is left in place.
udp_socket_init_on_port_Keeps(s) ==
  /\ ~begun[s]
  /\ begun' = [begun EXCEPT ![s] = TRUE]
  /\ result' = Result("initialize", "OK", None)
  /\ UNCHANGED <<has_receiver, receiver>>

\* Udp.begin may fail, but nobody asks.
udp_socket_init_on_port(s) ==
  /\ ~begun[s]
  /\ begun' = [begun EXCEPT ![s] = TRUE]
  /\ has_receiver' = FALSE
  /\ result' = Result("initialize", "OK", None)
  /\ UNCHANGED receiver

udp_socket_free(s) ==
  /\ begun[s]
  /\ begun' = [begun EXCEPT ![s] = FALSE]
  /\ result' = Result("free", "OK", None)
  /\ UNCHANGED <<has_receiver, receiver>>

udp_socket_set_endpoint(s, endpoint) ==
  /\ begun[s]
  /\ \/ /\ endpoint # None
        /\ receiver' = endpoint
        /\ has_receiver' = TRUE
     \/ /\ endpoint = None
        /\ has_receiver' = FALSE
        /\ UNCHANGED receiver
  /\ result' = Result("set", "OK", endpoint)
  /\ UNCHANGED begun

\* Whether the datagram left is not asked either.
udp_socket_send_to(s, to) ==
  /\ begun[s]
  /\ \/ to = None /\ has_receiver /\ result' = Result("send", "OK", receiver)
     \/ to = None /\ ~has_receiver /\ result' = Result("send", "NO_RECEIVER", None)
     \/ to # None /\ result' = Result("send_to", "OK", to)
  /\ UNCHANGED <<begun, has_receiver, receiver>>

udp_socket_receive_from(s) ==
  /\ begun[s]
  /\ \E code \in {"OK", "NOTHING_RECEIVED"} : result' = Result("receive", code, None)
  /\ UNCHANGED <<begun, has_receiver, receiver>>

Next ==
  \E s \in Sockets :
    \/ udp_socket_init_on_port(s)
    \/ udp_socket_free(s)
    \/ \E a \in Addresses \cup {None} :
         udp_socket_set_endpoint(s, a) \/ udp_socket_send_to(s, a)
    \/ udp_socket_receive_from(s)

Spec == Init /\ [][Next]_wifiVars
=============================================================================
