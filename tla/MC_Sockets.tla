----------------------------- MODULE MC_Sockets -----------------------------
(***************************************************************************)
(* Both implementations of udp_socket.h for TLC.  The library is built     *)
(* with one or the other: "build" is chosen at the start and the other's   *)
(* variables stay as they are.  History variables note the two things that *)
(* break the promise of udp_socket.h, one in each build.                   *)
(***************************************************************************)
EXTENDS UdpSocket

VARIABLES
  build, begun, has_receiver, receiver,
  closed_twice,   \* a socket was freed after set_nonblocking had failed
  shared          \* two sockets were open at once on an ESP8266

wifi == <<begun, has_receiver, receiver>>
bsdlike == <<handle, at, port, fds>>
history == <<closed_twice, shared>>
builtVars == <<build, wifi, bsdlike, result, history>>

W == INSTANCE WifiUdp

BuiltInit ==
  /\ Init /\ W!Init
  /\ build \in {"bsdlike", "wifiudp"}
  /\ closed_twice = FALSE /\ shared = FALSE

ClosesAgain == \E s \in Sockets : at[s] = "blocking" /\ at'[s] = "unused"
TwoBegun == \E s, t \in Sockets : s # t /\ begun[s] /\ begun[t]

BuiltNext ==
  /\ \/ build = "bsdlike" /\ Next /\ UNCHANGED wifi
     \/ build = "wifiudp" /\ W!Next /\ UNCHANGED bsdlike
  /\ UNCHANGED build
  /\ closed_twice' = (closed_twice \/ ClosesAgain)
  /\ shared' = (shared \/ TwoBegun')

BuiltSpec == BuiltInit /\ [][BuiltNext]_builtVars

OpenIn(s) == IF build = "bsdlike" THEN at[s] = "ready" ELSE begun[s]

\* Where udp_socket_send of a socket goes.
ReceiverIn(s) ==
  IF build = "bsdlike" THEN ReceiverOf(s)
  ELSE IF begun[s] /\ has_receiver THEN receiver ELSE None

BuiltApi == INSTANCE SocketApi WITH
  open <- [s \in Sockets |-> OpenIn(s)],
  receiver <- [s \in Sockets |-> ReceiverIn(s)]

-----------------------------------------------------------------------------
\* OwnHandle holds until somebody frees a socket whose initialisation failed
\* in set_nonblocking: udp_socket_init_on_port has closed its descriptor by
\* then, and the number that stays in the handle may be another's.  No other
\* order of failing system calls and frees takes a descriptor from its socket.
OwnHandleTillClosedTwice == ~closed_twice => OwnHandle

\* In either build the sockets keep the promise of SocketApi, that what is
\* done with one socket, failures included, changes nothing for another and
\* that a datagram goes to the receiver last set, until a descriptor is closed
\* twice (udp_socket_free) or, on an ESP8266, two sockets are open at once.
\* Sockets that follow one another are no trouble there: a new one does not
\* inherit the receiver of the last (udp_socket_init_on_port).
ImplementsApiTillShared ==
  /\ BuiltApi!Init
  /\ [][BuiltApi!Next \/ closed_twice' \/ shared']_(BuiltApi!vars)
=============================================================================
