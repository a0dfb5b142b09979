----------------------------- MODULE UdpSocket -----------------------------
(***************************************************************************)
(* The sockets of src/udp_socket/udp_socket_bsdlike.cpp on a POSIX system: *)
(* the handle that a UdpSocket holds, and the descriptors of the process   *)
(* it refers to.  Initialising takes four system calls, each of which may  *)
(* fail, and sockets of several threads are initialised at the same time.  *)
(* The callers are those of the library: atolla_sink_free and              *)
(* atolla_source_free free the socket of their sink or source whether its  *)
(* initialisation succeeded or failed.                                     *)
(*                                                                         *)
(* What datagrams hold, and the queue of a socket, are left out: a receive *)
(* finds a datagram of anyone, an empty one, nothing, or fails.            *)
(***************************************************************************)
EXTENDS Integers, SequencesExt

CONSTANTS
  Sockets,      \* UdpSocket structures of the program
  Addresses,    \* endpoints a datagram may be sent to
  Ports,        \* ports a program asks for; 0 stands for any free one
  Descriptors,  \* file descriptors the process has to spare
  None          \* nothing

ASSUME UdpSocketAssumption ==
  /\ None \notin Sockets \cup Addresses
  /\ Ports \subseteq Nat
  /\ Descriptors \subseteq Nat
  /\ None \notin [opener : Sockets, port : Nat, peer : Addresses \cup {None}]

VARIABLES
  handle,   \* socket_handle of each structure
  at,       \* how far the initialisation of each structure came
  port,     \* the port asked for
  fds,      \* the kernel's table: who opened a descriptor, bound port, peer
  result    \* of the last call: its name, its code and the address it used

vars == <<handle, at, port, fds, result>>

Result(call, code, to) == [call |-> call, code |-> code, to |-> to]

\* Where the initialisation stands while it runs, and how it failed.
Busy == {"v6only", "bind", "set_nonblocking"}
Failed == {"no_socket", "not_bound", "blocking"}

IsOpen(h) == h \in Descriptors /\ fds[h] # None
Free == {h \in Descriptors : fds[h] = None}
Taken(p) == \E h \in Descriptors : fds[h] # None /\ p # 0 /\ fds[h].port = p

Init ==
  /\ handle = [s \in Sockets |-> -1]
  /\ at = [s \in Sockets |-> "unused"]
  /\ port = [s \in Sockets |-> 0]
  /\ fds = [h \in Descriptors |-> None]
  /\ result = None

-----------------------------------------------------------------------------
(* The calls of the operating system.  Those on a number that is not open  *)
(* fail, those on a number that belongs to another socket by now do what   *)
(* they do to that one.                                                    *)

Entry(opener, p, peer) == [opener |-> opener, port |-> p, peer |-> peer]

\* A new descriptor is the lowest free one.
socket(s, h) ==
  /\ h \in Free
  /\ \A g \in Free : h <= g
  /\ fds' = [fds EXCEPT ![h] = Entry(s, 0, None)]

close(h) == fds' = IF IsOpen(h) THEN [fds EXCEPT ![h] = None] ELSE fds

\* connect on a datagram socket only sets the peer, None disconnects.
connect(h, peer) ==
  /\ IsOpen(h)
  /\ fds' = [fds EXCEPT ![h] = Entry(@.opener, @.port, peer)]

-----------------------------------------------------------------------------
(* udp_socket_init_on_port, one system call after the other. *)

\* Descriptor 0 counts as a failure, and is not closed.
udp_socket_create_socket(s, p) ==
  /\ at[s] = "unused"
  /\ port' = [port EXCEPT ![s] = p]
  /\ \/ \E h \in Descriptors :
          /\ socket(s, h)
          /\ handle' = [handle EXCEPT ![s] = h]
          /\ \/ /\ h > 0
                /\ at' = [at EXCEPT ![s] = "v6only"]
                /\ UNCHANGED result
             \/ /\ h = 0
                /\ at' = [at EXCEPT ![s] = "no_socket"]
                /\ result' = Result("initialize", "SOCKET_CREATION_FAILED", None)
     \/ /\ Free = {}
        /\ handle' = [handle EXCEPT ![s] = -1]
        /\ at' = [at EXCEPT ![s] = "no_socket"]
        /\ result' = Result("initialize", "SOCKET_CREATION_FAILED", None)
        /\ UNCHANGED fds

\* The socket is to take IPv4 as well.  If it cannot, an assertion ends the
\* process, unless assertions are compiled out.
setsockopt(s) ==
  /\ at[s] = "v6only"
  /\ at' \in {[at EXCEPT ![s] = "bind"], [at EXCEPT ![s] = "aborted"]}
  /\ UNCHANGED <<handle, port, fds, result>>

\* Mutant: the descriptor is closed when its port is taken, but the handle
\* keeps its number.
bind_Closes(s) ==
  /\ at[s] = "bind"
  /\ UNCHANGED <<handle, port>>
  /\ \/ /\ IsOpen(handle[s]) /\ ~Taken(port[s])
        /\ fds' = [fds EXCEPT ![handle[s]] = Entry(@.opener, port[s], @.peer)]
        /\ at' = [at EXCEPT ![s] = "set_nonblocking"]
        /\ UNCHANGED result
     \/ /\ close(handle[s])
        /\ at' = [at EXCEPT ![s] = "not_bound"]
        /\ result' = Result("initialize", "PORT_IN_USE", None)

\* Binding fails if the port is taken, or for reasons of the system.  The
\* descriptor stays open.
bind(s) ==
  /\ at[s] = "bind"
  /\ UNCHANGED <<handle, port>>
  /\ \/ /\ IsOpen(handle[s]) /\ ~Taken(port[s])
        /\ fds' = [fds EXCEPT ![handle[s]] = Entry(@.opener, port[s], @.peer)]
        /\ at' = [at EXCEPT ![s] = "set_nonblocking"]
        /\ UNCHANGED result
     \/ /\ at' = [at EXCEPT ![s] = "not_bound"]
        /\ result' = Result("initialize", "PORT_IN_USE", None)
        /\ UNCHANGED fds

\* Mutant: the descriptor is not closed when the last call fails.
udp_socket_set_socket_nonblocking_Leaks(s) ==
  /\ at[s] = "set_nonblocking"
  /\ UNCHANGED <<handle, port, fds>>
  /\ \/ /\ IsOpen(handle[s])
        /\ at' = [at EXCEPT ![s] = "ready"]
        /\ result' = Result("initialize", "OK", None)
     \/ /\ at' = [at EXCEPT ![s] = "blocking"]
        /\ result' = Result("initialize", "SET_NONBLOCKING_FAILED", None)

\* Here the descriptor is closed on failure; its number stays in the handle.
udp_socket_set_socket_nonblocking(s) ==
  /\ at[s] = "set_nonblocking"
  /\ UNCHANGED <<handle, port>>
  /\ \/ /\ IsOpen(handle[s])
        /\ at' = [at EXCEPT ![s] = "ready"]
        /\ result' = Result("initialize", "OK", None)
        /\ UNCHANGED fds
     \/ /\ close(handle[s])
        /\ at' = [at EXCEPT ![s] = "blocking"]
        /\ result' = Result("initialize", "SET_NONBLOCKING_FAILED", None)

\* Whatever the handle refers to is closed.  The sink and the source do this
\* after every failure, too.
udp_socket_free(s) ==
  /\ at[s] \in {"ready"} \cup Failed
  /\ at' = [at EXCEPT ![s] = "unused"]
  /\ close(handle[s])
  /\ \/ /\ IsOpen(handle[s])
        /\ handle' = [handle EXCEPT ![s] = -1]
        /\ result' = Result("free", "OK", None)
     \/ /\ ~IsOpen(handle[s])
        /\ result' = Result("free", "FREE_FAILED", None)
        /\ UNCHANGED handle
  /\ UNCHANGED port

-----------------------------------------------------------------------------
(* The calls on a socket that is ready. *)

\* The host name stands for the addresses addrs, of which those in up can be
\* connected to; the first of them becomes the receiver.
udp_socket_set_receiver(s, addrs, up) ==
  /\ at[s] = "ready"
  /\ \/ /\ addrs = << >>
        /\ result' = Result("set", "RESOLVE_HOSTNAME_FAILED", None)
        /\ UNCHANGED fds
     \/ /\ addrs # << >>
        /\ IsOpen(handle[s]) => \A i \in DOMAIN addrs : addrs[i] \notin up
        /\ result' = Result("set", "CONNECT_FAILED", None)
        /\ UNCHANGED fds
     \/ \E i \in DOMAIN addrs :
          /\ addrs[i] \in up
          /\ \A j \in 1 .. i - 1 : addrs[j] \notin up
          /\ connect(handle[s], addrs[i])
          /\ result' = Result("set", "OK", addrs[i])
  /\ UNCHANGED <<handle, at, port>>

\* A null pointer (None) disconnects.
udp_socket_set_endpoint(s, endpoint) ==
  /\ at[s] = "ready"
  /\ \/ connect(handle[s], endpoint) /\ result' = Result("set", "OK", endpoint)
     \/ UNCHANGED fds /\ result' = Result("set", "CONNECT_FAILED", None)
  /\ UNCHANGED <<handle, at, port>>

SendErrors == {"BAD_BROADCAST", "WOULDBLOCK", "PACKET_TOO_BIG", "SEND_FAILED"}

\* A null pointer (None) sends to the peer of the socket, if it has one.
udp_socket_send_to(s, to) ==
  LET call == IF to = None THEN "send" ELSE "send_to"
      dest == IF to = None THEN fds[handle[s]].peer ELSE to
  IN
  /\ at[s] = "ready"
  /\ \/ /\ IsOpen(handle[s])
        /\ result' = IF dest # None THEN Result(call, "OK", dest)
                     ELSE Result(call, "NO_RECEIVER", None)
     \/ \E code \in SendErrors : result' = Result(call, code, None)
  /\ UNCHANGED <<handle, at, port, fds>>

\* For an empty datagram errno is that of an earlier call, and decides
\* which error is reported.
udp_socket_receive_from(s) ==
  /\ at[s] = "ready"
  /\ \E code \in {"OK", "NOTHING_RECEIVED", "RECEIVE_FAILED"} :
       /\ IsOpen(handle[s]) \/ code = "RECEIVE_FAILED"
       /\ result' = Result("receive", code, None)
  /\ UNCHANGED <<handle, at, port, fds>>

\* A datagram of sender was received, who becomes the receiver.
udp_socket_receive_and_set(s, sender) == udp_socket_set_endpoint(s, sender)

-----------------------------------------------------------------------------
Initialising(s) ==
  \/ \E p \in Ports \cup {0} : udp_socket_create_socket(s, p)
  \/ setsockopt(s)
  \/ bind(s)
  \/ udp_socket_set_socket_nonblocking(s)

Using(s) ==
  \/ \E addrs \in SeqOf(Addresses, 2), up \in SUBSET Addresses :
       udp_socket_set_receiver(s, addrs, up)
  \/ \E a \in Addresses \cup {None} :
       udp_socket_set_endpoint(s, a) \/ udp_socket_send_to(s, a)
  \/ udp_socket_receive_from(s)
  \/ \E a \in Addresses : udp_socket_receive_and_set(s, a)

Aborted == \E s \in Sockets : at[s] = "aborted"

Next ==
  /\ ~Aborted
  /\ \E s \in Sockets : Initialising(s) \/ Using(s) \/ udp_socket_free(s)

Spec == Init /\ [][Next]_vars

-----------------------------------------------------------------------------
(* Properties. *)

Entries == [opener : Sockets, port : Ports \cup {0}, peer : Addresses \cup {None}]

\* The structures and the kernel's table keep their types.
TypeOK ==
  /\ handle \in [Sockets -> Descriptors \cup {-1}]
  /\ at \in [Sockets -> {"unused", "ready", "aborted"} \cup Busy \cup Failed]
  /\ port \in [Sockets -> Ports \cup {0}]
  /\ fds \in [Descriptors -> Entries \cup {None}]

\* A socket in use refers to a descriptor that was opened for it: neither a
\* failed initialisation nor the freeing of another socket closes it
\* (udp_socket_free closes whatever number the handle holds).
OwnHandle ==
  \A s \in Sockets :
    at[s] \in {"ready"} \cup Busy =>
      IsOpen(handle[s]) /\ fds[handle[s]].opener = s

\* Every open descriptor is still in the hands of a caller who will free it:
\* no order of failing and succeeding initialisations uses descriptors up,
\* as atolla_sink_free and atolla_source_free free after failures as well.
NoLeak ==
  \A h \in Descriptors : IsOpen(h) =>
    /\ handle[fds[h].opener] = h
    /\ at[fds[h].opener] \notin {"unused", "blocking"}

ReceiverOf(s) ==
  IF at[s] = "ready" /\ IsOpen(handle[s]) THEN fds[handle[s]].peer ELSE None

Api == INSTANCE SocketApi WITH
         open <- [s \in Sockets |-> at[s] = "ready"],
         receiver <- [s \in Sockets |-> ReceiverOf(s)]
=============================================================================
