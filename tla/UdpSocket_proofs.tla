-------------------------- MODULE UdpSocket_proofs --------------------------
(***************************************************************************)
(* For any number of sockets, ports and descriptors, and callers that free *)
(* after failures as the sink and the source do: no descriptor is lost.    *)
(* Until somebody frees a socket whose initialisation failed last, no      *)
(* descriptor is closed under a socket in use; until then, and until two   *)
(* sockets are open on an ESP8266, both builds keep the promise of         *)
(* udp_socket.h.                                                           *)
(***************************************************************************)
EXTENDS MC_Sockets, TLAPS

\* The handle of s refers to a descriptor that was opened for s.
Mine(s) == IsOpen(handle[s]) /\ fds[handle[s]].opener = s

\* The calls on a ready socket change nothing but a peer.
LEMMA UsingChanges ==
  ASSUME NEW s \in Sockets, Using(s)
  PROVE  /\ at[s] = "ready"
         /\ UNCHANGED <<handle, at, port>>
         /\ \E a \in Addresses \cup {None} : connect(handle[s], a) \/ UNCHANGED fds
  <1> DEFINE Changes(a) ==
        /\ at[s] = "ready"
        /\ UNCHANGED <<handle, at, port>>
        /\ connect(handle[s], a) \/ UNCHANGED fds
  <1>1. ASSUME NEW addrs \in SeqOf(Addresses, 2), NEW up \in SUBSET Addresses,
               udp_socket_set_receiver(s, addrs, up)
        PROVE  \E a \in Addresses \cup {None} : Changes(a)
    <2>1. \A i \in DOMAIN addrs : addrs[i] \in Addresses
      BY DEF SeqOf
    <2> QED BY <1>1, <2>1 DEF udp_socket_set_receiver
  <1>2. ASSUME NEW a \in Addresses \cup {None}, udp_socket_set_endpoint(s, a)
        PROVE  Changes(a)
    BY <1>2 DEF udp_socket_set_endpoint
  <1>3. ASSUME NEW a \in Addresses \cup {None}, udp_socket_send_to(s, a)
        PROVE  Changes(a)
    BY <1>3 DEF udp_socket_send_to
  <1>4. ASSUME udp_socket_receive_from(s) PROVE Changes(None)
    BY <1>4 DEF udp_socket_receive_from
  <1>5. ASSUME NEW a \in Addresses, udp_socket_receive_and_set(s, a) PROVE Changes(a)
    BY <1>2, <1>5 DEF udp_socket_receive_and_set
  <1> QED BY <1>1, <1>2, <1>3, <1>4, <1>5 DEF Using

LEMMA PeerOnly ==
  ASSUME TypeOK, NEW s \in Sockets, Using(s)
  PROVE  /\ TypeOK'
         /\ \A h \in Descriptors : fds[h] = None <=> fds'[h] = None
         /\ \A h \in Descriptors : fds[h] # None => fds'[h].opener = fds[h].opener
  <1> PICK a \in Addresses \cup {None} : connect(handle[s], a) \/ UNCHANGED fds
    BY UsingChanges
  <1> QED BY UdpSocketAssumption, UsingChanges DEF TypeOK, connect, IsOpen, Entry, Entries

\* Which descriptors a step of s leaves open, and what it makes of handles.
LEMMA TypeOKStep ==
  ASSUME TypeOK, NEW s \in Sockets, Initialising(s) \/ Using(s) \/ udp_socket_free(s)
  PROVE  TypeOK'
  <1> USE UdpSocketAssumption DEF TypeOK, Busy, Failed
  <1>1. ASSUME NEW p \in Ports \cup {0}, udp_socket_create_socket(s, p) PROVE TypeOK'
    BY <1>1 DEF udp_socket_create_socket, socket, Entry, Entries
  <1>2. ASSUME setsockopt(s) PROVE TypeOK'
    BY <1>2 DEF setsockopt
  <1>3. ASSUME bind(s) PROVE TypeOK'
    BY <1>3 DEF bind, IsOpen, Entry, Entries
  <1>4. ASSUME udp_socket_set_socket_nonblocking(s) PROVE TypeOK'
    BY <1>4 DEF udp_socket_set_socket_nonblocking, close
  <1>5. ASSUME udp_socket_free(s) PROVE TypeOK'
    BY <1>5 DEF udp_socket_free, close
  <1> QED BY <1>1, <1>2, <1>3, <1>4, <1>5, PeerOnly DEF Initialising

\* The structures and the kernel's table keep their types (TypeOK).
LEMMA TypeOKNext ==
  ASSUME TypeOK, [Next]_vars
  PROVE  TypeOK'
  <1>1. CASE UNCHANGED vars
    BY <1>1 DEF TypeOK, vars
  <1> QED BY <1>1, TypeOKStep DEF Next

\* Which sockets have a descriptor of their own.  One that was not bound keeps
\* it, one that was not created has none or, if that is descriptor 0, its own.
HandleInv ==
  /\ TypeOK
  /\ \A s \in Sockets :
       /\ at[s] \in {"ready", "not_bound"} \cup Busy => Mine(s)
       /\ at[s] = "no_socket" => handle[s] = -1 \/ Mine(s)

LEMMA HandleInvInit == Init => HandleInv
  BY DEF Init, HandleInv, TypeOK, Busy, Failed

\* The system calls of an initialisation, failing or not.
LEMMA InitialisingKeeps ==
  ASSUME HandleInv, NEW s \in Sockets, Initialising(s)
  PROVE  HandleInv'
  <1> USE UdpSocketAssumption DEF HandleInv, Busy, Failed
  <1>1. ASSUME NEW p \in Ports \cup {0}, udp_socket_create_socket(s, p)
        PROVE  HandleInv'
    <2>1. CASE \E h \in Descriptors :
                 /\ socket(s, h)
                 /\ handle' = [handle EXCEPT ![s] = h]
                 /\ at' \in {[at EXCEPT ![s] = "v6only"], [at EXCEPT ![s] = "no_socket"]}
      <3> PICK h \in Descriptors :
            /\ socket(s, h)
            /\ handle' = [handle EXCEPT ![s] = h]
            /\ at' \in {[at EXCEPT ![s] = "v6only"], [at EXCEPT ![s] = "no_socket"]}
        BY <2>1
      <3>1. TypeOK'
        BY <1>1 DEF TypeOK, socket, Entry, Entries, udp_socket_create_socket
      <3>2. Mine(s)'
        BY <1>1 DEF TypeOK, socket, Entry, Entries, Mine, IsOpen
      <3>3. ASSUME NEW t \in Sockets, t # s, Mine(t) PROVE Mine(t)'
        BY <3>3 DEF TypeOK, socket, Entry, Free, Mine, IsOpen
      <3>4. \A t \in Sockets : t # s => at'[t] = at[t] /\ handle'[t] = handle[t]
        BY DEF TypeOK
      <3>5. at'[s] \in {"v6only", "no_socket"}
        BY DEF TypeOK
      <3> QED BY <3>1, <3>2, <3>3, <3>4, <3>5
    <2>2. CASE /\ handle' = [handle EXCEPT ![s] = -1]
               /\ at' = [at EXCEPT ![s] = "no_socket"]
               /\ UNCHANGED fds
      <3>1. TypeOK'
        BY <1>1, <2>2 DEF TypeOK, udp_socket_create_socket
      <3>2. \A t \in Sockets : t # s => at'[t] = at[t] /\ handle'[t] = handle[t]
        BY <2>2 DEF TypeOK
      <3>3. at'[s] = "no_socket" /\ handle'[s] = -1
        BY <2>2 DEF TypeOK
      <3> QED BY <2>2, <3>1, <3>2, <3>3 DEF Mine, IsOpen
    <2> QED BY <1>1, <2>1, <2>2 DEF udp_socket_create_socket
  <1>2. ASSUME bind(s) PROVE HandleInv'
    <2>1. Mine(s)
      BY <1>2 DEF bind
    <2>2. TypeOK'
      BY <1>2, <2>1 DEF bind, TypeOK, Mine, IsOpen, Entry, Entries
    <2>3. \A t \in Sockets : Mine(t) => Mine(t)'
      BY <1>2, <2>1 DEF bind, TypeOK, Mine, IsOpen, Entry, Entries
    <2>4. \A t \in Sockets : t # s => at'[t] = at[t] /\ handle'[t] = handle[t]
      BY <1>2 DEF bind, TypeOK
    <2> QED BY <2>1, <2>2, <2>3, <2>4
  <1>3. ASSUME udp_socket_set_socket_nonblocking(s) PROVE HandleInv'
    <2>1. Mine(s)
      BY <1>3 DEF udp_socket_set_socket_nonblocking
    <2>2. TypeOK'
      BY <1>3 DEF udp_socket_set_socket_nonblocking, TypeOK, close
    <2>3. ASSUME NEW t \in Sockets, t # s, Mine(t) PROVE Mine(t)'
      BY <1>3, <2>1, <2>3 DEF udp_socket_set_socket_nonblocking, TypeOK, Mine, IsOpen, close
    <2>4. \A t \in Sockets : t # s => at'[t] = at[t] /\ handle'[t] = handle[t]
      BY <1>3 DEF udp_socket_set_socket_nonblocking, TypeOK
    <2>5. at'[s] = "blocking" \/ (at'[s] = "ready" /\ Mine(s)')
      BY <1>3, <2>1 DEF udp_socket_set_socket_nonblocking, TypeOK, Mine, IsOpen
    <2> QED BY <2>2, <2>3, <2>4, <2>5
  <1>4. ASSUME setsockopt(s) PROVE HandleInv'
    <2>1. Mine(s) /\ \A t \in Sockets : Mine(t)' = Mine(t)
      BY <1>4 DEF setsockopt, Mine, IsOpen
    <2>2. /\ TypeOK'
          /\ \A t \in Sockets : t # s => at'[t] = at[t] /\ handle'[t] = handle[t]
      BY <1>4 DEF setsockopt, TypeOK
    <2> QED BY <2>1, <2>2
  <1> QED BY <1>1, <1>2, <1>3, <1>4 DEF Initialising

LEMMA UsingKeeps ==
  ASSUME HandleInv, NEW s \in Sockets, Using(s)
  PROVE  HandleInv'
  <1>1. \A t \in Sockets : Mine(t) => Mine(t)'
    BY UsingChanges, PeerOnly DEF HandleInv, Mine, IsOpen
  <1> QED BY <1>1, UsingChanges, PeerOnly DEF HandleInv

LEMMA FreeKeeps ==
  ASSUME HandleInv, NEW s \in Sockets, udp_socket_free(s), at[s] # "blocking"
  PROVE  HandleInv'
  <1> USE UdpSocketAssumption DEF HandleInv, Busy, Failed, udp_socket_free
  <1>1. Mine(s) \/ handle[s] = -1
    OBVIOUS
  <1>2. TypeOK'
    BY DEF TypeOK, close
  <1>3. ASSUME NEW t \in Sockets, t # s, Mine(t) PROVE Mine(t)'
    BY <1>1, <1>3 DEF TypeOK, close, Mine, IsOpen
  <1>4. \A t \in Sockets : t # s => at'[t] = at[t] /\ handle'[t] = handle[t]
    BY DEF TypeOK
  <1>5. at'[s] = "unused"
    BY DEF TypeOK
  <1> QED BY <1>2, <1>3, <1>4, <1>5

LEMMA HandleInvNext ==
  ASSUME HandleInv, [Next]_vars, ~ClosesAgain
  PROVE  HandleInv'
  <1>1. CASE UNCHANGED vars
    BY <1>1 DEF HandleInv, TypeOK, Mine, IsOpen, vars
  <1>2. ASSUME NEW s \in Sockets, Initialising(s) \/ Using(s) \/ udp_socket_free(s)
        PROVE  HandleInv'
    <2>1. udp_socket_free(s) => at[s] # "blocking"
      BY DEF udp_socket_free, ClosesAgain, HandleInv, TypeOK
    <2> QED BY <1>2, <2>1, InitialisingKeeps, UsingKeeps, FreeKeeps
  <1> QED BY <1>1, <1>2 DEF Next

-----------------------------------------------------------------------------
\* No step lets a descriptor go that nobody will close.  This does not need
\* HandleInv: what a second close takes away is not lost.
LEMMA NoLeakNext ==
  ASSUME TypeOK, NoLeak, [Next]_vars
  PROVE  NoLeak'
  <1>0. \A h \in Descriptors : IsOpen(h) => fds[h].opener \in Sockets
    BY UdpSocketAssumption DEF IsOpen, TypeOK, Entries
  <1>1. CASE UNCHANGED vars
    BY <1>1 DEF NoLeak, IsOpen, vars
  <1>2. ASSUME NEW s \in Sockets, NEW p \in Ports \cup {0}, udp_socket_create_socket(s, p)
        PROVE  NoLeak'
    <2>1. \A h \in Descriptors : IsOpen(h) => fds[h].opener # s
      BY <1>2 DEF udp_socket_create_socket, NoLeak
    <2>2. /\ \A t \in Sockets : t # s => at'[t] = at[t] /\ handle'[t] = handle[t]
          /\ at'[s] \in {"v6only", "no_socket"}
      BY <1>2 DEF udp_socket_create_socket, TypeOK
    <2>3. ASSUME NEW h \in Descriptors, IsOpen(h)'
          PROVE  \/ IsOpen(h) /\ fds'[h] = fds[h]
                 \/ fds'[h].opener = s /\ handle'[s] = h
      BY <1>2, <2>3 DEF udp_socket_create_socket, socket, Entry, Free, IsOpen, TypeOK
    <2>4. ASSUME NEW h \in Descriptors, IsOpen(h)'
          PROVE  /\ handle'[fds'[h].opener] = h
                 /\ at'[fds'[h].opener] \notin {"unused", "blocking"}
      <3>1. CASE IsOpen(h) /\ fds'[h] = fds[h]
        BY <1>0, <2>1, <2>2, <3>1 DEF NoLeak
      <3>2. CASE fds'[h].opener = s /\ handle'[s] = h
        BY <2>2, <3>2
      <3> QED BY <2>3, <2>4, <3>1, <3>2
    <2> QED BY <2>4 DEF NoLeak
  <1>3. ASSUME NEW s \in Sockets, setsockopt(s) \/ bind(s) PROVE NoLeak'
    <2>1. /\ \A t \in Sockets : t # s => at'[t] = at[t]
          /\ at'[s] \notin {"unused", "blocking"}
          /\ handle' = handle
      BY <1>3 DEF setsockopt, bind, TypeOK
    <2>2. ASSUME NEW h \in Descriptors, IsOpen(h)'
          PROVE  IsOpen(h) /\ fds'[h].opener = fds[h].opener
      <3>1. CASE UNCHANGED fds
        BY <2>2, <3>1 DEF IsOpen
      <3>2. CASE /\ IsOpen(handle[s])
                 /\ fds' = [fds EXCEPT ![handle[s]] = Entry(@.opener, port[s], @.peer)]
        BY <2>2, <3>2 DEF IsOpen, Entry, TypeOK
      <3> QED BY <1>3, <3>1, <3>2 DEF setsockopt, bind
    <2> QED BY <1>0, <2>1, <2>2 DEF NoLeak
  <1>4. ASSUME NEW s \in Sockets, udp_socket_set_socket_nonblocking(s) \/ udp_socket_free(s)
        PROVE  NoLeak'
    <2>1. /\ \A t \in Sockets : t # s => at'[t] = at[t] /\ handle'[t] = handle[t]
          /\ \/ at'[s] = "ready" /\ handle' = handle
             \/ IsOpen(handle[s]) => fds'[handle[s]] = None
      BY <1>4 DEF udp_socket_set_socket_nonblocking, udp_socket_free, TypeOK, close, IsOpen
    <2>2. \A h \in Descriptors : IsOpen(h)' => IsOpen(h) /\ fds'[h] = fds[h]
      BY <1>4 DEF udp_socket_set_socket_nonblocking, udp_socket_free, close, IsOpen, TypeOK
    <2>3. ASSUME NEW h \in Descriptors, IsOpen(h)'
          PROVE  /\ handle'[fds'[h].opener] = h
                 /\ at'[fds'[h].opener] \notin {"unused", "blocking"}
      <3>1. /\ IsOpen(h) /\ fds'[h] = fds[h] /\ fds'[h] # None
            /\ fds[h].opener \in Sockets /\ handle[fds[h].opener] = h
            /\ at[fds[h].opener] \notin {"unused", "blocking"}
        BY <1>0, <2>2, <2>3 DEF NoLeak, IsOpen
      <3> QED BY <2>1, <3>1
    <2> QED BY <2>3 DEF NoLeak
  <1>5. ASSUME NEW s \in Sockets, Using(s) PROVE NoLeak'
    BY <1>5, UsingChanges, PeerOnly DEF NoLeak, IsOpen
  <1> QED BY <1>1, <1>2, <1>3, <1>4, <1>5 DEF Next, Initialising

-----------------------------------------------------------------------------
\* A socket that is being initialised has no peer yet.
NoPeerYet == \A s \in Sockets : at[s] \in Busy => fds[handle[s]].peer = None

\* What a step of s leaves as it was for everybody else.
Spares(s) ==
  \A t \in Sockets : t # s =>
    /\ at'[t] = at[t]
    /\ handle'[t] = handle[t]
    /\ at[t] \in {"ready"} \cup Busy => fds'[handle[t]] = fds[handle[t]]

LEMMA StepSpares ==
  ASSUME HandleInv, NEW s \in Sockets, ~ClosesAgain,
         Initialising(s) \/ Using(s) \/ udp_socket_free(s)
  PROVE  Spares(s)
  <1> USE UdpSocketAssumption DEF HandleInv, Spares, TypeOK
  <1>1. ASSUME NEW p \in Ports \cup {0}, udp_socket_create_socket(s, p) PROVE Spares(s)
    BY <1>1 DEF udp_socket_create_socket, socket, Free, Mine, IsOpen
  <1>2. ASSUME bind(s) PROVE Spares(s)
    BY <1>2 DEF bind, Mine, IsOpen, Busy
  <1>3. ASSUME udp_socket_set_socket_nonblocking(s) PROVE Spares(s)
    BY <1>3 DEF udp_socket_set_socket_nonblocking, close, Mine, IsOpen, Busy
  <1>4. ASSUME udp_socket_free(s) PROVE Spares(s)
    <2>1. Mine(s) \/ handle[s] = -1
      BY <1>4 DEF udp_socket_free, ClosesAgain, Failed
    <2> QED BY <1>4, <2>1 DEF udp_socket_free, close, Mine, IsOpen, Busy
  <1>5. ASSUME NEW a, connect(handle[s], a) \/ UNCHANGED fds, at[s] = "ready",
               UNCHANGED <<handle, at>>
        PROVE  Spares(s)
    BY <1>5 DEF connect, Mine, IsOpen, Busy
  <1>6. ASSUME Using(s) PROVE Spares(s)
    BY <1>5, <1>6, UsingChanges
  <1>7. ASSUME setsockopt(s) PROVE Spares(s)
    BY <1>7 DEF setsockopt
  <1> QED BY <1>1, <1>2, <1>3, <1>4, <1>6, <1>7 DEF Initialising

LEMMA NoPeerYetNext ==
  ASSUME HandleInv, NoPeerYet, [Next]_vars, ~ClosesAgain
  PROVE  NoPeerYet'
  <1> USE UdpSocketAssumption
  <1>1. CASE UNCHANGED vars
    BY <1>1 DEF NoPeerYet, vars
  <1>2. ASSUME NEW s \in Sockets, Initialising(s) \/ Using(s) \/ udp_socket_free(s)
        PROVE  NoPeerYet'
    <2>1. Spares(s)
      BY <1>2, StepSpares
    <2>2. at'[s] \in Busy => fds'[handle'[s]].peer = None
      <3>1. ASSUME NEW p \in Ports \cup {0}, udp_socket_create_socket(s, p),
                   at'[s] \in Busy
            PROVE  fds'[handle'[s]].peer = None
        BY <3>1 DEF udp_socket_create_socket, socket, Entry, Free, HandleInv, TypeOK, Busy
      <3>2. ASSUME bind(s) PROVE fds'[handle'[s]].peer = None
        BY <3>2 DEF bind, Entry, NoPeerYet, HandleInv, TypeOK, Mine, IsOpen, Busy
      <3>3. ASSUME udp_socket_set_socket_nonblocking(s) PROVE at'[s] \notin Busy
        BY <3>3 DEF udp_socket_set_socket_nonblocking, HandleInv, TypeOK, Busy
      <3>4. ASSUME udp_socket_free(s) PROVE at'[s] \notin Busy
        BY <3>4 DEF udp_socket_free, HandleInv, TypeOK, Busy
      <3>5. ASSUME Using(s) PROVE at'[s] \notin Busy
        BY <3>5, UsingChanges DEF Busy
      <3>6. ASSUME setsockopt(s) PROVE fds'[handle'[s]].peer = None
        BY <3>6 DEF setsockopt, NoPeerYet, Busy
      <3> QED BY <1>2, <3>1, <3>2, <3>3, <3>4, <3>5, <3>6 DEF Initialising
    <2> QED BY <2>1, <2>2 DEF NoPeerYet, Spares
  <1> QED BY <1>1, <1>2 DEF Next

\* What SocketApi sees of the sockets.
opened == [s \in Sockets |-> at[s] = "ready"]
receivers == [s \in Sockets |-> ReceiverOf(s)]

LEMMA OthersLookTheSame ==
  ASSUME HandleInv, HandleInv', NEW s \in Sockets, Spares(s)
  PROVE  /\ opened' = [opened EXCEPT ![s] = (at'[s] = "ready")]
         /\ receivers' = [receivers EXCEPT ![s] = ReceiverOf(s)']
  <1>1. \A t \in Sockets : t # s =>
          /\ (at'[t] = "ready") <=> (at[t] = "ready")
          /\ ReceiverOf(t)' = ReceiverOf(t)
    BY DEF Spares, HandleInv, Mine, IsOpen, ReceiverOf
  <1> QED BY <1>1 DEF opened, receivers

LEMMA ApiStep ==
  ASSUME HandleInv, HandleInv', NoPeerYet, [Next]_vars, ~ClosesAgain
  PROVE  [Api!Next]_(Api!vars)
  <1> USE UdpSocketAssumption
  <1>1. CASE UNCHANGED vars
    BY <1>1 DEF vars, Api!vars, ReceiverOf, IsOpen
  <1>2. ASSUME NEW s \in Sockets, Initialising(s) \/ Using(s) \/ udp_socket_free(s)
        PROVE  [Api!Next]_(Api!vars)
    <2>1. Spares(s)
      BY <1>2, StepSpares
    <2>2. /\ opened' = [opened EXCEPT ![s] = (at'[s] = "ready")]
          /\ receivers' = [receivers EXCEPT ![s] = ReceiverOf(s)']
      BY <2>1, OthersLookTheSame
    <2>3. /\ opened \in [Sockets -> BOOLEAN]
          /\ DOMAIN receivers = Sockets
          /\ receivers = [t \in Sockets |-> receivers[t]]
          /\ opened[s] = (at[s] = "ready")
          /\ receivers[s] = ReceiverOf(s)
      BY DEF opened, receivers
    <2>4. Api!vars = <<opened, receivers, result>>
      BY DEF Api!vars, opened, receivers
    <2>5. at[s] # "ready" => ReceiverOf(s) = None
      BY DEF ReceiverOf
    <2>6. at[s] = "ready" => ReceiverOf(s) = fds[handle[s]].peer /\ Mine(s)
      BY DEF ReceiverOf, HandleInv, Mine
    <2>7. Initialising(s) => Api!Initialize(s) \/ UNCHANGED <<opened, receivers, result>>
      <3> SUFFICES ASSUME Initialising(s)
                   PROVE  Api!Initialize(s) \/ UNCHANGED <<opened, receivers, result>>
        OBVIOUS
      <3>1. at[s] # "ready"
        BY DEF Initialising, udp_socket_create_socket, setsockopt, bind,
           udp_socket_set_socket_nonblocking
      <3>2. ReceiverOf(s)' = None
        BY <1>2, <2>1, <3>1 DEF Initialising, udp_socket_create_socket, setsockopt, bind,
           udp_socket_set_socket_nonblocking, ReceiverOf, NoPeerYet, HandleInv, TypeOK, Busy,
           IsOpen
      <3>3. receivers' = receivers
        BY <2>2, <2>3, <2>5, <3>1, <3>2
      <3>4. \/ at'[s] # "ready" /\ UNCHANGED result
            \/ /\ at'[s] # "ready"
               /\ \E code \in {"SOCKET_CREATION_FAILED", "PORT_IN_USE",
                               "SET_NONBLOCKING_FAILED"} :
                    result' = Result("initialize", code, None)
            \/ at'[s] = "ready" /\ result' = Result("initialize", "OK", None)
        BY DEF Initialising, udp_socket_create_socket, setsockopt, bind,
           udp_socket_set_socket_nonblocking, HandleInv, TypeOK
      <3>5. at'[s] # "ready" => opened' = opened
        BY <2>2, <2>3, <3>1
      <3>6. at'[s] = "ready" => opened' = [opened EXCEPT ![s] = TRUE]
        BY <2>2
      <3> QED BY <2>3, <3>1, <3>3, <3>4, <3>5, <3>6
              DEF Api!Initialize, Api!Result, Result, opened, receivers
    <2>8. Using(s) => Api!SetReceiver(s) \/ Api!Send(s) \/ Api!SendTo(s) \/ Api!Receive(s)
      <3> SUFFICES ASSUME Using(s)
                   PROVE  Api!SetReceiver(s) \/ Api!Send(s) \/ Api!SendTo(s) \/ Api!Receive(s)
        OBVIOUS
      <3>1. at[s] = "ready" /\ UNCHANGED <<handle, at>>
        BY UsingChanges
      <3>2. opened' = opened /\ opened[s]
        BY <2>3, <3>1 DEF opened
      <3>3. ASSUME UNCHANGED fds PROVE receivers' = receivers
        BY <3>1, <3>3 DEF receivers, ReceiverOf, IsOpen
      <3>4. ASSUME NEW a \in Addresses \cup {None}, connect(handle[s], a)
            PROVE  receivers' = [receivers EXCEPT ![s] = a]
        <4>1. ReceiverOf(s)' = a
          BY <2>6, <3>1, <3>4 DEF connect, Entry, ReceiverOf, Mine, IsOpen, HandleInv, TypeOK
        <4> QED BY <2>2, <4>1
      <3>5. ASSUME NEW a \in Addresses \cup {None},
                   \/ connect(handle[s], a) /\ result' = Result("set", "OK", a)
                   \/ /\ UNCHANGED fds
                      /\ \E code \in {"RESOLVE_HOSTNAME_FAILED", "CONNECT_FAILED"} :
                           result' = Result("set", code, None)
            PROVE  Api!SetReceiver(s)
        BY <3>2, <3>3, <3>4, <3>5 DEF Api!SetReceiver, Api!Result, Result, opened, receivers
      <3>6. ASSUME NEW addrs \in SeqOf(Addresses, 2), NEW up \in SUBSET Addresses,
                   udp_socket_set_receiver(s, addrs, up)
            PROVE  Api!SetReceiver(s)
        <4>1. \A i \in DOMAIN addrs : addrs[i] \in Addresses
          BY DEF SeqOf
        <4> QED BY <3>5, <3>6, <4>1 DEF udp_socket_set_receiver
      <3>7. ASSUME NEW a \in Addresses \cup {None}, udp_socket_set_endpoint(s, a)
            PROVE  Api!SetReceiver(s)
        BY <3>5, <3>7 DEF udp_socket_set_endpoint
      <3>8. ASSUME NEW a \in Addresses, udp_socket_receive_and_set(s, a)
            PROVE  Api!SetReceiver(s)
        BY <3>7, <3>8 DEF udp_socket_receive_and_set
      <3>9. ASSUME udp_socket_receive_from(s) PROVE Api!Receive(s)
        BY <3>2, <3>3, <3>9 DEF udp_socket_receive_from, Api!Receive, Api!Result, Result,
           opened, receivers
      <3>10. ASSUME udp_socket_send_to(s, None) PROVE Api!Send(s)
        <4>1. receivers[s] = fds[handle[s]].peer /\ receivers' = receivers
          BY <2>3, <2>6, <3>1, <3>3, <3>10 DEF udp_socket_send_to
        <4> QED BY <3>2, <3>10, <4>1 DEF udp_socket_send_to, SendErrors, Api!Send,
                   Api!Result, Result, opened, receivers
      <3>11. ASSUME NEW a \in Addresses, udp_socket_send_to(s, a) PROVE Api!SendTo(s)
        <4>1. a # None /\ receivers' = receivers
          BY <3>3, <3>11 DEF udp_socket_send_to
        <4> QED BY <3>2, <3>11, <4>1 DEF udp_socket_send_to, SendErrors, Api!SendTo,
                   Api!Result, Result, opened, receivers
      <3> QED BY <3>6, <3>7, <3>8, <3>9, <3>10, <3>11 DEF Using
    <2>9. udp_socket_free(s) => Api!Free(s)
      <3> SUFFICES ASSUME udp_socket_free(s) PROVE Api!Free(s)
        OBVIOUS
      <3>1. at'[s] = "unused" /\ ReceiverOf(s)' = None
        BY DEF udp_socket_free, HandleInv, TypeOK, ReceiverOf
      <3>2. /\ opened' = [opened EXCEPT ![s] = FALSE]
            /\ receivers' = [receivers EXCEPT ![s] = None]
        BY <2>2, <3>1
      <3>3. \/ result' = Result("free", "OK", None)
            \/ ~opened[s] /\ result' = Result("free", "FREE_FAILED", None)
        BY <2>3, <2>6 DEF udp_socket_free, Mine
      <3> QED BY <3>2, <3>3 DEF Api!Free, Api!Result, Result, opened, receivers
    <2>10. Api!Next \/ UNCHANGED <<opened, receivers, result>>
      BY <1>2, <2>7, <2>8, <2>9 DEF Api!Next
    <2>11. UNCHANGED <<opened, receivers, result>> => UNCHANGED Api!vars
      BY DEF Api!vars, opened, receivers
    <2> QED BY <2>10, <2>11
  <1> QED BY <1>1, <1>2 DEF Next

-----------------------------------------------------------------------------
(* Either build. *)

\* What SocketApi sees of the sockets of the build.
openedIn == [s \in Sockets |-> OpenIn(s)]
receiversIn == [s \in Sockets |-> ReceiverIn(s)]

\* On an ESP8266 one socket at most is open.
WifiInv ==
  /\ begun \in [Sockets -> BOOLEAN]
  /\ receiver \in Addresses \cup {None}
  /\ has_receiver => receiver # None
  /\ ~TwoBegun

\* The sockets of the other build play no part.
BuiltInv ==
  /\ build \in {"bsdlike", "wifiudp"}
  /\ TypeOK
  /\ NoLeak
  /\ ~closed_twice => HandleInv /\ NoPeerYet
  /\ ~shared => WifiInv

LEMMA BsdlikeLooks ==
  /\ build = "bsdlike" => openedIn = opened /\ receiversIn = receivers
  /\ build' = "bsdlike" => openedIn' = opened' /\ receiversIn' = receivers'
  BY DEF openedIn, opened, receiversIn, receivers, OpenIn, ReceiverIn

LEMMA BsdlikeStep ==
  ASSUME build = "bsdlike", build' = build, Api!Next
  PROVE  BuiltApi!Next
  <1>1. /\ openedIn = opened /\ openedIn' = opened'
        /\ receiversIn = receivers /\ receiversIn' = receivers'
    BY BsdlikeLooks
  <1>2. PICK s \in Sockets : \/ Api!Initialize(s) \/ Api!Free(s) \/ Api!SetReceiver(s)
                             \/ Api!Send(s) \/ Api!SendTo(s) \/ Api!Receive(s)
    BY DEF Api!Next
  <1>3. Api!Initialize(s) => BuiltApi!Initialize(s)
    BY <1>1 DEF Api!Initialize, BuiltApi!Initialize, Api!Result, BuiltApi!Result,
       opened, receivers, openedIn, receiversIn
  <1>4. Api!Free(s) => BuiltApi!Free(s)
    BY <1>1 DEF Api!Free, BuiltApi!Free, Api!Result, BuiltApi!Result,
       opened, receivers, openedIn, receiversIn
  <1>5. Api!SetReceiver(s) => BuiltApi!SetReceiver(s)
    BY <1>1 DEF Api!SetReceiver, BuiltApi!SetReceiver, Api!Result, BuiltApi!Result,
       opened, receivers, openedIn, receiversIn
  <1>6. Api!Send(s) => BuiltApi!Send(s)
    BY <1>1 DEF Api!Send, BuiltApi!Send, Api!Result, BuiltApi!Result,
       opened, receivers, openedIn, receiversIn
  <1>7. Api!SendTo(s) => BuiltApi!SendTo(s)
    BY <1>1 DEF Api!SendTo, BuiltApi!SendTo, Api!Result, BuiltApi!Result,
       opened, receivers, openedIn, receiversIn
  <1>8. Api!Receive(s) => BuiltApi!Receive(s)
    BY <1>1 DEF Api!Receive, BuiltApi!Receive, Api!Result, BuiltApi!Result,
       opened, receivers, openedIn, receiversIn
  <1> QED BY <1>2, <1>3, <1>4, <1>5, <1>6, <1>7, <1>8 DEF BuiltApi!Next

\* The only socket that is open has the shared receiver to itself.
LEMMA WifiStep ==
  ASSUME build = "wifiudp", build' = build, WifiInv, W!Next, ~TwoBegun'
  PROVE  BuiltApi!Next /\ WifiInv'
  <1> USE UdpSocketAssumption
  <1>1. PICK w \in Sockets :
          \/ W!udp_socket_init_on_port(w)
          \/ W!udp_socket_free(w)
          \/ \E a \in Addresses \cup {None} :
               W!udp_socket_set_endpoint(w, a) \/ W!udp_socket_send_to(w, a)
          \/ W!udp_socket_receive_from(w)
    BY DEF W!Next
  <1>2. /\ openedIn = [s \in Sockets |-> s = w /\ begun[w]]
        /\ openedIn' = [s \in Sockets |-> s = w /\ begun'[w]]
        /\ receiversIn = [s \in Sockets |->
             IF s = w /\ begun[w] /\ has_receiver THEN receiver ELSE None]
        /\ receiversIn' = [s \in Sockets |->
             IF s = w /\ begun'[w] /\ has_receiver' THEN receiver' ELSE None]
    <2>1. /\ begun'[w] \in BOOLEAN
          /\ \A s \in Sockets : s # w => begun'[s] = begun[s]
      BY <1>1 DEF WifiInv, W!udp_socket_init_on_port, W!udp_socket_free,
         W!udp_socket_set_endpoint, W!udp_socket_send_to, W!udp_socket_receive_from
    <2>2. begun[w] \/ begun'[w]
      BY <1>1 DEF WifiInv, W!udp_socket_init_on_port, W!udp_socket_free,
         W!udp_socket_set_endpoint, W!udp_socket_send_to, W!udp_socket_receive_from
    <2>3. \A s \in Sockets : s # w => ~begun[s] /\ ~begun'[s]
      BY <2>1, <2>2 DEF WifiInv, TwoBegun
    <2>4. /\ \A s \in Sockets : OpenIn(s) = (s = w /\ begun[w])
          /\ \A s \in Sockets : OpenIn(s)' = (s = w /\ begun'[w])
      BY <2>1, <2>3 DEF OpenIn, WifiInv
    <2> QED BY <2>3, <2>4 DEF openedIn, receiversIn, ReceiverIn
  <1>3. CASE W!udp_socket_init_on_port(w)
    <2>1. /\ ~begun[w] /\ begun'[w] /\ ~has_receiver' /\ WifiInv'
          /\ result' = BuiltApi!Result("initialize", "OK", None)
      BY <1>3 DEF W!udp_socket_init_on_port, W!Result, BuiltApi!Result, WifiInv, TwoBegun
    <2>2. /\ openedIn' = [openedIn EXCEPT ![w] = TRUE] /\ ~openedIn[w]
          /\ receiversIn' = receiversIn
      BY <1>2, <2>1
    <2> QED BY <1>2, <2>1, <2>2 DEF BuiltApi!Next, BuiltApi!Initialize, openedIn, receiversIn
  <1>4. CASE W!udp_socket_free(w)
    <2>1. /\ ~begun'[w] /\ WifiInv' /\ result' = BuiltApi!Result("free", "OK", None)
      BY <1>4 DEF W!udp_socket_free, W!Result, BuiltApi!Result, WifiInv, TwoBegun
    <2>2. /\ openedIn' = [openedIn EXCEPT ![w] = FALSE]
          /\ receiversIn' = [receiversIn EXCEPT ![w] = None]
      BY <1>2, <2>1
    <2> QED BY <1>2, <2>1, <2>2 DEF BuiltApi!Next, BuiltApi!Free, openedIn, receiversIn
  <1>5. ASSUME NEW a \in Addresses \cup {None}, W!udp_socket_set_endpoint(w, a)
        PROVE  BuiltApi!Next /\ WifiInv'
    <2>1. /\ begun[w] /\ begun' = begun /\ WifiInv'
          /\ IF has_receiver' THEN receiver' = a ELSE a = None
          /\ result' = BuiltApi!Result("set", "OK", a)
      BY <1>5 DEF W!udp_socket_set_endpoint, W!Result, BuiltApi!Result, WifiInv, TwoBegun
    <2>2. /\ openedIn' = openedIn /\ openedIn[w]
          /\ receiversIn' = [receiversIn EXCEPT ![w] = a]
      BY <1>2, <2>1
    <2> QED BY <1>2, <2>1, <2>2 DEF BuiltApi!Next, BuiltApi!SetReceiver, openedIn, receiversIn
  <1>6. ASSUME NEW a \in Addresses \cup {None}, W!udp_socket_send_to(w, a)
        PROVE  BuiltApi!Next /\ WifiInv'
    <2>1. /\ begun[w] /\ UNCHANGED <<begun, has_receiver, receiver>> /\ WifiInv'
          /\ \/ /\ has_receiver /\ receiver # None
                /\ result' = BuiltApi!Result("send", "OK", receiver)
             \/ ~has_receiver /\ result' = BuiltApi!Result("send", "NO_RECEIVER", None)
             \/ a # None /\ result' = BuiltApi!Result("send_to", "OK", a)
      BY <1>6 DEF W!udp_socket_send_to, W!Result, BuiltApi!Result, WifiInv, TwoBegun
    <2>2. /\ openedIn' = openedIn /\ openedIn[w] /\ receiversIn' = receiversIn
          /\ receiversIn[w] = IF has_receiver THEN receiver ELSE None
      BY <1>2, <2>1
    <2> QED BY <1>2, <2>1, <2>2
            DEF BuiltApi!Next, BuiltApi!Send, BuiltApi!SendTo, openedIn, receiversIn
  <1>7. CASE W!udp_socket_receive_from(w)
    <2>1. /\ begun[w] /\ UNCHANGED <<begun, has_receiver, receiver>> /\ WifiInv'
          /\ \E code \in {"OK", "NOTHING_RECEIVED", "RECEIVE_FAILED"} :
               result' = BuiltApi!Result("receive", code, None)
      BY <1>7 DEF W!udp_socket_receive_from, W!Result, BuiltApi!Result, WifiInv, TwoBegun
    <2>2. openedIn' = openedIn /\ openedIn[w] /\ receiversIn' = receiversIn
      BY <1>2, <2>1
    <2> QED BY <1>2, <2>1, <2>2 DEF BuiltApi!Next, BuiltApi!Receive, openedIn, receiversIn
  <1> QED BY <1>1, <1>3, <1>4, <1>5, <1>6, <1>7

LEMMA BuiltStep ==
  ASSUME BuiltInv, [BuiltNext]_builtVars
  PROVE  /\ BuiltInv'
         /\ [BuiltApi!Next \/ closed_twice' \/ shared']_(BuiltApi!vars)
  <1>1. /\ BuiltApi!vars = <<openedIn, receiversIn, result>>
        /\ BuiltApi!vars' = <<openedIn', receiversIn', result'>>
    BY DEF BuiltApi!vars, openedIn, receiversIn
  <1>2. CASE UNCHANGED builtVars
    <2>1. UNCHANGED vars /\ UNCHANGED wifi /\ UNCHANGED history /\ UNCHANGED build
      BY <1>2 DEF builtVars, bsdlike, vars
    <2>2. BuiltInv'
      BY <2>1 DEF BuiltInv, HandleInv, NoPeerYet, NoLeak, WifiInv, TwoBegun, TypeOK, Mine,
         IsOpen, vars, wifi, history
    <2>3. UNCHANGED BuiltApi!vars
      BY <2>1 DEF BuiltApi!vars, OpenIn, ReceiverIn, ReceiverOf, IsOpen, vars, wifi
    <2> QED BY <2>2, <2>3
  <1>3. ASSUME BuiltNext
        PROVE  /\ build' = build
               /\ ~closed_twice' => ~closed_twice /\ ~ClosesAgain
               /\ ~shared' => ~shared /\ ~TwoBegun'
    BY <1>3 DEF BuiltNext
  <1>4. CASE BuiltNext /\ build = "bsdlike" /\ Next /\ UNCHANGED wifi
    <2>1. ASSUME ~closed_twice' PROVE HandleInv /\ NoPeerYet /\ HandleInv' /\ NoPeerYet'
      BY <1>3, <1>4, <2>1, HandleInvNext, NoPeerYetNext DEF BuiltInv
    <2>2. BuiltInv'
      BY <1>3, <1>4, <2>1, TypeOKNext, NoLeakNext DEF BuiltInv, WifiInv, TwoBegun, wifi
    <2>3. ASSUME ~closed_twice' PROVE [BuiltApi!Next]_(BuiltApi!vars)
      <3>1. [Api!Next]_(Api!vars)
        BY <1>3, <1>4, <2>1, <2>3, ApiStep
      <3>2. /\ Api!vars = <<opened, receivers, result>>
            /\ Api!vars' = <<opened', receivers', result'>>
        BY DEF Api!vars, opened, receivers
      <3>3. /\ openedIn = opened /\ openedIn' = opened'
            /\ receiversIn = receivers /\ receiversIn' = receivers'
        BY <1>3, <1>4, BsdlikeLooks
      <3>4. UNCHANGED Api!vars => UNCHANGED BuiltApi!vars
        <4>1. UNCHANGED <<opened, receivers, result>>
                => UNCHANGED <<openedIn, receiversIn, result>>
          BY <3>3
        <4> QED BY <1>1, <3>2, <4>1
      <3>5. Api!Next => BuiltApi!Next
        BY <1>3, <1>4, BsdlikeStep
      <3> QED BY <3>1, <3>4, <3>5
    <2> QED BY <2>2, <2>3
  <1>5. CASE BuiltNext /\ build = "wifiudp" /\ W!Next /\ UNCHANGED bsdlike
    <2>1. ASSUME ~shared' PROVE BuiltApi!Next /\ WifiInv'
      BY <1>3, <1>5, <2>1, WifiStep DEF BuiltInv
    <2>2. /\ TypeOK' = TypeOK /\ NoLeak' = NoLeak
          /\ HandleInv' = HandleInv /\ NoPeerYet' = NoPeerYet
      BY <1>5 DEF TypeOK, NoLeak, HandleInv, NoPeerYet, Mine, IsOpen, bsdlike
    <2>3. BuiltInv'
      BY <1>3, <1>5, <2>1, <2>2 DEF BuiltInv
    <2> QED BY <2>1, <2>3
  <1> QED BY <1>2, <1>4, <1>5 DEF BuiltNext

LEMMA BuiltInvInit == BuiltInit => BuiltInv
  BY HandleInvInit, UdpSocketAssumption
     DEF BuiltInit, BuiltInv, HandleInv, NoLeak, IsOpen, WifiInv, TwoBegun, W!Init, Init,
         NoPeerYet, Busy

\* A failed initialisation, or the freeing of one socket, never closes the
\* descriptor of another that is in use (udp_socket_free), as long as nobody
\* has freed a socket after set_nonblocking failed.
THEOREM NobodyElseCloses == BuiltSpec => []OwnHandleTillClosedTwice
  <1>1. BuiltInv => OwnHandleTillClosedTwice
    BY DEF BuiltInv, OwnHandleTillClosedTwice, HandleInv, OwnHandle, Mine
  <1> QED BY BuiltInvInit, BuiltStep, <1>1, PTL DEF BuiltSpec

\* Whatever fails and whoever frees, every descriptor that is open is in the
\* hands of somebody who will free it (udp_socket_init_on_port,
\* udp_socket_free).
THEOREM NothingLost == BuiltSpec => []NoLeak
  <1>1. BuiltInv => NoLeak
    BY DEF BuiltInv
  <1> QED BY BuiltInvInit, BuiltStep, <1>1, PTL DEF BuiltSpec

\* In either build the sockets keep the promise of udp_socket.h, however many
\* there are and however their initialisations and failures interleave, until
\* a descriptor is closed twice or two sockets are open on an ESP8266.
THEOREM EitherKeepsPromise == BuiltSpec => ImplementsApiTillShared
  <1>1. BuiltInit => BuiltApi!Init
    BY DEF BuiltInit, Init, W!Init, BuiltApi!Init, OpenIn, ReceiverIn, ReceiverOf
  <1> QED BY BuiltInvInit, BuiltStep, <1>1, PTL DEF BuiltSpec, ImplementsApiTillShared
=============================================================================
