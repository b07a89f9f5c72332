-------------------------- MODULE SelectServerProofs --------------------------
(***************************************************************************)
(* The bookkeeping of the select() server, for any number of clients, any  *)
(* supply of descriptors and any FD_SETSIZE.                               *)
(***************************************************************************)
EXTENDS SelectServer, TLAPS

USE WordClientsAssumption, SelectServerAssumption
    DEF WordClientsAssumption, SelectServerAssumption

Slots == 0..(client_count - 1)

\* The part of ListsOpenFds that is not about types.
Listing == pc # "exited" => /\ \A k, l \in Slots : client_sockets[k] = client_sockets[l] => k = l
                            /\ Listed = OpenFds \ {new_socket}
                            /\ Listed = {fd \in OpenFds : fd_in_select_range(fd)}

\* The descriptor that is being refused is open; outside Refuse there is none.
Refusing == IF pc = "refuse" THEN new_socket \in OpenFds /\ i = 0 ELSE new_socket = Uninitialised

\* select() reported a connection: nobody but this server takes it from the queue.
ReportedIsPending == pc = "accept" /\ sockfd \in readfds => pending # <<>>

\* The loop reads from a slot in use, whose descriptor select() reported.
AtReported == pc \in {"length", "word"} => i \in Slots /\ client_sockets[i] \in readfds

\* What the loop has left behind was not reported or has been dealt with.
PassedServed == pc \in {"data", "length", "word"} =>
                   \A k \in Slots : k < i => \/ client_sockets[k] \notin readfds
                                             \/ client_sockets[k] \in handled

\* The server fails only when it is out of descriptors, and it stays so.
FailedIsFull == pc = "failed" => OpenFds = Fds

IInv == /\ TypeOK /\ Listing /\ Refusing
        /\ ReportedIsPending /\ AtReported /\ PassedServed /\ FailedIsFull

LEMMA InitIInv == Init => IInv
<1> SUFFICES ASSUME Init PROVE IInv
  OBVIOUS
<1>1. PICK table \in FdTables : conn = [fd \in table |-> NoClient]
  BY DEF Init, ClientsInit
<1>2. Fds = table /\ OpenFds = {}
  BY <1>1 DEF Fds, OpenFds
<1>3. TypeOK
  <2>1. NetTypeOK
    BY <1>1, <1>2 DEF Init, ClientsInit, NetTypeOK
  <2>2. client_sockets \in [0..(client_capacity - 1) -> Fds \cup {Uninitialised}]
    BY DEF Init
  <2>3. client_capacity \in Nat /\ client_count \in 0..client_capacity /\ i \in Nat
    BY DEF Init
  <2>4. /\ readfds \subseteq Fds \cup {sockfd} /\ handled \subseteq Fds
        /\ new_socket \in Fds \cup {Uninitialised} /\ exit_flag \in BOOLEAN
    BY DEF Init
  <2> QED BY <2>1, <2>2, <2>3, <2>4 DEF Init, TypeOK
<1>4. Listed = {}
  BY DEF Init, Listed
<1> QED
  BY <1>2, <1>3, <1>4 DEF Init, IInv, Listing, Refusing, Slots, ReportedIsPending, AtReported,
                          PassedServed, FailedIsFull

-------------------------------------------------------------------------------
(* What the descriptors and the slots are                                  *)

\* A slot in use holds an open descriptor.
LEMMA SlotIsOpen ==
    ASSUME IInv, pc # "exited", NEW k \in Slots
    PROVE  client_sockets[k] \in OpenFds /\ client_sockets[k] \in Fds
  BY DEF IInv, Listing, Listed, Slots, OpenFds

\* The clients and the kernel's queue: a client's step closes no connection, and adds
\* to the queue at most.
LEMMA ClientKeeps ==
    ASSUME NetTypeOK, NEW c \in Clients, Client(c)
    PROVE  /\ NetTypeOK' /\ UNCHANGED <<listening, conn, rcvd>>
           /\ pending # <<>> => pending' # <<>>
<1>1. UNCHANGED <<listening, conn, rcvd>>
  BY DEF Client, connect_to_server, send_word, ClientCloses
<1>2. pending' = pending \/ pending' = Append(pending, c)
  BY DEF Client, connect_to_server, send_word, ClientCloses
<1>3. cpc' \in [Clients -> {"start", "idle", "mid", "closed"}] /\ sent' \in [Clients -> Nat]
  <2>1. CASE connect_to_server(c)
    BY <2>1 DEF NetTypeOK, connect_to_server
  <2>2. CASE send_word(c)
    <3>1. CASE PeerAlive(c)
      <4>1. /\ sent' = [sent EXCEPT ![c] = sent[c] + 1]
            /\ \E p \in {"mid", "idle"} : cpc' = [cpc EXCEPT ![c] = p]
        BY <2>2, <3>1, Zenon DEF send_word
      <4> QED BY <4>1 DEF NetTypeOK
    <3>2. CASE ~PeerAlive(c)
      BY <2>2, <3>2 DEF NetTypeOK, send_word
    <3> QED BY <3>1, <3>2
  <2>3. CASE ClientCloses(c)
    BY <2>3 DEF NetTypeOK, ClientCloses
  <2> QED BY <2>1, <2>2, <2>3 DEF Client
<1>4. pending' \in Seq(Clients) /\ (pending # <<>> => pending' # <<>>)
  <2>1. pending \in Seq(Clients)
    BY DEF NetTypeOK
  <2>2. Append(pending, c) \in Seq(Clients) /\ Append(pending, c) # <<>>
    BY <2>1
  <2> QED BY <1>2, <2>1, <2>2
<1> QED
  BY <1>1, <1>3, <1>4 DEF NetTypeOK, Fds

-------------------------------------------------------------------------------
(* Every step keeps the invariant                                          *)

\* A step that leaves the connections and the arrays alone.
Quiet == UNCHANGED <<conn, arrays, new_socket>>

LEMMA QuietListing == ASSUME IInv, Quiet, pc # "exited" PROVE Listing' /\ OpenFds' = OpenFds /\ Fds' = Fds
<1>1. OpenFds' = OpenFds /\ Fds' = Fds
  BY DEF Quiet, OpenFds, Fds
<1>2. Listed' = Listed /\ Slots' = Slots /\ client_sockets' = client_sockets
  BY DEF Quiet, arrays, Listed, Slots
<1> QED BY <1>1, <1>2 DEF IInv, Listing, Quiet, fd_in_select_range

LEMMA BuildSetIInv == ASSUME IInv, BuildSet PROVE IInv'
<1> USE DEF IInv, BuildSet
<1>1. Listing' /\ OpenFds' = OpenFds /\ Fds' = Fds
  BY QuietListing DEF Quiet, netVars
<1>2. Listed \subseteq Fds
  BY DEF Listing, OpenFds
<1>3. TypeOK'
  BY <1>1, <1>2 DEF TypeOK, NetTypeOK, netVars, arrays
<1> QED
  BY <1>1, <1>3 DEF Refusing, ReportedIsPending, AtReported, PassedServed, FailedIsFull

LEMMA CallSelectIInv == ASSUME IInv, CallSelect PROVE IInv'
<1> USE DEF IInv, CallSelect
<1>1. Listing' /\ OpenFds' = OpenFds /\ Fds' = Fds
  BY QuietListing DEF Quiet, netVars
<1>2. TypeOK'
  BY <1>1 DEF TypeOK, NetTypeOK, netVars, arrays
<1> QED
  BY <1>1, <1>2 DEF Refusing, ReportedIsPending, AtReported, PassedServed, FailedIsFull

LEMMA SelectIInv == ASSUME IInv, select PROVE IInv'
<1> USE DEF IInv, select
<1>1. Listing' /\ OpenFds' = OpenFds /\ Fds' = Fds
  BY QuietListing DEF Quiet, netVars
<1>2. TypeOK'
  BY <1>1 DEF TypeOK, NetTypeOK, netVars, arrays
<1>3. ReportedIsPending'
  BY DEF ReportedIsPending, Ready, netVars
<1> QED
  BY <1>1, <1>2, <1>3 DEF Refusing, AtReported, PassedServed, FailedIsFull

LEMMA ClientLoopIInv == ASSUME IInv, ClientLoop PROVE IInv'
<1> USE DEF IInv, ClientLoop
<1>1. Listing' /\ OpenFds' = OpenFds /\ Fds' = Fds
  BY QuietListing DEF Quiet, netVars
<1>2. TypeOK'
  BY <1>1 DEF TypeOK, NetTypeOK, netVars, arrays
<1>3. AtReported'
  BY DEF AtReported, TypeOK, Slots, arrays
<1>4. PassedServed'
  BY DEF PassedServed, TypeOK, Slots, arrays
<1> QED
  BY <1>1, <1>2, <1>3, <1>4 DEF Refusing, ReportedIsPending, FailedIsFull

LEMMA SigintIInv == ASSUME IInv, sigint_handler PROVE IInv'
<1> USE DEF IInv, sigint_handler
<1>1. Listing' /\ OpenFds' = OpenFds /\ Fds' = Fds
  BY QuietListing DEF Quiet, netVars
<1>2. TypeOK'
  BY <1>1 DEF TypeOK, NetTypeOK, netVars, arrays
<1> QED
  BY <1>1, <1>2 DEF Refusing, ReportedIsPending, AtReported, PassedServed, FailedIsFull, Slots,
                    netVars, arrays

LEMMA ClientStepIInv == ASSUME IInv, ClientStep PROVE IInv'
<1> USE DEF IInv
<1>1. PICK c \in Clients : Client(c)
  BY DEF ClientStep
<1>2. /\ NetTypeOK' /\ UNCHANGED <<listening, conn, rcvd>>
      /\ pending # <<>> => pending' # <<>>
  BY <1>1, ClientKeeps DEF TypeOK
<1>3. UNCHANGED <<client_sockets, client_count, client_capacity, readfds, new_socket, exit_flag,
                 pc, i, handled>>
  BY DEF ClientStep, ServerVars, arrays
<1>4. OpenFds' = OpenFds /\ Fds' = Fds /\ Listed' = Listed /\ Slots' = Slots
  BY <1>2, <1>3 DEF OpenFds, Fds, Listed, Slots
<1>5. TypeOK'
  BY <1>2, <1>3, <1>4 DEF TypeOK
<1> QED
  BY <1>2, <1>3, <1>4, <1>5 DEF Listing, Refusing, fd_in_select_range, ReportedIsPending, AtReported,
                               PassedServed, FailedIsFull

LEMMA CleanupIInv == ASSUME IInv, Cleanup PROVE IInv'
<1> USE DEF IInv, Cleanup
<1>1. Fds' = Fds
  BY DEF Fds
<1>2. NetTypeOK'
  <2>1. conn' \in [Fds -> Clients \cup {NoClient}]
    BY DEF TypeOK, NetTypeOK
  <2>2. pending' \in Seq(Clients)
    OBVIOUS
  <2>3. listening' \in BOOLEAN
    OBVIOUS
  <2> QED BY <1>1, <2>1, <2>2, <2>3 DEF TypeOK, NetTypeOK
<1>3. TypeOK'
  BY <1>1, <1>2 DEF TypeOK, arrays
<1> QED
  BY <1>3 DEF Listing, Refusing, ReportedIsPending, AtReported, PassedServed, FailedIsFull

\* remove_client: the last client takes the slot of the one that goes.
LEMMA DisconnectListing ==
    ASSUME IInv, pc \in {"length", "word"}, Disconnect, pc' = "data", UNCHANGED new_socket
    PROVE  /\ Listing' /\ Fds' = Fds
           /\ \A k \in Slots' : k < i => client_sockets'[k] = client_sockets[k] /\ k \in Slots
<1> DEFINE gone == client_sockets[i]  last == client_count - 1
<1>1. /\ i \in Slots /\ last \in Slots /\ client_capacity \in Nat
      /\ client_count \in 0..client_capacity /\ client_count' = last
      /\ client_sockets \in [0..(client_capacity - 1) -> Fds \cup {Uninitialised}]
      /\ client_sockets' = [client_sockets EXCEPT ![i] = client_sockets[last]]
      /\ conn' = [conn EXCEPT ![gone] = NoClient]
  BY DEF IInv, TypeOK, AtReported, Slots, Disconnect, remove_client
<1>2. gone \in Fds /\ Fds' = Fds /\ OpenFds' = OpenFds \ {gone}
  <2>1. gone \in Fds
    BY <1>1, SlotIsOpen
  <2>2. conn \in [Fds -> Clients \cup {NoClient}]
    BY DEF IInv, TypeOK, NetTypeOK
  <2>3. Fds' = Fds
    BY <1>1, <2>2 DEF Fds
  <2> QED BY <1>1, <2>1, <2>2, <2>3 DEF OpenFds
<1>3. Slots' = Slots \ {last}
  BY <1>1 DEF Slots
<1>4. \A k \in Slots' : client_sockets'[k] = IF k = i THEN client_sockets[last]
                                             ELSE client_sockets[k]
  BY <1>1, <1>3 DEF Slots
<1>5. \A k, l \in Slots : client_sockets[k] = client_sockets[l] => k = l
  BY DEF IInv, Listing
<1>6. \A k, l \in Slots' : client_sockets'[k] = client_sockets'[l] => k = l
  BY <1>1, <1>3, <1>4, <1>5
<1>7. Listed' = Listed \ {gone}
  <2>1. Listed = {client_sockets[k] : k \in Slots} /\ Listed' = {client_sockets'[k] : k \in Slots'}
    BY DEF Listed, Slots
  <2>2. ASSUME NEW fd \in Listed' PROVE fd \in Listed \ {gone}
    BY <1>1, <1>3, <1>4, <1>5, <2>1, <2>2
  <2>3. ASSUME NEW fd \in Listed, fd # gone PROVE fd \in Listed'
    <3>1. PICK k \in Slots : fd = client_sockets[k] /\ k # i
      BY <2>1, <2>3
    <3>2. CASE k = last
      BY <1>1, <1>3, <1>4, <2>1, <3>1, <3>2
    <3>3. CASE k # last
      BY <1>1, <1>3, <1>4, <2>1, <3>1, <3>3
    <3> QED BY <3>2, <3>3
  <2> QED BY <2>2, <2>3
<1>8. Listing'
  <2>1. new_socket' = new_socket /\ Listed = OpenFds \ {new_socket}
        /\ Listed = {fd \in OpenFds : fd_in_select_range(fd)}
    BY DEF IInv, Listing
  <2> QED BY <1>2, <1>6, <1>7, <2>1 DEF Listing, fd_in_select_range
<1> QED BY <1>1, <1>2, <1>3, <1>4, <1>8 DEF Slots

LEMMA ReadFullIInv == ASSUME IInv, read_full PROVE IInv'
<1> DEFINE fd == client_sockets[i]  c == conn[fd]
<1>1. /\ pc \in {"length", "word"} /\ handled' = handled \cup {fd}
      /\ UNCHANGED <<listening, cpc, sent, pending, readfds, new_socket, exit_flag>>
  BY DEF read_full
<1>2. i \in Slots /\ fd \in Fds /\ fd \in OpenFds /\ c \in Clients
  <2>1. i \in Slots
    BY <1>1 DEF IInv, AtReported
  <2>2. fd \in OpenFds /\ fd \in Fds
    BY <1>1, <2>1, SlotIsOpen
  <2> QED BY <2>1, <2>2 DEF IInv, TypeOK, NetTypeOK, OpenFds
<1>3. CASE Unread(c)
  <2>1. /\ rcvd' = [rcvd EXCEPT ![c] = @ + 1]
        /\ \/ pc = "length" /\ pc' = "word" /\ i' = i
           \/ pc = "word" /\ pc' = "data" /\ i' = i + 1
        /\ UNCHANGED <<conn, client_sockets, client_count, client_capacity>>
    BY <1>1, <1>3 DEF read_full, arrays
  <2>2. Listing' /\ OpenFds' = OpenFds /\ Fds' = Fds
    BY <1>1, <2>1, QuietListing DEF Quiet, arrays
  <2>3. NetTypeOK'
    BY <1>1, <1>2, <2>1, <2>2 DEF IInv, TypeOK, NetTypeOK
  <2>4. TypeOK'
    BY <1>1, <1>2, <2>1, <2>2, <2>3 DEF IInv, TypeOK
  <2>5. AtReported'
    BY <1>1, <2>1 DEF IInv, AtReported, Slots
  <2>6. PassedServed'
    BY <1>1, <1>2, <2>1 DEF IInv, PassedServed, TypeOK, Slots
  <2> QED
    BY <1>1, <2>1, <2>2, <2>4, <2>5, <2>6 DEF IInv, Refusing, ReportedIsPending, FailedIsFull
<1>4. CASE ~Unread(c)
  <2>1. Disconnect /\ pc' = "data"
    BY <1>1, <1>4 DEF read_full
  <2>2. /\ Listing' /\ Fds' = Fds
        /\ \A k \in Slots' : k < i => client_sockets'[k] = client_sockets[k] /\ k \in Slots
    BY <1>1, <2>1, DisconnectListing
  <2>3. /\ client_count \in Slots \cup {client_capacity} \cup Nat
        /\ client_count' = client_count - 1 /\ UNCHANGED <<client_capacity, i, rcvd>>
        /\ client_sockets' = [client_sockets EXCEPT ![i] = client_sockets[client_count - 1]]
        /\ conn' = [conn EXCEPT ![fd] = NoClient]
    BY <2>1 DEF Disconnect, remove_client, IInv, TypeOK
  <2>4. NetTypeOK'
    BY <1>1, <1>2, <2>2, <2>3 DEF IInv, TypeOK, NetTypeOK
  <2>5. TypeOK'
    BY <1>1, <1>2, <2>1, <2>2, <2>3, <2>4 DEF IInv, TypeOK, Slots
  <2>6. PassedServed'
    BY <1>1, <2>1, <2>2, <2>3 DEF IInv, PassedServed
  <2> QED
    BY <1>1, <2>1, <2>2, <2>5, <2>6 DEF IInv, Refusing, ReportedIsPending, AtReported, FailedIsFull
<1> QED BY <1>3, <1>4

\* grow_clients leaves room for one more client and keeps the ones that are there.
LEMMA Grows ==
    ASSUME TypeOK
    PROVE  /\ grow_clients \in Nat /\ client_count < grow_clients
           /\ client_capacity <= grow_clients
           /\ GrownSockets \in [0..(grow_clients - 1) -> Fds \cup {Uninitialised}]
           /\ \A k \in Slots : GrownSockets[k] = client_sockets[k]
<1>1. /\ client_capacity \in Nat /\ client_count \in 0..client_capacity
      /\ client_sockets \in [0..(client_capacity - 1) -> Fds \cup {Uninitialised}]
  BY DEF TypeOK
<1>2. grow_clients \in Nat /\ client_count < grow_clients /\ client_capacity <= grow_clients
  BY <1>1 DEF grow_clients
<1>3. GrownSockets \in [0..(grow_clients - 1) -> Fds \cup {Uninitialised}]
  <2>1. ASSUME NEW k \in 0..(grow_clients - 1)
        PROVE  (IF k < client_capacity THEN client_sockets[k] ELSE Uninitialised)
                  \in Fds \cup {Uninitialised}
    BY <1>1, <1>2
  <2> QED BY <2>1 DEF GrownSockets
<1>4. \A k \in Slots : GrownSockets[k] = client_sockets[k]
  BY <1>1, <1>2 DEF GrownSockets, Slots
<1> QED BY <1>2, <1>3, <1>4

\* A new client: a descriptor nobody has, in the slot behind the last one.
LEMMA AppendListing ==
    ASSUME IInv, pc = "accept", NEW fd \in Fds, LowestFree(fd), fd_in_select_range(fd),
           pending # <<>>, AppendClient(fd), conn' = [conn EXCEPT ![fd] = Head(pending)],
           UNCHANGED new_socket
    PROVE  /\ Listing' /\ Fds' = Fds
           /\ conn' \in [Fds -> Clients \cup {NoClient}]
           /\ client_capacity' \in Nat /\ client_count' \in 0..client_capacity'
           /\ client_sockets' \in [0..(client_capacity' - 1) -> Fds \cup {Uninitialised}]
<1>1. /\ client_capacity' = grow_clients /\ client_count' = client_count + 1
      /\ client_sockets' = [GrownSockets EXCEPT ![client_count] = fd]
      /\ conn' = [conn EXCEPT ![fd] = Head(pending)]
  BY DEF AppendClient
<1>2. /\ conn \in [Fds -> Clients \cup {NoClient}] /\ Head(pending) \in Clients
      /\ client_count \in Nat
  BY DEF IInv, TypeOK, NetTypeOK
<1>3. /\ grow_clients \in Nat /\ client_count < grow_clients
      /\ GrownSockets \in [0..(grow_clients - 1) -> Fds \cup {Uninitialised}]
      /\ \A k \in Slots : GrownSockets[k] = client_sockets[k]
  BY Grows DEF IInv
<1>4. Fds' = Fds /\ OpenFds' = OpenFds \cup {fd} /\ fd \notin OpenFds
  <2>1. Fds' = Fds
    BY <1>1, <1>2 DEF Fds
  <2> QED BY <1>1, <1>2, <2>1 DEF OpenFds, LowestFree
<1>5. Slots' = Slots \cup {client_count} /\ client_count \notin Slots
  BY <1>1, <1>2 DEF Slots
<1>6. /\ \A k \in Slots : client_sockets'[k] = client_sockets[k]
      /\ client_sockets'[client_count] = fd
  BY <1>1, <1>2, <1>3, <1>5 DEF Slots
<1>7. /\ \A k, l \in Slots : client_sockets[k] = client_sockets[l] => k = l
      /\ \A k \in Slots : client_sockets[k] # fd
  <2>1. \A k \in Slots : client_sockets[k] \in OpenFds
    BY SlotIsOpen
  <2> QED BY <1>4, <2>1 DEF IInv, Listing
<1>8. \A k, l \in Slots' : client_sockets'[k] = client_sockets'[l] => k = l
  BY <1>5, <1>6, <1>7
<1>9. Listed' = Listed \cup {fd}
  <2>1. Listed = {client_sockets[k] : k \in Slots} /\ Listed' = {client_sockets'[k] : k \in Slots'}
    BY DEF Listed, Slots
  <2> QED BY <1>5, <1>6, <2>1
<1>10. Listing'
  <2>1. fd # new_socket /\ new_socket' = new_socket
    BY DEF IInv, Refusing, Uninitialised, TypeOK, NetTypeOK
  <2>2. Listed' = OpenFds' \ {new_socket'}
    BY <1>4, <1>9, <2>1 DEF IInv, Listing
  <2>3. Listed' = {x \in OpenFds' : fd_in_select_range(x)}
    BY <1>4, <1>9 DEF IInv, Listing
  <2> QED BY <1>8, <2>2, <2>3 DEF Listing, fd_in_select_range
<1>11. /\ client_capacity' \in Nat /\ client_count' \in 0..client_capacity'
       /\ client_sockets' \in [0..(client_capacity' - 1) -> Fds \cup {Uninitialised}]
  BY <1>1, <1>2, <1>3
<1> QED BY <1>1, <1>2, <1>4, <1>10, <1>11

LEMMA AcceptIInv == ASSUME IInv, Accept PROVE IInv'
<1>1. pc = "accept" /\ i' = 0 /\ UNCHANGED <<readfds, exit_flag, handled>>
  BY DEF Accept
<1>2. CASE UNCHANGED <<netVars, arrays, new_socket>>
  <2>1. /\ pc' = "data" \/ (pc' = "failed" /\ OpenFds = Fds)
        /\ UNCHANGED <<listening, cpc, sent, pending, conn, rcvd, client_sockets, client_count,
                       client_capacity, new_socket>>
    <3>1. pc' # "refuse"
      BY <1>2 DEF Accept, IInv, Refusing, Uninitialised, TypeOK, NetTypeOK
    <3> QED BY <1>2, <3>1 DEF Accept, netVars, arrays
  <2>2. Listing' /\ OpenFds' = OpenFds /\ Fds' = Fds
    BY <1>1, <2>1, QuietListing DEF Quiet, arrays
  <2>3. NetTypeOK'
    BY <2>1, <2>2 DEF IInv, TypeOK, NetTypeOK
  <2>4. TypeOK'
    BY <1>1, <2>1, <2>2, <2>3 DEF IInv, TypeOK
  <2> QED
    BY <1>1, <2>1, <2>2, <2>4 DEF IInv, Refusing, ReportedIsPending, AtReported, PassedServed,
                                  FailedIsFull, Slots
<1>3. ASSUME sockfd \in readfds, NEW fd \in Fds, LowestFree(fd),
             conn' = [conn EXCEPT ![fd] = Head(pending)],
             IF fd_in_select_range(fd)
             THEN AppendClient(fd) /\ pc' = "data" /\ UNCHANGED new_socket
             ELSE new_socket' = fd /\ pc' = "refuse" /\ UNCHANGED arrays,
             pending' = Tail(pending), UNCHANGED <<listening, cpc, sent, rcvd>>
      PROVE  IInv'
  <2>1. pending # <<>> /\ pending \in Seq(Clients) /\ pending' \in Seq(Clients)
        /\ Head(pending) \in Clients /\ new_socket = Uninitialised
    BY <1>1, <1>3 DEF IInv, ReportedIsPending, Refusing, TypeOK, NetTypeOK
  <2>2. /\ Listing' /\ Refusing' /\ Fds' = Fds /\ new_socket' \in Fds \cup {Uninitialised}
        /\ conn' \in [Fds -> Clients \cup {NoClient}]
        /\ client_capacity' \in Nat /\ client_count' \in 0..client_capacity'
        /\ client_sockets' \in [0..(client_capacity' - 1) -> Fds \cup {Uninitialised}]
    <3>1. CASE fd_in_select_range(fd)
      <4>1. AppendClient(fd) /\ pc' = "data" /\ new_socket' = new_socket
        BY <1>3, <3>1
      <4>2. Refusing'
        BY <2>1, <4>1 DEF Refusing
      <4> QED BY <1>1, <1>3, <2>1, <3>1, <4>1, <4>2, AppendListing
    <3>2. CASE ~fd_in_select_range(fd)
      <4>1. /\ new_socket' = fd /\ pc' = "refuse"
            /\ UNCHANGED <<client_sockets, client_count, client_capacity>>
        BY <1>3, <3>2 DEF arrays
      <4>2. conn \in [Fds -> Clients \cup {NoClient}]
        BY DEF IInv, TypeOK, NetTypeOK
      <4>3. Fds' = Fds /\ OpenFds' = OpenFds \cup {fd} /\ fd \notin OpenFds
        <5>1. Fds' = Fds
          BY <1>3, <4>2 DEF Fds
        <5> QED BY <1>3, <2>1, <4>2, <5>1 DEF OpenFds, LowestFree
      <4>4. Listed' = Listed /\ Slots' = Slots
        BY <4>1 DEF Listed, Slots
      <4>5. /\ Listed = OpenFds /\ Listed = {x \in OpenFds : fd_in_select_range(x)}
            /\ \A k, l \in Slots : client_sockets[k] = client_sockets[l] => k = l
        BY <1>1, <2>1 DEF IInv, Listing, OpenFds, TypeOK, NetTypeOK, Uninitialised
      <4>6. Listed' = OpenFds' \ {new_socket'}
        BY <4>1, <4>3, <4>4, <4>5
      <4>7. Listed' = {x \in OpenFds' : fd_in_select_range(x)}
        BY <3>2, <4>3, <4>4, <4>5
      <4>8. Listing'
        BY <4>1, <4>4, <4>5, <4>6, <4>7 DEF Listing, fd_in_select_range
      <4> QED BY <1>1, <1>3, <2>1, <4>1, <4>2, <4>3, <4>8 DEF IInv, TypeOK, Refusing
    <3> QED BY <3>1, <3>2
  <2>3. NetTypeOK'
    BY <1>3, <2>1, <2>2 DEF IInv, TypeOK, NetTypeOK
  <2>4. pc' \in {"data", "refuse"}
    BY <1>3
  <2>5. TypeOK'
    BY <1>1, <2>2, <2>3, <2>4 DEF IInv, TypeOK
  <2>6. PassedServed'
    BY <1>1, <2>2 DEF PassedServed, Slots
  <2> QED
    BY <2>2, <2>4, <2>5, <2>6 DEF IInv, ReportedIsPending, AtReported, FailedIsFull
<1> QED BY <1>2, <1>3 DEF Accept

LEMMA RefuseIInv == ASSUME IInv, Refuse PROVE IInv'
<1>1. /\ pc = "refuse" /\ conn' = [conn EXCEPT ![new_socket] = NoClient]
      /\ new_socket' = Uninitialised /\ pc' = "data"
      /\ UNCHANGED <<listening, cpc, sent, pending, rcvd, client_sockets, client_count,
                     client_capacity, readfds, exit_flag, i, handled>>
  BY DEF Refuse, arrays
<1>2. conn \in [Fds -> Clients \cup {NoClient}] /\ new_socket \in OpenFds /\ OpenFds \subseteq Fds
  BY <1>1 DEF IInv, TypeOK, NetTypeOK, Refusing, OpenFds
<1>3. Fds' = Fds /\ OpenFds' = OpenFds \ {new_socket}
  <2>1. Fds' = Fds
    BY <1>1, <1>2 DEF Fds
  <2> QED BY <1>1, <1>2, <2>1 DEF OpenFds
<1>4. Listed' = Listed /\ Slots' = Slots
  BY <1>1 DEF Listed, Slots
<1>5. /\ Listed = OpenFds \ {new_socket} /\ Listed = {fd \in OpenFds : fd_in_select_range(fd)}
      /\ \A k, l \in Slots : client_sockets[k] = client_sockets[l] => k = l
  BY <1>1 DEF IInv, Listing
<1>6. Uninitialised \notin Fds
  BY DEF IInv, TypeOK, NetTypeOK, Uninitialised
<1>7. Listing'
  <2>1. Listed' = OpenFds' \ {new_socket'}
    BY <1>1, <1>2, <1>3, <1>4, <1>5, <1>6
  <2>2. Listed' = {fd \in OpenFds' : fd_in_select_range(fd)}
    BY <1>3, <1>4, <1>5
  <2> QED BY <1>1, <1>4, <1>5, <2>1, <2>2 DEF Listing, fd_in_select_range
<1>8. NetTypeOK'
  BY <1>1, <1>2, <1>3 DEF IInv, TypeOK, NetTypeOK
<1>9. TypeOK'
  BY <1>1, <1>3, <1>8 DEF IInv, TypeOK
<1>10. PassedServed'
  BY <1>1, <1>4 DEF IInv, PassedServed, Refusing, Slots
<1> QED
  BY <1>1, <1>7, <1>9, <1>10 DEF IInv, Refusing, ReportedIsPending, AtReported, FailedIsFull

LEMMA NextIInv == ASSUME IInv, [Next]_vars PROVE IInv'
<1>1. CASE UNCHANGED vars
  BY <1>1 DEF vars, netVars, arrays, IInv, TypeOK, NetTypeOK, Fds, Listing, Listed, OpenFds, Slots,
              Refusing, ReportedIsPending, AtReported, PassedServed, FailedIsFull,
              fd_in_select_range
<1>2. CASE Server
  BY <1>2, BuildSetIInv, CallSelectIInv, SelectIInv, AcceptIInv, RefuseIInv,
     ClientLoopIInv, ReadFullIInv, CleanupIInv DEF Server
<1> QED BY <1>1, <1>2, SigintIInv, ClientStepIInv DEF Next

-------------------------------------------------------------------------------
\* After any growth, removal and reuse of descriptors (grow_clients, remove_client,
\* accept) the first client_count slots list every open descriptor once, and none that
\* FD_SET could not hold.
THEOREM SelectListsOpenFds == Spec => []ListsOpenFds
<1>1. IInv => ListsOpenFds
  BY DEF IInv, Listing, ListsOpenFds, Slots
<1> QED BY <1>1, InitIInv, NextIInv, PTL DEF Spec

\* The loop over the clients, which stays at its index after remove_client, ends its turn
\* with every descriptor select() reported dealt with.
THEOREM SelectServesAllReady == Spec => []TurnServesAllReady
<1>1. ASSUME IInv PROVE TurnServesAllReady
  <2> SUFFICES ASSUME pc = "data", i >= client_count, NEW fd \in readfds \cap OpenFds
               PROVE  fd \in handled
    BY DEF TurnServesAllReady
  <2>0. Listed = OpenFds
    BY <1>1 DEF IInv, TypeOK, NetTypeOK, Listing, Refusing, OpenFds, Uninitialised
  <2>1. PICK k \in Slots : fd = client_sockets[k]
    BY <1>1, <2>0 DEF Listed, Slots
  <2>2. k < i
    BY <1>1, <2>1 DEF IInv, TypeOK, Slots
  <2> QED BY <1>1, <2>1, <2>2 DEF IInv, PassedServed
<1> QED BY <1>1, InitIInv, NextIInv, PTL DEF Spec

-------------------------------------------------------------------------------
(* A client connects once: nothing was read of one that waits to be        *)
(* accepted, and no two descriptors have the same client.                  *)

Absent(c) == \A fd \in Fds : conn[fd] # c

Waiting(c) == rcvd[c] = 0 /\ Absent(c)

Newcomers ==
    /\ \A c \in Clients : cpc[c] = "start" =>
          Waiting(c) /\ \A j \in 1..Len(pending) : pending[j] # c
    /\ \A j \in 1..Len(pending) : Waiting(pending[j])
    /\ \A j, k \in 1..Len(pending) : pending[j] = pending[k] => j = k
    /\ \A fd, other \in OpenFds : conn[fd] = conn[other] => fd = other
    /\ pc = "refuse" => rcvd[conn[new_socket]] = 0

LEMMA InitNewcomers == Init => Newcomers
<1> SUFFICES ASSUME Init PROVE Newcomers
  OBVIOUS
<1>1. PICK table \in FdTables : conn = [fd \in table |-> NoClient]
  BY DEF Init, ClientsInit
<1>2. OpenFds = {} /\ \A c \in Clients : Absent(c) /\ rcvd[c] = 0
  BY <1>1 DEF Fds, OpenFds, Absent, Init, ClientsInit
<1>3. Len(pending) = 0 /\ pc = "loop"
  BY DEF Init, ClientsInit
<1> QED BY <1>2, <1>3 DEF Newcomers, Waiting

\* A client that connects joins the end of the queue.
LEMMA ClientNewcomers == ASSUME IInv, Newcomers, ClientStep PROVE Newcomers'
<1>1. PICK c \in Clients : Client(c)
  BY DEF ClientStep
<1>2. /\ UNCHANGED <<conn, rcvd, new_socket, pc>> /\ pending \in Seq(Clients) /\ Len(pending) \in Nat
      /\ cpc \in [Clients -> {"start", "idle", "mid", "closed"}]
  BY <1>1, ClientKeeps DEF IInv, TypeOK, NetTypeOK, ClientStep, ServerVars
<1>3. /\ OpenFds' = OpenFds /\ \A d : Waiting(d)' <=> Waiting(d)
  BY <1>2 DEF OpenFds, Fds, Waiting, Absent
<1>4. CASE cpc[c] # "start"
  <2>0. UNCHANGED pending
    BY <1>1, <1>4 DEF Client, connect_to_server, send_word, ClientCloses
  <2>1. \A d \in Clients : cpc'[d] = "start" => cpc[d] = "start"
    BY <1>1, <1>2, <1>4 DEF Client, connect_to_server, send_word, ClientCloses
  <2> QED BY <1>2, <1>3, <2>0, <2>1 DEF Newcomers
<1>5. CASE cpc[c] = "start"
  <2>1. connect_to_server(c)
    BY <1>1, <1>5 DEF Client, send_word, ClientCloses
  <2>2. /\ \E p \in {"idle", "closed"} : cpc' = [cpc EXCEPT ![c] = p]
        /\ pending' = pending \/ pending' = Append(pending, c)
    BY <2>1 DEF connect_to_server
  <2>3. \A d \in Clients : cpc'[d] = "start" => cpc[d] = "start" /\ d # c
    BY <1>2, <2>2
  <2>4. Waiting(c) /\ \A j \in 1..Len(pending) : pending[j] # c
    BY <1>5 DEF Newcomers
  <2>5. CASE pending' = pending
    BY <1>2, <1>3, <2>3, <2>5 DEF Newcomers
  <2>6. CASE pending' = Append(pending, c)
    <3>1. /\ Len(pending') = Len(pending) + 1 /\ pending'[Len(pending) + 1] = c
          /\ \A j \in 1..Len(pending) : pending'[j] = pending[j]
      BY <1>2, <2>6
    <3>2. \A j \in 1..Len(pending') : j \in 1..Len(pending) \/ j = Len(pending) + 1
      BY <1>2, <3>1
    <3>3. \A j \in 1..Len(pending') : Waiting(pending'[j])
      BY <2>4, <3>1, <3>2 DEF Newcomers
    <3>4. \A j, k \in 1..Len(pending') : pending'[j] = pending'[k] => j = k
      BY <2>4, <3>1, <3>2 DEF Newcomers
    <3>5. \A d \in Clients : cpc'[d] = "start" =>
             Waiting(d) /\ \A j \in 1..Len(pending') : pending'[j] # d
      BY <2>3, <3>1, <3>2 DEF Newcomers
    <3> QED BY <1>2, <1>3, <3>3, <3>4, <3>5 DEF Newcomers
  <2> QED BY <2>2, <2>5, <2>6
<1> QED BY <1>4, <1>5

\* The one at the head of the queue gets a descriptor that nobody has.
LEMMA AcceptNewcomers == ASSUME IInv, Newcomers, Accept PROVE Newcomers'
<1>1. CASE UNCHANGED netVars
  <2>1. UNCHANGED <<cpc, pending, conn, rcvd>>
    BY <1>1 DEF netVars
  <2>2. pc' # "refuse"
    <3> SUFFICES ASSUME pc' = "refuse" PROVE FALSE
      OBVIOUS
    <3>1. PICK fd \in Fds : LowestFree(fd) /\ conn' = [conn EXCEPT ![fd] = Head(pending)]
      BY DEF Accept
    <3>2. Head(pending) \in Clients /\ conn \in [Fds -> Clients \cup {NoClient}]
      BY DEF Accept, IInv, ReportedIsPending, TypeOK, NetTypeOK
    <3>3. conn'[fd] \in Clients /\ conn[fd] = NoClient
      BY <3>1, <3>2 DEF LowestFree, OpenFds
    <3> QED BY <2>1, <3>3
  <2> QED BY <2>1, <2>2 DEF Newcomers, Waiting, Absent, OpenFds, Fds
<1>2. CASE ~UNCHANGED netVars
  <2>1. PICK fd \in Fds :
             /\ LowestFree(fd) /\ conn' = [conn EXCEPT ![fd] = Head(pending)]
             /\ pc' = "refuse" => new_socket' = fd
    BY <1>2 DEF Accept
  <2>2. /\ pending # <<>> /\ pending \in Seq(Clients) /\ Len(pending) \in Nat
        /\ conn \in [Fds -> Clients \cup {NoClient}] /\ pending' = Tail(pending)
        /\ UNCHANGED <<cpc, rcvd>>
    BY <1>2 DEF Accept, IInv, ReportedIsPending, TypeOK, NetTypeOK
  <2>3. /\ Len(pending) > 0 /\ Head(pending) = pending[1] /\ Head(pending) \in Clients
        /\ Len(pending') = Len(pending) - 1
        /\ \A j \in 1..Len(pending') : pending'[j] = pending[j + 1]
    BY <2>2
  <2>4. Fds' = Fds /\ OpenFds' = OpenFds \cup {fd} /\ fd \notin OpenFds
    <3>1. Fds' = Fds
      BY <2>1, <2>2 DEF Fds
    <3> QED BY <2>1, <2>2, <2>3, <3>1 DEF OpenFds, LowestFree
  <2>5. \A other \in Fds : conn'[other] = IF other = fd THEN pending[1] ELSE conn[other]
    BY <2>1, <2>2, <2>3
  <2>6. ASSUME NEW d, Waiting(d), d # pending[1] PROVE Waiting(d)'
    BY <2>2, <2>4, <2>5, <2>6 DEF Waiting, Absent
  <2>7. \A j \in 1..Len(pending') : j + 1 \in 1..Len(pending) /\ j + 1 # 1
    BY <2>2, <2>3
  <2>8. Waiting(pending[1]) /\ 1 \in 1..Len(pending)
    BY <2>2, <2>3 DEF Newcomers
  <2>9. (\A j \in 1..Len(pending) : Waiting(pending[j]))'
    <3> SUFFICES ASSUME NEW j \in 1..Len(pending') PROVE Waiting(pending[j])'
      OBVIOUS
    <3>1. Waiting(pending[j + 1]) /\ pending[j + 1] # pending[1]
      BY <2>7, <2>8 DEF Newcomers
    <3>2. PICK d : d = pending[j + 1]
      OBVIOUS
    <3>3. Waiting(d)'
      BY <2>6, <3>1, <3>2
    <3> QED BY <2>3, <3>2, <3>3 DEF Waiting, Absent
  <2>10. ASSUME NEW j \in 1..Len(pending'), NEW k \in 1..Len(pending'), pending'[j] = pending'[k]
         PROVE  j = k
    <3>1. pending[j + 1] = pending[k + 1] /\ j + 1 \in 1..Len(pending) /\ k + 1 \in 1..Len(pending)
      BY <2>3, <2>7, <2>10
    <3>2. j + 1 = k + 1
      BY <3>1 DEF Newcomers
    <3> QED BY <2>2, <2>3, <3>2
  <2>11. ASSUME NEW c \in Clients, cpc'[c] = "start"
         PROVE  Waiting(c)' /\ \A j \in 1..Len(pending') : pending'[j] # c
    <3>1. Waiting(c) /\ \A j \in 1..Len(pending) : pending[j] # c
      BY <2>2, <2>11 DEF Newcomers
    <3> QED BY <2>3, <2>6, <2>7, <2>8, <3>1
  <2>12. ASSUME NEW x \in OpenFds', NEW y \in OpenFds', conn'[x] = conn'[y] PROVE x = y
    <3>1. \A z \in OpenFds : z \in Fds /\ conn[z] # pending[1]
      BY <2>8 DEF Waiting, Absent, OpenFds
    <3>2. \A z \in OpenFds : z # fd /\ conn'[z] = conn[z]
      BY <2>4, <2>5, <3>1
    <3>3. conn'[fd] = pending[1]
      BY <2>5
    <3>4. \A v, w \in OpenFds : conn[v] = conn[w] => v = w
      BY DEF Newcomers
    <3> QED BY <2>4, <2>12, <3>1, <3>2, <3>3, <3>4
  <2>13. pc' = "refuse" => rcvd'[conn'[new_socket']] = 0
    BY <2>1, <2>2, <2>5, <2>8 DEF Waiting
  <2> QED BY <2>9, <2>10, <2>11, <2>12, <2>13 DEF Newcomers
<1> QED BY <1>1, <1>2

\* A connection is closed, or nothing changes.
LEMMA ClosedNewcomers ==
    ASSUME IInv, Newcomers, UNCHANGED <<cpc, rcvd>>, pc' # "refuse" \/ UNCHANGED <<conn, new_socket, pc>>,
           pending' = pending \/ pending' = <<>>, Fds' = Fds,
           \A fd \in Fds : conn'[fd] \in {conn[fd], NoClient}
    PROVE  Newcomers'
<1>1. OpenFds' \subseteq OpenFds /\ \A fd \in OpenFds' : conn'[fd] = conn[fd]
  BY DEF OpenFds
<1>2. ASSUME NEW d, d # NoClient, Waiting(d) PROVE Waiting(d)'
  BY <1>2 DEF Waiting, Absent
<1>3. NoClient \notin Clients /\ pending \in Seq(Clients)
  BY DEF IInv, TypeOK, NetTypeOK
<1>4. \A j \in 1..Len(pending') : j \in 1..Len(pending) /\ pending'[j] = pending[j]
                                 /\ pending[j] \in Clients
  BY <1>3
<1>5. (\A j \in 1..Len(pending) : Waiting(pending[j]))'
  <2> SUFFICES ASSUME NEW j \in 1..Len(pending') PROVE Waiting(pending[j])'
    OBVIOUS
  <2>1. PICK d \in Clients : d = pending[j] /\ Waiting(d)
    BY <1>4 DEF Newcomers
  <2>2. Waiting(d)'
    BY <1>2, <1>3, <2>1
  <2> QED BY <1>4, <2>1, <2>2 DEF Waiting, Absent
<1>6. \A c \in Clients : cpc'[c] = "start" =>
          Waiting(c)' /\ \A j \in 1..Len(pending') : pending'[j] # c
  BY <1>2, <1>3, <1>4 DEF Newcomers
<1>7. \A j, k \in 1..Len(pending') : pending'[j] = pending'[k] => j = k
  BY <1>4 DEF Newcomers
<1>8. \A fd, other \in OpenFds' : conn'[fd] = conn'[other] => fd = other
  BY <1>1 DEF Newcomers
<1>9. pc' = "refuse" => rcvd'[conn'[new_socket']] = 0
  BY DEF Newcomers
<1> QED BY <1>5, <1>6, <1>7, <1>8, <1>9 DEF Newcomers

\* What is read is of a client that has been accepted.
LEMMA ReadNewcomers == ASSUME IInv, Newcomers, read_full PROVE Newcomers'
<1> DEFINE fd == client_sockets[i]  c == conn[fd]
<1>1. pc \in {"length", "word"} /\ pc' # "refuse" /\ UNCHANGED <<cpc, pending>>
  BY DEF read_full
<1>2. i \in Slots
  BY <1>1 DEF IInv, AtReported
<1>3. fd \in OpenFds /\ fd \in Fds /\ conn \in [Fds -> Clients \cup {NoClient}]
  BY <1>1, <1>2, SlotIsOpen DEF IInv, TypeOK, NetTypeOK
<1>4. CASE Unread(c)
  <2>1. UNCHANGED conn /\ rcvd' = [rcvd EXCEPT ![c] = @ + 1] /\ rcvd \in [Clients -> Nat]
    BY <1>4 DEF read_full, IInv, TypeOK, NetTypeOK
  <2>2. \A d : Waiting(d) => d # c
    BY <1>3 DEF Waiting, Absent
  <2>3. \A d : Waiting(d) => Waiting(d)'
    BY <2>1, <2>2 DEF Waiting, Absent, Fds
  <2> QED BY <1>1, <2>1, <2>3 DEF Newcomers, OpenFds, Fds
<1>5. CASE ~Unread(c)
  <2>1. conn' = [conn EXCEPT ![fd] = NoClient] /\ UNCHANGED rcvd
    BY <1>5 DEF read_full, Disconnect
  <2>2. Fds' = Fds /\ \A x \in Fds : conn'[x] \in {conn[x], NoClient}
    BY <1>3, <2>1 DEF Fds
  <2> QED BY <1>1, <2>1, <2>2, ClosedNewcomers
<1> QED BY <1>4, <1>5

LEMMA NextNewcomers == ASSUME IInv, Newcomers, [Next]_vars PROVE Newcomers'
<1>1. conn \in [Fds -> Clients \cup {NoClient}]
  BY DEF IInv, TypeOK, NetTypeOK
<1>2. CASE Refuse
  <2>1. /\ conn' = [conn EXCEPT ![new_socket] = NoClient] /\ pc' = "data"
        /\ UNCHANGED <<cpc, rcvd, pending>>
    BY <1>2 DEF Refuse
  <2>2. Fds' = Fds /\ \A fd \in Fds : conn'[fd] \in {conn[fd], NoClient}
    BY <1>1, <2>1 DEF Fds
  <2> QED BY <2>1, <2>2, ClosedNewcomers
<1>3. CASE Cleanup
  <2>1. /\ conn' = [fd \in Fds |-> IF fd \in Listed THEN NoClient ELSE conn[fd]]
        /\ pending' = <<>> /\ pc' = "exited" /\ UNCHANGED <<cpc, rcvd>>
    BY <1>3 DEF Cleanup
  <2>2. Fds' = Fds /\ \A fd \in Fds : conn'[fd] \in {conn[fd], NoClient}
    BY <2>1 DEF Fds
  <2> QED BY <2>1, <2>2, ClosedNewcomers
<1>4. CASE BuildSet \/ CallSelect \/ select \/ ClientLoop \/ sigint_handler \/ UNCHANGED vars
  <2>1. /\ UNCHANGED <<cpc, rcvd, pending, conn, new_socket>>
        /\ pc' # "refuse" \/ pc' = pc
    BY <1>4 DEF BuildSet, CallSelect, select, ClientLoop, sigint_handler, vars, netVars
  <2>2. Fds' = Fds
    BY <2>1 DEF Fds
  <2> QED BY <2>1, <2>2, ClosedNewcomers
<1> QED BY <1>2, <1>3, <1>4, ClientNewcomers, AcceptNewcomers, ReadNewcomers DEF Next, Server

\* A connection is closed only after its client's end and last byte have been read
\* (read_full returning 0), or, on a descriptor of FD_SETSIZE or more, before a byte of
\* it was read, or by the cleanup; and the server fails only for want of a descriptor,
\* wherever SIGINT interrupts it.
THEOREM SelectServesToTheEnd == Spec => DropsServedOnlyWhenFinished
<1>1. ASSUME IInv, IInv', Newcomers, [Next]_vars PROVE [DropStep]_vars
  <2> SUFFICES ASSUME Next PROVE DropStep
    BY <1>1
  <2>1. pc' = "failed" => OpenFds = Fds
    <3>1. CASE Accept
      BY <3>1 DEF Accept
    <3>2. CASE ~Accept /\ pc' = "failed"
      <4>1. pc = "failed"
        BY <3>2 DEF Next, Server, BuildSet, CallSelect, select, Refuse, ClientLoop, read_full,
                    Cleanup, sigint_handler, ClientStep, ServerVars
      <4> QED BY <1>1, <4>1 DEF IInv, FailedIsFull
    <3> QED BY <3>1, <3>2
  <2>2. ASSUME NEW fd \in Fds, Drops(fd), pc # "cleanup"
        PROVE  Finished(fd) \/ Refused(fd)
    <3>1. conn \in [Fds -> Clients \cup {NoClient}]
      BY <1>1 DEF IInv, TypeOK, NetTypeOK
    <3>2. CASE Accept
      <4>1. (pending # <<>> /\ pending \in Seq(Clients)) \/ conn' = conn
        BY <1>1, <3>2 DEF Accept, IInv, ReportedIsPending, TypeOK, NetTypeOK, netVars
      <4>2. \/ conn' = conn
            \/ \E f \in Fds : conn' = [conn EXCEPT ![f] = Head(pending)]
        BY <3>2 DEF Accept, netVars
      <4> QED BY <2>2, <3>1, <4>1, <4>2 DEF Drops
    <3>3. CASE read_full
      <4>1. ~Unread(conn[client_sockets[i]]) /\ cpc[conn[client_sockets[i]]] = "closed"
        BY <2>2, <3>3 DEF read_full, Drops
      <4>2. conn' = [conn EXCEPT ![client_sockets[i]] = NoClient]
        BY <2>2, <3>3 DEF read_full, Disconnect, Drops
      <4>3. fd = client_sockets[i]
        BY <2>2, <3>1, <4>2 DEF Drops
      <4> QED BY <4>1, <4>3 DEF Finished
    <3>4. CASE Refuse
      <4>1. pc = "refuse" /\ conn' = [conn EXCEPT ![new_socket] = NoClient]
        BY <3>4 DEF Refuse
      <4>2. fd = new_socket
        BY <2>2, <3>1, <4>1 DEF Drops
      <4>3. fd \in OpenFds /\ rcvd[conn[fd]] = 0
        BY <1>1, <4>1, <4>2 DEF IInv, Refusing, Newcomers
      <4>4. ~fd_in_select_range(fd)
        BY <1>1, <4>1, <4>2, <4>3 DEF IInv, Listing
      <4> QED BY <4>3, <4>4 DEF Refused
    <3>5. CASE ~Accept /\ ~read_full /\ ~Refuse
      <4>1. conn' = conn
        BY <2>2, <3>5 DEF Next, Server, BuildSet, CallSelect, select, ClientLoop, Cleanup,
           sigint_handler, ClientStep, Client, connect_to_server, send_word, ClientCloses, netVars
      <4> QED BY <2>2, <4>1 DEF Drops
    <3> QED BY <3>2, <3>3, <3>4, <3>5
  <2> QED BY <2>1, <2>2 DEF DropStep
<1> QED BY <1>1, InitIInv, NextIInv, InitNewcomers, NextNewcomers, PTL
        DEF Spec, DropsServedOnlyWhenFinished
===============================================================================
