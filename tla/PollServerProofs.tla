--------------------------- MODULE PollServerProofs ---------------------------
(***************************************************************************)
(* The two arrays of the poll() server, and the readiness it acts on, for  *)
(* any number of clients and any supply of descriptors.                    *)
(***************************************************************************)
EXTENDS PollServer, TLAPS

USE WordClientsAssumption, PollServerAssumption
    DEF WordClientsAssumption, PollServerAssumption

Slots == 0..(client_count - 1)

\* The part of ListsOpenFds that is not about the arrays' agreement.
Listing == pc # "exited" => /\ \A k, l \in Slots : client_sockets[k] = client_sockets[l] => k = l
                            /\ {client_sockets[k] : k \in Slots} = OpenFds

\* poll() reported a connection: nobody but this server takes it from the queue.
ReportedIsPending == pc = "accept" /\ listenIn => pending # <<>>

\* The loop reads from a slot in use, and starts with one that poll() reported.
AtReported == /\ pc \in {"length", "word"} => i \in Slots
              /\ pc = "length" => fds[i + 1].revents

\* Readiness is never stale: an entry that says POLLIN has something to read, from one
\* turn to the next too, but for the client whose length has just been read.
Fresh == pc # "exited" =>
            \A k \in Slots : fds[k + 1].revents /\ ~(pc = "word" /\ k = i)
                                => Readable(conn[client_sockets[k]])

\* A client is in one place: not connected yet, once in the queue, or behind one
\* descriptor.
OnePlace ==
    /\ \A f, g \in OpenFds : conn[f] = conn[g] => f = g
    /\ \A m, n \in 1..Len(pending) : pending[m] = pending[n] => m = n
    /\ \A f \in OpenFds : \A n \in 1..Len(pending) : pending[n] # conn[f]
    /\ \A c \in Clients : cpc[c] = "start" => /\ \A f \in OpenFds : conn[f] # c
                                              /\ \A n \in 1..Len(pending) : pending[n] # c

ServerInv == ArraysAgree /\ Listing /\ ReportedIsPending /\ AtReported /\ Fresh

IInv == ServerInv /\ OnePlace

USE DEF ServerInv

LEMMA InitIInv == Init => IInv
<1> SUFFICES ASSUME Init PROVE IInv
  OBVIOUS
<1>1. PICK table \in FdTables : conn = [fd \in table |-> NoClient]
  BY DEF Init, ClientsInit
<1>2. Fds = table /\ OpenFds = {}
  BY <1>1 DEF Fds, OpenFds
<1>3. NetTypeOK
  BY <1>1, <1>2 DEF Init, ClientsInit, NetTypeOK
<1>4. /\ client_capacity \in Nat \ {0} /\ client_count \in 0..client_capacity /\ i \in Nat
      /\ client_sockets \in [0..(client_capacity - 1) -> Fds \cup {-1}]
  BY DEF Init
<1>5. fds \in [1..client_capacity -> [fd : Fds \cup {-1}, events : BOOLEAN, revents : BOOLEAN]]
  BY DEF Init, NoEntry
<1>6. TypeOK
  BY <1>3, <1>4, <1>5 DEF Init, TypeOK
<1>7. ArraysAgree
  BY <1>6 DEF Init, ArraysAgree
<1>8. OnePlace
  BY <1>2 DEF Init, ClientsInit, OnePlace
<1> QED
  BY <1>2, <1>7, <1>8 DEF Init, IInv, Listing, Slots, ReportedIsPending, AtReported, Fresh

-------------------------------------------------------------------------------
(* What the descriptors and the slots are                                  *)

\* A slot in use holds an open descriptor, and a client is behind it.
LEMMA SlotIsOpen ==
    ASSUME IInv, pc # "exited", NEW k \in Slots
    PROVE  /\ client_sockets[k] \in OpenFds /\ client_sockets[k] \in Fds
           /\ conn[client_sockets[k]] \in Clients
<1>1. client_sockets[k] \in OpenFds
  BY DEF IInv, Listing
<1> QED BY <1>1 DEF IInv, ArraysAgree, TypeOK, NetTypeOK, OpenFds

\* The clients and the kernel's queue: a client's step closes no connection, adds
\* to the queue at most, and leaves what can be read.
LEMMA ClientKeeps ==
    ASSUME NetTypeOK, NEW c \in Clients, Client(c)
    PROVE  /\ NetTypeOK' /\ UNCHANGED <<listening, conn, rcvd>>
           /\ pending # <<>> => pending' # <<>>
           /\ \A d \in Clients : Readable(d) => Readable(d)'
<1>1. UNCHANGED <<listening, conn, rcvd>>
  BY DEF Client, connect_to_server, send_word, ClientCloses
<1>2. pending' = pending \/ pending' = Append(pending, c)
  BY DEF Client, connect_to_server, send_word, ClientCloses
<1>3. cpc' \in [Clients -> {"start", "idle", "mid", "closed"}] /\ sent' \in [Clients -> Nat]
  <2>1. CASE connect_to_server(c)
    BY <2>1 DEF NetTypeOK, connect_to_server
  <2>2. CASE send_word(c)
    <3>1. CASE PeerAlive(c)
      <4>1. /\ sent' = [sent EXCEPT ![c] = sent[c] + 1]
            /\ \E p \in {"mid", "idle"} : cpc' = [cpc EXCEPT ![c] = p]
        BY <2>2, <3>1, Zenon DEF send_word
      <4> QED BY <4>1 DEF NetTypeOK
    <3>2. CASE ~PeerAlive(c)
      BY <2>2, <3>2 DEF NetTypeOK, send_word
    <3> QED BY <3>1, <3>2
  <2>3. CASE ClientCloses(c)
    BY <2>3 DEF NetTypeOK, ClientCloses
  <2> QED BY <2>1, <2>2, <2>3 DEF Client
<1>4. pending' \in Seq(Clients) /\ (pending # <<>> => pending' # <<>>)
  <2>1. pending \in Seq(Clients)
    BY DEF NetTypeOK
  <2>2. Append(pending, c) \in Seq(Clients) /\ Append(pending, c) # <<>>
    BY <2>1
  <2> QED BY <1>2, <2>1, <2>2
<1>5. \A d \in Clients : Readable(d) => Readable(d)'
  <2>1. CASE connect_to_server(c)
    BY <2>1 DEF NetTypeOK, connect_to_server, Readable, Unread
  <2>2. CASE send_word(c)
    <3>1. CASE PeerAlive(c)
      <4>1. /\ sent' = [sent EXCEPT ![c] = sent[c] + 1] /\ cpc[c] # "closed" /\ rcvd' = rcvd
            /\ \E p \in {"mid", "idle"} : cpc' = [cpc EXCEPT ![c] = p]
        BY <2>2, <3>1, Zenon DEF send_word
      <4> QED BY <4>1 DEF NetTypeOK, Readable, Unread
    <3>2. CASE ~PeerAlive(c)
      BY <2>2, <3>2 DEF NetTypeOK, send_word, Readable, Unread
    <3> QED BY <3>1, <3>2
  <2>3. CASE ClientCloses(c)
    BY <2>3 DEF NetTypeOK, ClientCloses, Readable, Unread
  <2> QED BY <2>1, <2>2, <2>3 DEF Client
<1> QED
  BY <1>1, <1>3, <1>4, <1>5 DEF NetTypeOK, Fds

-------------------------------------------------------------------------------
(* Every step of the server keeps its part of the invariant                *)

\* A step of the server that leaves the connections and the arrays alone.
LEMMA QuietInv ==
    ASSUME IInv, UNCHANGED <<netVars, arrays>>, pc # "exited", listenIn' \in BOOLEAN,
           exit_flag' \in BOOLEAN, i' \in Nat,
           pc' \in {"loop", "call_poll", "poll", "accept", "data", "length", "word", "cleanup", "failed"}
    PROVE  /\ ArraysAgree' /\ Listing'
           /\ (pc = "word" => pc' = "word" /\ i' = i) => Fresh'
<1>1. UNCHANGED <<listening, cpc, sent, pending, conn, rcvd, client_sockets, fds, client_count,
                  client_capacity>>
  BY DEF netVars, arrays
<1>2. OpenFds' = OpenFds /\ Fds' = Fds /\ Slots' = Slots
  BY <1>1 DEF OpenFds, Fds, Slots
<1>3. NetTypeOK'
  BY <1>1, <1>2 DEF IInv, ArraysAgree, TypeOK, NetTypeOK
<1>4. TypeOK'
  BY <1>1, <1>2, <1>3 DEF IInv, ArraysAgree, TypeOK
<1>5. ArraysAgree'
  BY <1>1, <1>2, <1>4 DEF IInv, ArraysAgree
<1>6. Listing'
  BY <1>1, <1>2 DEF IInv, Listing
<1>7. (pc = "word" => pc' = "word" /\ i' = i) => Fresh'
  BY <1>1, <1>2 DEF IInv, Fresh, Readable, Unread
<1> QED BY <1>5, <1>6, <1>7

LEMMA LoopInv == ASSUME IInv, Loop PROVE ServerInv'
<1>1. ArraysAgree' /\ Listing' /\ Fresh'
  BY QuietInv DEF Loop, IInv, ArraysAgree, TypeOK
<1> QED BY <1>1 DEF Loop, IInv, ReportedIsPending, AtReported

LEMMA SigintInv == ASSUME IInv, Sigint PROVE ServerInv'
<1>1. ArraysAgree' /\ Listing' /\ Fresh'
  BY QuietInv DEF Sigint, IInv, ArraysAgree, TypeOK
<1> QED BY <1>1 DEF Sigint, IInv, ReportedIsPending, AtReported, netVars, arrays, Slots

LEMMA HandleDataInv == ASSUME IInv, handle_client_data PROVE ServerInv'
<1>1. ArraysAgree' /\ Listing' /\ Fresh'
  <2>1. /\ pc = "data" /\ pc' \in {"length", "data", "loop"} /\ UNCHANGED <<netVars, arrays, exit_flag>>
        /\ listenIn' = listenIn \/ listenIn' = FALSE
        /\ i' = i \/ i' = i + 1
    BY DEF handle_client_data
  <2>2. listenIn' \in BOOLEAN /\ exit_flag' \in BOOLEAN
    BY <2>1, Zenon DEF IInv, ArraysAgree, TypeOK
  <2>3. i' \in Nat
    BY <2>1 DEF IInv, ArraysAgree, TypeOK
  <2> QED BY <2>1, <2>2, <2>3, QuietInv
<1>2. AtReported'
  BY DEF handle_client_data, InLoop, AtReported, IInv, ArraysAgree, TypeOK, Slots, arrays
<1> QED BY <1>1, <1>2 DEF handle_client_data, IInv, ReportedIsPending

LEMMA ClientStepInv == ASSUME IInv, ClientStep PROVE ServerInv'
<1> USE DEF IInv
<1>1. PICK c \in Clients : Client(c)
  BY DEF ClientStep
<1>2. /\ NetTypeOK' /\ UNCHANGED <<listening, conn, rcvd>>
      /\ pending # <<>> => pending' # <<>>
      /\ \A d \in Clients : Readable(d) => Readable(d)'
  BY <1>1, ClientKeeps DEF ArraysAgree, TypeOK
<1>3. UNCHANGED <<client_sockets, fds, client_count, client_capacity, listenIn, exit_flag, pc, i>>
  BY DEF ClientStep, arrays
<1>4. OpenFds' = OpenFds /\ Fds' = Fds /\ Slots' = Slots
  BY <1>2, <1>3 DEF OpenFds, Fds, Slots
<1>5. TypeOK'
  BY <1>2, <1>3, <1>4 DEF ArraysAgree, TypeOK
<1>6. ArraysAgree' /\ Listing'
  BY <1>2, <1>3, <1>4, <1>5 DEF ArraysAgree, Listing
<1>7. Fresh'
  <2>1. pc # "exited" => \A k \in Slots : conn[client_sockets[k]] \in Clients
    BY SlotIsOpen
  <2> SUFFICES ASSUME pc # "exited", NEW k \in Slots, fds[k + 1].revents, ~(pc = "word" /\ k = i)
               PROVE  Readable(conn[client_sockets[k]])'
    BY <1>3, <1>4 DEF Fresh
  <2>2. Readable(conn[client_sockets[k]])
    BY DEF Fresh
  <2>3. PICK d \in Clients : d = conn[client_sockets[k]] /\ d = conn'[client_sockets'[k]]
    BY <1>2, <1>3, <2>1
  <2>4. Readable(d) /\ Readable(d)'
    BY <1>2, <2>2, <2>3
  <2> QED BY <2>3, <2>4 DEF Readable, Unread
<1> QED
  BY <1>2, <1>3, <1>4, <1>6, <1>7 DEF ReportedIsPending, AtReported

LEMMA CleanupInv == ASSUME IInv, Cleanup PROVE ServerInv'
<1> USE DEF IInv, Cleanup
<1>1. Fds' = Fds
  BY DEF Fds
<1>2. NetTypeOK'
  <2>1. conn' \in [Fds -> Clients \cup {NoClient}]
    BY DEF ArraysAgree, TypeOK, NetTypeOK
  <2>2. pending' \in Seq(Clients)
    OBVIOUS
  <2>3. listening' \in BOOLEAN
    OBVIOUS
  <2> QED BY <1>1, <2>1, <2>2, <2>3 DEF ArraysAgree, TypeOK, NetTypeOK
<1>3. TypeOK'
  BY <1>1, <1>2 DEF ArraysAgree, TypeOK, arrays
<1>4. ArraysAgree'
  BY <1>1, <1>3 DEF ArraysAgree, arrays
<1> QED
  BY <1>4 DEF Listing, ReportedIsPending, AtReported, Fresh

\* poll() writes the revents of the first client_count entries.
LEMMA PollInv == ASSUME IInv, poll PROVE ServerInv'
<1> DEFINE E == [fd : Fds \cup {-1}, events : BOOLEAN, revents : BOOLEAN]
<1>1. /\ UNCHANGED <<listening, cpc, sent, pending, conn, rcvd, client_sockets, client_count,
                     client_capacity, exit_flag, i>>
      /\ pc = "poll" /\ pc' = "accept" /\ listenIn' = (pending # <<>>)
  BY DEF poll, netVars
<1>2. OpenFds' = OpenFds /\ Fds' = Fds /\ Slots' = Slots
  BY <1>1 DEF OpenFds, Fds, Slots
<1>3. /\ fds \in [1..client_capacity -> E] /\ client_count \in 0..client_capacity
      /\ client_capacity \in Nat
  BY DEF IInv, ArraysAgree, TypeOK
<1>4. \A k \in 1..client_capacity : Ready(k) \in BOOLEAN
  BY DEF Ready
<1>5. /\ fds' \in [1..client_capacity -> E]
      /\ \A k \in 1..client_capacity :
            /\ fds'[k].fd = fds[k].fd /\ fds'[k].events = fds[k].events
            /\ k <= client_count => fds'[k].revents = Ready(k)
            /\ k > client_count => fds'[k] = fds[k]
  <2>1. fds' = [k \in 1..client_capacity |->
                   IF k <= client_count THEN [fds[k] EXCEPT !.revents = Ready(k)] ELSE fds[k]]
    BY <1>3 DEF poll
  <2>2. ASSUME NEW k \in 1..client_capacity
        PROVE  /\ fds'[k] \in E
               /\ fds'[k].fd = fds[k].fd /\ fds'[k].events = fds[k].events
               /\ k <= client_count => fds'[k].revents = Ready(k)
               /\ k > client_count => fds'[k] = fds[k]
    <3>1. fds[k] \in E
      BY <1>3
    <3>2. CASE k <= client_count
      <4>1. fds'[k] = [fds[k] EXCEPT !.revents = Ready(k)]
        BY <2>1, <3>2
      <4> QED BY <1>3, <1>4, <3>1, <3>2, <4>1
    <3>3. CASE k > client_count
      BY <1>3, <2>1, <3>1, <3>3
    <3> QED BY <1>3, <3>2, <3>3
  <2> QED BY <2>1, <2>2
<1>6. NetTypeOK'
  BY <1>1, <1>2 DEF IInv, ArraysAgree, TypeOK, NetTypeOK
<1>7. TypeOK'
  BY <1>1, <1>2, <1>5, <1>6 DEF IInv, ArraysAgree, TypeOK
<1>8. ArraysAgree'
  <2>1. ASSUME NEW k \in 0..(client_count - 1)
        PROVE  /\ client_sockets[k] \in Fds
               /\ fds'[k + 1].fd = client_sockets[k] /\ fds'[k + 1].events
    <3>1. k + 1 \in 1..client_capacity
      BY <1>3
    <3> QED BY <1>5, <3>1 DEF IInv, ArraysAgree
  <2>2. ASSUME NEW k \in client_count..(client_capacity - 1)
        PROVE  client_sockets[k] = -1 /\ fds'[k + 1] = NoEntry
    <3>1. k + 1 \in 1..client_capacity /\ k + 1 > client_count
      BY <1>3
    <3> QED BY <1>5, <3>1 DEF IInv, ArraysAgree
  <2> QED BY <1>1, <1>2, <1>7, <2>1, <2>2 DEF ArraysAgree
<1>9. Listing'
  BY <1>1, <1>2 DEF IInv, Listing
<1>10. Fresh'
  <2> SUFFICES ASSUME NEW k \in Slots, fds'[k + 1].revents
               PROVE  Readable(conn[client_sockets[k]])'
    BY <1>1, <1>2 DEF Fresh
  <2>1. Ready(k + 1) /\ fds[k + 1].fd = client_sockets[k]
    BY <1>3, <1>5 DEF Slots, IInv, ArraysAgree
  <2> QED BY <1>1, <2>1 DEF Ready, Readable, Unread
<1> QED
  BY <1>1, <1>8, <1>9, <1>10 DEF IInv, ReportedIsPending, AtReported

\* handle_client_disconnection: the last client takes the slot of the one that goes, in
\* both arrays, with the readiness poll() reported for it.
LEMMA DisconnectInv ==
    ASSUME IInv, pc \in {"length", "word"}, handle_client_disconnection, pc' = "data",
           i' = i + 1, UNCHANGED <<listenIn, exit_flag>>
    PROVE  ServerInv'
<1> DEFINE gone == client_sockets[i]
           last == client_count - 1
           E    == [fd : Fds \cup {-1}, events : BOOLEAN, revents : BOOLEAN]
<1>1. /\ i \in Slots /\ last \in Slots /\ client_capacity \in Nat \ {0}
      /\ client_count \in 0..client_capacity
      /\ client_sockets \in [0..(client_capacity - 1) -> Fds \cup {-1}]
      /\ fds \in [1..client_capacity -> E]
  BY DEF IInv, ArraysAgree, TypeOK, AtReported, Slots
<1>2. /\ client_count' = last /\ conn' = [conn EXCEPT ![gone] = NoClient]
      /\ client_sockets' = [[client_sockets EXCEPT ![i] = client_sockets[last]] EXCEPT ![last] = -1]
      /\ fds' = [[fds EXCEPT ![i + 1] = fds[last + 1]] EXCEPT ![last + 1] = NoEntry]
      /\ UNCHANGED <<listening, cpc, sent, pending, rcvd, client_capacity>>
  BY DEF handle_client_disconnection
<1>3. gone \in Fds /\ Fds' = Fds /\ OpenFds' = OpenFds \ {gone}
  <2>1. gone \in Fds
    BY <1>1, SlotIsOpen
  <2>2. conn \in [Fds -> Clients \cup {NoClient}]
    BY DEF IInv, ArraysAgree, TypeOK, NetTypeOK
  <2>3. Fds' = Fds
    BY <1>2, <2>2 DEF Fds
  <2> QED BY <1>2, <2>1, <2>2, <2>3 DEF OpenFds
<1>4. Slots' = Slots \ {last} /\ \A k \in Slots : k \in 0..(client_capacity - 1) /\ k + 1 \in 1..client_capacity
  BY <1>1, <1>2 DEF Slots
<1>5. NoEntry \in E
  BY DEF NoEntry
<1>6. /\ client_sockets' \in [0..(client_capacity - 1) -> Fds \cup {-1}]
      /\ fds' \in [1..client_capacity -> E]
  <2>1. client_sockets[last] \in Fds \cup {-1} /\ fds[last + 1] \in E
    BY <1>1, <1>4
  <2> QED BY <1>1, <1>2, <1>4, <1>5, <2>1
\* The slot that is filled again, the other slots in use, and the ones behind them.
<1>7. \A k \in Slots' :
         /\ client_sockets'[k] = IF k = i THEN client_sockets[last] ELSE client_sockets[k]
         /\ fds'[k + 1] = IF k = i THEN fds[last + 1] ELSE fds[k + 1]
  BY <1>1, <1>2, <1>4 DEF Slots
<1>8. \A k \in last..(client_capacity - 1) : client_sockets'[k] = -1 /\ fds'[k + 1] = NoEntry
  <2>1. client_sockets'[last] = -1 /\ fds'[last + 1] = NoEntry
    BY <1>1, <1>2, <1>4
  <2>2. ASSUME NEW k \in client_count..(client_capacity - 1)
        PROVE  client_sockets'[k] = -1 /\ fds'[k + 1] = NoEntry
    <3>1. client_sockets[k] = -1 /\ fds[k + 1] = NoEntry
      BY DEF IInv, ArraysAgree
    <3>2. k # i /\ k # last /\ k \in 0..(client_capacity - 1) /\ k + 1 \in 1..client_capacity
      BY <1>1 DEF Slots
    <3>3. k + 1 # i + 1 /\ k + 1 # last + 1
      BY <1>1, <3>2 DEF Slots
    <3> QED BY <1>1, <1>2, <3>1, <3>2, <3>3
  <2>3. \A k \in last..(client_capacity - 1) : k = last \/ k \in client_count..(client_capacity - 1)
    BY <1>1
  <2> QED BY <2>1, <2>2, <2>3
<1>9. NetTypeOK'
  BY <1>2, <1>3 DEF IInv, ArraysAgree, TypeOK, NetTypeOK
<1>10. TypeOK'
  <2>1. client_count' \in 0..client_capacity' /\ i' \in Nat
    BY <1>1, <1>2 DEF Slots
  <2>2. listenIn' \in BOOLEAN /\ exit_flag' \in BOOLEAN
    BY Zenon DEF IInv, ArraysAgree, TypeOK
  <2> QED BY <1>1, <1>2, <1>3, <1>6, <1>9, <2>1, <2>2 DEF TypeOK
<1>11. ArraysAgree'
  <2>1. \A k \in Slots : /\ client_sockets[k] \in Fds
                         /\ fds[k + 1].fd = client_sockets[k] /\ fds[k + 1].events
    BY DEF IInv, ArraysAgree, Slots
  <2>2. \A k \in Slots' : /\ client_sockets'[k] \in Fds
                          /\ fds'[k + 1].fd = client_sockets'[k] /\ fds'[k + 1].events
    <3> TAKE k \in Slots'
    <3>1. PICK l \in Slots : client_sockets'[k] = client_sockets[l] /\ fds'[k + 1] = fds[l + 1]
      BY <1>1, <1>4, <1>7
    <3> QED BY <2>1, <3>1
  <2> QED BY <1>2, <1>3, <1>8, <1>10, <2>2 DEF ArraysAgree, Slots
<1>12. Listing'
  <2>1. \A k, l \in Slots : client_sockets[k] = client_sockets[l] => k = l
    BY DEF IInv, Listing
  <2>2. \A k, l \in Slots' : client_sockets'[k] = client_sockets'[l] => k = l
    BY <1>1, <1>4, <1>7, <2>1
  <2>3. {client_sockets'[k] : k \in Slots'} = {client_sockets[k] : k \in Slots} \ {gone}
    <3>1. ASSUME NEW k \in Slots'
          PROVE  client_sockets'[k] \in {client_sockets[l] : l \in Slots} \ {gone}
      BY <1>1, <1>4, <1>7, <2>1
    <3>2. ASSUME NEW k \in Slots, k # i
          PROVE  client_sockets[k] \in {client_sockets'[l] : l \in Slots'}
      <4>1. CASE k = last
        BY <1>1, <1>4, <1>7, <3>2, <4>1
      <4>2. CASE k # last
        BY <1>4, <1>7, <3>2, <4>2
      <4> QED BY <4>1, <4>2
    <3> QED BY <3>1, <3>2
  <2> QED BY <1>3, <2>2, <2>3 DEF IInv, Listing
<1>13. Fresh'
  <2> SUFFICES ASSUME NEW k \in Slots', fds'[k + 1].revents
               PROVE  Readable(conn[client_sockets[k]])'
    BY DEF Fresh
  <2>1. PICK l \in Slots : /\ client_sockets'[k] = client_sockets[l] /\ l # i
                           /\ fds[l + 1].revents
    <3>1. CASE k = i
      BY <1>1, <1>4, <1>7, <3>1
    <3>2. CASE k # i
      BY <1>1, <1>4, <1>7, <3>2
    <3> QED BY <3>1, <3>2
  <2>2. Readable(conn[client_sockets[l]])
    BY <2>1 DEF IInv, Fresh
  <2>3. client_sockets[l] \in Fds /\ client_sockets[l] # gone
    BY <1>1, <2>1, SlotIsOpen DEF IInv, Listing
  <2>4. conn'[client_sockets'[k]] = conn[client_sockets[l]]
    BY <1>2, <2>1, <2>3 DEF IInv, ArraysAgree, TypeOK, NetTypeOK
  <2> QED BY <1>2, <2>2, <2>4 DEF Readable, Unread
<1> QED
  BY <1>11, <1>12, <1>13 DEF IInv, ReportedIsPending, AtReported

\* read_full takes one item of the client in slot i; its readiness is used up when the
\* word has been read.
LEMMA ReadFullInv == ASSUME IInv, read_full PROVE ServerInv'
<1> DEFINE c == conn[client_sockets[i]]
           E == [fd : Fds \cup {-1}, events : BOOLEAN, revents : BOOLEAN]
<1>1. pc \in {"length", "word"} /\ UNCHANGED <<listenIn, exit_flag>> /\ i \in Slots
  BY DEF read_full, IInv, AtReported
<1>2. CASE Unread(c)
  <2>1. /\ rcvd' = [rcvd EXCEPT ![c] = @ + 1]
        /\ \/ pc = "length" /\ pc' = "word" /\ i' = i /\ fds' = fds
           \/ pc = "word" /\ pc' = "data" /\ i' = i + 1
              /\ fds' = [fds EXCEPT ![i + 1].revents = FALSE]
        /\ UNCHANGED <<listening, cpc, sent, pending, conn, client_sockets, client_count,
                       client_capacity>>
    BY <1>1, <1>2 DEF read_full
  <2>2. OpenFds' = OpenFds /\ Fds' = Fds /\ Slots' = Slots
    BY <2>1 DEF OpenFds, Fds, Slots
  <2>3. /\ c \in Clients /\ rcvd \in [Clients -> Nat] /\ i \in Nat
        /\ fds \in [1..client_capacity -> E] /\ i + 1 \in 1..client_capacity
        /\ client_count \in 0..client_capacity /\ client_capacity \in Nat
    BY <1>1, SlotIsOpen DEF IInv, ArraysAgree, TypeOK, NetTypeOK, Slots
  <2>4. /\ fds' \in [1..client_capacity -> E]
        /\ \A k \in 1..client_capacity :
              /\ fds'[k].fd = fds[k].fd /\ fds'[k].events = fds[k].events
              /\ k # i + 1 => fds'[k] = fds[k]
        /\ pc = "word" => ~fds'[i + 1].revents
    <3>1. CASE fds' = fds /\ pc = "length"
      BY <2>3, <3>1
    <3>2. CASE pc = "word"
      <4>1. fds' = [fds EXCEPT ![i + 1] = [fds[i + 1] EXCEPT !.revents = FALSE]]
        BY <2>1, <3>2
      <4>2. fds[i + 1] \in E
        BY <2>3
      <4> QED BY <2>3, <4>1, <4>2
    <3> QED BY <2>1, <3>1, <3>2
  <2>5. NetTypeOK'
    <3>1. rcvd' \in [Clients -> Nat]
      BY <2>1, <2>3
    <3> QED BY <2>1, <2>2, <3>1 DEF IInv, ArraysAgree, TypeOK, NetTypeOK
  <2>6. TypeOK'
    <3>1. listenIn' \in BOOLEAN /\ exit_flag' \in BOOLEAN
      BY <1>1, Zenon DEF IInv, ArraysAgree, TypeOK
    <3>2. i' \in Nat
      BY <2>1, <2>3
    <3> QED BY <2>1, <2>2, <2>4, <2>5, <3>1, <3>2 DEF IInv, ArraysAgree, TypeOK
  <2>7. ArraysAgree'
    <3>1. ASSUME NEW k \in 0..(client_count - 1)
          PROVE  /\ client_sockets[k] \in Fds
                 /\ fds'[k + 1].fd = client_sockets[k] /\ fds'[k + 1].events
      <4>1. k + 1 \in 1..client_capacity
        BY <2>3
      <4> QED BY <2>4, <4>1 DEF IInv, ArraysAgree
    <3>2. ASSUME NEW k \in client_count..(client_capacity - 1)
          PROVE  client_sockets[k] = -1 /\ fds'[k + 1] = NoEntry
      <4>1. k + 1 \in 1..client_capacity /\ k + 1 # i + 1
        BY <1>1, <2>3 DEF Slots
      <4> QED BY <2>4, <4>1 DEF IInv, ArraysAgree
    <3> QED BY <2>1, <2>2, <2>6, <3>1, <3>2 DEF ArraysAgree
  <2>8. Listing'
    BY <1>1, <2>1, <2>2 DEF IInv, Listing
  <2>9. Fresh'
    <3> SUFFICES ASSUME NEW k \in Slots, fds'[k + 1].revents, ~(pc' = "word" /\ k = i')
                 PROVE  Readable(conn[client_sockets[k]])'
      BY <2>2 DEF Fresh
    <3>1. k # i
      BY <2>1, <2>4
    <3>2. fds[k + 1].revents
      BY <1>1, <2>3, <2>4, <3>1 DEF Slots
    <3>3. Readable(conn[client_sockets[k]]) /\ conn[client_sockets[k]] \in Clients
      BY <1>1, <3>1, <3>2, SlotIsOpen DEF IInv, Fresh
    <3>4. conn[client_sockets[k]] # c
      <4>1. client_sockets[k] \in OpenFds /\ client_sockets[i] \in OpenFds
        BY <1>1, SlotIsOpen
      <4>2. client_sockets[k] # client_sockets[i]
        BY <1>1, <3>1 DEF IInv, Listing
      <4> QED BY <4>1, <4>2 DEF IInv, OnePlace
    <3> QED BY <2>1, <2>3, <3>3, <3>4 DEF Readable, Unread
  <2> QED
    BY <1>1, <2>1, <2>2, <2>7, <2>8, <2>9 DEF IInv, ReportedIsPending, AtReported
<1>3. CASE ~Unread(c)
  <2>1. handle_client_disconnection /\ pc' = "data" /\ i' = i + 1
    BY <1>1, <1>3 DEF read_full
  <2> QED BY <1>1, <2>1, DisconnectInv
<1> QED BY <1>2, <1>3

\* The growth step leaves room for one more client and keeps the entries that are there.
LEMMA Grows ==
    ASSUME TypeOK
    PROVE  /\ new_cap \in Nat \ {0} /\ client_count < new_cap /\ client_capacity <= new_cap
           /\ Grown_sockets \in [0..(new_cap - 1) -> Fds \cup {-1}]
           /\ Grown_fds \in [1..new_cap -> [fd : Fds \cup {-1}, events : BOOLEAN, revents : BOOLEAN]]
           /\ \A k \in 0..(client_capacity - 1) : /\ Grown_sockets[k] = client_sockets[k]
                                                  /\ Grown_fds[k + 1] = fds[k + 1]
           /\ \A k \in client_capacity..(new_cap - 1) : /\ Grown_sockets[k] = -1
                                                        /\ Grown_fds[k + 1] = NoEntry
<1> DEFINE E == [fd : Fds \cup {-1}, events : BOOLEAN, revents : BOOLEAN]
<1>1. /\ client_capacity \in Nat \ {0} /\ client_count \in 0..client_capacity
      /\ client_sockets \in [0..(client_capacity - 1) -> Fds \cup {-1}]
      /\ fds \in [1..client_capacity -> E]
  BY DEF TypeOK
<1>2. new_cap \in Nat \ {0} /\ client_count < new_cap /\ client_capacity <= new_cap
  BY <1>1 DEF new_cap
<1>3. Grown_sockets \in [0..(new_cap - 1) -> Fds \cup {-1}]
  <2>1. ASSUME NEW k \in 0..(new_cap - 1)
        PROVE  (IF k < client_capacity THEN client_sockets[k] ELSE -1) \in Fds \cup {-1}
    BY <1>1, <1>2
  <2> QED BY <2>1 DEF Grown_sockets
<1>4. Grown_fds \in [1..new_cap -> E]
  <2>1. NoEntry \in E
    BY DEF NoEntry
  <2>2. ASSUME NEW k \in 1..new_cap
        PROVE  (IF k <= client_capacity THEN fds[k] ELSE NoEntry) \in E
    BY <1>1, <1>2, <2>1
  <2> QED BY <2>2 DEF Grown_fds
<1>5. \A k \in 0..(client_capacity - 1) : /\ Grown_sockets[k] = client_sockets[k]
                                          /\ Grown_fds[k + 1] = fds[k + 1]
  BY <1>1, <1>2 DEF Grown_sockets, Grown_fds
<1>6. \A k \in client_capacity..(new_cap - 1) : /\ Grown_sockets[k] = -1
                                                /\ Grown_fds[k + 1] = NoEntry
  BY <1>1, <1>2 DEF Grown_sockets, Grown_fds
<1> QED BY <1>2, <1>3, <1>4, <1>5, <1>6

\* A new client: a descriptor nobody has, in the slot behind the last one of both arrays,
\* with no readiness.
LEMMA AppendInv ==
    ASSUME IInv, pc = "accept", listenIn, NEW fd \in Fds, LowestFree(fd),
           conn' = [conn EXCEPT ![fd] = Head(pending)],
           client_sockets' = [Grown_sockets EXCEPT ![client_count] = fd],
           fds' = [Grown_fds EXCEPT ![client_count + 1] = NewEntry(fd)],
           pending' = Tail(pending), client_capacity' = new_cap,
           client_count' = client_count + 1, pc' = "data", i' = 0,
           UNCHANGED <<listening, cpc, sent, rcvd, listenIn, exit_flag>>
    PROVE  ServerInv'
<1> DEFINE E == [fd : Fds \cup {-1}, events : BOOLEAN, revents : BOOLEAN]
<1>1. TypeOK /\ NetTypeOK /\ client_capacity \in Nat /\ client_count \in 0..client_capacity
  BY DEF IInv, ArraysAgree, TypeOK
<1>2. /\ conn \in [Fds -> Clients \cup {NoClient}] /\ pending \in Seq(Clients) /\ pending # <<>>
  BY <1>1 DEF NetTypeOK, IInv, ReportedIsPending
<1>3. Head(pending) \in Clients /\ pending' \in Seq(Clients)
  BY <1>2
<1>4. Fds' = Fds /\ OpenFds' = OpenFds \cup {fd} /\ fd \notin OpenFds
  <2>1. Fds' = Fds
    BY <1>2 DEF Fds
  <2> QED BY <1>2, <1>3, <2>1 DEF OpenFds, LowestFree
<1>5. Slots' = Slots \cup {client_count} /\ client_count \notin Slots
  BY <1>1 DEF Slots
<1>6. NewEntry(fd) \in E
  BY DEF NewEntry
<1>7. /\ client_sockets' \in [0..(new_cap - 1) -> Fds \cup {-1}]
      /\ fds' \in [1..new_cap -> E]
  BY <1>1, <1>6, Grows
<1>8. /\ client_sockets'[client_count] = fd
      /\ fds'[client_count + 1] = NewEntry(fd)
      /\ \A k \in 0..(new_cap - 1) : k # client_count => /\ client_sockets'[k] = Grown_sockets[k]
                                                         /\ fds'[k + 1] = Grown_fds[k + 1]
  BY <1>1, Grows
<1>9. \A k \in Slots : client_sockets'[k] = client_sockets[k] /\ fds'[k + 1] = fds[k + 1]
  <2> TAKE k \in Slots
  <2>1. k \in 0..(client_capacity - 1) /\ k \in 0..(new_cap - 1) /\ k # client_count
    BY <1>1, Grows DEF Slots
  <2> QED BY <1>1, <1>8, <2>1, Grows
<1>10. NetTypeOK'
  <2>1. conn' \in [Fds -> Clients \cup {NoClient}]
    BY <1>2, <1>3
  <2> QED BY <1>1, <1>3, <1>4, <2>1 DEF NetTypeOK
<1>11. TypeOK'
  <2>1. listenIn' \in BOOLEAN /\ exit_flag' \in BOOLEAN
    BY <1>1, Zenon DEF TypeOK
  <2>2. new_cap \in Nat \ {0} /\ client_count + 1 \in 0..new_cap
    BY <1>1, Grows
  <2> QED BY <1>4, <1>7, <1>10, <2>1, <2>2 DEF TypeOK
<1>12. ArraysAgree'
  <2>1. ASSUME NEW k \in Slots'
        PROVE  /\ client_sockets'[k] \in Fds
               /\ fds'[k + 1].fd = client_sockets'[k] /\ fds'[k + 1].events
    <3>1. CASE k = client_count
      BY <1>8, <3>1 DEF NewEntry
    <3>2. CASE k \in Slots
      BY <1>9, <3>2 DEF IInv, ArraysAgree, Slots
    <3> QED BY <1>5, <2>1, <3>1, <3>2
  <2>2. ASSUME NEW k \in (client_count + 1)..(new_cap - 1)
        PROVE  client_sockets'[k] = -1 /\ fds'[k + 1] = NoEntry
    <3>1. k \in 0..(new_cap - 1) /\ k # client_count
      BY <1>1
    <3>2. CASE k < client_capacity
      <4>1. k \in 0..(client_capacity - 1) /\ k \in client_count..(client_capacity - 1)
        BY <1>1, <3>2
      <4> QED BY <1>1, <1>8, <3>1, <4>1, Grows DEF IInv, ArraysAgree
    <3>3. CASE ~(k < client_capacity)
      <4>1. k \in client_capacity..(new_cap - 1)
        BY <1>1, <3>3
      <4> QED BY <1>1, <1>8, <3>1, <4>1, Grows
    <3> QED BY <3>2, <3>3
  <2> QED BY <1>4, <1>11, <2>1, <2>2 DEF ArraysAgree, Slots
<1>13. Listing'
  <2>1. \A k \in Slots : client_sockets[k] \in OpenFds
    BY SlotIsOpen
  <2>2. \A k, l \in Slots : client_sockets[k] = client_sockets[l] => k = l
    BY DEF IInv, Listing
  <2>3. \A k, l \in Slots' : client_sockets'[k] = client_sockets'[l] => k = l
    BY <1>4, <1>5, <1>8, <1>9, <2>1, <2>2
  <2>4. {client_sockets'[k] : k \in Slots'} = {client_sockets[k] : k \in Slots} \cup {fd}
    BY <1>5, <1>8, <1>9
  <2> QED BY <1>4, <2>3, <2>4 DEF IInv, Listing
<1>14. Fresh'
  <2> SUFFICES ASSUME NEW k \in Slots', fds'[k + 1].revents
               PROVE  Readable(conn[client_sockets[k]])'
    BY DEF Fresh
  <2>1. k \in Slots
    BY <1>5, <1>8 DEF NewEntry
  <2>2. client_sockets[k] \in Fds /\ client_sockets[k] # fd
    BY <1>4, <2>1, SlotIsOpen
  <2>3. conn'[client_sockets'[k]] = conn[client_sockets[k]]
    BY <1>2, <1>9, <2>1, <2>2
  <2>4. Readable(conn[client_sockets[k]])
    BY <1>9, <2>1 DEF IInv, Fresh
  <2> QED BY <2>3, <2>4 DEF Readable, Unread
<1> QED
  BY <1>12, <1>13, <1>14 DEF ReportedIsPending, AtReported

LEMMA NewConnectionInv == ASSUME IInv, handle_new_connection PROVE ServerInv'
<1>1. pc = "accept" /\ UNCHANGED <<listenIn, exit_flag>>
  BY DEF handle_new_connection
<1>2. CASE UNCHANGED <<netVars, arrays>>
  <2>1. pc' \in {"data", "failed"} /\ (i' = 0 \/ i' = i)
    BY <1>2 DEF handle_new_connection
  <2>2. i' \in Nat
    BY <2>1 DEF IInv, ArraysAgree, TypeOK
  <2>3. listenIn' \in BOOLEAN /\ exit_flag' \in BOOLEAN
    BY <1>1, Zenon DEF IInv, ArraysAgree, TypeOK
  <2>4. ArraysAgree' /\ Listing' /\ Fresh'
    BY <1>1, <1>2, <2>1, <2>2, <2>3, QuietInv
  <2> QED BY <2>1, <2>4 DEF ReportedIsPending, AtReported
<1>3. CASE ~UNCHANGED <<netVars, arrays>>
  <2>1. PICK fd \in Fds :
          /\ listenIn /\ LowestFree(fd)
          /\ conn' = [conn EXCEPT ![fd] = Head(pending)]
          /\ client_sockets' = [Grown_sockets EXCEPT ![client_count] = fd]
          /\ fds' = [Grown_fds EXCEPT ![client_count + 1] = NewEntry(fd)]
          /\ pending' = Tail(pending) /\ client_capacity' = new_cap
          /\ client_count' = client_count + 1 /\ pc' = "data" /\ i' = 0
          /\ UNCHANGED <<listening, cpc, sent, rcvd>>
    BY <1>3, Zenon DEF handle_new_connection
  <2> QED BY <1>1, <2>1, AppendInv
<1> QED BY <1>2, <1>3

-------------------------------------------------------------------------------
(* Every step keeps each client in one place                               *)

\* What a step does to the places: nothing but a client past its start, a descriptor
\* less, everything closed, the head of the queue accepted, or one more in the queue.
StaysStarted == \A c \in Clients : cpc'[c] = "start" => cpc[c] = "start"

LEMMA LeaveKeepsOnePlace ==
    ASSUME OnePlace, conn \in [Fds -> Clients \cup {NoClient}], StaysStarted, Fds' = Fds,
           \A f \in Fds : conn'[f] \in {conn[f], NoClient},
           pending' = pending \/ pending' = <<>>
    PROVE  OnePlace'
<1>1. \A f \in OpenFds' : f \in OpenFds /\ conn'[f] = conn[f]
  BY DEF OpenFds
<1>2. CASE pending' = pending
  BY <1>1, <1>2 DEF OnePlace, StaysStarted
<1>3. CASE pending' = <<>>
  <2>1. 1..Len(pending') = {}
    BY <1>3
  <2> QED BY <1>1, <2>1 DEF OnePlace, StaysStarted
<1> QED BY <1>2, <1>3

LEMMA AcceptKeepsOnePlace ==
    ASSUME OnePlace, NetTypeOK, pending # <<>>, NEW fd \in Fds, fd \notin OpenFds, UNCHANGED cpc,
           conn' = [conn EXCEPT ![fd] = Head(pending)], pending' = Tail(pending)
    PROVE  OnePlace'
<1>1. /\ conn \in [Fds -> Clients \cup {NoClient}] /\ pending \in Seq(Clients)
      /\ Head(pending) \in Clients /\ Head(pending) = pending[1] /\ 1 \in 1..Len(pending)
  BY DEF NetTypeOK
<1>2. /\ OpenFds' = OpenFds \cup {fd} /\ conn'[fd] = pending[1]
      /\ \A f \in OpenFds : conn'[f] = conn[f]
  <2>1. Fds' = Fds
    BY <1>1 DEF Fds
  <2> QED BY <1>1, <2>1 DEF OpenFds
<1>3. \A n \in 1..Len(pending') : /\ n + 1 \in 1..Len(pending) /\ n + 1 # 1
                                  /\ pending'[n] = pending[n + 1]
  BY <1>1
<1>4. \A f, g \in OpenFds' : conn'[f] = conn'[g] => f = g
  BY <1>1, <1>2 DEF OnePlace
<1>5. \A m, n \in 1..Len(pending') : pending'[m] = pending'[n] => m = n
  <2> TAKE m, n \in 1..Len(pending')
  <2>1. pending'[m] = pending'[n] => m + 1 = n + 1
    BY <1>3 DEF OnePlace
  <2>2. m \in Int /\ n \in Int
    BY <1>1
  <2> QED BY <2>1, <2>2
<1>6. \A f \in OpenFds' : \A n \in 1..Len(pending') : pending'[n] # conn'[f]
  BY <1>1, <1>2, <1>3 DEF OnePlace
<1>7. \A c \in Clients : cpc'[c] = "start" => /\ \A f \in OpenFds' : conn'[f] # c
                                              /\ \A n \in 1..Len(pending') : pending'[n] # c
  BY <1>1, <1>2, <1>3 DEF OnePlace
<1> QED BY <1>4, <1>5, <1>6, <1>7 DEF OnePlace

LEMMA ConnectKeepsOnePlace ==
    ASSUME OnePlace, NetTypeOK, NEW c \in Clients, connect_to_server(c)
    PROVE  OnePlace'
<1>1. /\ cpc[c] = "start" /\ cpc' \in {[cpc EXCEPT ![c] = "idle"], [cpc EXCEPT ![c] = "closed"]}
      /\ pending' = pending \/ pending' = Append(pending, c)
      /\ UNCHANGED conn
  BY DEF connect_to_server
<1>2. \A d \in Clients : cpc'[d] = "start" => cpc[d] = "start" /\ d # c
  BY <1>1 DEF NetTypeOK
<1>3. OpenFds' = OpenFds /\ Fds' = Fds /\ pending \in Seq(Clients)
  BY <1>1 DEF OpenFds, Fds, NetTypeOK
<1>4. CASE pending' = pending
  BY <1>1, <1>2, <1>3, <1>4 DEF OnePlace
<1>5. CASE pending' = Append(pending, c)
  <2>1. /\ \A n \in 1..Len(pending') : \/ n \in 1..Len(pending) /\ pending'[n] = pending[n]
                                       \/ n = Len(pending) + 1 /\ pending'[n] = c
        /\ Len(pending) + 1 \notin 1..Len(pending)
    BY <1>3, <1>5
  <2>2. /\ \A f \in OpenFds : conn[f] # c
        /\ \A n \in 1..Len(pending) : pending[n] # c
    BY <1>1 DEF OnePlace
  <2>3. \A m, n \in 1..Len(pending') : pending'[m] = pending'[n] => m = n
    BY <2>1, <2>2 DEF OnePlace
  <2>4. \A f \in OpenFds' : \A n \in 1..Len(pending') : pending'[n] # conn'[f]
    BY <1>1, <1>3, <2>1, <2>2 DEF OnePlace
  <2>5. \A d \in Clients : cpc'[d] = "start" => /\ \A f \in OpenFds' : conn'[f] # d
                                                /\ \A n \in 1..Len(pending') : pending'[n] # d
    BY <1>1, <1>2, <1>3, <2>1 DEF OnePlace
  <2> QED BY <1>1, <1>3, <2>3, <2>4, <2>5 DEF OnePlace
<1> QED BY <1>1, <1>4, <1>5

LEMMA NextOnePlace == ASSUME IInv, [Next]_vars PROVE OnePlace'
<1>1. NetTypeOK /\ OnePlace /\ conn \in [Fds -> Clients \cup {NoClient}]
  BY DEF IInv, ArraysAgree, TypeOK, NetTypeOK
<1>2. CASE UNCHANGED <<conn, pending, cpc>>
  <2>1. Fds' = Fds /\ StaysStarted
    BY <1>2 DEF Fds, StaysStarted
  <2> QED BY <1>1, <1>2, <2>1, LeaveKeepsOnePlace
<1>3. CASE handle_new_connection
  <2>1. CASE UNCHANGED <<netVars, arrays>>
    BY <1>2, <2>1 DEF netVars
  <2>2. CASE ~UNCHANGED <<netVars, arrays>>
    <3>1. PICK fd \in Fds : /\ listenIn /\ LowestFree(fd) /\ pc = "accept" /\ UNCHANGED cpc
                            /\ conn' = [conn EXCEPT ![fd] = Head(pending)]
                            /\ pending' = Tail(pending)
      BY <1>3, <2>2, Zenon DEF handle_new_connection
    <3>2. pending # <<>> /\ fd \notin OpenFds
      BY <3>1 DEF IInv, ReportedIsPending, LowestFree
    <3> QED BY <1>1, <3>1, <3>2, AcceptKeepsOnePlace
  <2> QED BY <2>1, <2>2
<1>4. CASE read_full
  <2>1. /\ UNCHANGED <<pending, cpc>>
        /\ conn' = conn \/ conn' = [conn EXCEPT ![client_sockets[i]] = NoClient]
    BY <1>4 DEF read_full, handle_client_disconnection
  <2>2. Fds' = Fds /\ \A f \in Fds : conn'[f] \in {conn[f], NoClient}
    BY <1>1, <2>1 DEF Fds
  <2>3. StaysStarted
    BY <2>1 DEF StaysStarted
  <2> QED BY <1>1, <2>1, <2>2, <2>3, LeaveKeepsOnePlace
<1>5. CASE Cleanup
  <2>1. Fds' = Fds /\ StaysStarted /\ pending' = <<>>
    BY <1>5 DEF Cleanup, Fds, StaysStarted
  <2>2. \A f \in Fds : conn'[f] \in {conn[f], NoClient}
    BY <1>5 DEF Cleanup
  <2> QED BY <1>1, <2>1, <2>2, LeaveKeepsOnePlace
<1>6. ASSUME NEW c \in Clients, Client(c) PROVE OnePlace'
  <2>1. CASE connect_to_server(c)
    BY <1>1, <2>1, ConnectKeepsOnePlace
  <2>2. CASE send_word(c) \/ ClientCloses(c)
    <3>1. UNCHANGED <<conn, pending>> /\ cpc[c] # "start"
      BY <2>2 DEF send_word, ClientCloses
    <3>2. \E p \in {"idle", "mid", "closed"} : cpc' = [cpc EXCEPT ![c] = p]
      BY <2>2, Zenon DEF send_word, ClientCloses
    <3>3. StaysStarted /\ Fds' = Fds
      BY <1>1, <3>1, <3>2 DEF StaysStarted, NetTypeOK, Fds
    <3> QED BY <1>1, <3>1, <3>3, LeaveKeepsOnePlace
  <2> QED BY <1>6, <2>1, <2>2 DEF Client
<1>7. CASE Loop \/ poll \/ handle_client_data \/ Sigint \/ UNCHANGED vars
  BY <1>2, <1>7 DEF Loop, poll, handle_client_data, Sigint, vars, netVars
<1> QED
  BY <1>3, <1>4, <1>5, <1>6, <1>7 DEF Next, Server, ClientStep

LEMMA NextIInv == ASSUME IInv, [Next]_vars PROVE IInv'
<1>1. CASE UNCHANGED vars
  <2>1. UNCHANGED <<listening, cpc, sent, pending, conn, rcvd, client_sockets, fds, client_count,
                    client_capacity, listenIn, exit_flag, pc, i>>
    BY <1>1 DEF vars, netVars, arrays
  <2> QED
    BY <2>1, SMTT(30) DEF IInv, ArraysAgree, TypeOK, NetTypeOK, Fds, Listing, OpenFds, Slots,
                ReportedIsPending, AtReported, Fresh, Readable, Unread, OnePlace
<1>2. CASE Next
  <2>1. ServerInv'
    BY <1>2, LoopInv, PollInv, NewConnectionInv, HandleDataInv, ReadFullInv, CleanupInv,
       SigintInv, ClientStepInv DEF Next, Server
  <2> QED BY <1>2, <2>1, NextOnePlace DEF IInv
<1> QED BY <1>1, <1>2

-------------------------------------------------------------------------------
\* After any growth, removal and reuse of descriptors the two arrays of the server agree,
\* and list every open descriptor once and no other.
THEOREM PollListsOpenFds == Spec => []ListsOpenFds
<1>1. IInv => ListsOpenFds
  BY DEF IInv, Listing, ListsOpenFds, Slots
<1> QED BY <1>1, InitIInv, NextIInv, PTL DEF Spec

\* handle_client_data starts to read from a client only when there is something to read,
\* although entries move and descriptors are used again between poll() and the read.
THEOREM PollLengthReadNeverBlocks == Spec => []LengthReadNeverBlocks
<1>1. IInv => LengthReadNeverBlocks
  BY DEF IInv, AtReported, Fresh, LengthReadNeverBlocks
<1> QED BY <1>1, InitIInv, NextIInv, PTL DEF Spec
===============================================================================
