----------------------------- MODULE SelectServer -----------------------------
(***************************************************************************)
(* io-multiplexing/select/main.c: the same server as PollServer, written   *)
(* with select().  One array lists the clients; a removed client's slot    *)
(* takes the last client and the loop looks at that slot again.  Slots     *)
(* from client_count on hold whatever was left there.                      *)
(***************************************************************************)
EXTENDS WordClients

CONSTANTS FIRST_CAPACITY,     \* 4 in grow_clients
          FD_SETSIZE          \* descriptors from here on cannot be selected

ASSUME SelectServerAssumption ==
    /\ FIRST_CAPACITY \in Nat \ {0}
    /\ FD_SETSIZE \in Nat

VARIABLES client_sockets, client_count, client_capacity,
          readfds,       \* the set given to select, then what select made of it
          new_socket,    \* an accepted descriptor that is about to be closed again
          exit_flag,
          pc, i,         \* where the server is; the index of the client loop
          handled        \* history: descriptors dealt with in this turn

arrays == <<client_sockets, client_count, client_capacity>>
vars   == <<netVars, arrays, readfds, new_socket, exit_flag, pc, i, handled>>

sockfd        == 0       \* the listening socket: its number plays no role
Uninitialised == -1

fd_in_select_range(fd) == fd >= 0 /\ fd < FD_SETSIZE
Listed == {client_sockets[k] : k \in 0..(client_count - 1)}

Init == /\ ClientsInit
        /\ client_capacity = 0 /\ client_count = 0
        /\ client_sockets = [k \in 0..(client_capacity - 1) |-> Uninitialised]
        /\ readfds = {} /\ new_socket = Uninitialised
        /\ exit_flag = FALSE /\ pc = "loop" /\ i = 0
        /\ handled = {}

-------------------------------------------------------------------------------
\* while(!exit_flag): readfds is built from nothing; then the call of select.  The
\* branch that would disconnect a listed descriptor from FD_SETSIZE on is never
\* taken: Accept lists none (ListsOpenFds).
BuildSet ==
    /\ pc = "loop"
    /\ IF exit_flag
       THEN pc' = "cleanup" /\ UNCHANGED readfds
       ELSE /\ readfds' = {sockfd} \cup {fd \in Listed : fd_in_select_range(fd)}
            /\ pc' = "call_select"
    /\ UNCHANGED <<netVars, arrays, new_socket, exit_flag, i, handled>>

CallSelect == /\ pc = "call_select"
              /\ pc' = "select"
              /\ UNCHANGED <<netVars, arrays, readfds, new_socket, exit_flag, i, handled>>

Ready(fd) == IF fd = sockfd THEN pending # <<>>
             ELSE fd \in OpenFds /\ Readable(conn[fd])

\* select() leaves in readfds the descriptors that are ready.
select == /\ pc = "select"
          /\ \E fd \in readfds : Ready(fd)
          /\ readfds' = {fd \in readfds : Ready(fd)}
          /\ pc' = "accept"
          /\ UNCHANGED <<netVars, arrays, new_socket, exit_flag, i, handled>>

\* grow_clients: 4, then twice as much; realloc leaves the new slots undefined.
grow_clients == IF client_count < client_capacity THEN client_capacity
                ELSE IF client_capacity = 0 THEN FIRST_CAPACITY
                ELSE 2 * client_capacity
GrownSockets == [k \in 0..(grow_clients - 1) |->
                    IF k < client_capacity THEN client_sockets[k] ELSE Uninitialised]

AppendClient(fd) ==
    /\ client_sockets' = [GrownSockets EXCEPT ![client_count] = fd]
    /\ client_capacity' = grow_clients
    /\ client_count' = client_count + 1

Accept_NotCounted ==
    /\ pc = "accept"
    /\ \/ sockfd \notin readfds /\ UNCHANGED <<netVars, arrays>> /\ pc' = "data"
       \/ /\ sockfd \in readfds
          /\ \E fd \in Fds :
                LowestFree(fd) /\ conn' = [conn EXCEPT ![fd] = Head(pending)]
          /\ pending' = Tail(pending) /\ pc' = "data"
          /\ UNCHANGED <<listening, cpc, sent, rcvd, arrays>>
    /\ i' = 0
    /\ UNCHANGED <<readfds, new_socket, exit_flag, handled>>

\* "New incoming connection": it is listed if it can be selected; with no descriptor
\* left accept() fails and the server ends.
Accept ==
    /\ pc = "accept"
    /\ \/ /\ sockfd \notin readfds
          /\ pc' = "data" /\ UNCHANGED <<netVars, arrays, new_socket>>
       \/ /\ sockfd \in readfds
          /\ \E fd \in Fds :
                /\ LowestFree(fd)
                /\ conn' = [conn EXCEPT ![fd] = Head(pending)]
                /\ IF fd_in_select_range(fd)
                   THEN AppendClient(fd) /\ pc' = "data" /\ UNCHANGED new_socket
                   ELSE new_socket' = fd /\ pc' = "refuse" /\ UNCHANGED arrays
          /\ pending' = Tail(pending)
          /\ UNCHANGED <<listening, cpc, sent, rcvd>>
       \/ /\ sockfd \in readfds /\ OpenFds = Fds
          /\ pc' = "failed" /\ UNCHANGED <<netVars, arrays, new_socket>>
    /\ i' = 0
    /\ UNCHANGED <<readfds, exit_flag, handled>>

\* "Accepted client fd %d out of range for select(); closing"
Refuse ==
    /\ pc = "refuse"
    /\ conn' = [conn EXCEPT ![new_socket] = NoClient]
    /\ new_socket' = Uninitialised
    /\ pc' = "data"
    /\ UNCHANGED <<listening, cpc, sent, pending, rcvd, arrays, readfds, exit_flag, i, handled>>

\* "Client IO": the loop over the clients; with it ends the turn, and its locals.
ClientLoop ==
    /\ pc = "data"
    /\ \/ /\ i < client_count /\ client_sockets[i] \in readfds
          /\ pc' = "length" /\ UNCHANGED <<i, readfds, handled>>
       \/ /\ i < client_count /\ client_sockets[i] \notin readfds
          /\ i' = i + 1 /\ UNCHANGED <<pc, readfds, handled>>
       \/ /\ i >= client_count
          /\ pc' = "loop" /\ i' = 0 /\ readfds' = {} /\ handled' = {}
    /\ UNCHANGED <<netVars, arrays, new_socket, exit_flag>>

remove_client_NoMove ==
    /\ client_count' = client_count - 1
    /\ UNCHANGED <<client_sockets, client_capacity>>

\* remove_client: the last client takes the slot, which is not cleared behind it.
remove_client ==
    /\ client_sockets' = [client_sockets EXCEPT ![i] = client_sockets[client_count - 1]]
    /\ client_count' = client_count - 1
    /\ UNCHANGED client_capacity

Disconnect_Advances ==
    /\ conn' = [conn EXCEPT ![client_sockets[i]] = NoClient]
    /\ remove_client
    /\ i' = i + 1
    /\ UNCHANGED rcvd

\* read_full returned 0: close, remove_client, and i-- so that i++ comes back.
Disconnect ==
    /\ conn' = [conn EXCEPT ![client_sockets[i]] = NoClient]
    /\ remove_client
    /\ UNCHANGED <<i, rcvd>>

read_full_DropsShort ==
    LET c == conn[client_sockets[i]] IN
    /\ pc \in {"length", "word"}
    /\ \/ /\ Unread(c)
          /\ rcvd' = [rcvd EXCEPT ![c] = @ + 1]
          /\ IF pc = "length" THEN pc' = "word" /\ UNCHANGED i
             ELSE pc' = "data" /\ i' = i + 1
          /\ UNCHANGED <<conn, arrays>>
       \/ /\ ~Unread(c) /\ (cpc[c] = "closed" \/ pc = "word")
          /\ Disconnect
          /\ pc' = "data"
    /\ handled' = handled \cup {client_sockets[i]}
    /\ UNCHANGED <<listening, cpc, sent, pending, readfds, new_socket, exit_flag>>

\* The two read_full calls for client i; read() on an empty socket blocks.
read_full ==
    LET c == conn[client_sockets[i]] IN
    /\ pc \in {"length", "word"}
    /\ \/ /\ Unread(c)
          /\ rcvd' = [rcvd EXCEPT ![c] = @ + 1]
          /\ IF pc = "length" THEN pc' = "word" /\ UNCHANGED i
             ELSE pc' = "data" /\ i' = i + 1
          /\ UNCHANGED <<conn, arrays>>
       \/ /\ ~Unread(c) /\ cpc[c] = "closed"
          /\ Disconnect
          /\ pc' = "data"
    /\ handled' = handled \cup {client_sockets[i]}
    /\ UNCHANGED <<listening, cpc, sent, pending, readfds, new_socket, exit_flag>>

\* "Cleanup": the clients' sockets, the listening socket and its path.
Cleanup ==
    /\ pc = "cleanup"
    /\ conn' = [fd \in Fds |-> IF fd \in Listed THEN NoClient ELSE conn[fd]]
    /\ listening' = FALSE /\ pending' = <<>>
    /\ pc' = "exited"
    /\ UNCHANGED <<cpc, sent, rcvd, arrays, readfds, new_socket, exit_flag, i, handled>>

Server == BuildSet \/ CallSelect \/ select \/ Accept \/ Refuse \/ ClientLoop
          \/ read_full \/ Cleanup

\* SIGINT: a select() that sleeps returns -1 with EINTR and main continues at
\* while(!exit_flag); a read() that sleeps is restarted by read_full.
sigint_handler ==
    /\ ~exit_flag /\ pc \notin {"exited", "failed"}
    /\ exit_flag' = TRUE
    /\ IF pc = "select" THEN pc' = "loop" /\ readfds' = {} ELSE UNCHANGED <<pc, readfds>>
    /\ UNCHANGED <<netVars, arrays, new_socket, i, handled>>

ServerVars == <<arrays, readfds, new_socket, exit_flag, pc, i, handled>>
ClientStep == (\E c \in Clients : Client(c)) /\ UNCHANGED ServerVars

Next == Server \/ sigint_handler \/ ClientStep

Spec == Init /\ [][Next]_vars

\* The kernel runs the server; a client that has sent a length goes on to send the
\* word or ends.
FairSpec == /\ Spec
            /\ WF_vars(Server)
            /\ \A c \in Clients :
                  WF_vars(cpc[c] = "mid" /\ Client(c) /\ UNCHANGED ServerVars)

-------------------------------------------------------------------------------
\* Types of the array, its counters and the descriptor set.
TypeOK ==
    /\ NetTypeOK
    /\ client_capacity \in Nat /\ client_count \in 0..client_capacity
    /\ client_sockets \in [0..(client_capacity - 1) -> Fds \cup {Uninitialised}]
    /\ readfds \subseteq Fds \cup {sockfd} /\ handled \subseteq Fds
    /\ new_socket \in Fds \cup {Uninitialised}
    /\ exit_flag \in BOOLEAN /\ i \in Nat
    /\ pc \in {"loop", "call_select", "select", "accept", "refuse", "data", "length",
               "word", "cleanup", "exited", "failed"}

\* The first client_count slots list every open descriptor once and nothing else,
\* whatever growth, removal and reuse of descriptors went before, but for one that is
\* just being refused; and each that is listed, and no other, can be in an fd_set, so
\* that FD_SET never writes past it and no client is refused that could be served.
ListsOpenFds ==
    /\ TypeOK
    /\ pc # "exited" => /\ \A k, l \in 0..(client_count - 1) :
                              client_sockets[k] = client_sockets[l] => k = l
                        /\ Listed = OpenFds \ {new_socket}
                        /\ Listed = {fd \in OpenFds : fd_in_select_range(fd)}

\* i-- after remove_client: when the loop over the clients ends, every descriptor
\* select() reported has been dealt with, the ones that moved included.
TurnServesAllReady ==
    pc = "data" /\ i >= client_count => readfds \cap OpenFds \subseteq handled

Drops(fd)    == conn[fd] # NoClient /\ conn'[fd] = NoClient
Finished(fd) == cpc[conn[fd]] = "closed" /\ ~Unread(conn[fd])
\* A newcomer, nothing of which was read, on a descriptor that cannot be selected.
Refused(fd)  == ~fd_in_select_range(fd) /\ rcvd[conn[fd]] = 0
DropStep     == /\ \A fd \in Fds : Drops(fd) /\ pc # "cleanup" => Finished(fd) \/ Refused(fd)
                /\ pc' = "failed" => OpenFds = Fds

\* A connection is closed only when its client has gone and all it sent was read, or
\* before anything it sent was read because its descriptor is FD_SETSIZE or more, or
\* by the cleanup: a client that was once served is served to its end.  And SIGINT,
\* whenever it comes, never makes the server end without its cleanup: a server that
\* failed ran out of descriptors.
DropsServedOnlyWhenFinished == [][DropStep]_vars

\* Whatever the other clients do, all that a client sent is read, unless the server
\* is stopped or refused it: it got a descriptor that cannot be selected.
EverythingRead ==
    \A c \in Clients : \A n \in 1..(2 * MaxWords) :
        (sent[c] = n) ~> (rcvd[c] >= n \/ ~PeerAlive(c) \/ exit_flag \/ pc = "failed")
===============================================================================
