------------------------------ MODULE PollServer ------------------------------
(***************************************************************************)
(* io-multiplexing/poll/main.c: a server that reads words from many        *)
(* clients with poll().  Two arrays that grow by realloc describe the      *)
(* clients and must agree: client_sockets[i] and fds[i + 1].               *)
(*                                                                         *)
(* A read_full that finds no data blocks the whole server.                 *)
(***************************************************************************)
EXTENDS WordClients

CONSTANT INITIAL_CAPACITY     \* 4 in initialize_pollfds

ASSUME PollServerAssumption == INITIAL_CAPACITY \in Nat \ {0}

VARIABLES client_sockets, fds, client_count, client_capacity,
          listenIn,      \* fds[0].revents & POLLIN
          exit_flag,
          pc,            \* where the server is
          i              \* the index of handle_client_data

arrays == <<client_sockets, fds, client_count, client_capacity>>
vars   == <<netVars, arrays, listenIn, exit_flag, pc, i>>

\* An entry of fds[1..]: fds[0] is the listening socket and never changes.
NoEntry == [fd |-> -1, events |-> FALSE, revents |-> FALSE]

\* initialize_pollfds
Init == /\ ClientsInit
        /\ client_capacity = INITIAL_CAPACITY /\ client_count = 0
        /\ client_sockets = [k \in 0..(INITIAL_CAPACITY - 1) |-> -1]
        /\ fds = [k \in 1..INITIAL_CAPACITY |-> NoEntry]
        /\ listenIn = FALSE
        /\ exit_flag = FALSE /\ pc = "loop" /\ i = 0

-------------------------------------------------------------------------------
\* while(!exit_flag), and the call of poll.
Loop == /\ \/ pc = "loop" /\ pc' = IF exit_flag THEN "cleanup" ELSE "call_poll"
           \/ pc = "call_poll" /\ pc' = "poll"
        /\ UNCHANGED <<netVars, arrays, listenIn, exit_flag, i>>

\* poll() returns with something ready among the first client_count + 1 entries.
\* An entry whose fd is -1 or whose events are 0 is passed over.
Ready(k) == fds[k].fd \in OpenFds /\ fds[k].events /\ Readable(conn[fds[k].fd])

poll == /\ pc = "poll"
        /\ pending # <<>> \/ \E k \in 1..client_count : Ready(k)
        /\ listenIn' = (pending # <<>>)
        /\ fds' = [k \in DOMAIN fds |->
                     IF k <= client_count THEN [fds[k] EXCEPT !.revents = Ready(k)]
                     ELSE fds[k]]
        /\ pc' = "accept"
        /\ UNCHANGED <<netVars, client_sockets, client_count, client_capacity,
                       exit_flag, i>>

\* The arrays after the growth step: twice the capacity, new slots empty.
new_cap == IF client_count = client_capacity THEN 2 * client_capacity
           ELSE client_capacity
Grown_sockets == [k \in 0..(new_cap - 1) |->
                    IF k < client_capacity THEN client_sockets[k] ELSE -1]
Grown_fds     == [k \in 1..new_cap |->
                    IF k <= client_capacity THEN fds[k] ELSE NoEntry]

NewEntry_Stale(fd) == [fd |-> fd, events |-> TRUE, revents |-> TRUE]
NewEntry(fd) == [fd |-> fd, events |-> TRUE, revents |-> FALSE]

\* Accepting one connection and appending it to both arrays; accept() fails when
\* there is no descriptor left, and that ends the server.
handle_new_connection ==
    /\ pc = "accept"
    /\ \/ /\ ~listenIn
          /\ pc' = "data" /\ i' = 0
          /\ UNCHANGED <<netVars, arrays>>
       \/ /\ listenIn
          /\ \E fd \in Fds :
                /\ LowestFree(fd)
                /\ conn' = [conn EXCEPT ![fd] = Head(pending)]
                /\ client_sockets' = [Grown_sockets EXCEPT ![client_count] = fd]
                /\ fds' = [Grown_fds EXCEPT ![client_count + 1] = NewEntry(fd)]
          /\ pending' = Tail(pending)
          /\ client_capacity' = new_cap
          /\ client_count' = client_count + 1
          /\ pc' = "data" /\ i' = 0
          /\ UNCHANGED <<listening, cpc, sent, rcvd>>
       \/ /\ listenIn /\ OpenFds = Fds
          /\ pc' = "failed"
          /\ UNCHANGED <<netVars, arrays, i>>
    /\ UNCHANGED <<listenIn, exit_flag>>

InLoop_OffByOne == i < client_count - 1
InLoop == i < client_count

\* handle_client_data: the loop over the clients.
handle_client_data ==
    /\ pc = "data"
    /\ \/ /\ InLoop /\ client_sockets[i] # -1 /\ fds[i + 1].revents
          /\ pc' = "length"
          /\ UNCHANGED <<i, listenIn>>
       \/ /\ InLoop /\ ~ (client_sockets[i] # -1 /\ fds[i + 1].revents)
          /\ i' = i + 1
          /\ UNCHANGED <<pc, listenIn>>
       \/ /\ ~InLoop
          /\ listenIn' = FALSE
          /\ pc' = "loop"
          /\ UNCHANGED i
    /\ UNCHANGED <<netVars, arrays, exit_flag>>

handle_client_disconnection_KeepsFds ==
    LET last == client_count - 1 IN
    /\ conn' = [conn EXCEPT ![client_sockets[i]] = NoClient]
    /\ client_sockets' =
          [[client_sockets EXCEPT ![i] = client_sockets[last]] EXCEPT ![last] = -1]
    /\ client_count' = last
    /\ UNCHANGED <<listening, cpc, sent, pending, rcvd, fds, client_capacity>>

\* Close the descriptor, move the last client into its slot, clear the last slot.
handle_client_disconnection ==
    LET last == client_count - 1 IN
    /\ conn' = [conn EXCEPT ![client_sockets[i]] = NoClient]
    /\ client_sockets' =
          [[client_sockets EXCEPT ![i] = client_sockets[last]] EXCEPT ![last] = -1]
    /\ fds' = [[fds EXCEPT ![i + 1] = fds[last + 1]] EXCEPT ![last + 1] = NoEntry]
    /\ client_count' = last
    /\ UNCHANGED <<listening, cpc, sent, pending, rcvd, client_capacity>>

\* The two read_full calls for client i.  The loop then goes on at i + 1, after a
\* disconnection too, where slot i holds another client.
read_full ==
    LET c == conn[client_sockets[i]] IN
    /\ pc \in {"length", "word"}
    /\ \/ /\ Unread(c)
          /\ rcvd' = [rcvd EXCEPT ![c] = @ + 1]
          /\ IF pc = "length"
             THEN pc' = "word" /\ UNCHANGED <<fds, i>>
             ELSE /\ pc' = "data"
                  /\ fds' = [fds EXCEPT ![i + 1].revents = FALSE]
                  /\ i' = i + 1
          /\ UNCHANGED <<listening, cpc, sent, pending, conn, client_sockets,
                         client_count, client_capacity>>
       \/ /\ ~Unread(c) /\ cpc[c] = "closed"
          /\ handle_client_disconnection
          /\ pc' = "data" /\ i' = i + 1
    /\ UNCHANGED <<listenIn, exit_flag>>

\* The end of main: every client socket and the listening socket are closed.
Cleanup ==
    /\ pc = "cleanup"
    /\ conn' = [fd \in Fds |-> IF \E k \in 0..(client_count - 1) :
                                     client_sockets[k] > 0 /\ client_sockets[k] = fd
                               THEN NoClient ELSE conn[fd]]
    /\ listening' = FALSE /\ pending' = <<>>
    /\ pc' = "exited"
    /\ UNCHANGED <<cpc, sent, rcvd, arrays, listenIn, exit_flag, i>>

Server == Loop \/ poll \/ handle_new_connection \/ handle_client_data \/ read_full
          \/ Cleanup

\* SIGINT.  A poll() that sleeps returns -1 with EINTR, which main treats as an
\* error: exit(EXIT_FAILURE).  A read() that sleeps is restarted by read_full.
Sigint == /\ ~exit_flag /\ pc \notin {"exited", "failed"}
          /\ exit_flag' = TRUE
          /\ pc' = IF pc = "poll" THEN "failed" ELSE pc
          /\ UNCHANGED <<netVars, arrays, listenIn, i>>

ClientStep == /\ \E c \in Clients : Client(c)
              /\ UNCHANGED <<arrays, listenIn, exit_flag, pc, i>>

Next == Server \/ Sigint \/ ClientStep

Spec == Init /\ [][Next]_vars

\* The kernel runs the server and the clients; a client connects or not, sends or
\* not, but one that has sent a length goes on to send the word or ends.
FairSpec == /\ Spec
            /\ WF_vars(Server)
            /\ \A c \in Clients : WF_vars(cpc[c] = "mid" /\ Client(c)
                                          /\ UNCHANGED <<arrays, listenIn, exit_flag,
                                                         pc, i>>)

-------------------------------------------------------------------------------
\* Types of the server's arrays and counters.
TypeOK ==
    /\ NetTypeOK
    /\ client_capacity \in Nat \ {0} /\ client_count \in 0..client_capacity
    /\ client_sockets \in [0..(client_capacity - 1) -> Fds \cup {-1}]
    /\ fds \in [1..client_capacity -> [fd : Fds \cup {-1}, events : BOOLEAN,
                                       revents : BOOLEAN]]
    /\ listenIn \in BOOLEAN /\ exit_flag \in BOOLEAN
    /\ pc \in {"loop", "call_poll", "poll", "accept", "data", "length", "word",
               "cleanup", "exited", "failed"}
    /\ i \in Nat

\* The two arrays agree after every accept, growth and removal: slot i of one is
\* slot i + 1 of the other, the first client_count slots are in use, the others
\* empty.
ArraysAgree ==
    /\ TypeOK
    /\ \A k \in 0..(client_count - 1) :
          /\ client_sockets[k] \in Fds
          /\ fds[k + 1].fd = client_sockets[k] /\ fds[k + 1].events
    /\ \A k \in client_count..(client_capacity - 1) :
          client_sockets[k] = -1 /\ fds[k + 1] = NoEntry

\* After every accept, growth and removal the two arrays agree, no client is listed
\* twice, and the descriptors listed are exactly the open ones: none is leaked by a
\* removal and none is used after it was closed.
ListsOpenFds ==
    /\ ArraysAgree
    /\ pc # "exited" =>
        /\ \A k, l \in 0..(client_count - 1) :
              client_sockets[k] = client_sockets[l] => k = l
        /\ {client_sockets[k] : k \in 0..(client_count - 1)} = OpenFds

\* No stale readiness: the server starts to read a length only from a client that
\* has sent one or has gone, so this read never blocks.  In particular an entry
\* that was moved keeps its own revents, and a reused descriptor has none.
LengthReadNeverBlocks == pc = "length" => Readable(conn[client_sockets[i]])

\* Whatever the other clients do, all that a client sent is read, unless the
\* server is stopped.
EverythingRead ==
    \A c \in Clients : \A n \in 1..(2 * MaxWords) :
        (sent[c] = n) ~> (rcvd[c] >= n \/ exit_flag \/ pc = "failed")

\* "Cleanup and close all active client sockets", "Server exited successfully.":
\* stopping the server by SIGINT ends in the cleanup.
SigintCleansUp == pc = "failed" => OpenFds = Fds
===============================================================================
