----------------------------- MODULE WordClients -----------------------------
(***************************************************************************)
(* io-multiplexing/client.c, and the kernel's side of the domain socket    *)
(* between these clients and a server that multiplexes them.               *)
(*                                                                         *)
(* A client sends each word of its file as a length byte and then the      *)
(* characters, in two send() calls.  Both are counted as one item: item    *)
(* 2n-1 is the length and item 2n the characters of word n.  A file has at *)
(* most MaxWords words; a client may end after any item (end of file, a    *)
(* word longer than UINT8_MAX, or a crash between the two send() calls).   *)
(***************************************************************************)
EXTENDS Integers, Sequences, SequencesExt

CONSTANTS Clients,
          FdTables,      \* what the server's limit and its other files leave to accept()
          MaxWords       \* bound: the words in a client's file

NoClient == "no_client"

ASSUME WordClientsAssumption ==
    /\ \A table \in FdTables : table \subseteq Nat \ {0} /\ table # {}
    /\ NoClient \notin Clients
    /\ MaxWords \in Nat

VARIABLES listening,     \* the server's socket exists and accepts connections
          cpc,           \* each client: where it is
          sent,          \* each client: items sent
          pending,       \* connections not accepted yet
          conn,          \* the client behind each descriptor of the server
          rcvd           \* each client: items the server has read

clientVars == <<cpc, sent>>
netVars    == <<listening, cpc, sent, pending, conn, rcvd>>

ClientsInit == /\ listening = TRUE
               /\ cpc = [c \in Clients |-> "start"]
               /\ sent = [c \in Clients |-> 0]
               /\ pending = <<>>
               /\ \E table \in FdTables : conn = [fd \in table |-> NoClient]
               /\ rcvd = [c \in Clients |-> 0]

\* The descriptors the server can have for clients.
Fds == DOMAIN conn

Unread(c)    == sent[c] > rcvd[c]
\* read() on the connection of c returns at once: with data, or with 0.
Readable(c)  == Unread(c) \/ cpc[c] = "closed"
OpenFds      == {fd \in Fds : conn[fd] # NoClient}
PeerAlive(c) == c \in Range(pending) \/ \E fd \in Fds : conn[fd] = c

\* connect_to_server: fails when nobody listens.
connect_to_server(c) ==
    /\ cpc[c] = "start"
    /\ IF listening
       THEN cpc' = [cpc EXCEPT ![c] = "idle"] /\ pending' = Append(pending, c)
       ELSE cpc' = [cpc EXCEPT ![c] = "closed"] /\ UNCHANGED pending
    /\ UNCHANGED <<listening, sent, conn, rcvd>>

\* send_word: the length, then the characters.  Once the server has closed the
\* connection, send() ends the client.
send_word(c) ==
    /\ \/ cpc[c] = "idle" /\ sent[c] < 2 * MaxWords
       \/ cpc[c] = "mid"
    /\ IF PeerAlive(c)
       THEN /\ sent' = [sent EXCEPT ![c] = @ + 1]
            /\ cpc' = [cpc EXCEPT ![c] = IF @ = "idle" THEN "mid" ELSE "idle"]
       ELSE cpc' = [cpc EXCEPT ![c] = "closed"] /\ UNCHANGED sent
    /\ UNCHANGED <<listening, pending, conn, rcvd>>

ClientCloses(c) == /\ cpc[c] \in {"idle", "mid"}
                   /\ cpc' = [cpc EXCEPT ![c] = "closed"]
                   /\ UNCHANGED <<listening, sent, pending, conn, rcvd>>

Client(c) == connect_to_server(c) \/ send_word(c) \/ ClientCloses(c)

\* Types of the clients' state and of the connections.
NetTypeOK ==
    /\ Fds \in FdTables /\ conn \in [Fds -> Clients \cup {NoClient}]
    /\ pending \in Seq(Clients) /\ listening \in BOOLEAN
    /\ cpc \in [Clients -> {"start", "idle", "mid", "closed"}]
    /\ sent \in [Clients -> Nat] /\ rcvd \in [Clients -> Nat]

\* The descriptor accept() hands out: the lowest free one.
LowestFree(fd) == /\ fd \in Fds \ OpenFds
                  /\ \A other \in Fds \ OpenFds : fd <= other
===============================================================================
