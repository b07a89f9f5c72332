----------------------------- MODULE StreamClients -----------------------------
(***************************************************************************)
(* The clients of the connection-oriented socket programs, and the         *)
(* kernel's side of their connections: a socket name or a port, the queue  *)
(* of a listening socket, the bytes under way.                             *)
(*                                                                         *)
(* A client of domain-socket sends each word of its file as a length byte  *)
(* and then the characters, in two calls; chunk 2n-1 is the length and     *)
(* chunk 2n the characters of word n.  A word is a sequence of bytes.      *)
(***************************************************************************)
EXTENDS Integers, Sequences, SequencesExt

CONSTANTS Servers,       \* the runs of the server, one after another or side by side
          Clients,
          Files,         \* what files the clients of domain-socket may be given
          UINT8_MAX,
          MESSAGE_LEN,   \* the length of the message listen-accept is given
          BACKLOG        \* connections that wait for accept()

NoServer == "no_server"
NoClient == "no_client"

ASSUME StreamClientsAssumption ==
    /\ NoServer \notin Servers /\ NoClient \notin Clients
    /\ UINT8_MAX \in Nat /\ MESSAGE_LEN \in Nat /\ BACKLOG \in Nat \ {0}
    /\ \A f \in Files : \A c \in Clients : f[c] \in Seq(Seq(1..UINT8_MAX) \ {<<>>})

VARIABLES program,       \* what the server is; its field client says what the clients are
          path,          \* the run whose socket SOCKET_PATH names
          bound,         \* the runs that have the internet address
          listening,     \* the runs connect() can reach through their address
          timewait,      \* connections of the address that were closed here first linger
          pending,       \* per run: the connections not accepted yet
          conn,          \* per run: the client behind client_sockfd
          link,          \* per client: what has become of its connection
          cpc,           \* per client: where it is
          file, sent,    \* per client: its words, the chunks it has sent
          got,           \* per client: the characters of the message it has printed
          up, written    \* per client: bytes to the server; characters from it

addressVars == <<path, bound, listening, timewait>>
linkVars    == <<pending, conn, link>>
streamVars  == <<up, written>>
clientVars  == <<cpc, file, sent, got>>
netVars     == <<program, addressVars, linkVars, streamVars, clientVars>>

\* What the clients do once they are connected.
read_write_client == "send"
send_recv_client  == "send"
connect_client    == "read"
setsockopt_client == "close"
shutdown_client   == "shutdown"

Ended(c)   == cpc[c] \in {"done", "failed", "killed"}
\* The kernel has told the server that c sends no more.
FinSent(c) == Ended(c) \/ cpc[c] = "shut"

NetInit ==
    /\ path = NoServer /\ bound = {} /\ listening = {} /\ timewait = FALSE
    /\ pending = [s \in Servers |-> <<>>] /\ conn = [s \in Servers |-> NoClient]
    /\ link = [c \in Clients |-> "none"] /\ cpc = [c \in Clients |-> "start"]
    /\ file \in IF program.client = "send" THEN Files ELSE {[c \in Clients |-> <<>>]}
    /\ sent = [c \in Clients |-> 0] /\ got = [c \in Clients |-> 0]
    /\ up = [c \in Clients |-> <<>>] /\ written = [c \in Clients |-> 0]

-------------------------------------------------------------------------------
\* The listening run that connect() finds.
Reached == IF program.unix THEN listening \cap {path} ELSE listening

\* connect_to_server, socket_connect: without a listener the client gives up; with a
\* full queue it waits.
connect(c) ==
    /\ cpc[c] = "start"
    /\ \/ /\ Reached = {}
          /\ cpc' = [cpc EXCEPT ![c] = "failed"]
          /\ UNCHANGED <<pending, link>>
       \/ \E s \in Reached :
          /\ Len(pending[s]) < BACKLOG
          /\ pending' = [pending EXCEPT ![s] = Append(@, c)]
          /\ link' = [link EXCEPT ![c] = "queued"]
          /\ cpc' = [cpc EXCEPT ![c] = "open"]
    /\ UNCHANGED <<program, addressVars, conn, streamVars, file, sent, got>>

NextWord(c) == file[c][sent[c] \div 2 + 1]

\* The loop over the words of the file.  Before the length is sent a word that is too
\* long ends the client; a connection that the server has closed does so with SIGPIPE.
SendChunk(c) ==
    /\ program.client = "send" /\ cpc[c] = "open" /\ sent[c] < 2 * Len(file[c])
    /\ IF sent[c] % 2 = 0 /\ Len(NextWord(c)) > UINT8_MAX
       THEN cpc' = [cpc EXCEPT ![c] = "failed"] /\ UNCHANGED <<sent, up>>
       ELSE IF link[c] \in {"fin", "reset"}
       THEN cpc' = [cpc EXCEPT ![c] = "killed"] /\ UNCHANGED <<sent, up>>
       ELSE /\ up' = [up EXCEPT ![c] = @ \o IF sent[c] % 2 = 0 THEN <<Len(NextWord(c))>>
                                            ELSE NextWord(c)]
            /\ sent' = [sent EXCEPT ![c] = @ + 1]
            /\ UNCHANGED cpc
    /\ UNCHANGED <<program, addressVars, linkVars, file, got, written>>

\* while((nread = read(sockfd, &ch, sizeof(ch))) != 0) of networking-functions/connect.
ReadMessage(c) ==
    /\ program.client = "read" /\ cpc[c] = "open"
    /\ \/ /\ got[c] < written[c]
          /\ got' = [got EXCEPT ![c] = @ + 1] /\ UNCHANGED cpc
       \/ /\ got[c] = written[c] /\ link[c] \in {"fin", "reset"}
          /\ cpc' = [cpc EXCEPT ![c] = IF link[c] = "fin" THEN "done" ELSE "failed"]
          /\ UNCHANGED got
    /\ UNCHANGED <<program, addressVars, linkVars, streamVars, file, sent>>

\* shutdown_socket(sockfd, SHUT_WR): fails when the connection has been reset.
shutdown_socket(c) ==
    /\ program.client = "shutdown" /\ cpc[c] = "open"
    /\ cpc' = [cpc EXCEPT ![c] = IF link[c] = "reset" THEN "failed" ELSE "shut"]
    /\ UNCHANGED <<program, addressVars, linkVars, streamVars, file, sent, got>>

\* socket_close and EXIT_SUCCESS; what was sent can still be read.
socket_close(c) ==
    /\ \/ program.client = "send" /\ cpc[c] = "open" /\ sent[c] = 2 * Len(file[c])
       \/ program.client = "close" /\ cpc[c] = "open"
       \/ program.client = "shutdown" /\ cpc[c] = "shut"
    /\ cpc' = [cpc EXCEPT ![c] = "done"]
    /\ UNCHANGED <<program, addressVars, linkVars, streamVars, file, sent, got>>

Client(c) == SendChunk(c) \/ ReadMessage(c) \/ shutdown_socket(c) \/ socket_close(c)

\* The user stops a client in the middle.
KillClient(c) ==
    /\ cpc[c] \in {"open", "shut"}
    /\ cpc' = [cpc EXCEPT ![c] = "killed"]
    /\ UNCHANGED <<program, addressVars, linkVars, streamVars, file, sent, got>>

TimeWaitEnds == /\ timewait
                /\ timewait' = FALSE
                /\ UNCHANGED <<program, path, bound, listening, linkVars, streamVars, clientVars>>
===============================================================================
