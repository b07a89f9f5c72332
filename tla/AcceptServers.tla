----------------------------- MODULE AcceptServers -----------------------------
(***************************************************************************)
(* The servers that take one connection after another:                     *)
(* domain-socket/read-write and send-recv, networking-functions/           *)
(* listen-accept, sockets/setsockopt and tcp/shutdown, and the two programs *)
(* that only bind an address.  A server may be started again, after or     *)
(* next to an earlier run.                                                 *)
(***************************************************************************)
EXTENDS StreamClients

CONSTANT MaxKills        \* bound: processes the user kills in a behaviour

ASSUME AcceptServersAssumption == MaxKills \in Nat

VARIABLES platform,      \* "linux" or "bsd", where they differ
          pc, exit_flag, \* per run
          size,          \* per run: the length byte handle_connection has read
          printed,       \* per client: the words printed for it
          interrupted,   \* history: clients in whose word SIGINT interrupted read()
          met,           \* history: runs that ran at the same time as another
          kills

runVars == <<pc, exit_flag, size>>
history == <<printed, interrupted, met, kills>>
vars    == <<netVars, platform, runVars, history>>

\* The programs: the kind of address, SO_REUSEADDR, whether it goes on to listen, what
\* it does with a failed accept(), with a connection and with its socket at the end.
ServerProgram(unix, reuse, listens, retries, serves, shuts, client) ==
    [unix |-> unix, reuse |-> reuse, listens |-> listens, retries |-> retries,
     serves |-> serves, shuts |-> shuts, client |-> client]

read_write_server == ServerProgram(TRUE, FALSE, TRUE, TRUE, "words", FALSE, read_write_client)
send_recv_server  == ServerProgram(TRUE, FALSE, TRUE, TRUE, "words", FALSE, send_recv_client)
listen_accept     == ServerProgram(FALSE, FALSE, TRUE, TRUE, "message", FALSE, connect_client)
setsockopt_server == ServerProgram(FALSE, TRUE, TRUE, FALSE, "nothing", FALSE, setsockopt_client)
shutdown_server   == ServerProgram(FALSE, FALSE, TRUE, TRUE, "nothing", TRUE, shutdown_client)
bind_only         == ServerProgram(FALSE, FALSE, FALSE, FALSE, "nothing", FALSE, connect_client)
getsockopt        == ServerProgram(FALSE, FALSE, FALSE, FALSE, "nothing", FALSE, connect_client)

ServerPrograms == {read_write_server, send_recv_server, listen_accept, setsockopt_server,
                   shutdown_server, bind_only, getsockopt}

Failures == {"bind_failed", "listen_failed", "accept_failed", "write_failed", "sigpipe",
             "shutdown_failed"}
Over     == {"exited", "killed"} \cup Failures
Running  == {s \in Servers : pc[s] \notin Over \cup {"start"}}

Junk == -1               \* a byte of word[] that was not read

Init == /\ program \in ServerPrograms
        /\ platform \in IF program.reuse \/ program.shuts THEN {"linux", "bsd"} ELSE {"any"}
        /\ NetInit
        /\ pc = [s \in Servers |-> "start"] /\ exit_flag = [s \in Servers |-> FALSE]
        /\ size = [s \in Servers |-> 0]
        /\ printed = [c \in Clients |-> <<>>] /\ interrupted = {} /\ met = {}
        /\ kills = 0

Goto(s, place) == pc' = [pc EXCEPT ![s] = place]

\* The run's listening socket is closed: connections that wait in its queue are reset.
CloseListener(s) ==
    /\ bound' = bound \ {s} /\ listening' = listening \ {s}
    /\ pending' = [pending EXCEPT ![s] = <<>>]

\* All sockets of a run are closed.  A connection that is closed here first lingers.
EndProcess(s, outcome) ==
    /\ CloseListener(s)
    /\ link' = [c \in Clients |-> IF c \in Range(pending[s]) THEN "reset"
                                  ELSE IF c = conn[s] THEN "fin" ELSE link[c]]
    /\ timewait' = (timewait \/ (~program.unix /\ conn[s] # NoClient /\ ~FinSent(conn[s])))
    /\ conn' = [conn EXCEPT ![s] = NoClient]
    /\ Goto(s, outcome)
    /\ UNCHANGED <<program, path, streamVars, clientVars, platform, size>>

-------------------------------------------------------------------------------
(* From main to the loop                                                   *)

start_KeepsPath(s) ==
    /\ pc[s] = "start" /\ Goto(s, "bind")
    /\ met' = met \cup IF Running = {} THEN {} ELSE Running \cup {s}
    /\ UNCHANGED <<netVars, platform, exit_flag, size, printed, interrupted, kills>>

\* unlink(SOCKET_PATH), whoever is using it; socket_create; setsockopt.
start(s) ==
    /\ pc[s] = "start" /\ Goto(s, "bind")
    /\ path' = IF program.unix THEN NoServer ELSE path
    /\ met' = met \cup IF Running = {} THEN {} ELSE Running \cup {s}
    /\ UNCHANGED <<program, bound, listening, timewait, linkVars, streamVars, clientVars,
                   platform, exit_flag, size, printed, interrupted, kills>>

\* The kernel lets the address be bound: SO_REUSEADDR overlooks connections that
\* linger and, on Linux, runs that do not listen yet.
AddressFree == IF ~program.reuse THEN bound = {} /\ ~timewait
               ELSE IF platform = "linux" THEN listening = {} ELSE bound = {}

socket_bind(s) ==
    /\ pc[s] = "bind"
    /\ IF program.unix
       THEN /\ path' = IF path = NoServer THEN s ELSE path
            /\ Goto(s, IF path = NoServer THEN "listen" ELSE "bind_failed")
            /\ UNCHANGED bound
       ELSE /\ bound' = IF AddressFree THEN bound \cup {s} ELSE bound
            /\ Goto(s, IF ~AddressFree THEN "bind_failed"
                       ELSE IF program.listens THEN "listen" ELSE "finish")
            /\ UNCHANGED path
    /\ UNCHANGED <<program, listening, timewait, linkVars, streamVars, clientVars, platform,
                   exit_flag, size, history>>

start_listening(s) ==
    /\ pc[s] = "listen"
    /\ IF program.unix \/ listening = {}
       THEN listening' = listening \cup {s} /\ Goto(s, "handler") /\ UNCHANGED bound
       ELSE bound' = bound \ {s} /\ Goto(s, "listen_failed") /\ UNCHANGED listening
    /\ UNCHANGED <<program, path, timewait, linkVars, streamVars, clientVars, platform,
                   exit_flag, size, history>>

setup_signal_handler(s) ==
    /\ pc[s] = "handler" /\ Goto(s, "loop")
    /\ UNCHANGED <<netVars, platform, exit_flag, size, history>>

-------------------------------------------------------------------------------
(* The loop                                                                *)

\* while(!exit_flag)
TestFlag(s) ==
    /\ pc[s] = "loop" /\ Goto(s, IF exit_flag[s] THEN "finish" ELSE "accept")
    /\ UNCHANGED <<netVars, platform, exit_flag, size, history>>

\* socket_accept_connection: sleeps until there is a connection.
accept(s) ==
    /\ pc[s] = "accept" /\ pending[s] # <<>>
    /\ conn' = [conn EXCEPT ![s] = Head(pending[s])]
    /\ link' = [link EXCEPT ![Head(pending[s])] = "accepted"]
    /\ pending' = [pending EXCEPT ![s] = Tail(@)]
    /\ Goto(s, CASE program.serves = "words"   -> "size"
                 [] program.serves = "message" -> "write"
                 [] program.serves = "nothing" -> "close")
    /\ UNCHANGED <<program, addressVars, streamVars, clientVars, platform, exit_flag, size,
                   history>>

read_size_EndsServer(s) ==
    LET c == conn[s] IN
    /\ pc[s] = "size"
    /\ \/ /\ up[c] # <<>>
          /\ size' = [size EXCEPT ![s] = Head(up[c])]
          /\ up' = [up EXCEPT ![c] = Tail(@)]
          /\ Goto(s, "word")
       \/ /\ up[c] = <<>> /\ Ended(c)
          /\ Goto(s, "finish")
          /\ UNCHANGED <<size, up>>
    /\ UNCHANGED <<program, addressVars, linkVars, written, clientVars, platform, exit_flag, history>>

\* handle_connection of the two word servers.  read(client_sockfd, &size, 1) > 0
read_size(s) ==
    LET c == conn[s] IN
    /\ pc[s] = "size"
    /\ \/ /\ up[c] # <<>>
          /\ size' = [size EXCEPT ![s] = Head(up[c])]
          /\ up' = [up EXCEPT ![c] = Tail(@)]
          /\ Goto(s, "word")
       \/ /\ up[c] = <<>> /\ Ended(c)
          /\ Goto(s, "close")
          /\ UNCHANGED <<size, up>>
    /\ UNCHANGED <<program, addressVars, linkVars, written, clientVars, platform, exit_flag, history>>

\* The line that is printed after read(word, size) has returned these bytes: the rest
\* of word[] is whatever was there.
Line(s, bytes) == bytes \o [k \in 1..(size[s] - Len(bytes)) |-> Junk]

read_word_OneByte(s) ==
    LET c == conn[s]
        n == IF up[c] = <<>> THEN 0 ELSE 1 IN
    /\ pc[s] = "word" /\ (up[c] # <<>> \/ Ended(c))
    /\ printed' = [printed EXCEPT ![c] = Append(@, Line(s, SubSeq(up[c], 1, n)))]
    /\ up' = [up EXCEPT ![c] = SubSeq(@, n + 1, Len(@))]
    /\ Goto(s, "size")
    /\ UNCHANGED <<program, addressVars, linkVars, written, clientVars, platform, exit_flag, size,
                   interrupted, met, kills>>

\* read(client_sockfd, word, size): what is there, up to size bytes; nothing when the
\* client has ended.  The result is not looked at.
read_word(s) ==
    LET c == conn[s]
        n == IF size[s] < Len(up[c]) THEN size[s] ELSE Len(up[c]) IN
    /\ pc[s] = "word" /\ (up[c] # <<>> \/ Ended(c))
    /\ printed' = [printed EXCEPT ![c] = Append(@, Line(s, SubSeq(up[c], 1, n)))]
    /\ up' = [up EXCEPT ![c] = SubSeq(@, n + 1, Len(@))]
    /\ Goto(s, "size")
    /\ UNCHANGED <<program, addressVars, linkVars, written, clientVars, platform, exit_flag, size,
                   interrupted, met, kills>>

\* handle_connection of listen-accept: a character, then sleep(1).  When the client is
\* gone write() works until its reset has come; then SIGPIPE or the error ends the run.
write(s) ==
    LET c == conn[s] IN
    /\ pc[s] = "write"
    /\ \/ /\ written[c] < MESSAGE_LEN
          /\ written' = [written EXCEPT ![c] = @ + 1]
          /\ UNCHANGED <<program, addressVars, linkVars, up, clientVars, platform, pc, size>>
       \/ /\ written[c] = MESSAGE_LEN
          /\ Goto(s, "close")
          /\ UNCHANGED <<netVars, platform, size>>
       \/ /\ written[c] < MESSAGE_LEN /\ Ended(c)
          /\ \E outcome \in {"write_failed", "sigpipe"} : EndProcess(s, outcome)
    /\ UNCHANGED <<exit_flag, history>>

close_client_AcceptsNext(s) ==
    LET c == conn[s] IN
    /\ pc[s] = "close" /\ Goto(s, "accept")
    /\ link' = [link EXCEPT ![c] = "fin"]
    /\ conn' = [conn EXCEPT ![s] = NoClient]
    /\ timewait' = (timewait \/ (~program.unix /\ ~FinSent(c)))
    /\ UNCHANGED <<program, path, bound, listening, pending, streamVars, clientVars, platform,
                   exit_flag, size, history>>

close_client_Leaks(s) ==
    LET c == conn[s] IN
    /\ pc[s] = "close" /\ Goto(s, "loop")
    /\ UNCHANGED link
    /\ conn' = [conn EXCEPT ![s] = NoClient]
    /\ timewait' = (timewait \/ (~program.unix /\ ~FinSent(c)))
    /\ UNCHANGED <<program, path, bound, listening, pending, streamVars, clientVars, platform,
                   exit_flag, size, history>>

\* shutdown_socket(client_sockfd, SHUT_RD), socket_close(client_sockfd).  shutdown()
\* fails, and ends the run, only for a connection that its client has reset, which
\* tcp/shutdown/client.c never does: it is sent nothing that it could leave unread,
\* and sets no SO_LINGER.
close_client(s) ==
    LET c == conn[s] IN
    /\ pc[s] = "close" /\ Goto(s, "loop")
    /\ link' = [link EXCEPT ![c] = "fin"]
    /\ conn' = [conn EXCEPT ![s] = NoClient]
    /\ timewait' = (timewait \/ (~program.unix /\ ~FinSent(c)))
    /\ UNCHANGED <<program, path, bound, listening, pending, streamVars, clientVars, platform,
                   exit_flag, size, history>>

-------------------------------------------------------------------------------
(* The end                                                                 *)

\* socket_close(sockfd); in tcp/shutdown after shutdown(sockfd, SHUT_RDWR), which BSD
\* refuses for a socket that is not connected.
finish(s) ==
    /\ pc[s] = "finish"
    /\ EndProcess(s, IF program.shuts /\ platform = "bsd" THEN "shutdown_failed"
                     ELSE IF program.unix THEN "unlink" ELSE "exited")
    /\ UNCHANGED <<exit_flag, history>>

\* unlink(SOCKET_PATH), whoever is using it by now.
unlink(s) ==
    /\ pc[s] = "unlink" /\ Goto(s, "exited")
    /\ path' = NoServer
    /\ UNCHANGED <<program, bound, listening, timewait, linkVars, streamVars, clientVars,
                   platform, exit_flag, size, history>>

Server(s) == \/ socket_bind(s) \/ start_listening(s) \/ setup_signal_handler(s)
             \/ TestFlag(s) \/ accept(s) \/ read_size(s) \/ read_word(s) \/ write(s)
             \/ close_client(s) \/ finish(s) \/ unlink(s)

-------------------------------------------------------------------------------
(* Signals                                                                 *)

HasHandler(s) == pc[s] \notin {"bind", "listen", "handler"} /\ program.listens

Asleep(s) == \/ pc[s] = "accept" /\ pending[s] = <<>>
             \/ pc[s] \in {"size", "word"} /\ up[conn[s]] = <<>> /\ ~Ended(conn[s])

\* The call that sleeps returns -1 with EINTR.  accept(): main leaves the loop, or the
\* run fails.  The length: handle_connection returns.  The word: it is printed unread.
Interrupt(s) ==
    \/ /\ pc[s] = "accept" /\ program.retries
       /\ Goto(s, "finish")
       /\ UNCHANGED <<netVars, platform, size, printed, interrupted>>
    \/ /\ pc[s] = "accept" /\ ~program.retries
       /\ EndProcess(s, "accept_failed")
       /\ UNCHANGED <<printed, interrupted>>
    \/ /\ pc[s] = "size"
       /\ Goto(s, "close")
       /\ UNCHANGED <<netVars, platform, size, printed, interrupted>>
    \/ /\ pc[s] = "word"
       /\ printed' = [printed EXCEPT ![conn[s]] = Append(@, Line(s, <<>>))]
       /\ interrupted' = interrupted \cup {conn[s]}
       /\ Goto(s, "size")
       /\ UNCHANGED <<netVars, platform, size>>

\* SIGINT.  It may come just before the call that will sleep; then it interrupts nothing.
sigint_handler(s) ==
    /\ s \in Running /\ HasHandler(s)
    /\ exit_flag' = [exit_flag EXCEPT ![s] = TRUE]
    /\ \/ UNCHANGED <<netVars, platform, pc, size, printed, interrupted>>
       \/ Asleep(s) /\ Interrupt(s)
    /\ UNCHANGED <<met, kills>>

\* SIGINT before the handler is there, or another signal at any time.
Kill(s) == /\ s \in Running /\ kills < MaxKills
           /\ EndProcess(s, "killed")
           /\ kills' = kills + 1
           /\ UNCHANGED <<exit_flag, printed, interrupted, met>>

serverVars == <<platform, runVars, history>>
ClientStep(c) == Client(c) /\ UNCHANGED serverVars

Next == \/ \E s \in Servers : start(s) \/ Server(s) \/ sigint_handler(s) \/ Kill(s)
        \/ \E c \in Clients : \/ (connect(c) \/ Client(c)) /\ UNCHANGED serverVars
                              \/ /\ KillClient(c) /\ kills < MaxKills /\ kills' = kills + 1
                                 /\ UNCHANGED <<platform, runVars, printed, interrupted, met>>
        \/ TimeWaitEnds /\ UNCHANGED serverVars

\* The kernel runs the servers, and a client goes on to the end of its file.
Fairness == /\ \A s \in Servers : WF_vars(Server(s))
            /\ \A c \in Clients : WF_vars(ClientStep(c))

Spec == Init /\ [][Next]_vars /\ Fairness

-------------------------------------------------------------------------------
\* The words a client sends before one that is too long.
Sendable(c) == LET tooLong == {n \in DOMAIN file[c] : Len(file[c][n]) > UINT8_MAX}
               IN  IF tooLong = {} THEN file[c] ELSE SubSeq(file[c], 1, Min(tooLong) - 1)

\* Of the word servers: what is printed for a client that SIGINT did not cut short.
WordsArrive ==
    \A c \in Clients \ interrupted :
        \/ IsPrefix(printed[c], Sendable(c))
        \/ /\ Ended(c) /\ sent[c] % 2 = 1
           /\ printed[c] = SubSeq(file[c], 1, sent[c] \div 2)
                           \o <<[k \in 1..Len(NextWord(c)) |-> Junk]>>

\* Of listen-accept: a client that ends with success has had the whole message.
MessageArrives ==
    program.serves = "message" =>
        \A c \in Clients : cpc[c] = "done" =>
            got[c] = MESSAGE_LEN \/ \E s \in Servers : pc[s] = "killed"

\* The words printed for a client are a prefix of the words it sends, although neither
\* side looks at how much read() or write() transferred; a client that ends between a
\* length and its word adds one line of unread bytes.  Only SIGINT in the middle of a
\* word puts the server out of step (handle_connection of both word servers).  And a
\* client of listen-accept that ends with success has had the whole message, whatever
\* else became of the server, unless it was killed in the middle (main of
\* networking-functions/connect).
StreamsArrive == WordsArrive /\ MessageArrives

\* A run that never ran next to another one gets its address, whatever an earlier run
\* left behind, unless it lacks SO_REUSEADDR and connections linger; and as long as it
\* listens SOCKET_PATH leads to it (unlink before and after; setsockopt).  Runs that
\* meet take each other's SOCKET_PATH away.
AloneIsReachable ==
    \A s \in Servers \ met :
        /\ pc[s] # "listen_failed"
        /\ pc[s] = "bind_failed" => ~program.unix /\ ~program.reuse
        /\ program.unix /\ s \in listening => path = s

\* A run that has begun to listen ends only because of SIGINT or a kill, except that
\* listen-accept also ends when one client leaves before its message is complete; and
\* SIGINT is an orderly end but for setsockopt, where it fails accept(), and on BSD
\* tcp/shutdown.  A client that disconnects or sends half a word stops nobody.
FailsOnlyBecause ==
    \A s \in Servers :
        /\ pc[s] \in {"finish", "unlink", "exited"} /\ program.listens => exit_flag[s]
        /\ pc[s] = "accept_failed" => program = setsockopt_server /\ exit_flag[s]
        /\ pc[s] = "shutdown_failed" =>
              program = shutdown_server /\ exit_flag[s] /\ platform = "bsd"
        /\ pc[s] \in {"write_failed", "sigpipe"} =>
              program = listen_accept
              /\ \E c \in Clients : cpc[c] = "killed" /\ got[c] < MESSAGE_LEN

\* Once the handler has run the server ends, wherever it was, unless it was on its way
\* from the test of exit_flag to accept(): then it waits for another connection (main
\* and handle_connection of each server).
SigintStops == \A s \in Servers : (exit_flag[s] /\ pc[s] # "accept") ~> pc[s] \in Over

\* While no one is interrupted or killed, every client that gets into the queue of a
\* run is served to its end, however slow the ones before it are.
Undisturbed == /\ \A s \in Servers : ~exit_flag[s] /\ pc[s] # "killed"
               /\ \A c \in Clients : cpc[c] # "killed"
Served(c)   == /\ cpc[c] = "done" \/ (cpc[c] = "failed" /\ Sendable(c) # file[c])
               /\ program.serves = "words" => printed[c] = Sendable(c)
EveryoneServed == \A c \in Clients : link[c] = "queued" ~> (Served(c) \/ ~Undisturbed)
===============================================================================
