-------------------------- MODULE AcceptServersProofs --------------------------
(***************************************************************************)
(* For any number of runs and clients, killed and interrupted in any       *)
(* order: a run of a server that never ran next to another one gets its    *)
(* address and can be reached; what becomes of a connection, from the      *)
(* queue to its end, explains every end of a run and of its clients; and   *)
(* the words that are printed are the words that were sent.                *)
(***************************************************************************)
EXTENDS AcceptServers, SequenceTheorems, WellFoundedInduction, TLAPS

Serving == {"handler", "loop", "accept", "size", "word", "write", "close", "finish"}
Places  == {"start", "bind", "listen", "unlink"} \cup Serving \cup Over

TypeOK == /\ program \in ServerPrograms
          /\ pc \in [Servers -> Places]
          /\ path \in Servers \cup {NoServer}
          /\ bound \subseteq Servers /\ listening \subseteq Servers /\ met \subseteq Servers

\* Who has the address or listens on it is a run at the right place.
Holders == /\ \A s \in listening : pc[s] \in Serving
           /\ \A s \in bound : pc[s] \in Serving \cup {"listen"}

\* A run that has not met another one is the only one that runs.
Alone == \A s \in Running \ met : Running = {s}

\* Then nobody takes SOCKET_PATH from it.
OwnPath == program.unix =>
              \A s \in Running \ met : path = IF pc[s] = "bind" THEN NoServer ELSE s

\* And it did not fail.
NoFailure == \A s \in Servers \ met :
                /\ pc[s] # "listen_failed"
                /\ pc[s] = "bind_failed" => ~program.unix /\ ~program.reuse

IInv == TypeOK /\ Holders /\ Alone /\ OwnPath /\ NoFailure

LEMMA InitIInv == Init => IInv
<1> SUFFICES ASSUME Init PROVE IInv
  OBVIOUS
<1>1. TypeOK /\ Holders
  BY DEF Init, NetInit, TypeOK, Holders, Places
<1>2. Running = {}
  BY DEF Init, Running
<1> QED
  BY <1>1, <1>2 DEF Init, IInv, Alone, OwnPath, NoFailure

-------------------------------------------------------------------------------
(* What a step changes of the state the invariant is about                 *)

Others == UNCHANGED <<program, path, bound, listening, met>>

\* The run goes on in its loop, or back to where it is.
Moves(s) == /\ Others
            /\ \/ UNCHANGED pc
               \/ pc[s] \in Serving /\ \E p \in Serving : pc' = [pc EXCEPT ![s] = p]

\* The run closes its sockets, and is over but for the unlink of its path.
Ends(s) == /\ UNCHANGED <<program, path, met>>
           /\ bound' = bound \ {s} /\ listening' = listening \ {s}
           /\ s \in Running
           /\ \E p \in (Over \cup {"unlink"}) \ {"bind_failed", "listen_failed"} :
                 /\ p = "unlink" => pc[s] # "bind"
                 /\ pc' = [pc EXCEPT ![s] = p]

\* A run in its loop does one of the two.
LEMMA ServerMoves ==
    ASSUME TypeOK, NEW s \in Servers,
           \/ setup_signal_handler(s) \/ TestFlag(s) \/ accept(s) \/ read_size(s)
           \/ read_word(s) \/ write(s) \/ close_client(s) \/ finish(s)
    PROVE  Moves(s) \/ Ends(s)
<1> USE DEF Goto, netVars, addressVars, history, Others, Serving
<1>1. CASE setup_signal_handler(s)
  BY <1>1 DEF setup_signal_handler, Moves
<1>2. CASE TestFlag(s)
  BY <1>2 DEF TestFlag, Moves
<1>3. CASE accept(s)
  <2>1. program.serves \in {"words", "message", "nothing"}
    BY DEF TypeOK, ServerPrograms, ServerProgram, read_write_server, send_recv_server,
           listen_accept, setsockopt_server, shutdown_server, bind_only, getsockopt
  <2> QED BY <1>3, <2>1 DEF accept, Moves
<1>4. CASE read_size(s)
  BY <1>4 DEF read_size, Moves
<1>5. CASE read_word(s)
  BY <1>5 DEF read_word, Moves
<1>6. CASE write(s)
  BY <1>6 DEF write, Moves, Ends, EndProcess, CloseListener, Running, Over, Failures
<1>7. CASE close_client(s)
  BY <1>7 DEF close_client, Moves
<1>8. CASE finish(s)
  <2>1. PICK p \in {"shutdown_failed", "unlink", "exited"} : EndProcess(s, p)
    BY <1>8, Zenon DEF finish
  <2>2. pc[s] = "finish" /\ UNCHANGED met
    BY <1>8 DEF finish
  <2> QED BY <2>1, <2>2 DEF Ends, EndProcess, CloseListener, Running, Over, Failures
<1> QED
  BY <1>1, <1>2, <1>3, <1>4, <1>5, <1>6, <1>7, <1>8

\* So does a signal, wherever it comes.
LEMMA SignalMoves ==
    ASSUME TypeOK, NEW s \in Servers, sigint_handler(s) \/ Kill(s)
    PROVE  Moves(s) \/ Ends(s)
<1> USE DEF Goto, netVars, addressVars, history, Others, Serving
<1>1. CASE Kill(s)
  BY <1>1 DEF Kill, Ends, EndProcess, CloseListener, Over, Failures
<1>2. CASE sigint_handler(s)
  <2>1. CASE UNCHANGED <<netVars, platform, pc, size, printed, interrupted>>
    BY <1>2, <2>1 DEF sigint_handler, Moves
  <2>2. CASE Interrupt(s)
    BY <1>2, <2>2 DEF sigint_handler, Interrupt, Moves, Ends, EndProcess, CloseListener,
                      Over, Failures
  <2> QED BY <1>2, <2>1, <2>2 DEF sigint_handler
<1> QED BY <1>1, <1>2

\* A client changes nothing of it.
LEMMA ClientMoves ==
    ASSUME NEW c \in Clients, connect(c) \/ Client(c) \/ KillClient(c),
           UNCHANGED <<platform, runVars, printed, interrupted, met>>
    PROVE  Others /\ UNCHANGED pc
  BY DEF connect, Client, SendChunk, ReadMessage, shutdown_socket, socket_close, KillClient,
         addressVars, runVars, Others


-------------------------------------------------------------------------------
(* Every step keeps the invariant                                          *)

\* Only start changes who has met whom.
LEMMA MovesIInv == ASSUME IInv, NEW s \in Servers, Moves(s) PROVE IInv'
<1> USE DEF IInv, Moves, Others
<1>1. Running' = Running
  BY DEF TypeOK, Running, Serving, Over, Failures
<1>2. TypeOK' /\ Holders'
  BY DEF TypeOK, Holders, Places
<1>3. Alone'
  BY <1>1 DEF Alone
<1>4. OwnPath'
  <2>1. \A t \in Servers : pc'[t] = "bind" <=> pc[t] = "bind"
    BY DEF TypeOK, Serving
  <2> QED BY <1>1, <2>1 DEF OwnPath, Running
<1>5. NoFailure'
  BY DEF NoFailure, TypeOK, Serving
<1> QED BY <1>2, <1>3, <1>4, <1>5

LEMMA EndsIInv == ASSUME IInv, NEW s \in Servers, Ends(s) PROVE IInv'
<1> USE DEF IInv
<1>1. PICK p \in (Over \cup {"unlink"}) \ {"bind_failed", "listen_failed"} :
        pc' = [pc EXCEPT ![s] = p] /\ (p = "unlink" => pc[s] # "bind")
  BY DEF Ends
<1>2. Running' = IF p = "unlink" THEN Running ELSE Running \ {s}
  BY <1>1 DEF TypeOK, Running, Ends, Over, Failures
<1>3. TypeOK' /\ Holders'
  BY <1>1 DEF TypeOK, Holders, Places, Ends
<1>4. Alone'
  BY <1>2 DEF Alone, Ends
<1>5. OwnPath'
  BY <1>1, <1>2 DEF OwnPath, TypeOK, Ends
<1>6. NoFailure'
  BY <1>1 DEF NoFailure, TypeOK, Ends
<1> QED BY <1>3, <1>4, <1>5, <1>6

\* A run that starts while another runs has met it; otherwise nobody else runs.
LEMMA StartIInv == ASSUME IInv, NEW s \in Servers, start(s) PROVE IInv'
<1> USE DEF IInv
<1>1. /\ pc[s] = "start" /\ pc' = [pc EXCEPT ![s] = "bind"]
      /\ path' = IF program.unix THEN NoServer ELSE path
      /\ met' = met \cup IF Running = {} THEN {} ELSE Running \cup {s}
      /\ UNCHANGED <<program, bound, listening>>
  BY DEF start, Goto
<1>2. Running' = Running \cup {s}
  BY <1>1 DEF TypeOK, Running, Over, Failures
<1>3. TypeOK' /\ Holders'
  BY <1>1 DEF TypeOK, Holders, Places, Running, Serving
<1>4. Alone'
  BY <1>1, <1>2 DEF Alone
<1>5. OwnPath'
  <2> SUFFICES ASSUME program.unix, NEW t \in Running' \ met'
               PROVE  path' = IF pc'[t] = "bind" THEN NoServer ELSE t
    BY <1>1 DEF OwnPath
  <2>1. t = s
    BY <1>1, <1>2
  <2> QED BY <1>1, <2>1 DEF TypeOK
<1>6. NoFailure'
  BY <1>1 DEF NoFailure, TypeOK
<1> QED BY <1>3, <1>4, <1>5, <1>6

\* A run that is alone finds the address free: who holds it runs.
LEMMA AloneIsFree ==
    ASSUME IInv, NEW s \in Running \ met
    PROVE  /\ pc[s] = "bind" => bound = {}
           /\ pc[s] \in {"bind", "listen"} => listening = {}
<1>1. Running = {s}
  BY DEF IInv, Alone
<1>2. listening \subseteq Running /\ bound \subseteq Running
  BY DEF IInv, TypeOK, Holders, Running, Serving, Over, Failures
<1> QED BY <1>1, <1>2 DEF IInv, Holders, Serving

LEMMA BindIInv == ASSUME IInv, NEW s \in Servers, socket_bind(s) PROVE IInv'
<1> USE DEF IInv
<1>1. /\ pc[s] = "bind" /\ s \in Running
      /\ UNCHANGED <<program, listening, met>>
  BY DEF socket_bind, Running, Over, Failures, history
<1>2. CASE program.unix
  <2>1. /\ path' = IF path = NoServer THEN s ELSE path
        /\ pc' = [pc EXCEPT ![s] = IF path = NoServer THEN "listen" ELSE "bind_failed"]
        /\ UNCHANGED bound
    BY <1>2 DEF socket_bind, Goto
  <2>2. Running' = IF path = NoServer THEN Running ELSE Running \ {s}
    BY <1>1, <2>1 DEF TypeOK, Running, Over, Failures
  <2>3. TypeOK' /\ Holders'
    BY <1>1, <2>1 DEF TypeOK, Holders, Places, Serving, Over, Failures
  <2>4. Alone'
    BY <1>1, <2>2 DEF Alone
  <2>5. s \notin met => path = NoServer
    BY <1>1, <1>2 DEF OwnPath
  <2>6. OwnPath'
    <3> SUFFICES ASSUME NEW t \in Running' \ met'
                 PROVE  path' = IF pc'[t] = "bind" THEN NoServer ELSE t
      BY DEF OwnPath
    <3>1. t \in Running \ met
      BY <1>1, <2>2
    <3>2. t = s
      BY <1>1, <3>1 DEF Alone
    <3> QED BY <1>1, <2>1, <2>5, <3>1, <3>2 DEF TypeOK
  <2>7. NoFailure'
    BY <1>1, <1>2, <2>1, <2>5 DEF NoFailure, TypeOK
  <2> QED BY <2>3, <2>4, <2>6, <2>7
<1>3. CASE ~program.unix
  <2>1. PICK p \in {"bind_failed", "listen", "finish"} :
          /\ pc' = [pc EXCEPT ![s] = p]
          /\ p = "bind_failed" => ~AddressFree /\ bound' = bound
          /\ p # "bind_failed" => bound' = bound \cup {s}
          /\ UNCHANGED path
    <3>1. CASE AddressFree
      BY <1>3, <3>1 DEF socket_bind, Goto
    <3>2. CASE ~AddressFree
      BY <1>3, <3>2 DEF socket_bind, Goto
    <3> QED BY <3>1, <3>2
  <2>2. Running' \subseteq Running
    BY <1>1, <2>1 DEF TypeOK, Running, Over, Failures
  <2>3. TypeOK' /\ Holders'
    BY <1>1, <2>1 DEF TypeOK, Holders, Places, Serving, Over, Failures
  <2>4. Alone'
    BY <1>1, <2>2 DEF Alone
  <2>5. s \notin met /\ program.reuse => AddressFree
    BY <1>1, AloneIsFree DEF AddressFree
  <2>6. OwnPath' /\ NoFailure'
    BY <1>1, <1>3, <2>1, <2>5 DEF OwnPath, NoFailure, TypeOK
  <2> QED BY <2>3, <2>4, <2>6
<1> QED BY <1>2, <1>3

LEMMA ListenIInv == ASSUME IInv, NEW s \in Servers, start_listening(s) PROVE IInv'
<1> USE DEF IInv
<1>1. /\ pc[s] = "listen" /\ s \in Running
      /\ UNCHANGED <<program, path, met>>
  BY DEF start_listening, Running, Over, Failures, history
<1>2. CASE program.unix \/ listening = {}
  <2>1. /\ pc' = [pc EXCEPT ![s] = "handler"] /\ UNCHANGED bound
        /\ listening' = listening \cup {s}
    BY <1>2 DEF start_listening, Goto
  <2>2. Running' = Running
    BY <1>1, <2>1 DEF TypeOK, Running, Over, Failures
  <2>3. TypeOK' /\ Holders'
    BY <1>1, <2>1 DEF TypeOK, Holders, Places, Serving
  <2>4. Alone' /\ NoFailure'
    BY <1>1, <2>1, <2>2 DEF Alone, NoFailure, TypeOK
  <2>5. OwnPath'
    BY <1>1, <2>1, <2>2 DEF OwnPath, TypeOK
  <2> QED BY <2>3, <2>4, <2>5
<1>3. CASE ~(program.unix \/ listening = {})
  <2>1. /\ pc' = [pc EXCEPT ![s] = "listen_failed"] /\ UNCHANGED listening
        /\ bound' = bound \ {s}
    BY <1>3 DEF start_listening, Goto
  <2>2. s \in met
    BY <1>1, <1>3, AloneIsFree
  <2>3. Running' = Running \ {s}
    BY <1>1, <2>1 DEF TypeOK, Running, Over, Failures
  <2>4. TypeOK' /\ Holders'
    BY <1>1, <2>1 DEF TypeOK, Holders, Places, Serving, Over, Failures
  <2>5. Alone' /\ OwnPath' /\ NoFailure'
    BY <1>1, <1>3, <2>1, <2>2, <2>3 DEF Alone, OwnPath, NoFailure, TypeOK
  <2> QED BY <2>4, <2>5
<1> QED BY <1>2, <1>3

LEMMA UnlinkIInv == ASSUME IInv, NEW s \in Servers, unlink(s) PROVE IInv'
<1> USE DEF IInv
<1>1. /\ pc[s] = "unlink" /\ pc' = [pc EXCEPT ![s] = "exited"] /\ path' = NoServer
      /\ UNCHANGED <<program, bound, listening, met>>
  BY DEF unlink, Goto, history
<1>2. Running' = Running \ {s} /\ s \in Running
  BY <1>1 DEF TypeOK, Running, Over, Failures
<1>3. TypeOK' /\ Holders'
  BY <1>1 DEF TypeOK, Holders, Places, Serving, Over
<1>4. Running' \ met' = {}
  BY <1>1, <1>2 DEF Alone
<1>5. Alone' /\ OwnPath'
  BY <1>4 DEF Alone, OwnPath
<1>6. NoFailure'
  BY <1>1 DEF NoFailure, TypeOK
<1> QED BY <1>3, <1>5, <1>6

LEMMA UnchangedIInv == ASSUME IInv, Others, UNCHANGED pc PROVE IInv'
<1>1. Running' = Running
  BY DEF Running
<1> QED BY <1>1 DEF IInv, Others, TypeOK, Holders, Alone, OwnPath, NoFailure

LEMMA NextIInv == ASSUME IInv, [Next]_vars PROVE IInv'
<1>1. CASE UNCHANGED vars
  BY <1>1, UnchangedIInv DEF vars, netVars, addressVars, runVars, history, Others
<1>2. ASSUME NEW s \in Servers, start(s) \/ Server(s) \/ sigint_handler(s) \/ Kill(s)
      PROVE  IInv'
  <2>1. CASE start(s)
    BY <2>1, StartIInv
  <2>2. CASE socket_bind(s)
    BY <2>2, BindIInv
  <2>3. CASE start_listening(s)
    BY <2>3, ListenIInv
  <2>4. CASE unlink(s)
    BY <2>4, UnlinkIInv
  <2>5. CASE \/ setup_signal_handler(s) \/ TestFlag(s) \/ accept(s) \/ read_size(s)
             \/ read_word(s) \/ write(s) \/ close_client(s) \/ finish(s)
    <3>1. Moves(s) \/ Ends(s)
      BY <2>5, ServerMoves DEF IInv
    <3> QED BY <3>1, MovesIInv, EndsIInv
  <2>6. CASE sigint_handler(s) \/ Kill(s)
    <3>1. Moves(s) \/ Ends(s)
      BY <2>6, SignalMoves DEF IInv
    <3> QED BY <3>1, MovesIInv, EndsIInv
  <2> QED BY <1>2, <2>1, <2>2, <2>3, <2>4, <2>5, <2>6 DEF Server
<1>3. ASSUME NEW c \in Clients, connect(c) \/ Client(c) \/ KillClient(c),
             UNCHANGED <<platform, runVars, printed, interrupted, met>>
      PROVE  IInv'
  BY <1>3, ClientMoves, UnchangedIInv
<1>4. ASSUME TimeWaitEnds, UNCHANGED serverVars PROVE IInv'
  BY <1>4, UnchangedIInv DEF TimeWaitEnds, serverVars, runVars, history, Others
<1> QED
  <2>1. UNCHANGED serverVars => UNCHANGED <<platform, runVars, printed, interrupted, met>>
    BY DEF serverVars, history
  <2> QED BY <1>1, <1>2, <1>3, <1>4, <2>1 DEF Next

\* Whatever earlier runs left behind, a run that never ran next to another one gets its
\* address (but for connections that linger, without SO_REUSEADDR), and SOCKET_PATH leads
\* to it as long as it listens: unlink before bind() and after the last close().
THEOREM NobodyTakesTheAddress == Spec => []AloneIsReachable
<1>1. ASSUME IInv PROVE AloneIsReachable
  <2> USE <1>1 DEF IInv
  <2>1. ASSUME NEW s \in Servers \ met, program.unix, s \in listening PROVE path = s
    <3>1. s \in Running /\ pc[s] # "bind"
      BY <2>1 DEF Holders, Running, Serving, Over, Failures
    <3> QED BY <2>1, <3>1 DEF OwnPath
  <2> QED BY <2>1 DEF AloneIsReachable, NoFailure
<1> QED BY <1>1, InitIInv, NextIInv, PTL DEF Spec

-------------------------------------------------------------------------------
(* What becomes of a connection                                            *)

WithClient == {"size", "word", "write", "close"}

LinkTypeOK ==
    /\ exit_flag \in [Servers -> BOOLEAN]
    /\ pending \in [Servers -> Seq(Clients)]
    /\ conn \in [Servers -> Clients \cup {NoClient}]
    /\ link \in [Clients -> {"none", "queued", "accepted", "fin", "reset"}]
    /\ cpc \in [Clients -> {"start", "open", "shut", "done", "failed", "killed"}]
    /\ got \in [Clients -> Nat] /\ written \in [Clients -> Nat]

\* A connection waits in one queue, or is the one a run serves, or is over.
OnePlace ==
    /\ \A s \in Servers : conn[s] # NoClient => link[conn[s]] = "accepted"
    /\ \A s, t \in Servers : conn[s] # NoClient /\ conn[s] = conn[t] => s = t
    /\ \A s \in Servers : \A n \in 1..Len(pending[s]) : link[pending[s][n]] = "queued"
    /\ \A s, t \in Servers : \A m \in 1..Len(pending[s]) : \A n \in 1..Len(pending[t]) :
          pending[s][m] = pending[t][n] => s = t /\ m = n
    /\ \A c \in Clients : cpc[c] = "start" => link[c] = "none"

\* Which programs get where; a run has a client exactly while it serves it.
RunPlaces ==
    \A s \in Servers :
        /\ pc[s] \in {"listen", "handler", "loop", "accept"} \cup WithClient => program.listens
        /\ pc[s] \in WithClient <=> conn[s] # NoClient
        /\ pc[s] = "write" => program.serves = "message"
        /\ pc[s] \in {"size", "word"} => program.serves = "words"

\* The message of listen-accept on its way to a client.
Message ==
    /\ \A c \in Clients : got[c] <= written[c] /\ written[c] <= MESSAGE_LEN
    /\ program.serves = "message" =>
        /\ \A c \in Clients :
              /\ cpc[c] = "done" => link[c] = "fin" /\ got[c] = written[c]
              /\ cpc[c] = "failed" => link[c] \in {"none", "reset"}
              /\ link[c] = "fin" => \/ written[c] = MESSAGE_LEN \/ cpc[c] = "killed"
                                    \/ \E s \in Servers : pc[s] = "killed"
        /\ \A s \in Servers : pc[s] = "close" => written[conn[s]] = MESSAGE_LEN

LinkInv == LinkTypeOK /\ OnePlace /\ RunPlaces /\ Message /\ FailsOnlyBecause

USE StreamClientsAssumption DEF StreamClientsAssumption

LEMMA ProgramFacts ==
    ASSUME TypeOK
    PROVE  /\ program.unix => program.listens
           /\ program.listens /\ ~program.retries => program = setsockopt_server
           /\ program.shuts => program = shutdown_server /\ program.listens
           /\ program.serves \in {"words", "message", "nothing"}
           /\ program.serves = "message" => program = listen_accept /\ program.client = "read"
  BY DEF TypeOK, ServerPrograms, ServerProgram, read_write_server, send_recv_server,
         listen_accept, setsockopt_server, shutdown_server, bind_only, getsockopt,
         read_write_client, send_recv_client, connect_client, setsockopt_client, shutdown_client

LEMMA InitLinkInv == Init => LinkInv
<1> SUFFICES ASSUME Init PROVE LinkInv
  OBVIOUS
<1>1. LinkTypeOK
  BY DEF Init, NetInit, LinkTypeOK
<1>2. \A s \in Servers : 1..Len(pending[s]) = {}
  BY DEF Init, NetInit
<1> QED
  BY <1>1, <1>2 DEF Init, NetInit, LinkInv, OnePlace, RunPlaces, WithClient, Message,
                    FailsOnlyBecause

-------------------------------------------------------------------------------
(* The steps of a run that leave the connections alone                     *)

Network == <<program, platform, pending, conn, link, cpc, got>>

\* The run goes from where it is to p, on a way the program has.
Passes(s, p) ==
    /\ UNCHANGED <<Network, written>>
    /\ pc[s] \notin Over /\ pc' = [pc EXCEPT ![s] = p] /\ p \in Places
    /\ exit_flag' = exit_flag \/ exit_flag' = [exit_flag EXCEPT ![s] = TRUE]
    /\ pc[s] \in WithClient <=> p \in WithClient
    /\ p \in {"listen", "handler", "loop", "accept"} => program.listens
    /\ p = "write" => pc[s] = "write"
    /\ p \in {"size", "word"} => program.serves = "words"
    /\ p = "close" => \/ pc[s] = "close" \/ program.serves = "words"
                      \/ written[conn[s]] = MESSAGE_LEN
    /\ p \in {"finish", "unlink", "exited"} /\ program.listens => exit_flag'[s]
    /\ p \notin {"accept_failed", "shutdown_failed", "write_failed", "sigpipe", "killed"}

LEMMA SameLinks ==
    ASSUME OnePlace, UNCHANGED <<pending, conn, link>>,
           \A c \in Clients : cpc'[c] = "start" => cpc[c] = "start"
    PROVE  OnePlace'
  BY DEF OnePlace

LEMMA PassesLinkInv ==
    ASSUME TypeOK, LinkInv, NEW s \in Servers, NEW p, Passes(s, p)
    PROVE  LinkInv'
<1> USE DEF LinkInv
<1>1. UNCHANGED <<program, platform, pending, conn, link, cpc, got, written>>
  BY DEF Passes, Network
<1>2. LinkTypeOK'
  BY <1>1 DEF Passes, LinkTypeOK
<1>3. OnePlace'
  BY <1>1, SameLinks
<1>4. \A t \in Servers : pc'[t] = IF t = s THEN p ELSE pc[t]
  BY DEF Passes, TypeOK
<1>5. RunPlaces'
  BY <1>1, <1>4 DEF Passes, RunPlaces, WithClient
<1>6. Message'
  <2>1. (\E t \in Servers : pc[t] = "killed") => \E t \in Servers : pc'[t] = "killed"
    BY <1>4 DEF Passes, Over
  <2>2. ASSUME program.serves = "message", NEW t \in Servers, pc'[t] = "close"
        PROVE  written[conn[t]] = MESSAGE_LEN
    BY <1>4, <2>2 DEF Passes, Message
  <2> QED BY <1>1, <2>1, <2>2 DEF Message
<1>7. FailsOnlyBecause'
  <2>1. \A t \in Servers : exit_flag[t] => exit_flag'[t]
    BY DEF Passes, LinkTypeOK
  <2> QED BY <1>1, <1>4, <2>1 DEF Passes, FailsOnlyBecause
<1> QED BY <1>2, <1>3, <1>5, <1>6, <1>7

LEMMA QuietSteps ==
    ASSUME TypeOK, LinkInv, NEW s \in Servers,
           \/ start(s) \/ socket_bind(s) \/ start_listening(s) \/ setup_signal_handler(s)
           \/ TestFlag(s) \/ read_size(s) \/ read_word(s) \/ unlink(s)
    PROVE  LinkInv'
<1> USE DEF Goto, netVars, addressVars, linkVars, streamVars, clientVars, history, Network
<1>1. SUFFICES \E p : Passes(s, p)
  BY PassesLinkInv
<1>2. CASE start(s)
  <2>1. Passes(s, "bind")
    BY <1>2 DEF start, Passes, Places, Over, Failures, WithClient
  <2> QED BY <2>1
<1>3. CASE socket_bind(s)
  <2>1. PICK p \in {"bind_failed", "listen", "finish"} :
          /\ pc' = [pc EXCEPT ![s] = p]
          /\ p = "listen" => program.unix \/ program.listens
          /\ p = "finish" => ~program.listens
    <3>1. CASE AddressFree
      BY <1>3, <3>1, Zenon DEF socket_bind
    <3>2. CASE ~AddressFree
      BY <1>3, <3>2, Zenon DEF socket_bind
    <3> QED BY <3>1, <3>2
  <2>2. Passes(s, p)
    BY <1>3, <2>1, ProgramFacts DEF socket_bind, Passes, Places, Serving, Over, Failures, WithClient
  <2> QED BY <2>2
<1>4. CASE start_listening(s)
  <2>1. program.listens
    BY <1>4 DEF start_listening, LinkInv, RunPlaces
  <2>2. PICK p \in {"handler", "listen_failed"} : pc' = [pc EXCEPT ![s] = p]
    BY <1>4 DEF start_listening
  <2>3. Passes(s, p)
    BY <1>4, <2>1, <2>2 DEF start_listening, Passes, Places, Serving, Over, Failures, WithClient
  <2> QED BY <2>3
<1>5. CASE setup_signal_handler(s)
  <2>1. program.listens
    BY <1>5 DEF setup_signal_handler, LinkInv, RunPlaces
  <2>2. Passes(s, "loop")
    BY <1>5, <2>1 DEF setup_signal_handler, Passes, Places, Serving, Over, Failures, WithClient
  <2> QED BY <2>2
<1>6. CASE TestFlag(s)
  <2>1. program.listens
    BY <1>6 DEF TestFlag, LinkInv, RunPlaces
  <2>2. PICK p \in {"finish", "accept"} : pc' = [pc EXCEPT ![s] = p] /\ (p = "finish" => exit_flag[s])
    BY <1>6, Zenon DEF TestFlag
  <2>3. Passes(s, p)
    BY <1>6, <2>1, <2>2 DEF TestFlag, Passes, Places, Serving, Over, Failures, WithClient
  <2> QED BY <2>3
<1>7. CASE read_size(s)
  <2>1. program.serves = "words"
    BY <1>7 DEF read_size, LinkInv, RunPlaces
  <2>2. PICK p \in {"word", "close"} : pc' = [pc EXCEPT ![s] = p]
    BY <1>7 DEF read_size
  <2>3. Passes(s, p)
    BY <1>7, <2>1, <2>2 DEF read_size, Passes, Places, Serving, Over, Failures, WithClient
  <2> QED BY <2>3
<1>8. CASE read_word(s)
  <2>1. program.serves = "words"
    BY <1>8 DEF read_word, LinkInv, RunPlaces
  <2>2. Passes(s, "size")
    BY <1>8, <2>1 DEF read_word, Passes, Places, Serving, Over, Failures, WithClient
  <2> QED BY <2>2
<1>9. CASE unlink(s)
  <2>1. program.listens => exit_flag[s]
    BY <1>9 DEF unlink, LinkInv, FailsOnlyBecause
  <2>2. Passes(s, "exited")
    BY <1>9, <2>1 DEF unlink, Passes, Places, Serving, Over, Failures, WithClient
  <2> QED BY <2>2
<1> QED
  BY <1>2, <1>3, <1>4, <1>5, <1>6, <1>7, <1>8, <1>9

-------------------------------------------------------------------------------
(* The steps that change a connection                                      *)

\* A run that is killed, fails or closes its sockets takes its connections with it.
LEMMA EndProcessLinkInv ==
    ASSUME TypeOK, LinkInv, NEW s \in Running,
           NEW p \in {"unlink", "exited", "accept_failed", "shutdown_failed", "write_failed",
                      "sigpipe", "killed"},
           EndProcess(s, p),
           exit_flag' = exit_flag \/ exit_flag' = [exit_flag EXCEPT ![s] = TRUE],
           p \in {"unlink", "exited"} /\ program.listens => exit_flag'[s],
           p = "accept_failed" => program = setsockopt_server /\ exit_flag'[s],
           p = "shutdown_failed" =>
               program = shutdown_server /\ exit_flag'[s] /\ platform = "bsd",
           p \in {"write_failed", "sigpipe"} =>
               program = listen_accept
               /\ \E c \in Clients : cpc[c] = "killed" /\ got[c] < MESSAGE_LEN,
           program.serves = "message" /\ conn[s] # NoClient =>
               p = "killed" \/ cpc[conn[s]] = "killed"
    PROVE  LinkInv'
<1> USE DEF LinkInv
<1>0. s \in Servers /\ pc[s] \notin Over
  BY DEF Running
<1>1. UNCHANGED <<program, platform, cpc, got, written>>
  BY DEF EndProcess, streamVars, clientVars
<1>2. \A t \in Servers : /\ pc'[t] = IF t = s THEN p ELSE pc[t]
                         /\ conn'[t] = IF t = s THEN NoClient ELSE conn[t]
                         /\ pending'[t] = IF t = s THEN <<>> ELSE pending[t]
  BY <1>0 DEF EndProcess, CloseListener, Goto, TypeOK, LinkTypeOK
<1>3. \A c \in Clients :
        link'[c] = IF \E n \in 1..Len(pending[s]) : pending[s][n] = c THEN "reset"
                   ELSE IF c = conn[s] THEN "fin" ELSE link[c]
  <2>1. pending[s] \in Seq(Clients)
    BY <1>0 DEF LinkTypeOK
  <2>2. Range(pending[s]) = {pending[s][n] : n \in 1..Len(pending[s])}
    BY <2>1 DEF Range
  <2> QED BY <2>2 DEF EndProcess
<1>4. LinkTypeOK'
  <2>1. exit_flag' \in [Servers -> BOOLEAN] /\ conn' \in [Servers -> Clients \cup {NoClient}]
    BY <1>0 DEF EndProcess, LinkTypeOK
  <2>2. pending' \in [Servers -> Seq(Clients)]
    BY <1>0 DEF EndProcess, CloseListener, LinkTypeOK
  <2>3. link' \in [Clients -> {"none", "queued", "accepted", "fin", "reset"}]
    BY DEF EndProcess, LinkTypeOK
  <2> QED BY <1>1, <2>1, <2>2, <2>3 DEF LinkTypeOK
<1>5. OnePlace'
  <2>1. \A t \in Servers : 1..Len(pending'[s]) = {} /\ (t # s => pending'[t] = pending[t])
    BY <1>0, <1>2
  <2>2. \A t \in Servers : pending[t] \in Seq(Clients)
    BY DEF LinkTypeOK
  <2>3. ASSUME NEW t \in Servers, conn'[t] # NoClient PROVE link'[conn'[t]] = "accepted"
    <3>1. t # s /\ conn'[t] = conn[t] /\ conn[t] \in Clients
      BY <1>0, <1>2, <2>3 DEF LinkTypeOK
    <3>2. link[conn[t]] = "accepted" /\ conn[t] # conn[s]
      BY <1>0, <2>3, <3>1 DEF OnePlace
    <3>3. ~ \E n \in 1..Len(pending[s]) : pending[s][n] = conn[t]
      BY <1>0, <3>2 DEF OnePlace
    <3> QED BY <1>3, <3>1, <3>2, <3>3
  <2>4. ASSUME NEW t \in Servers, NEW n \in 1..Len(pending'[t])
        PROVE  link'[pending'[t][n]] = "queued"
    <3>1. t # s /\ pending'[t] = pending[t]
      BY <2>1
    <3>2. link[pending[t][n]] = "queued" /\ pending[t][n] \in Clients
      BY <2>2, <3>1 DEF OnePlace
    <3>3. ~ \E m \in 1..Len(pending[s]) : pending[s][m] = pending[t][n]
      BY <1>0, <3>1 DEF OnePlace
    <3>4. pending[t][n] # conn[s]
      BY <1>0, <3>2 DEF OnePlace, LinkTypeOK
    <3> QED BY <1>3, <3>1, <3>2, <3>3, <3>4
  <2>5. \A t, u \in Servers : conn'[t] # NoClient /\ conn'[t] = conn'[u] => t = u
    BY <1>2 DEF OnePlace
  <2>6. ASSUME NEW t \in Servers, NEW u \in Servers, NEW m \in 1..Len(pending'[t]),
               NEW n \in 1..Len(pending'[u]), pending'[t][m] = pending'[u][n]
        PROVE  t = u /\ m = n
    BY <2>1, <2>6 DEF OnePlace
  <2>7. ASSUME NEW c \in Clients, cpc'[c] = "start" PROVE link'[c] = "none"
    <3>1. link[c] = "none"
      BY <1>1, <2>7 DEF OnePlace
    <3>2. ~ \E n \in 1..Len(pending[s]) : pending[s][n] = c
      BY <1>0, <3>1 DEF OnePlace
    <3>3. c # conn[s]
      BY <1>0, <3>1 DEF OnePlace
    <3> QED BY <1>3, <3>1, <3>2, <3>3
  <2> QED BY <2>3, <2>4, <2>5, <2>6, <2>7 DEF OnePlace
<1>6. RunPlaces'
  BY <1>1, <1>2 DEF RunPlaces, WithClient
<1>7. Message'
  <2>1. (\E t \in Servers : pc[t] = "killed") => \E t \in Servers : pc'[t] = "killed"
    BY <1>0, <1>2 DEF Over
  <2>2. ASSUME program.serves = "message", NEW c \in Clients
        PROVE  /\ cpc[c] = "done" => link'[c] = "fin" /\ got[c] = written[c]
               /\ cpc[c] = "failed" => link'[c] \in {"none", "reset"}
    BY <1>0, <1>3, <2>2 DEF Message, OnePlace
  <2>3. ASSUME program.serves = "message", NEW c \in Clients, link'[c] = "fin"
        PROVE  \/ written[c] = MESSAGE_LEN \/ cpc[c] = "killed"
               \/ \E t \in Servers : pc'[t] = "killed"
    BY <1>0, <1>2, <1>3, <2>1, <2>3 DEF Message
  <2>4. ASSUME program.serves = "message", NEW t \in Servers, pc'[t] = "close"
        PROVE  written[conn'[t]] = MESSAGE_LEN
    BY <1>2, <2>4 DEF Message
  <2> QED BY <1>1, <2>2, <2>3, <2>4 DEF Message
<1>8. FailsOnlyBecause'
  <2>1. \A t \in Servers : exit_flag[t] => exit_flag'[t]
    BY DEF LinkTypeOK
  <2> QED BY <1>1, <1>2, <2>1 DEF FailsOnlyBecause
<1> QED BY <1>4, <1>5, <1>6, <1>7, <1>8

\* The connection at the head of the queue becomes the one that is served.
LEMMA AcceptLinkInv ==
    ASSUME TypeOK, LinkInv, NEW s \in Servers, accept(s)
    PROVE  LinkInv'
<1> USE DEF LinkInv
<1> DEFINE h == Head(pending[s])
<1>1. UNCHANGED <<program, platform, exit_flag, cpc, got, written>>
  BY DEF accept, streamVars, clientVars
<1>2. /\ pending[s] \in Seq(Clients) /\ pending[s] # <<>> /\ 1 \in 1..Len(pending[s])
      /\ h = pending[s][1] /\ h \in Clients /\ h # NoClient
      /\ Len(Tail(pending[s])) = Len(pending[s]) - 1
      /\ \A n \in 1..Len(Tail(pending[s])) :
            n + 1 \in 1..Len(pending[s]) /\ Tail(pending[s])[n] = pending[s][n + 1]
  BY SMTT(30) DEF accept, LinkTypeOK
<1>3. PICK p \in {"size", "write", "close"} :
        /\ pc' = [pc EXCEPT ![s] = p]
        /\ p = "size" => program.serves = "words"
        /\ p = "write" => program.serves = "message"
        /\ p = "close" => program.serves = "nothing"
  BY ProgramFacts DEF accept, Goto
<1>4. \A t \in Servers : /\ pc'[t] = IF t = s THEN p ELSE pc[t]
                         /\ conn'[t] = IF t = s THEN h ELSE conn[t]
                         /\ pending'[t] = IF t = s THEN Tail(pending[t]) ELSE pending[t]
  BY <1>3 DEF accept, TypeOK, LinkTypeOK
<1>5. \A c \in Clients : link'[c] = IF c = h THEN "accepted" ELSE link[c]
  BY DEF accept, LinkTypeOK
<1>6. link[h] = "queued" /\ conn[s] = NoClient /\ program.listens
  BY <1>2 DEF accept, OnePlace, RunPlaces, WithClient
<1>7. LinkTypeOK'
  BY <1>1, <1>2 DEF accept, LinkTypeOK
<1>8. OnePlace'
  <2>1. ASSUME NEW t \in Servers, conn'[t] # NoClient PROVE link'[conn'[t]] = "accepted"
    <3>1. CASE t = s
      BY <1>2, <1>4, <1>5, <3>1
    <3>2. CASE t # s
      BY <1>4, <1>5, <2>1, <3>2 DEF OnePlace, LinkTypeOK
    <3> QED BY <3>1, <3>2
  <2>2. \A t, u \in Servers : conn'[t] # NoClient /\ conn'[t] = conn'[u] => t = u
    BY <1>2, <1>4, <1>6 DEF OnePlace
  <2>3. ASSUME NEW t \in Servers, NEW n \in 1..Len(pending'[t])
        PROVE  \E m \in 1..Len(pending[t]) :
                  /\ pending'[t][n] = pending[t][m] /\ m = IF t = s THEN n + 1 ELSE n
                  /\ pending[t][m] \in Clients /\ pending[t][m] # h
    <3>0. pending[t] \in Seq(Clients)
      BY DEF LinkTypeOK
    <3>1. CASE t = s
      <4>1. pending'[s] = Tail(pending[s]) /\ n \in 1..Len(Tail(pending[s]))
        BY <1>4, <3>1
      <4>2. n + 1 \in 1..Len(pending[s]) /\ pending'[s][n] = pending[s][n + 1] /\ n + 1 # 1
        BY <1>2, <4>1
      <4>3. pending[s][n + 1] # h
        BY <1>2, <4>2 DEF OnePlace
      <4>4. pending[s][n + 1] \in Clients
        BY <1>2, <4>2
      <4> QED BY <3>1, <4>2, <4>3, <4>4
    <3>2. CASE t # s
      <4>1. n \in 1..Len(pending[t]) /\ pending'[t] = pending[t]
        BY <1>4, <3>2
      <4>2. pending[t][n] # h
        BY <1>2, <3>2, <4>1 DEF OnePlace
      <4> QED BY <3>0, <3>2, <4>1, <4>2
    <3> QED BY <3>1, <3>2
  <2>4. ASSUME NEW t \in Servers, NEW n \in 1..Len(pending'[t])
        PROVE  link'[pending'[t][n]] = "queued"
    BY <1>5, <2>3 DEF OnePlace
  <2>5. ASSUME NEW t \in Servers, NEW u \in Servers, NEW m \in 1..Len(pending'[t]),
               NEW n \in 1..Len(pending'[u]), pending'[t][m] = pending'[u][n]
        PROVE  t = u /\ m = n
    <3>1. PICK i \in 1..Len(pending[t]) :
             pending'[t][m] = pending[t][i] /\ i = IF t = s THEN m + 1 ELSE m
      BY <2>3
    <3>2. PICK j \in 1..Len(pending[u]) :
             pending'[u][n] = pending[u][j] /\ j = IF u = s THEN n + 1 ELSE n
      BY <2>3
    <3>3. pending[t][i] = pending[u][j]
      BY <2>5, <3>1, <3>2
    <3>4. t = u /\ i = j
      <4>1. \A v, w \in Servers : \A k \in 1..Len(pending[v]) : \A l \in 1..Len(pending[w]) :
               pending[v][k] = pending[w][l] => v = w /\ k = l
        BY DEF OnePlace
      <4> QED BY <3>3, <4>1, Zenon
    <3> QED BY <3>1, <3>2, <3>4
  <2>6. ASSUME NEW c \in Clients, cpc'[c] = "start" PROVE link'[c] = "none"
    BY <1>1, <1>5, <1>6, <2>6 DEF OnePlace
  <2> QED BY <2>1, <2>2, <2>4, <2>5, <2>6 DEF OnePlace
<1>9. RunPlaces'
  BY <1>1, <1>2, <1>3, <1>4, <1>6 DEF RunPlaces, WithClient
<1>10. Message'
  <2>1. (\E t \in Servers : pc[t] = "killed") => \E t \in Servers : pc'[t] = "killed"
    BY <1>4 DEF accept
  <2>2. ASSUME program.serves = "message", NEW c \in Clients
        PROVE  /\ cpc[c] = "done" => link'[c] = "fin" /\ got[c] = written[c]
               /\ cpc[c] = "failed" => link'[c] \in {"none", "reset"}
               /\ link'[c] = "fin" => link[c] = "fin"
    BY <1>5, <1>6, <2>2 DEF Message
  <2>3. ASSUME program.serves = "message", NEW t \in Servers, pc'[t] = "close"
        PROVE  written[conn'[t]] = MESSAGE_LEN
    BY <1>3, <1>4, <2>3 DEF Message
  <2> QED BY <1>1, <2>1, <2>2, <2>3 DEF Message
<1>11. FailsOnlyBecause'
  BY <1>1, <1>4 DEF FailsOnlyBecause
<1> QED BY <1>7, <1>8, <1>9, <1>10, <1>11

\* handle_connection is done with its client.
LEMMA CloseLinkInv ==
    ASSUME TypeOK, LinkInv, NEW s \in Servers, close_client(s)
    PROVE  LinkInv'
<1> USE DEF LinkInv
<1>1. UNCHANGED <<program, platform, exit_flag, pending, cpc, got, written>>
  BY DEF close_client, streamVars, clientVars, history
<1>2. conn[s] \in Clients /\ conn[s] # NoClient /\ link[conn[s]] = "accepted" /\ program.listens
  BY DEF close_client, LinkTypeOK, RunPlaces, OnePlace, WithClient
<1>3. \A t \in Servers : /\ pc'[t] = IF t = s THEN "loop" ELSE pc[t]
                         /\ conn'[t] = IF t = s THEN NoClient ELSE conn[t]
  BY DEF close_client, Goto, TypeOK, LinkTypeOK
<1>4. \A c \in Clients : link'[c] = IF c = conn[s] THEN "fin" ELSE link[c]
  BY DEF close_client, LinkTypeOK
<1>5. LinkTypeOK'
  BY <1>1 DEF close_client, LinkTypeOK
<1>6. OnePlace'
  <2>1. \A t \in Servers : pending[t] \in Seq(Clients)
    BY DEF LinkTypeOK
  <2>2. ASSUME NEW t \in Servers, NEW n \in 1..Len(pending[t])
        PROVE  link'[pending[t][n]] = "queued"
    BY <1>2, <1>4, <2>1 DEF OnePlace
  <2>3. ASSUME NEW t \in Servers, conn'[t] # NoClient PROVE link'[conn'[t]] = "accepted"
    BY <1>3, <1>4, <2>3 DEF OnePlace, LinkTypeOK
  <2>4. \A t, u \in Servers : conn'[t] # NoClient /\ conn'[t] = conn'[u] => t = u
    BY <1>3 DEF OnePlace
  <2>5. \A c \in Clients : cpc'[c] = "start" => link'[c] = "none"
    BY <1>1, <1>2, <1>4 DEF OnePlace
  <2> QED BY <1>1, <2>2, <2>3, <2>4, <2>5 DEF OnePlace
<1>7. RunPlaces'
  BY <1>1, <1>2, <1>3 DEF RunPlaces, WithClient
<1>8. Message'
  <2>1. (\E t \in Servers : pc[t] = "killed") => \E t \in Servers : pc'[t] = "killed"
    BY <1>3 DEF close_client
  <2>2. ASSUME program.serves = "message", NEW c \in Clients
        PROVE  /\ cpc[c] = "done" => link'[c] = "fin" /\ got[c] = written[c]
               /\ cpc[c] = "failed" => link'[c] \in {"none", "reset"}
               /\ link'[c] = "fin" => link[c] = "fin" \/ written[c] = MESSAGE_LEN
    BY <1>2, <1>4, <2>2 DEF Message, close_client
  <2>3. ASSUME program.serves = "message", NEW t \in Servers, pc'[t] = "close"
        PROVE  written[conn'[t]] = MESSAGE_LEN
    BY <1>3, <2>3 DEF Message
  <2> QED BY <1>1, <2>1, <2>2, <2>3 DEF Message
<1>9. FailsOnlyBecause'
  BY <1>1, <1>3 DEF FailsOnlyBecause
<1> QED BY <1>5, <1>6, <1>7, <1>8, <1>9

\* A run of listen-accept writes a character, is done, or fails because its client was
\* killed: a client that ends by itself has seen the end of the connection first.
LEMMA WriteLinkInv ==
    ASSUME TypeOK, LinkInv, NEW s \in Servers, write(s)
    PROVE  LinkInv'
<1> USE DEF LinkInv
<1> DEFINE c == conn[s]
<1>1. /\ pc[s] = "write" /\ UNCHANGED exit_flag
      /\ c \in Clients /\ c # NoClient /\ link[c] = "accepted" /\ program.serves = "message"
  BY DEF write, LinkTypeOK, RunPlaces, OnePlace, WithClient
<1>2. CASE /\ written[c] < MESSAGE_LEN
           /\ written' = [written EXCEPT ![c] = @ + 1]
           /\ UNCHANGED <<program, addressVars, linkVars, up, clientVars, platform, pc, size>>
  <2>1. UNCHANGED <<program, platform, pc, pending, conn, link, cpc, got>>
    BY <1>2 DEF linkVars, clientVars
  <2>2. \A d \in Clients : written'[d] = IF d = c THEN written[d] + 1 ELSE written[d]
    BY <1>2 DEF LinkTypeOK
  <2>3. LinkTypeOK'
    <3>1. written' \in [Clients -> Nat]
      BY <1>1, <1>2 DEF LinkTypeOK
    <3> QED BY <1>1, <2>1, <3>1 DEF LinkTypeOK
  <2>4. OnePlace'
    BY <2>1, SameLinks
  <2>5. RunPlaces' /\ FailsOnlyBecause'
    BY <1>1, <2>1 DEF RunPlaces, FailsOnlyBecause
  <2>6. Message'
    <3>1. ASSUME NEW d \in Clients PROVE got[d] <= written'[d] /\ written'[d] <= MESSAGE_LEN
      BY <1>1, <1>2, <2>2 DEF Message, LinkTypeOK
    <3>2. ASSUME NEW d \in Clients
          PROVE  /\ cpc[d] = "done" => link[d] = "fin" /\ got[d] = written'[d]
                 /\ link[d] = "fin" => \/ written'[d] = MESSAGE_LEN \/ cpc[d] = "killed"
                                       \/ \E t \in Servers : pc[t] = "killed"
      BY <1>1, <2>2 DEF Message
    <3>3. ASSUME NEW t \in Servers, pc[t] = "close" PROVE written'[conn[t]] = MESSAGE_LEN
      <4>1. conn[t] \in Clients /\ conn[t] # c
        BY <1>1, <3>3 DEF OnePlace, RunPlaces, WithClient, LinkTypeOK
      <4> QED BY <1>1, <2>2, <3>3, <4>1 DEF Message
    <3> QED BY <2>1, <3>1, <3>2, <3>3, <1>1 DEF Message
  <2> QED BY <2>3, <2>4, <2>5, <2>6
<1>3. CASE written[c] = MESSAGE_LEN /\ Goto(s, "close") /\ UNCHANGED <<netVars, platform, size>>
  <2>1. Passes(s, "close")
    BY <1>1, <1>3 DEF Goto, netVars, linkVars, streamVars, clientVars, Network, Passes,
                      Places, Serving, Over, Failures, WithClient
  <2> QED BY <2>1, PassesLinkInv
<1>4. ASSUME written[c] < MESSAGE_LEN, Ended(c),
             NEW p \in {"write_failed", "sigpipe"}, EndProcess(s, p)
      PROVE  LinkInv'
  <2>1. cpc[c] = "killed"
    BY <1>1, <1>4 DEF Ended, Message
  <2>2. got[c] < MESSAGE_LEN
    BY <1>1, <1>4 DEF Message, LinkTypeOK
  <2>3. s \in Running /\ program = listen_accept
    BY <1>1, ProgramFacts DEF Running, Over, Failures
  <2> QED BY <1>1, <1>4, <2>1, <2>2, <2>3, EndProcessLinkInv
<1> QED BY <1>2, <1>3, <1>4 DEF write

LEMMA FinishLinkInv ==
    ASSUME TypeOK, LinkInv, NEW s \in Servers, finish(s)
    PROVE  LinkInv'
<1>1. /\ pc[s] = "finish" /\ UNCHANGED exit_flag /\ conn[s] = NoClient /\ s \in Running
      /\ program.listens => exit_flag[s]
  BY DEF finish, LinkInv, RunPlaces, WithClient, FailsOnlyBecause, Running, Over, Failures
<1>2. PICK p \in {"shutdown_failed", "unlink", "exited"} :
        EndProcess(s, p) /\ (p = "shutdown_failed" => program.shuts /\ platform = "bsd")
  BY Zenon DEF finish
<1> QED BY <1>1, <1>2, ProgramFacts, EndProcessLinkInv

LEMMA KillLinkInv ==
    ASSUME TypeOK, LinkInv, NEW s \in Servers, Kill(s)
    PROVE  LinkInv'
<1>1. s \in Running /\ EndProcess(s, "killed") /\ UNCHANGED exit_flag
  BY DEF Kill
<1> QED BY <1>1, EndProcessLinkInv

LEMMA SigintLinkInv ==
    ASSUME TypeOK, LinkInv, NEW s \in Servers, sigint_handler(s)
    PROVE  LinkInv'
<1> USE DEF Goto, netVars, linkVars, streamVars, clientVars, Network, Places, Serving, Over,
            Failures, WithClient
<1>1. /\ s \in Running /\ program.listens /\ exit_flag' = [exit_flag EXCEPT ![s] = TRUE]
      /\ exit_flag'[s]
  BY DEF sigint_handler, HasHandler, LinkInv, LinkTypeOK
<1>2. pc[s] \in Places \ Over /\ pc[s] \notin {"bind", "listen", "handler"}
  BY <1>1 DEF sigint_handler, HasHandler, Running, TypeOK
<1>3. CASE UNCHANGED <<netVars, platform, pc, size, printed, interrupted>>
  <2>1. Passes(s, pc[s])
    <3>1. pc' = [pc EXCEPT ![s] = pc[s]]
      BY <1>3 DEF TypeOK
    <3>2. pc[s] \in {"size", "word"} => program.serves = "words"
      BY DEF LinkInv, RunPlaces
    <3> QED BY <1>1, <1>2, <1>3, <3>1, <3>2 DEF Passes
  <2> QED BY <2>1, PassesLinkInv
<1>4. CASE Asleep(s) /\ Interrupt(s)
  <2>1. CASE pc[s] = "accept" /\ program.retries
    <3>1. Passes(s, "finish")
      BY <1>1, <1>4, <2>1 DEF Interrupt, Passes
    <3> QED BY <3>1, PassesLinkInv
  <2>2. CASE pc[s] = "accept" /\ ~program.retries
    <3>1. EndProcess(s, "accept_failed") /\ conn[s] = NoClient
      BY <1>4, <2>2 DEF Interrupt, LinkInv, RunPlaces
    <3> QED BY <1>1, <2>2, <3>1, ProgramFacts, EndProcessLinkInv
  <2>3. CASE pc[s] = "size"
    <3>1. program.serves = "words"
      BY <2>3 DEF LinkInv, RunPlaces
    <3>2. Passes(s, "close")
      BY <1>1, <1>4, <2>3, <3>1 DEF Interrupt, Passes
    <3> QED BY <3>2, PassesLinkInv
  <2>4. CASE pc[s] = "word"
    <3>1. program.serves = "words"
      BY <2>4 DEF LinkInv, RunPlaces
    <3>2. Passes(s, "size")
      BY <1>1, <1>4, <2>4, <3>1 DEF Interrupt, Passes
    <3> QED BY <3>2, PassesLinkInv
  <2> QED BY <1>4, <2>1, <2>2, <2>3, <2>4 DEF Interrupt
<1> QED BY <1>3, <1>4 DEF sigint_handler

-------------------------------------------------------------------------------
(* The clients                                                             *)

ServerSide == <<program, platform, pc, exit_flag>>

LEMMA ConnectLinkInv ==
    ASSUME TypeOK, LinkInv, NEW c \in Clients, connect(c), UNCHANGED ServerSide
    PROVE  LinkInv'
<1> USE DEF LinkInv
<1>1. /\ UNCHANGED <<program, platform, pc, exit_flag, conn, got, written>>
      /\ cpc[c] = "start" /\ link[c] = "none" /\ c # NoClient
  BY DEF connect, streamVars, ServerSide, OnePlace
<1>2. (\E d \in Clients : cpc[d] = "killed" /\ got[d] < MESSAGE_LEN) =>
          \E d \in Clients : cpc'[d] = "killed" /\ got'[d] < MESSAGE_LEN
  BY <1>1 DEF connect, LinkTypeOK
<1>3. RunPlaces' /\ FailsOnlyBecause'
  BY <1>1, <1>2 DEF RunPlaces, FailsOnlyBecause
<1>4. CASE cpc' = [cpc EXCEPT ![c] = "failed"] /\ UNCHANGED <<pending, link>>
  <2>1. LinkTypeOK' /\ OnePlace'
    BY <1>1, <1>4, SameLinks DEF LinkTypeOK
  <2>2. Message'
    BY <1>1, <1>4 DEF Message, LinkTypeOK
  <2> QED BY <1>3, <2>1, <2>2
<1>5. ASSUME NEW s \in Reached, pending' = [pending EXCEPT ![s] = Append(@, c)],
             link' = [link EXCEPT ![c] = "queued"], cpc' = [cpc EXCEPT ![c] = "open"]
      PROVE  LinkInv'
  <2>0. s \in Servers
    BY DEF Reached, TypeOK
  <2>1. \A d \in Clients : /\ link'[d] = IF d = c THEN "queued" ELSE link[d]
                           /\ cpc'[d] = IF d = c THEN "open" ELSE cpc[d]
    BY <1>5 DEF LinkTypeOK
  <2>2. LinkTypeOK'
    <3>1. pending' \in [Servers -> Seq(Clients)]
      BY <1>5, <2>0 DEF LinkTypeOK
    <3> QED BY <1>1, <1>5, <3>1 DEF LinkTypeOK
  <2>3. \A t \in Servers : \A n \in 1..Len(pending'[t]) :
           \/ n \in 1..Len(pending[t]) /\ pending'[t][n] = pending[t][n]
              /\ pending[t][n] \in Clients /\ pending[t][n] # c
           \/ t = s /\ n = Len(pending[s]) + 1 /\ pending'[t][n] = c
    <3> SUFFICES ASSUME NEW t \in Servers, NEW n \in 1..Len(pending'[t])
                 PROVE  \/ n \in 1..Len(pending[t]) /\ pending'[t][n] = pending[t][n]
                           /\ pending[t][n] \in Clients /\ pending[t][n] # c
                        \/ t = s /\ n = Len(pending[s]) + 1 /\ pending'[t][n] = c
      OBVIOUS
    <3>1. pending[t] \in Seq(Clients) /\ \A m \in 1..Len(pending[t]) : pending[t][m] # c
      BY <1>1 DEF OnePlace, LinkTypeOK
    <3>2. pending'[t] = IF t = s THEN Append(pending[t], c) ELSE pending[t]
      BY <1>5 DEF LinkTypeOK
    <3> QED BY <3>1, <3>2
  <2>4. OnePlace'
    <3>1. \A t \in Servers : \A n \in 1..Len(pending'[t]) : link'[pending'[t][n]] = "queued"
      BY <2>1, <2>3 DEF OnePlace
    <3>2. ASSUME NEW t \in Servers, NEW u \in Servers, NEW m \in 1..Len(pending'[t]),
                 NEW n \in 1..Len(pending'[u]), pending'[t][m] = pending'[u][n]
          PROVE  t = u /\ m = n
      <4>1. \A v, w \in Servers : \A k \in 1..Len(pending[v]) : \A l \in 1..Len(pending[w]) :
               pending[v][k] = pending[w][l] => v = w /\ k = l
        BY DEF OnePlace
      <4>2. CASE pending'[t][m] = c
        BY <2>3, <3>2, <4>2
      <4>3. CASE pending'[t][m] # c
        <5>1. /\ m \in 1..Len(pending[t]) /\ n \in 1..Len(pending[u])
              /\ pending[t][m] = pending[u][n]
          BY <2>3, <3>2, <4>3
        <5> QED BY <4>1, <5>1, ZenonT(30)
      <4> QED BY <4>2, <4>3
    <3>3. \A t \in Servers : conn[t] # NoClient => link'[conn[t]] = "accepted"
      BY <1>1, <2>1 DEF OnePlace, LinkTypeOK
    <3>4. \A d \in Clients : cpc'[d] = "start" => link'[d] = "none"
      BY <2>1 DEF OnePlace
    <3> QED BY <1>1, <3>1, <3>2, <3>3, <3>4 DEF OnePlace
  <2>5. Message'
    BY <1>1, <2>1 DEF Message
  <2> QED BY <1>3, <2>2, <2>4, <2>5
<1> QED BY <1>4, <1>5 DEF connect

\* A client that is connected reads, goes on or ends, and where it reads a message it
\* ends well only at the end of the connection.
Goes(c, place) ==
    /\ UNCHANGED <<ServerSide, pending, conn, link, written>>
    /\ cpc[c] \in {"open", "shut"} /\ cpc' = [cpc EXCEPT ![c] = place]
    /\ place \in {"open", "shut", "done", "failed", "killed"}
    /\ \/ got' = got
       \/ got[c] < written[c] /\ got' = [got EXCEPT ![c] = @ + 1]
    /\ program.serves = "message" =>
          /\ place = "done" => link[c] = "fin" /\ got'[c] = written[c]
          /\ place = "failed" => link[c] = "reset"

LEMMA GoesLinkInv ==
    ASSUME TypeOK, LinkInv, NEW c \in Clients, NEW place, Goes(c, place)
    PROVE  LinkInv'
<1> USE DEF LinkInv
<1>1. UNCHANGED <<program, platform, pc, exit_flag, pending, conn, link, written>>
  BY DEF Goes, ServerSide
<1>2. /\ got' \in [Clients -> Nat]
      /\ \A d \in Clients : got'[d] <= written[d] /\ (d # c => got'[d] = got[d])
  BY DEF Goes, LinkTypeOK, Message
<1>3. \A d \in Clients : cpc'[d] = IF d = c THEN place ELSE cpc[d]
  BY DEF Goes, LinkTypeOK
<1>4. LinkTypeOK'
  BY <1>1, <1>2 DEF Goes, LinkTypeOK
<1>5. OnePlace'
  BY <1>1, <1>3, SameLinks DEF Goes
<1>6. RunPlaces'
  BY <1>1 DEF RunPlaces
<1>7. Message'
  <2>1. ASSUME program.serves = "message", NEW d \in Clients
        PROVE  /\ cpc'[d] = "done" => link[d] = "fin" /\ got'[d] = written[d]
               /\ cpc'[d] = "failed" => link[d] \in {"none", "reset"}
               /\ cpc[d] = "killed" => cpc'[d] = "killed"
    BY <1>2, <1>3, <2>1 DEF Goes, Message
  <2> QED BY <1>1, <1>2, <2>1 DEF Message
<1>8. FailsOnlyBecause'
  <2>1. \A d \in Clients : cpc[d] = "killed" => cpc'[d] = "killed" /\ got'[d] = got[d]
    BY <1>2, <1>3 DEF Goes
  <2> QED BY <1>1, <2>1 DEF FailsOnlyBecause
<1> QED BY <1>4, <1>5, <1>6, <1>7, <1>8

LEMMA ClientLinkInv ==
    ASSUME TypeOK, LinkInv, NEW c \in Clients, Client(c) \/ KillClient(c), UNCHANGED ServerSide
    PROVE  LinkInv'
<1> USE DEF linkVars, streamVars, ServerSide, LinkInv
<1>1. SUFFICES \E place : Goes(c, place)
  BY GoesLinkInv
<1>2. ASSUME UNCHANGED cpc PROVE cpc' = [cpc EXCEPT ![c] = cpc[c]]
  BY <1>2 DEF LinkTypeOK
<1>3. CASE SendChunk(c)
  <2>1. program.serves # "message"
    BY <1>3, ProgramFacts DEF SendChunk
  <2>2. PICK place \in {"open", "failed", "killed"} : cpc' = [cpc EXCEPT ![c] = place]
    BY <1>2, <1>3 DEF SendChunk
  <2>3. Goes(c, place)
    BY <1>3, <2>1, <2>2 DEF SendChunk, Goes
  <2> QED BY <2>3
<1>4. CASE ReadMessage(c)
  <2>1. CASE got[c] < written[c] /\ got' = [got EXCEPT ![c] = @ + 1] /\ UNCHANGED cpc
    <3>1. Goes(c, "open")
      BY <1>2, <1>4, <2>1 DEF ReadMessage, Goes
    <3> QED BY <3>1
  <2>2. CASE /\ got[c] = written[c] /\ link[c] \in {"fin", "reset"}
             /\ cpc' = [cpc EXCEPT ![c] = IF link[c] = "fin" THEN "done" ELSE "failed"]
             /\ UNCHANGED got
    <3>1. Goes(c, IF link[c] = "fin" THEN "done" ELSE "failed")
      BY <1>4, <2>2 DEF ReadMessage, Goes
    <3> QED BY <3>1
  <2> QED BY <1>4, <2>1, <2>2 DEF ReadMessage
<1>5. CASE shutdown_socket(c)
  <2>1. program.serves # "message"
    BY <1>5, ProgramFacts DEF shutdown_socket
  <2>2. Goes(c, IF link[c] = "reset" THEN "failed" ELSE "shut")
    BY <1>5, <2>1 DEF shutdown_socket, Goes
  <2> QED BY <2>2
<1>6. CASE socket_close(c)
  <2>1. program.serves # "message"
    BY <1>6, ProgramFacts DEF socket_close
  <2>2. Goes(c, "done")
    BY <1>6, <2>1 DEF socket_close, Goes
  <2> QED BY <2>2
<1>7. CASE KillClient(c)
  <2>1. Goes(c, "killed")
    BY <1>7 DEF KillClient, Goes
  <2> QED BY <2>1
<1> QED BY <1>3, <1>4, <1>5, <1>6, <1>7 DEF Client

-------------------------------------------------------------------------------

LEMMA SameLinkInv ==
    ASSUME LinkInv, UNCHANGED <<Network, written, pc, exit_flag>>
    PROVE  LinkInv'
  BY DEF Network, LinkInv, LinkTypeOK, OnePlace, RunPlaces, Message, FailsOnlyBecause

LEMMA NextLinkInv == ASSUME TypeOK, LinkInv, [Next]_vars PROVE LinkInv'
<1>1. CASE UNCHANGED vars
  BY <1>1, SameLinkInv DEF vars, netVars, linkVars, streamVars, clientVars, runVars, Network
<1>2. ASSUME NEW s \in Servers, start(s) \/ Server(s) \/ sigint_handler(s) \/ Kill(s)
      PROVE  LinkInv'
  BY <1>2, QuietSteps, AcceptLinkInv, WriteLinkInv, CloseLinkInv, FinishLinkInv, SigintLinkInv,
     KillLinkInv DEF Server
<1>3. ASSUME NEW c \in Clients, connect(c) \/ Client(c) \/ KillClient(c), UNCHANGED ServerSide
      PROVE  LinkInv'
  BY <1>3, ConnectLinkInv, ClientLinkInv
<1>4. CASE TimeWaitEnds /\ UNCHANGED serverVars
  BY <1>4, SameLinkInv DEF TimeWaitEnds, serverVars, linkVars, streamVars, clientVars, runVars,
                           Network
<1> QED
  <2>1. ASSUME NEW c \in Clients, connect(c) \/ Client(c) \/ KillClient(c),
               UNCHANGED <<platform, runVars>>
        PROVE  UNCHANGED ServerSide
    BY <2>1 DEF connect, Client, SendChunk, ReadMessage, shutdown_socket, socket_close,
                KillClient, runVars, ServerSide
  <2> QED BY <1>1, <1>2, <1>3, <1>4, <2>1 DEF Next, serverVars

LEMMA LinkInvInvariant == Spec => [](TypeOK /\ LinkInv)
<1>1. IInv => TypeOK
  BY DEF IInv
<1> QED BY <1>1, InitIInv, NextIInv, InitLinkInv, NextLinkInv, PTL DEF Spec

\* A run that listens ends only because of SIGINT or a kill, except that listen-accept
\* fails when a client was killed before its message was complete; SIGINT is an orderly
\* end but for setsockopt and for tcp/shutdown on BSD.
THEOREM OnlyTheUserStopsARun == Spec => []FailsOnlyBecause
<1>1. LinkInv => FailsOnlyBecause
  BY DEF LinkInv
<1> QED BY <1>1, LinkInvInvariant, PTL

\* A client of listen-accept that ends with success has had the whole message, unless a
\* run of the server was killed: its handle_connection writes all of it, one character
\* a time, before it closes, and the client reads to the end of the connection.
THEOREM SuccessIsTheWholeMessage == Spec => []MessageArrives
<1>1. LinkInv => MessageArrives
  BY DEF LinkInv, Message, MessageArrives
<1> QED BY <1>1, LinkInvInvariant, PTL

-------------------------------------------------------------------------------
(* Sequences                                                               *)

LEMMA LeastNumber ==
    ASSUME NEW S \in SUBSET Nat, S # {}
    PROVE  Min(S) \in S /\ \A n \in S : Min(S) <= n
<1>1. PICK m \in S : \A n \in S : ~(<<n, m>> \in OpToRel(<, Nat))
  BY NatLessThanWellFounded, WFMin, Zenon
<1>2. \A n \in S : ~(n < m)
  BY <1>1, Zenon DEF OpToRel
<1>3. \A n \in S : m <= n
  BY <1>2
<1> QED BY <1>3, Zenon DEF Min

LEMMA HeadOfStream ==
    ASSUME NEW n \in Nat, NEW t \in Seq(Nat), NEW s, s = <<n>> \o t
    PROVE  s # <<>> /\ Head(s) = n /\ Tail(s) = t
  OBVIOUS

LEMMA FrontOfStream ==
    ASSUME NEW w \in Seq(Nat), NEW t \in Seq(Nat)
    PROVE  /\ Len(w \o t) \in Nat /\ Len(w) \in Nat /\ Len(w) <= Len(w \o t)
           /\ SubSeq(w \o t, 1, Len(w)) = w /\ SubSeq(w \o t, Len(w) + 1, Len(w \o t)) = t
  BY ConcatProperties, SubSeqOfConcat1, SubSeqOfConcat2, SubSeqFull, LenProperties

LEMMA JoinedThree ==
    \A x, y, b \in Seq(Nat) : (x \o y) \o b = x \o (y \o b)
  BY ConcatAssociative

LEMMA FrontEqual ==
    ASSUME NEW a \in Seq(Seq(Int)), NEW b \in Seq(Seq(Int)), NEW p \in Nat,
           Len(a) = p, p <= Len(b), \A n \in 1..p : a[n] = b[n]
    PROVE  a = SubSeq(b, 1, p)
<1>1. Len(b) \in Nat /\ \A n \in 1..p : b[n] \in Seq(Int)
  BY LenProperties, ElementOfSeq
<1>2. PICK d : d = SubSeq(b, 1, p)
  OBVIOUS
<1>3. d \in Seq(Seq(Int)) /\ Len(d) = p /\ \A n \in 1..p : d[n] = b[n]
  BY <1>1, <1>2, SubSeqProperties
<1>4. \A n \in 1..p : a[n] = d[n]
  BY <1>3
<1>5. a = d
  BY <1>3, <1>4, SeqEqual
<1> QED BY <1>2, <1>5

LEMMA NothingRead ==
    ASSUME NEW w \in Seq(Nat)
    PROVE  w \o [k \in 1..(Len(w) - Len(w)) |-> Junk] = w
<1>1. 1..(Len(w) - Len(w)) = {}
  BY LenProperties
<1>2. [k \in 1..(Len(w) - Len(w)) |-> Junk] = <<>>
  BY <1>1
<1> QED BY <1>2, ConcatEmptySeq

LEMMA FileOfWords ==
    ASSUME Init, NEW c \in Clients
    PROVE  file[c] \in Seq(Seq(Nat) \ {<<>>})
<1> DEFINE T == Seq(1..UINT8_MAX) \ {<<>>}
           U == Seq(Nat) \ {<<>>}
<1>1. file[c] \in Seq(T)
  <2>1. CASE file \in Files
    BY <2>1, StreamClientsAssumption DEF StreamClientsAssumption
  <2>2. CASE file = [d \in Clients |-> <<>>]
    BY <2>2, EmptySeq
  <2> QED BY <2>1, <2>2 DEF Init, NetInit
<1>2. T \subseteq U
  <2>1. 1..UINT8_MAX \subseteq Nat
    OBVIOUS
  <2>2. Seq(1..UINT8_MAX) \subseteq Seq(Nat)
    BY <2>1, SeqMonotonic
  <2> QED BY <2>2
<1> HIDE DEF T, U
<1>3. Seq(T) \subseteq Seq(U)
  BY <1>2, SeqMonotonic
<1>4. file[c] \in Seq(U)
  BY <1>1, <1>3
<1> QED BY <1>4 DEF U

-------------------------------------------------------------------------------
(* The words on their way to a word server                                 *)

\* Chunk 2n-1 of what a client sends is the length of word n, chunk 2n its characters.
Chunk(c, n) == IF n % 2 = 1 THEN <<Len(file[c][n \div 2 + 1])>> ELSE file[c][n \div 2]

LEMMA ChunkOf ==
    ASSUME NEW c, NEW w \in Nat
    PROVE  /\ Chunk(c, 2 * w + 1) = <<Len(file[c][w + 1])>>
           /\ Chunk(c, 2 * w + 2) = file[c][w + 1]
<1>1. (2 * w + 1) % 2 = 1 /\ (2 * w + 1) \div 2 = w /\ (2 * w + 2) % 2 = 0
      /\ (2 * w + 2) \div 2 = w + 1
  OBVIOUS
<1> QED BY <1>1 DEF Chunk

LEMMA Halves ==
    ASSUME NEW n \in Nat
    PROVE  \E w \in Nat : /\ n = 2 * w + (n % 2) /\ n % 2 \in {0, 1} /\ n \div 2 = w
<1>1. n \div 2 \in Nat /\ n = 2 * (n \div 2) + (n % 2) /\ n % 2 \in {0, 1}
  OBVIOUS
<1> QED BY <1>1

StreamTypes ==
    /\ \A c \in Clients : file[c] \in Seq(Seq(Nat) \ {<<>>})
    /\ sent \in [Clients -> Nat] /\ up \in [Clients -> Seq(Nat)]
    /\ printed \in [Clients -> Seq(Seq(Int))] /\ size \in [Servers -> Nat]

\* No word that is too long is sent.
Sending(c) ==
    /\ sent[c] <= 2 * Len(file[c])
    /\ \A n \in 1..Len(file[c]) : 2 * n <= sent[c] + 1 => Len(file[c][n]) <= UINT8_MAX

\* The server has taken a chunks; T[n] is what follows the first n.
Behind(c, a, T) ==
    /\ a \in 0..sent[c] /\ T \in [Nat -> Seq(Nat)]
    /\ T[a] = up[c] /\ T[sent[c]] = <<>>
    /\ \A n \in a..(sent[c] - 1) : T[n] = Chunk(c, n + 1) \o T[n + 1]

\* The server has printed words of the file and has taken the length of one more (r = 1).
InStep(c, r, T) ==
    /\ r \in {0, 1} /\ Behind(c, 2 * Len(printed[c]) + r, T)
    /\ \A n \in 1..Len(printed[c]) : printed[c][n] = file[c][n]
    /\ link[c] \in {"none", "queued"} => printed[c] = <<>> /\ r = 0
    /\ \A s \in Servers : conn[s] = c =>
          /\ pc[s] = "size" => r = 0
          /\ pc[s] = "word" => r = 1 /\ size[s] = Len(file[c][Len(printed[c]) + 1])

\* The client has ended between a length and its word, and a line was printed for it.
CutShort(c) ==
    /\ Ended(c) /\ sent[c] % 2 = 1 /\ up[c] = <<>>
    /\ printed[c] = SubSeq(file[c], 1, sent[c] \div 2) \o <<[k \in 1..Len(NextWord(c)) |-> Junk]>>
    /\ link[c] \notin {"none", "queued"}
    /\ \A s \in Servers : conn[s] = c => pc[s] # "word"

ClientInv(c) == /\ Sending(c)
                /\ c \in interrupted \/ (\E r, T : InStep(c, r, T)) \/ CutShort(c)

StreamInv == StreamTypes /\ \A c \in Clients : ClientInv(c)

LEMMA InitStreamInv == Init => StreamInv
<1> SUFFICES ASSUME Init PROVE StreamInv
  OBVIOUS
<1>1. StreamTypes
  <2>1. \A c \in Clients : file[c] \in Seq(Seq(Nat) \ {<<>>})
    BY FileOfWords
  <2>2. sent \in [Clients -> Nat] /\ up \in [Clients -> Seq(Nat)]
        /\ printed \in [Clients -> Seq(Seq(Int))] /\ size \in [Servers -> Nat]
    BY EmptySeq DEF Init, NetInit
  <2> QED BY <2>1, <2>2 DEF StreamTypes
<1>2. ASSUME NEW c \in Clients PROVE ClientInv(c)
  <2>1. Len(file[c]) \in Nat /\ sent[c] = 0 /\ printed[c] = <<>> /\ up[c] = <<>>
    BY <1>1, LenProperties DEF StreamTypes, Init, NetInit
  <2>2. Sending(c)
    BY <2>1 DEF Sending
  <2>3. PICK T : T = [n \in Nat |-> <<>>]
    OBVIOUS
  <2>4. Behind(c, 0, T)
    <3>1. T \in [Nat -> Seq(Nat)] /\ T[0] = <<>>
      BY <2>3
    <3>2. 0..(0 - 1) = {}
      OBVIOUS
    <3> QED BY <2>1, <3>1, <3>2 DEF Behind
  <2>5. InStep(c, 0, T)
    BY <2>1, <2>4 DEF InStep, Init, NetInit
  <2> QED BY <2>2, <2>5 DEF ClientInv
<1> QED BY <1>1, <1>2 DEF StreamInv

-------------------------------------------------------------------------------
\* What leaves a client's stream alone; a server may begin to serve it.
Keeps(c) ==
    /\ UNCHANGED file /\ sent'[c] = sent[c] /\ up'[c] = up[c] /\ printed'[c] = printed[c]
    /\ c \in interrupted => c \in interrupted'
    /\ Ended(c) => Ended(c)'
    /\ link'[c] \in {"none", "queued"} => link[c] \in {"none", "queued"}
    /\ \A s \in Servers : conn'[s] = c /\ pc'[s] \in {"size", "word"} =>
          \/ conn[s] = c /\ pc[s] = pc'[s] /\ size'[s] = size[s]
          \/ pc'[s] = "size" /\ link[c] = "queued"

LEMMA KeepsClientInv ==
    ASSUME NEW c \in Clients, ClientInv(c), Keeps(c)
    PROVE  ClientInv(c)'
<1>1. Sending(c)'
  BY DEF ClientInv, Sending, Keeps
<1>2. ASSUME c \in interrupted PROVE ClientInv(c)'
  BY <1>1, <1>2 DEF ClientInv, Keeps
<1>3. ASSUME NEW r, NEW T, InStep(c, r, T) PROVE ClientInv(c)'
  <2>1. Behind(c, 2 * Len(printed[c]) + r, T)'
    BY <1>3 DEF InStep, Behind, Keeps, Chunk
  <2>2. InStep(c, r, T)'
    <3>1. ASSUME NEW s \in Servers, conn'[s] = c
          PROVE  /\ pc'[s] = "size" => r = 0
                 /\ pc'[s] = "word" => r = 1 /\ size'[s] = Len(file[c][Len(printed[c]) + 1])
      BY <1>3, <3>1 DEF InStep, Keeps
    <3> QED BY <1>3, <2>1, <3>1 DEF InStep, Keeps
  <2> QED BY <1>1, <2>2 DEF ClientInv
<1>4. ASSUME CutShort(c) PROVE ClientInv(c)'
  <2>1. CutShort(c)'
    BY <1>4 DEF CutShort, Keeps, NextWord
  <2> QED BY <1>1, <2>1 DEF ClientInv
<1> QED BY <1>2, <1>3, <1>4 DEF ClientInv

\* A step that touches no stream.
Still == UNCHANGED <<file, sent, up, printed, size, interrupted>>

LEMMA StillStreamInv ==
    ASSUME StreamInv, Still, \A c \in Clients : Keeps(c)
    PROVE  StreamInv'
<1>1. StreamTypes'
  BY DEF StreamInv, StreamTypes, Still
<1> QED BY <1>1, KeepsClientInv DEF StreamInv

LEMMA SameRuns ==
    ASSUME Still, UNCHANGED <<conn, pc>>, \A c \in Clients : Ended(c) => Ended(c)',
           \A c \in Clients : link'[c] \in {"none", "queued"} => link[c] \in {"none", "queued"}
    PROVE  \A c \in Clients : Keeps(c)
  BY DEF Still, Keeps

\* A run goes on with the connection it has, or without one.
LEMMA MovedRun ==
    ASSUME TypeOK, Still, UNCHANGED <<conn, cpc, link>>, NEW s \in Servers,
           NEW p, p \notin {"size", "word"}, pc' = [pc EXCEPT ![s] = p]
    PROVE  \A c \in Clients : Keeps(c)
  BY DEF TypeOK, Still, Keeps, Ended

\* A run gives its connection up.
LEMMA LeftRun ==
    ASSUME TypeOK, LinkTypeOK, Still, UNCHANGED cpc, NEW s \in Servers, NEW p,
           pc' = [pc EXCEPT ![s] = p], conn' = [conn EXCEPT ![s] = NoClient],
           \A c \in Clients : link'[c] \in {"none", "queued"} => link[c] \in {"none", "queued"}
    PROVE  \A c \in Clients : Keeps(c)
<1> SUFFICES ASSUME NEW c \in Clients PROVE Keeps(c)
  OBVIOUS
<1>1. c # NoClient
  BY StreamClientsAssumption DEF StreamClientsAssumption
<1>2. \A t \in Servers : conn'[t] = c => t # s /\ conn[t] = c /\ pc'[t] = pc[t]
  BY <1>1 DEF TypeOK, LinkTypeOK
<1> QED BY <1>2 DEF Still, Keeps, Ended

LEMMA EndProcessStill ==
    ASSUME TypeOK, LinkTypeOK, NEW s \in Servers, NEW p, EndProcess(s, p),
           UNCHANGED <<printed, interrupted>>
    PROVE  Still /\ \A c \in Clients : Keeps(c)
<1>1. Still /\ UNCHANGED cpc
  BY DEF EndProcess, streamVars, clientVars, Still
<1>2. \A c \in Clients : link'[c] \in {"none", "queued"} => link[c] \in {"none", "queued"}
  BY DEF EndProcess
<1>3. pc' = [pc EXCEPT ![s] = p] /\ conn' = [conn EXCEPT ![s] = NoClient]
  BY DEF EndProcess, Goto
<1> QED BY <1>1, <1>2, <1>3, LeftRun

LEMMA AcceptStill ==
    ASSUME TypeOK, LinkInv, NEW s \in Servers, accept(s)
    PROVE  Still /\ \A c \in Clients : Keeps(c)
<1>1. Still /\ UNCHANGED cpc
  BY DEF accept, streamVars, clientVars, history, Still
<1>2. PICK h : h = Head(pending[s])
  OBVIOUS
<1>3. h \in Clients /\ link[h] = "queued"
  <2>1. pending[s] \in Seq(Clients) /\ pending[s] # <<>>
    BY DEF accept, LinkInv, LinkTypeOK
  <2>2. 1 \in 1..Len(pending[s]) /\ h = pending[s][1]
    BY <1>2, <2>1
  <2> QED BY <2>1, <2>2 DEF LinkInv, OnePlace
<1>4. /\ conn' = [conn EXCEPT ![s] = h] /\ link' = [link EXCEPT ![h] = "accepted"]
      /\ \E p \in {"size", "write", "close"} : pc' = [pc EXCEPT ![s] = p]
  BY <1>2, ProgramFacts DEF accept, Goto
<1> SUFFICES ASSUME NEW c \in Clients PROVE Keeps(c)
  BY <1>1
<1>5. ASSUME NEW t \in Servers, conn'[t] = c, pc'[t] \in {"size", "word"}
      PROVE  \/ conn[t] = c /\ pc[t] = pc'[t] /\ size'[t] = size[t]
             \/ pc'[t] = "size" /\ link[c] = "queued"
  BY <1>1, <1>3, <1>4, <1>5 DEF TypeOK, LinkInv, LinkTypeOK, Still
<1>6. link'[c] \in {"none", "queued"} => link[c] \in {"none", "queued"}
  BY <1>3, <1>4 DEF LinkInv, LinkTypeOK
<1> QED BY <1>1, <1>5, <1>6 DEF Still, Keeps, Ended

\* The steps of a run that print nothing and take nothing from a stream.
LEMMA ServerStill ==
    ASSUME TypeOK, LinkInv, NEW s \in Servers,
           \/ start(s) \/ socket_bind(s) \/ start_listening(s) \/ setup_signal_handler(s)
           \/ TestFlag(s) \/ write(s) \/ close_client(s) \/ finish(s) \/ unlink(s) \/ Kill(s)
    PROVE  Still /\ \A c \in Clients : Keeps(c)
<1> USE DEF Goto, netVars, addressVars, linkVars, streamVars, clientVars, history
<1>1. CASE start(s) \/ setup_signal_handler(s) \/ TestFlag(s) \/ unlink(s)
  <2>1. Still /\ UNCHANGED <<conn, cpc, link>>
    BY <1>1 DEF start, setup_signal_handler, TestFlag, unlink, Still
  <2>2. PICK p \in {"bind", "loop", "finish", "accept", "exited"} : pc' = [pc EXCEPT ![s] = p]
    BY <1>1 DEF start, setup_signal_handler, TestFlag, unlink
  <2> QED BY <2>1, <2>2, MovedRun
<1>2. CASE socket_bind(s)
  <2>1. Still /\ UNCHANGED <<conn, cpc, link>>
    BY <1>2 DEF socket_bind, Still
  <2>2. PICK p \in {"bind_failed", "listen", "finish"} : pc' = [pc EXCEPT ![s] = p]
    BY <1>2 DEF socket_bind
  <2> QED BY <2>1, <2>2, MovedRun
<1>3. CASE start_listening(s)
  <2>1. Still /\ UNCHANGED <<conn, cpc, link>>
    BY <1>3 DEF start_listening, Still
  <2>2. PICK p \in {"handler", "listen_failed"} : pc' = [pc EXCEPT ![s] = p]
    BY <1>3 DEF start_listening
  <2> QED BY <2>1, <2>2, MovedRun
<1>4. CASE write(s)
  <2>1. CASE UNCHANGED <<program, addressVars, linkVars, up, clientVars, platform, pc, size>>
    <3>1. Still /\ UNCHANGED <<conn, pc, cpc, link>>
      BY <1>4, <2>1 DEF write, Still
    <3> QED BY <3>1, SameRuns DEF Ended
  <2>2. CASE Goto(s, "close") /\ UNCHANGED <<netVars, platform, size>>
    <3>1. Still /\ UNCHANGED <<conn, cpc, link>> /\ pc' = [pc EXCEPT ![s] = "close"]
      BY <1>4, <2>2 DEF write, Still
    <3> QED BY <3>1, MovedRun
  <2>3. ASSUME NEW p, EndProcess(s, p) PROVE Still /\ \A c \in Clients : Keeps(c)
    BY <1>4, <2>3, EndProcessStill DEF write, LinkInv
  <2> QED BY <1>4, <2>1, <2>2, <2>3 DEF write
<1>5. CASE close_client(s)
  <2>1. Still /\ UNCHANGED cpc /\ pc' = [pc EXCEPT ![s] = "loop"]
        /\ conn' = [conn EXCEPT ![s] = NoClient] /\ link' = [link EXCEPT ![conn[s]] = "fin"]
    BY <1>5 DEF close_client, Still
  <2>2. \A c \in Clients : link'[c] \in {"none", "queued"} => link[c] \in {"none", "queued"}
    BY <2>1 DEF LinkInv, LinkTypeOK
  <2> QED BY <2>1, <2>2, LeftRun DEF LinkInv
<1>6. CASE finish(s) \/ Kill(s)
  <2>1. PICK p : EndProcess(s, p)
    BY <1>6 DEF finish, Kill
  <2> QED BY <1>6, <2>1, EndProcessStill DEF finish, Kill, LinkInv
<1> QED BY <1>1, <1>2, <1>3, <1>4, <1>5, <1>6

\* What a run does with its client's stream leaves the other clients' alone.
LEMMA OthersKeep ==
    ASSUME TypeOK, LinkInv, StreamTypes, NEW s \in Servers, NEW c \in Clients, conn[s] = c,
           UNCHANGED <<file, sent, conn, cpc, link>>,
           NEW p, pc' = [pc EXCEPT ![s] = p],
           size' = size \/ \E n : size' = [size EXCEPT ![s] = n],
           up' = up \/ \E b : up' = [up EXCEPT ![c] = b],
           printed' = printed \/ \E l : printed' = [printed EXCEPT ![c] = l],
           interrupted \subseteq interrupted'
    PROVE  \A d \in Clients : d # c => Keeps(d)
<1> SUFFICES ASSUME NEW d \in Clients, d # c PROVE Keeps(d)
  OBVIOUS
<1>1. up'[d] = up[d] /\ printed'[d] = printed[d]
  BY DEF StreamTypes
<1>2. \A t \in Servers : conn[t] = d => t # s /\ pc'[t] = pc[t] /\ size'[t] = size[t]
  BY DEF TypeOK, StreamTypes
<1> QED BY <1>1, <1>2 DEF Keeps, Ended

\* The only run that serves a client.
LEMMA OneServer ==
    ASSUME LinkInv, NEW s \in Servers, NEW c \in Clients, conn[s] = c,
           NEW t \in Servers, conn[t] = c
    PROVE  t = s
<1>1. c # NoClient
  BY StreamClientsAssumption DEF StreamClientsAssumption
<1> QED BY <1>1 DEF LinkInv, OnePlace

LEMMA ServedClient ==
    ASSUME LinkInv, NEW s \in Servers, pc[s] \in {"size", "word"}
    PROVE  conn[s] \in Clients /\ link[conn[s]] = "accepted"
  BY DEF LinkInv, RunPlaces, WithClient, LinkTypeOK, OnePlace

\* The types of what InStep speaks of.
LEMMA StepTypes ==
    ASSUME StreamTypes, NEW c \in Clients, Sending(c), NEW r, NEW T, InStep(c, r, T)
    PROVE  /\ Len(printed[c]) \in Nat /\ Len(file[c]) \in Nat /\ sent[c] \in Nat /\ r \in {0, 1}
           /\ 2 * Len(printed[c]) + r <= sent[c] /\ sent[c] <= 2 * Len(file[c])
           /\ \A n \in 1..Len(file[c]) :
                 file[c][n] \in Seq(Nat) /\ file[c][n] # <<>> /\ Len(file[c][n]) \in Nat
           /\ T \in [Nat -> Seq(Nat)]
<1>1. printed[c] \in Seq(Seq(Int)) /\ file[c] \in Seq(Seq(Nat) \ {<<>>}) /\ sent[c] \in Nat
  BY DEF StreamTypes
<1>2. Len(printed[c]) \in Nat /\ Len(file[c]) \in Nat
  BY <1>1, LenProperties
<1>3. ASSUME NEW n \in 1..Len(file[c])
      PROVE  file[c][n] \in Seq(Nat) /\ file[c][n] # <<>> /\ Len(file[c][n]) \in Nat
  <2>1. file[c][n] \in Seq(Nat) \ {<<>>}
    BY <1>1, ElementOfSeq
  <2> QED BY <2>1, LenProperties
<1> QED BY <1>1, <1>2, <1>3 DEF InStep, Behind, Sending

\* A length byte is taken: it is that of the next word.
LEMMA ReadSizeClient ==
    ASSUME TypeOK, LinkInv, StreamInv, NEW s \in Servers, NEW c, c = conn[s], pc[s] = "size",
           up[c] # <<>>, size' = [size EXCEPT ![s] = Head(up[c])],
           up' = [up EXCEPT ![c] = Tail(@)], pc' = [pc EXCEPT ![s] = "word"],
           UNCHANGED <<file, sent, conn, cpc, link, printed, interrupted>>
    PROVE  ClientInv(c)'
<1>1. c \in Clients /\ link[c] = "accepted" /\ StreamTypes /\ ClientInv(c) /\ Sending(c)
  BY ServedClient DEF StreamInv, ClientInv
<1>2. Sending(c)'
  BY <1>1 DEF Sending
<1>3. ~CutShort(c)
  BY DEF CutShort
<1>4. CASE c \in interrupted
  BY <1>2, <1>4 DEF ClientInv
<1>5. ASSUME NEW r, NEW T, InStep(c, r, T) PROVE ClientInv(c)'
  <2>1. /\ Len(printed[c]) \in Nat /\ Len(file[c]) \in Nat /\ sent[c] \in Nat
        /\ sent[c] <= 2 * Len(file[c]) /\ T \in [Nat -> Seq(Nat)]
        /\ \A n \in 1..Len(file[c]) : Len(file[c][n]) \in Nat
    BY <1>1, <1>5, StepTypes
  <2>2. r = 0
    BY <1>1, <1>5 DEF InStep
  <2>3. PICK p, m : p = Len(printed[c]) /\ m = sent[c]
    OBVIOUS
  <2>4. /\ Behind(c, 2 * p, T) /\ p \in Nat /\ m \in Nat /\ 2 * p \in 0..m
        /\ 2 * p \in Nat
    <3>1. p \in Nat /\ m \in Nat /\ 2 * p \in Nat /\ 2 * p + 0 = 2 * p
      BY <2>1, <2>3
    <3>2. Behind(c, 2 * p, T)
      BY <1>5, <2>2, <2>3, <3>1 DEF InStep
    <3> QED BY <2>3, <3>1, <3>2 DEF Behind
  <2>5. 2 * p # m
    BY <2>3, <2>4 DEF Behind
  <2>6. 2 * p \in (2 * p)..(m - 1) /\ 2 * p + 1 \in 0..m /\ p + 1 \in 1..Len(file[c])
        /\ 2 * p + 1 \in Nat
    <3>1. PICK f : f = Len(file[c])
      OBVIOUS
    <3>2. f \in Nat /\ m <= 2 * f /\ 2 * p < m
      <4>1. f \in Nat /\ m <= 2 * f
        BY <2>1, <2>3, <3>1
      <4>2. 2 * p \in Nat /\ m \in Nat /\ 2 * p <= m
        BY <2>4
      <4> QED BY <2>5, <4>1, <4>2
    <3>3. 2 * p <= m - 1 /\ 2 * p + 1 <= m /\ p + 1 <= f
      BY <2>4, <3>2
    <3> QED BY <2>4, <3>1, <3>2, <3>3
  <2>7. up[c] = <<Len(file[c][p + 1])>> \o T[2 * p + 1]
    <3>1. T[2 * p] = Chunk(c, 2 * p + 1) \o T[2 * p + 1]
      BY <2>3, <2>4, <2>6 DEF Behind
    <3> QED BY <2>4, <3>1, ChunkOf DEF Behind
  <2>8. Head(up[c]) = Len(file[c][p + 1]) /\ Tail(up[c]) = T[2 * p + 1]
    <3>1. T[2 * p + 1] \in Seq(Nat) /\ Len(file[c][p + 1]) \in Nat
      BY <2>1, <2>6
    <3>2. PICK n, t : n = Len(file[c][p + 1]) /\ t = T[2 * p + 1]
      OBVIOUS
    <3>3. n \in Nat /\ t \in Seq(Nat) /\ up[c] = <<n>> \o t
      BY <2>7, <3>1, <3>2
    <3>4. Head(up[c]) = n /\ Tail(up[c]) = t
      BY <3>3, HeadOfStream
    <3> QED BY <3>2, <3>4
  <2>9. size'[s] = Len(file[c][p + 1]) /\ up'[c] = T[2 * p + 1]
    BY <1>1, <2>8 DEF StreamTypes
  <2>10. Behind(c, 2 * p + 1, T)'
    <3>1. \A n \in (2 * p + 1)..(m - 1) : n \in (2 * p)..(m - 1)
      BY <2>4
    <3>2. \A n : Chunk(c, n)' = Chunk(c, n)
      BY DEF Chunk
    <3>3. \A n \in (2 * p + 1)..(m - 1) : T[n] = Chunk(c, n + 1) \o T[n + 1]
      BY <2>3, <2>4, <3>1 DEF Behind
    <3>4. sent'[c] = m /\ T[sent'[c]] = <<>>
      BY <2>3, <2>4 DEF Behind
    <3>5. \A n \in (2 * p + 1)..(sent'[c] - 1) : T[n] = Chunk(c, n + 1)' \o T[n + 1]
      BY <3>2, <3>3, <3>4
    <3> QED BY <2>1, <2>6, <2>9, <3>4, <3>5 DEF Behind
  <2>11. InStep(c, 1, T)'
    <3>1. \A t \in Servers : conn[t] = c => t = s
      BY <1>1, OneServer
    <3> QED BY <1>1, <1>5, <2>3, <2>9, <2>10, <3>1 DEF InStep, TypeOK
  <2> QED BY <1>2, <2>11 DEF ClientInv
<1> QED BY <1>1, <1>3, <1>4, <1>5 DEF ClientInv

LEMMA ReadSizeStreamInv ==
    ASSUME TypeOK, LinkInv, StreamInv, NEW s \in Servers, read_size(s)
    PROVE  StreamInv'
<1> USE DEF Goto, addressVars, linkVars, clientVars, history
<1>1. PICK c : c = conn[s]
  OBVIOUS
<1>2. /\ pc[s] = "size" /\ UNCHANGED <<file, sent, conn, cpc, link, printed, interrupted>>
      /\ c \in Clients /\ StreamTypes
  BY <1>1, ServedClient DEF read_size, StreamInv
<1>3. CASE up[c] # <<>>
  <2>1. /\ size' = [size EXCEPT ![s] = Head(up[c])] /\ up' = [up EXCEPT ![c] = Tail(@)]
        /\ pc' = [pc EXCEPT ![s] = "word"]
    BY <1>1, <1>3 DEF read_size
  <2>2. up[c] \in Seq(Nat) /\ Head(up[c]) \in Nat /\ Tail(up[c]) \in Seq(Nat)
    BY <1>2, <1>3, HeadTailProperties DEF StreamTypes
  <2>3. StreamTypes'
    BY <1>2, <2>1, <2>2 DEF StreamTypes
  <2>4. ClientInv(c)'
    BY <1>1, <1>2, <1>3, <2>1, ReadSizeClient
  <2>5. \A d \in Clients : d # c => Keeps(d)
    BY <1>1, <1>2, <2>1, OthersKeep
  <2> QED BY <2>3, <2>4, <2>5, KeepsClientInv DEF StreamInv
<1>4. CASE up[c] = <<>>
  <2>1. Still /\ UNCHANGED <<conn, cpc, link>> /\ pc' = [pc EXCEPT ![s] = "close"]
    BY <1>1, <1>4 DEF read_size, Still
  <2> QED BY <2>1, MovedRun, StillStreamInv
<1> QED BY <1>3, <1>4

\* The characters are there, whole: the line is the next word of the file.
LEMMA ReadWordThere ==
    ASSUME TypeOK, LinkInv, StreamInv, NEW s \in Servers, NEW c, c = conn[s], pc[s] = "word",
           up[c] # <<>>, read_word(s), NEW r, NEW T, InStep(c, r, T)
    PROVE  InStep(c, 0, T)'
<1> USE DEF Goto, addressVars, linkVars, clientVars
<1>1. /\ c \in Clients /\ link[c] = "accepted" /\ StreamTypes /\ Sending(c)
      /\ UNCHANGED <<file, sent, conn, cpc, link, size, interrupted>>
  BY ServedClient DEF StreamInv, ClientInv, read_word
<1>2. /\ Len(printed[c]) \in Nat /\ Len(file[c]) \in Nat /\ sent[c] \in Nat
      /\ sent[c] <= 2 * Len(file[c]) /\ T \in [Nat -> Seq(Nat)]
      /\ \A n \in 1..Len(file[c]) : file[c][n] \in Seq(Nat) /\ Len(file[c][n]) \in Nat
  BY <1>1, StepTypes
<1>3. PICK p, m, f : p = Len(printed[c]) /\ m = sent[c] /\ f = Len(file[c])
  OBVIOUS
<1>4. p \in Nat /\ m \in Nat /\ f \in Nat /\ m <= 2 * f
  BY <1>2, <1>3
<1>5. r = 1 /\ size[s] = Len(file[c][p + 1])
  BY <1>1, <1>3 DEF InStep
<1>6. Behind(c, 2 * p + 1, T) /\ 2 * p + 1 \in 0..m /\ 2 * p + 1 # m
  <2>1. Behind(c, 2 * p + 1, T)
    BY <1>3, <1>5 DEF InStep
  <2> QED BY <1>3, <2>1 DEF Behind
<1>7. /\ 2 * p + 1 \in (2 * p + 1)..(m - 1) /\ 2 * p + 2 \in 0..m /\ p + 1 \in 1..f
      /\ 2 * p + 2 \in Nat /\ (2 * p + 1) + 1 = 2 * p + 2 /\ 2 * (p + 1) = 2 * p + 2
  BY <1>4, <1>6
<1>8. up[c] = file[c][p + 1] \o T[2 * p + 2]
  <2>1. T[2 * p + 1] = Chunk(c, 2 * p + 2) \o T[2 * p + 2]
    BY <1>3, <1>6, <1>7 DEF Behind
  <2> QED BY <1>4, <1>6, <2>1, ChunkOf DEF Behind
<1>9. PICK w, t, u : w = file[c][p + 1] /\ t = T[2 * p + 2] /\ u = up[c]
  OBVIOUS
<1>10. w \in Seq(Nat) /\ t \in Seq(Nat) /\ u = w \o t /\ Len(w) = size[s]
  BY <1>2, <1>3, <1>5, <1>7, <1>8, <1>9
<1>11. /\ Len(u) \in Nat /\ Len(w) \in Nat /\ Len(w) <= Len(u)
       /\ SubSeq(u, 1, Len(w)) = w /\ SubSeq(u, Len(w) + 1, Len(u)) = t
  BY <1>10, FrontOfStream
<1>12. (IF size[s] < Len(up[c]) THEN size[s] ELSE Len(up[c])) = Len(w)
  <2>1. PICK a, b : a = Len(w) /\ b = Len(u)
    OBVIOUS
  <2>2. a \in Nat /\ b \in Nat /\ a <= b
    BY <1>11, <2>1
  <2>3. (IF a < b THEN a ELSE b) = a
    BY <2>2
  <2> QED BY <1>9, <1>10, <2>1, <2>3
<1>13. Line(s, w) = w
  BY <1>10, NothingRead DEF Line
<1>14. /\ printed' = [printed EXCEPT ![c] = Append(@, w)]
       /\ up' = [up EXCEPT ![c] = SubSeq(@, Len(w) + 1, Len(@))]
       /\ pc' = [pc EXCEPT ![s] = "size"]
  BY <1>9, <1>11, <1>12, <1>13 DEF read_word
<1>15. up'[c] = t /\ printed'[c] = Append(printed[c], w)
  BY <1>1, <1>9, <1>11, <1>14 DEF StreamTypes
<1>16. /\ Len(printed'[c]) = p + 1 /\ printed'[c][p + 1] = w
       /\ \A n \in 1..p : printed'[c][n] = printed[c][n]
  <2>1. printed[c] \in Seq(Seq(Int)) /\ w \in Seq(Int)
    BY <1>1, <1>10, SeqMonotonic DEF StreamTypes
  <2> QED BY <1>3, <1>15, <2>1, AppendProperties
<1>17. \A n \in 1..(p + 1) : printed'[c][n] = file[c][n]
  <2>1. \A n \in 1..p : printed[c][n] = file[c][n]
    BY <1>3 DEF InStep
  <2> QED BY <1>4, <1>9, <1>16, <2>1
<1>18. Behind(c, 2 * p + 2, T)'
  <2>1. \A n : Chunk(c, n)' = Chunk(c, n)
    BY <1>1 DEF Chunk
  <2>2. \A n \in (2 * p + 2)..(m - 1) : n \in (2 * p + 1)..(m - 1)
    BY <1>4
  <2>3. sent'[c] = m /\ T[sent'[c]] = <<>>
    BY <1>1, <1>3, <1>6 DEF Behind
  <2>4. \A n \in (2 * p + 2)..(sent'[c] - 1) : T[n] = Chunk(c, n + 1)' \o T[n + 1]
    <3>1. \A n \in (2 * p + 1)..(m - 1) : T[n] = Chunk(c, n + 1) \o T[n + 1]
      BY <1>3, <1>6 DEF Behind
    <3> QED BY <2>1, <2>2, <2>3, <3>1
  <2> QED BY <1>2, <1>7, <1>9, <1>15, <2>3, <2>4 DEF Behind
<1>19. \A t2 \in Servers : conn[t2] = c => t2 = s
  BY <1>1, OneServer
<1>20. ASSUME NEW t2 \in Servers, conn'[t2] = c PROVE pc'[t2] = "size"
  BY <1>1, <1>14, <1>19, <1>20 DEF TypeOK
<1>21. Behind(c, 2 * Len(printed[c]) + 0, T)'
  <2>1. 2 * Len(printed'[c]) + 0 = 2 * p + 2
    BY <1>4, <1>7, <1>16
  <2> QED BY <1>18, <2>1
<1> QED BY <1>1, <1>16, <1>17, <1>20, <1>21 DEF InStep

\* The client has ended after the length: the last line is what was in word[].
LEMMA ReadWordMissing ==
    ASSUME TypeOK, LinkInv, StreamInv, NEW s \in Servers, NEW c, c = conn[s], pc[s] = "word",
           up[c] = <<>>, read_word(s), NEW r, NEW T, InStep(c, r, T)
    PROVE  CutShort(c)'
<1> USE DEF Goto, addressVars, linkVars, clientVars
<1>1. /\ c \in Clients /\ link[c] = "accepted" /\ StreamTypes /\ Sending(c)
      /\ UNCHANGED <<file, sent, conn, cpc, link, size, interrupted>> /\ Ended(c)
  BY ServedClient DEF StreamInv, ClientInv, read_word
<1>2. /\ Len(printed[c]) \in Nat /\ Len(file[c]) \in Nat /\ sent[c] \in Nat
      /\ sent[c] <= 2 * Len(file[c]) /\ T \in [Nat -> Seq(Nat)]
      /\ \A n \in 1..Len(file[c]) :
            file[c][n] \in Seq(Nat) /\ file[c][n] # <<>> /\ Len(file[c][n]) \in Nat
  BY <1>1, StepTypes
<1>3. PICK p, m, f : p = Len(printed[c]) /\ m = sent[c] /\ f = Len(file[c])
  OBVIOUS
<1>4. p \in Nat /\ m \in Nat /\ f \in Nat /\ m <= 2 * f
  BY <1>2, <1>3
<1>5. r = 1 /\ size[s] = Len(file[c][p + 1])
  BY <1>1, <1>3 DEF InStep
<1>6. Behind(c, 2 * p + 1, T) /\ 2 * p + 1 \in 0..m
  <2>1. Behind(c, 2 * p + 1, T)
    BY <1>3, <1>5 DEF InStep
  <2> QED BY <1>3, <2>1 DEF Behind
<1>7. 2 * p + 1 = m
  <2> SUFFICES ASSUME 2 * p + 1 # m PROVE FALSE
    OBVIOUS
  <2>1. /\ 2 * p + 1 \in (2 * p + 1)..(m - 1) /\ p + 1 \in 1..f
        /\ 2 * p + 2 \in Nat /\ (2 * p + 1) + 1 = 2 * p + 2
    BY <1>4, <1>6
  <2>2. up[c] = Chunk(c, 2 * p + 2) \o T[2 * p + 2]
    BY <1>3, <1>6, <2>1 DEF Behind
  <2>3. up[c] = file[c][p + 1] \o T[2 * p + 2]
    BY <1>4, <2>2, ChunkOf
  <2>4. file[c][p + 1] \in Seq(Nat) /\ file[c][p + 1] # <<>> /\ T[2 * p + 2] \in Seq(Nat)
    BY <1>2, <1>3, <2>1
  <2>5. PICK w, t : w = file[c][p + 1] /\ t = T[2 * p + 2]
    OBVIOUS
  <2>6. w \in Seq(Nat) /\ w # <<>> /\ t \in Seq(Nat) /\ w \o t = <<>>
    BY <2>3, <2>4, <2>5
  <2>7. Len(w) \in Nat /\ Len(w) # 0 /\ Len(t) \in Nat /\ Len(w \o t) = Len(w) + Len(t)
    BY <2>6, LenProperties, EmptySeq, ConcatProperties
  <2> QED BY <2>6, <2>7
<1>8. m % 2 = 1 /\ m \div 2 = p /\ p + 1 \in 1..f
  BY <1>4, <1>7
<1>9. PICK l : l = [k \in 1..Len(file[c][p + 1]) |-> Junk]
  OBVIOUS
<1>10. Line(s, SubSeq(up[c], 1, IF size[s] < Len(up[c]) THEN size[s] ELSE Len(up[c]))) = l
  <2>1. Len(up[c]) = 0 /\ size[s] \in Nat
    BY <1>2, <1>3, <1>5, <1>8
  <2>2. (IF size[s] < Len(up[c]) THEN size[s] ELSE Len(up[c])) = 0
    BY <2>1
  <2>3. SubSeq(up[c], 1, 0) = <<>>
    OBVIOUS
  <2>4. size[s] - Len(<<>>) = size[s]
    BY <2>1
  <2>5. l \in Seq({Junk})
    BY <1>5, <1>9, <2>1
  <2>6. Line(s, <<>>) = <<>> \o l
    BY <1>5, <1>9, <2>4 DEF Line
  <2>7. <<>> \o l = l
    BY <2>5, ConcatEmptySeq
  <2> QED BY <2>2, <2>3, <2>6, <2>7
<1>11. /\ printed' = [printed EXCEPT ![c] = Append(@, l)]
       /\ up' = [up EXCEPT ![c] = SubSeq(@, (IF size[s] < Len(up[c]) THEN size[s] ELSE Len(up[c])) + 1, Len(@))]
       /\ pc' = [pc EXCEPT ![s] = "size"]
  BY <1>10 DEF read_word
<1>12. up'[c] = <<>> /\ printed'[c] = Append(printed[c], l)
  <2>1. size[s] \in Nat /\ Len(<<>>) = 0
    BY <1>1 DEF StreamTypes
  <2>2. SubSeq(<<>>, (IF size[s] < Len(<<>>) THEN size[s] ELSE Len(<<>>)) + 1, Len(<<>>)) = <<>>
    BY <2>1
  <2> QED BY <1>1, <1>11, <2>2 DEF StreamTypes
<1>13. printed[c] = SubSeq(file[c], 1, p)
  <2>1. printed[c] \in Seq(Seq(Int)) /\ file[c] \in Seq(Seq(Int))
    <3>1. Seq(Nat) \ {<<>>} \subseteq Seq(Int)
      BY SeqMonotonic
    <3> QED BY <1>1, <3>1, SeqMonotonic DEF StreamTypes
  <2>2. \A n \in 1..p : printed[c][n] = file[c][n]
    BY <1>3 DEF InStep
  <2>3. p \in 0..f
    BY <1>4, <1>8
  <2>4. PICK a, b : a = printed[c] /\ b = file[c]
    OBVIOUS
  <2>5. a \in Seq(Seq(Int)) /\ b \in Seq(Seq(Int)) /\ Len(a) = p /\ p <= Len(b)
        /\ \A n \in 1..p : a[n] = b[n]
    BY <1>3, <2>1, <2>2, <2>3, <2>4
  <2>6. a = SubSeq(b, 1, p)
    BY <1>4, <2>5, FrontEqual
  <2> QED BY <2>4, <2>6
<1>14. printed'[c] = SubSeq(file[c], 1, p) \o <<l>>
  <2>1. Junk \in Int
    BY DEF Junk
  <2>2. l \in Seq(Int)
    BY <1>2, <1>3, <1>8, <1>9, <2>1
  <2>3. printed[c] \in Seq(Seq(Int))
    BY <1>1 DEF StreamTypes
  <2>4. Append(printed[c], l) = printed[c] \o <<l>>
    BY <2>2, <2>3, AppendIsConcat
  <2> QED BY <1>12, <1>13, <2>4
<1>15. \A t \in Servers : conn[t] = c => t = s
  BY <1>1, OneServer
<1>16. ASSUME NEW t \in Servers, conn'[t] = c PROVE pc'[t] # "word"
  BY <1>1, <1>11, <1>15, <1>16 DEF TypeOK
<1>17. NextWord(c)' = file[c][p + 1]
  BY <1>1, <1>3, <1>8 DEF NextWord
<1> QED
  BY <1>1, <1>3, <1>8, <1>9, <1>12, <1>14, <1>16, <1>17 DEF CutShort, Ended

\* Whatever is read, the line is a sequence of numbers.
LEMMA LineType ==
    ASSUME StreamTypes, NEW s \in Servers, NEW c \in Clients, NEW n \in Nat,
           n <= Len(up[c]), n <= size[s]
    PROVE  /\ Line(s, SubSeq(up[c], 1, n)) \in Seq(Int)
           /\ SubSeq(up[c], n + 1, Len(up[c])) \in Seq(Nat)
<1>1. up[c] \in Seq(Nat) /\ Len(up[c]) \in Nat /\ size[s] \in Nat /\ Junk \in Int
  BY LenProperties DEF StreamTypes, Junk
<1>2. PICK b : b = SubSeq(up[c], 1, n)
  OBVIOUS
<1>3. b \in Seq(Nat) /\ Len(b) = n
  <2>1. \A i \in 1..n : up[c][i] \in Nat
    BY <1>1, ElementOfSeq
  <2> QED BY <1>1, <1>2, <2>1, SubSeqProperties
<1>4. b \in Seq(Int)
  BY <1>3, SeqMonotonic
<1>5. PICK k : k = size[s] - n
  OBVIOUS
<1>6. k \in Nat
  BY <1>1, <1>5
<1>7. [i \in 1..k |-> Junk] \in Seq(Int)
  BY <1>1, <1>6
<1>8. b \o [i \in 1..k |-> Junk] \in Seq(Int)
  BY <1>4, <1>7, ConcatProperties
<1>9. SubSeq(up[c], n + 1, Len(up[c])) \in Seq(Nat)
  <2>1. \A i \in (n + 1)..Len(up[c]) : up[c][i] \in Nat
    BY <1>1, ElementOfSeq
  <2> QED BY <1>1, <2>1, SubSeqProperties
<1> QED BY <1>2, <1>3, <1>5, <1>8, <1>9 DEF Line

LEMMA PrintedTypes ==
    ASSUME StreamTypes, NEW c \in Clients, NEW l \in Seq(Int), NEW b \in Seq(Nat),
           UNCHANGED <<file, sent, size>>, printed' = [printed EXCEPT ![c] = Append(@, l)],
           up' = up \/ up' = [up EXCEPT ![c] = b]
    PROVE  StreamTypes'
<1>1. Append(printed[c], l) \in Seq(Seq(Int))
  BY AppendProperties DEF StreamTypes
<1> QED BY <1>1 DEF StreamTypes

LEMMA ReadWordStreamInv ==
    ASSUME TypeOK, LinkInv, StreamInv, NEW s \in Servers, read_word(s)
    PROVE  StreamInv'
<1> USE DEF Goto, addressVars, linkVars, clientVars
<1>1. PICK c : c = conn[s]
  OBVIOUS
<1>2. /\ pc[s] = "word" /\ UNCHANGED <<file, sent, conn, cpc, link, size, interrupted>>
      /\ c \in Clients /\ StreamTypes /\ ClientInv(c)
  BY <1>1, ServedClient DEF read_word, StreamInv
<1>3. PICK n : n = IF size[s] < Len(up[c]) THEN size[s] ELSE Len(up[c])
  OBVIOUS
<1>4. n \in Nat /\ n <= Len(up[c]) /\ n <= size[s]
  <2>1. Len(up[c]) \in Nat /\ size[s] \in Nat
    BY <1>2, LenProperties DEF StreamTypes
  <2> QED BY <1>3, <2>1
<1>5. PICK l, b : l = Line(s, SubSeq(up[c], 1, n)) /\ b = SubSeq(up[c], n + 1, Len(up[c]))
  OBVIOUS
<1>6. /\ printed' = [printed EXCEPT ![c] = Append(@, l)] /\ up' = [up EXCEPT ![c] = b]
      /\ pc' = [pc EXCEPT ![s] = "size"]
  BY <1>1, <1>3, <1>5 DEF read_word
<1>7. StreamTypes'
  <2>1. l \in Seq(Int) /\ b \in Seq(Nat)
    BY <1>2, <1>4, <1>5, LineType
  <2> QED BY <1>2, <1>6, <2>1, PrintedTypes
<1>8. \A d \in Clients : d # c => Keeps(d)
  <2>1. (\E x : up' = [up EXCEPT ![c] = x]) /\ (\E x : printed' = [printed EXCEPT ![c] = x])
    BY <1>6
  <2> QED BY <1>1, <1>2, <1>6, <2>1, OthersKeep
<1>9. ClientInv(c)'
  <2>1. Sending(c)'
    BY <1>2 DEF ClientInv, Sending
  <2>2. ~CutShort(c)
    BY <1>1, <1>2 DEF CutShort
  <2>3. CASE c \in interrupted
    BY <1>2, <2>1, <2>3 DEF ClientInv
  <2>4. ASSUME NEW r, NEW T, InStep(c, r, T) PROVE ClientInv(c)'
    <3>1. CASE up[c] # <<>>
      <4>1. InStep(c, 0, T)'
        BY <1>1, <1>2, <2>4, <3>1, ReadWordThere
      <4> QED BY <2>1, <4>1 DEF ClientInv
    <3>2. CASE up[c] = <<>>
      <4>1. CutShort(c)'
        BY <1>1, <1>2, <2>4, <3>2, ReadWordMissing
      <4> QED BY <2>1, <4>1 DEF ClientInv
    <3> QED BY <3>1, <3>2
  <2> QED BY <1>2, <2>2, <2>3, <2>4 DEF ClientInv
<1> QED BY <1>7, <1>8, <1>9, KeepsClientInv DEF StreamInv

\* SIGINT in a word: from then on nothing is claimed of this client.
LEMMA SigintStreamInv ==
    ASSUME TypeOK, LinkInv, StreamInv, NEW s \in Servers, sigint_handler(s)
    PROVE  StreamInv'
<1> USE DEF Goto, netVars, linkVars, streamVars, clientVars
<1>1. CASE UNCHANGED <<netVars, platform, pc, size, printed, interrupted>>
  <2>1. Still /\ UNCHANGED <<conn, pc, cpc, link>>
    BY <1>1 DEF Still
  <2> QED BY <2>1, SameRuns, StillStreamInv DEF Ended
<1>2. ASSUME NEW p \in {"finish", "close"}, Goto(s, p),
             UNCHANGED <<netVars, platform, size, printed, interrupted>>
      PROVE  StreamInv'
  <2>1. Still /\ UNCHANGED <<conn, cpc, link>> /\ pc' = [pc EXCEPT ![s] = p]
    BY <1>2 DEF Still
  <2> QED BY <2>1, MovedRun, StillStreamInv
<1>3. ASSUME EndProcess(s, "accept_failed"), UNCHANGED <<printed, interrupted>> PROVE StreamInv'
  BY <1>3, EndProcessStill, StillStreamInv DEF LinkInv
<1>4. ASSUME pc[s] = "word", printed' = [printed EXCEPT ![conn[s]] = Append(@, Line(s, <<>>))],
             interrupted' = interrupted \cup {conn[s]}, Goto(s, "size"),
             UNCHANGED <<netVars, platform, size>>
      PROVE  StreamInv'
  <2>1. PICK c, l : c = conn[s] /\ l = Line(s, <<>>)
    OBVIOUS
  <2>2. /\ c \in Clients /\ StreamTypes /\ ClientInv(c)
        /\ UNCHANGED <<file, sent, conn, cpc, link, size, up>>
        /\ printed' = [printed EXCEPT ![c] = Append(@, l)] /\ pc' = [pc EXCEPT ![s] = "size"]
        /\ interrupted' = interrupted \cup {c}
    BY <1>4, <2>1, ServedClient DEF StreamInv
  <2>3. l \in Seq(Int)
    <3>1. size[s] \in Nat /\ Junk \in Int /\ Len(<<>>) = 0
      BY <2>2 DEF StreamTypes, Junk
    <3>2. PICK k : k = size[s]
      OBVIOUS
    <3>3. size[s] - Len(<<>>) = k /\ k \in Nat
      BY <3>1, <3>2
    <3>4. [i \in 1..k |-> Junk] \in Seq(Int)
      BY <3>1, <3>3
    <3>5. <<>> \o [i \in 1..k |-> Junk] \in Seq(Int)
      BY <3>4, ConcatEmptySeq
    <3> QED BY <2>1, <3>3, <3>5 DEF Line
  <2>4. StreamTypes'
    BY <2>2, <2>3, EmptySeq, PrintedTypes
  <2>5. \A d \in Clients : d # c => Keeps(d)
    <3>1. \E x : printed' = [printed EXCEPT ![c] = x]
      BY <2>2
    <3> QED BY <2>1, <2>2, <3>1, OthersKeep
  <2>6. ClientInv(c)'
    BY <2>2 DEF ClientInv, Sending
  <2> QED BY <2>4, <2>5, <2>6, KeepsClientInv DEF StreamInv
<1> QED BY <1>1, <1>2, <1>3, <1>4 DEF sigint_handler, Interrupt

-------------------------------------------------------------------------------
(* The client's side                                                       *)

\* The client sends its next chunk, whole, behind what is under way.
LEMMA SendsChunk ==
    ASSUME StreamInv, NEW c \in Clients, SendChunk(c), sent' = [sent EXCEPT ![c] = @ + 1],
           UNCHANGED <<pc, size, printed, interrupted>>
    PROVE  ClientInv(c)'
<1>1. /\ StreamTypes /\ Sending(c) /\ cpc[c] = "open"
      /\ UNCHANGED <<file, conn, link>> /\ sent[c] < 2 * Len(file[c])
  BY DEF SendChunk, linkVars, StreamInv, ClientInv
<1>2. PICK f : f = Len(file[c])
  OBVIOUS
<1>3. PICK m : m = sent[c]
  OBVIOUS
<1>4. f \in Nat /\ m \in Nat /\ m < 2 * f /\ sent'[c] = m + 1
  BY <1>1, <1>2, <1>3, LenProperties DEF StreamTypes
<1>5. PICK w \in Nat : m = 2 * w + (m % 2) /\ m % 2 \in {0, 1} /\ m \div 2 = w
  BY <1>4, Halves
<1>6. w + 1 \in 1..f
  BY <1>4, <1>5
<1>7. /\ NextWord(c) = file[c][w + 1] /\ file[c][w + 1] \in Seq(Nat)
      /\ Len(file[c][w + 1]) \in Nat
  <2>1. file[c][w + 1] \in Seq(Nat) \ {<<>>}
    BY <1>1, <1>2, <1>6, ElementOfSeq DEF StreamTypes
  <2> QED BY <1>3, <1>5, <2>1, LenProperties DEF NextWord
<1>8. sent' # sent
  BY <1>1, <1>3, <1>4 DEF StreamTypes
<1>9. /\ m % 2 = 0 => Len(file[c][w + 1]) <= UINT8_MAX
      /\ up' = [up EXCEPT ![c] = @ \o IF m % 2 = 0 THEN <<Len(file[c][w + 1])>> ELSE file[c][w + 1]]
  <2>1. ~(sent[c] % 2 = 0 /\ Len(NextWord(c)) > UINT8_MAX)
    BY <1>8 DEF SendChunk
  <2>2. up' = [up EXCEPT ![c] = @ \o IF m % 2 = 0 THEN <<Len(NextWord(c))>> ELSE NextWord(c)]
    BY <1>3, <1>8, Zenon DEF SendChunk
  <2> QED BY <1>3, <1>7, <2>1, <2>2
<1>10. PICK b : b = IF m % 2 = 0 THEN <<Len(file[c][w + 1])>> ELSE file[c][w + 1]
  OBVIOUS
<1>11. b \in Seq(Nat) /\ up'[c] = up[c] \o b /\ b = Chunk(c, m + 1)
  <2>1. b \in Seq(Nat)
    BY <1>7, <1>10
  <2>2. up'[c] = up[c] \o b
    BY <1>1, <1>9, <1>10 DEF StreamTypes
  <2>3. CASE m % 2 = 0
    BY <1>5, <1>10, <2>1, <2>2, <2>3, ChunkOf
  <2>4. CASE m % 2 = 1
    <3>1. m + 1 = 2 * w + 2
      BY <1>5, <2>4
    <3> QED BY <1>10, <2>1, <2>2, <2>4, <3>1, ChunkOf
  <2> QED BY <1>5, <2>3, <2>4
<1>12. Sending(c)'
  <2>1. m + 1 <= 2 * f
    BY <1>4
  <2>2. ASSUME NEW n \in 1..f, 2 * n <= m + 1 + 1 PROVE Len(file[c][n]) <= UINT8_MAX
    <3>1. CASE 2 * n <= m + 1
      BY <1>1, <1>2, <1>3, <3>1 DEF Sending
    <3>2. CASE ~(2 * n <= m + 1)
      <4>1. 2 * n = m + 2
        BY <1>4, <2>2, <3>2
      <4>2. n = w + 1 /\ m % 2 = 0
        BY <1>4, <1>5, <4>1
      <4> QED BY <1>9, <4>2
    <3> QED BY <3>1, <3>2
  <2> QED BY <1>1, <1>2, <1>4, <2>1, <2>2 DEF Sending
<1>13. ASSUME NEW r, NEW T, InStep(c, r, T) PROVE ClientInv(c)'
  <2>1. PICK p : p = 2 * Len(printed[c]) + r
    OBVIOUS
  <2>2. p \in 0..m /\ Behind(c, p, T) /\ T \in [Nat -> Seq(Nat)]
    BY <1>3, <1>13, <2>1 DEF InStep, Behind
  <2>3. PICK U : U = [n \in Nat |-> IF n <= m THEN T[n] \o b ELSE <<>>]
    OBVIOUS
  <2>4. U \in [Nat -> Seq(Nat)]
    <3>1. \A n \in Nat : T[n] \o b \in Seq(Nat)
      BY <1>11, <2>2, ConcatProperties
    <3> QED BY <2>3, <3>1, EmptySeq
  <2>5. p \in Nat /\ U[p] = up'[c] /\ U[m + 1] = <<>> /\ m + 1 \in Nat
    <3>1. p \in Nat /\ p <= m /\ m + 1 \in Nat /\ ~(m + 1 <= m)
      BY <1>4, <2>2
    <3>2. T[p] = up[c]
      BY <2>2 DEF Behind
    <3> QED BY <1>11, <2>3, <3>1, <3>2
  <2>6. ASSUME NEW n \in p..m PROVE U[n] = Chunk(c, n + 1) \o U[n + 1]
    <3>1. n \in Nat /\ n + 1 \in Nat /\ n <= m /\ U[n] = T[n] \o b
      <4>1. n \in Nat /\ n + 1 \in Nat /\ n <= m
        BY <1>4, <2>5
      <4> QED BY <2>3, <4>1
    <3>2. CASE n = m
      <4>1. T[n] = <<>> /\ U[n + 1] = <<>>
        BY <1>3, <2>2, <2>5, <3>2 DEF Behind
      <4> QED BY <1>11, <3>1, <3>2, <4>1, ConcatEmptySeq
    <3>3. CASE n # m
      <4>1. n \in p..(m - 1) /\ n + 1 <= m
        BY <1>4, <2>2, <3>1, <3>3
      <4>2. T[n] = Chunk(c, n + 1) \o T[n + 1] /\ U[n + 1] = T[n + 1] \o b
        BY <1>3, <2>2, <2>3, <3>1, <4>1 DEF Behind
      <4>3. Chunk(c, n + 1) \in Seq(Nat) /\ T[n + 1] \in Seq(Nat)
        <5>1. PICK v \in Nat : n = 2 * v + (n % 2) /\ n % 2 \in {0, 1} /\ n \div 2 = v
          BY <3>1, Halves
        <5>2. v + 1 \in 1..f
          BY <1>4, <3>1, <5>1
        <5>3. file[c][v + 1] \in Seq(Nat) /\ Len(file[c][v + 1]) \in Nat
          <6>1. file[c][v + 1] \in Seq(Nat) \ {<<>>}
            BY <1>1, <1>2, <5>2, ElementOfSeq DEF StreamTypes
          <6> QED BY <6>1, LenProperties
        <5>4. Chunk(c, n + 1) = <<Len(file[c][v + 1])>> \/ Chunk(c, n + 1) = file[c][v + 1]
          <6>1. n + 1 = 2 * v + 1 \/ n + 1 = 2 * v + 2
            BY <5>1
          <6> QED BY <6>1, ChunkOf
        <5>5. <<Len(file[c][v + 1])>> \in Seq(Nat)
          BY <5>3
        <5>6. T[n + 1] \in Seq(Nat)
          BY <2>2, <3>1
        <5> QED BY <5>3, <5>4, <5>5, <5>6
      <4>4. PICK x, y : x = Chunk(c, n + 1) /\ y = T[n + 1]
        OBVIOUS
      <4>5. (x \o y) \o b = x \o (y \o b)
        <5>1. x \in Seq(Nat) /\ y \in Seq(Nat) /\ b \in Seq(Nat)
          BY <1>11, <4>3, <4>4
        <5> QED BY ONLY <5>1, JoinedThree
      <4> QED BY <3>1, <4>2, <4>4, <4>5
    <3> QED BY <3>2, <3>3
  <2>7. Behind(c, p, U)'
    <3>1. \A n : Chunk(c, n)' = Chunk(c, n)
      BY <1>1 DEF Chunk
    <3>2. sent'[c] - 1 = m /\ p \in 0..sent'[c]
      <4>1. (m + 1) - 1 = m /\ p \in 0..(m + 1)
        BY <1>4, <2>2
      <4> QED BY <1>4, <4>1
    <3> QED BY <1>4, <2>4, <2>5, <2>6, <3>1, <3>2 DEF Behind
  <2>8. InStep(c, r, U)'
    BY <1>1, <1>13, <2>1, <2>7 DEF InStep
  <2> QED BY <1>12, <2>8 DEF ClientInv
<1>14. ~CutShort(c)
  BY <1>1 DEF CutShort, Ended
<1>15. CASE c \in interrupted
  BY <1>12, <1>15 DEF ClientInv
<1> QED BY <1>13, <1>14, <1>15 DEF StreamInv, ClientInv

LEMMA ClientStreamInv ==
    ASSUME TypeOK, LinkInv, StreamInv, NEW c \in Clients,
           connect(c) \/ Client(c) \/ KillClient(c),
           UNCHANGED <<platform, runVars, printed, interrupted>>
    PROVE  StreamInv'
<1> USE DEF linkVars, streamVars, clientVars, runVars
<1>1. ASSUME UNCHANGED <<file, sent, up>> PROVE StreamInv'
  <2>1. Still /\ UNCHANGED <<conn, pc>>
    BY <1>1 DEF connect, Client, SendChunk, ReadMessage, shutdown_socket, socket_close,
                KillClient, Still
  <2>2. \A d \in Clients : link'[d] \in {"none", "queued"} => link[d] \in {"none", "queued"}
    <3>1. CASE connect(c)
      <4>1. link[c] = "none"
        BY <3>1 DEF connect, LinkInv, OnePlace
      <4> QED BY <3>1, <4>1 DEF connect, LinkInv, LinkTypeOK
    <3>2. CASE Client(c) \/ KillClient(c)
      BY <3>2 DEF Client, SendChunk, ReadMessage, shutdown_socket, socket_close, KillClient
    <3> QED BY <3>1, <3>2
  <2>3. \A d \in Clients : Ended(d) => Ended(d)'
    <3>1. cpc[c] \in {"start", "open", "shut"}
      BY DEF connect, Client, SendChunk, ReadMessage, shutdown_socket, socket_close, KillClient
    <3>2. UNCHANGED cpc \/ \E p : cpc' = [cpc EXCEPT ![c] = p]
      BY DEF connect, Client, SendChunk, ReadMessage, shutdown_socket, socket_close, KillClient
    <3> QED BY <3>1, <3>2 DEF Ended, LinkInv, LinkTypeOK
  <2> QED BY <2>1, <2>2, <2>3, SameRuns, StillStreamInv
<1>2. ASSUME ~UNCHANGED <<file, sent, up>> PROVE StreamInv'
  <2>1. SendChunk(c) /\ sent' = [sent EXCEPT ![c] = @ + 1]
        /\ \E b : up' = [up EXCEPT ![c] = @ \o b]
    BY <1>2 DEF connect, Client, SendChunk, ReadMessage, shutdown_socket, socket_close,
                KillClient
  <2>2. UNCHANGED <<file, cpc, conn, link>>
    BY <1>2, <2>1 DEF SendChunk
  <2>3. ClientInv(c)'
    BY <2>1, SendsChunk
  <2>4. StreamTypes'
    <3>1. PICK w : w = NextWord(c)
      OBVIOUS
    <3>2. w \in Seq(Nat) /\ Len(w) \in Nat
      <4>1. file[c] \in Seq(Seq(Nat) \ {<<>>}) /\ Len(file[c]) \in Nat /\ sent[c] \in Nat
            /\ sent[c] < 2 * Len(file[c])
        BY <2>1, LenProperties DEF SendChunk, StreamInv, StreamTypes
      <4>2. sent[c] \div 2 + 1 \in 1..Len(file[c])
        <5>1. PICK m, f : m = sent[c] /\ f = Len(file[c])
          OBVIOUS
        <5>2. m \in Nat /\ f \in Nat /\ m < 2 * f
          BY <4>1, <5>1
        <5>3. m \div 2 + 1 \in 1..f
          BY <5>2
        <5> QED BY <5>1, <5>3
      <4>3. w \in Seq(Nat) \ {<<>>}
        BY <3>1, <4>1, <4>2, ElementOfSeq DEF NextWord
      <4> QED BY <4>3, LenProperties
    <3>3. PICK b : b = IF sent[c] % 2 = 0 THEN <<Len(w)>> ELSE w
      OBVIOUS
    <3>4. b \in Seq(Nat)
      BY <3>2, <3>3
    <3>5. up' = [up EXCEPT ![c] = @ \o b]
      <4>1. sent' # sent
        <5>1. sent[c] \in Nat /\ sent'[c] = sent[c] + 1
          BY <2>1 DEF StreamInv, StreamTypes
        <5>2. sent'[c] # sent[c]
          BY <5>1
        <5> QED BY <5>2
      <4> QED BY <2>1, <3>1, <3>3, <4>1, Zenon DEF SendChunk
    <3>6. up[c] \o b \in Seq(Nat)
      BY <3>4, ConcatProperties DEF StreamInv, StreamTypes
    <3>7. sent' \in [Clients -> Nat] /\ up' \in [Clients -> Seq(Nat)]
      <4>1. sent \in [Clients -> Nat] /\ up \in [Clients -> Seq(Nat)] /\ sent[c] + 1 \in Nat
        BY DEF StreamInv, StreamTypes
      <4>2. PICK u : u = up[c] \o b
        OBVIOUS
      <4>3. u \in Seq(Nat) /\ up' = [up EXCEPT ![c] = u]
        BY <3>5, <3>6, <4>2
      <4> QED BY <2>1, <4>1, <4>3
    <3> QED BY <2>2, <3>7 DEF StreamInv, StreamTypes
  <2>5. \A d \in Clients : d # c => Keeps(d)
    <3>1. \A d \in Clients : d # c => sent'[d] = sent[d] /\ up'[d] = up[d]
      BY <2>1 DEF StreamInv, StreamTypes
    <3> QED BY <2>2, <3>1 DEF Keeps, Ended
  <2> QED BY <2>3, <2>4, <2>5, KeepsClientInv DEF StreamInv
<1> QED BY <1>1, <1>2

LEMMA SameStreamInv ==
    ASSUME StreamInv, Still, UNCHANGED <<conn, pc, cpc, link>>
    PROVE  StreamInv'
  BY SameRuns, StillStreamInv DEF Ended

LEMMA NextStreamInv == ASSUME TypeOK, LinkInv, StreamInv, [Next]_vars PROVE StreamInv'
<1>1. CASE UNCHANGED vars
  BY <1>1, SameStreamInv DEF vars, netVars, linkVars, streamVars, clientVars, runVars, history,
                             Still
<1>2. ASSUME NEW s \in Servers, start(s) \/ Server(s) \/ sigint_handler(s) \/ Kill(s)
      PROVE  StreamInv'
  BY <1>2, ServerStill, AcceptStill, StillStreamInv, ReadSizeStreamInv, ReadWordStreamInv,
     SigintStreamInv DEF Server
<1>3. ASSUME NEW c \in Clients, connect(c) \/ Client(c) \/ KillClient(c),
             UNCHANGED <<platform, runVars, printed, interrupted>>
      PROVE  StreamInv'
  BY <1>3, ClientStreamInv
<1>4. CASE TimeWaitEnds /\ UNCHANGED serverVars
  BY <1>4, SameStreamInv DEF TimeWaitEnds, serverVars, linkVars, streamVars, clientVars, runVars,
                             history, Still
<1> QED
  <2>1. UNCHANGED serverVars => UNCHANGED <<platform, runVars, printed, interrupted>>
    BY DEF serverVars, history
  <2> QED BY <1>1, <1>2, <1>3, <1>4, <2>1 DEF Next

\* Words of the file that are short enough are a prefix of what the client sends.
LEMMA SendablePrefix ==
    ASSUME StreamTypes, NEW c \in Clients, NEW p \in Nat, Len(printed[c]) = p,
           p <= Len(file[c]), \A n \in 1..p : printed[c][n] = file[c][n],
           \A n \in 1..p : Len(file[c][n]) <= UINT8_MAX
    PROVE  IsPrefix(printed[c], Sendable(c))
<1>1. PICK a, b : a = printed[c] /\ b = file[c]
  OBVIOUS
<1>2. /\ a \in Seq(Seq(Int)) /\ b \in Seq(Seq(Int)) /\ Len(a) = p /\ Len(b) \in Nat /\ p <= Len(b)
      /\ DOMAIN b = 1..Len(b) /\ \A n \in 1..p : a[n] = b[n] /\ Len(b[n]) <= UINT8_MAX
      /\ \A n \in 1..Len(b) : b[n] \in Seq(Int) /\ Len(b[n]) \in Nat
  <2>1. file[c] \in Seq(Seq(Int))
    <3>1. Seq(Nat) \ {<<>>} \subseteq Seq(Int)
      BY SeqMonotonic
    <3> QED BY <3>1, SeqMonotonic DEF StreamTypes
  <2>2. \A n \in 1..Len(b) : b[n] \in Seq(Int)
    BY <1>1, <2>1, ElementOfSeq
  <2> QED BY <1>1, <2>1, <2>2, LenProperties DEF StreamTypes
<1>3. ASSUME NEW q \in Nat, p <= q, q <= Len(b), NEW d, d = SubSeq(b, 1, q)
      PROVE  IsPrefix(a, d)
  <2>1. d \in Seq(Seq(Int)) /\ Len(d) = q /\ \A n \in 1..q : d[n] = b[n]
    BY <1>2, <1>3, SubSeqProperties
  <2>2. \A n \in 1..p : a[n] = d[n]
    BY <1>2, <1>3, <2>1
  <2>3. a = SubSeq(d, 1, p)
    BY <1>2, <1>3, <2>1, <2>2, FrontEqual
  <2>4. SubSeq(a, 1, Len(a)) = a
    BY <1>2, SubSeqFull
  <2> QED BY <1>2, <1>3, <2>1, <2>3, <2>4 DEF IsPrefix
<1>4. PICK B : B = {n \in DOMAIN b : Len(b[n]) > UINT8_MAX}
  OBVIOUS
<1>5. CASE B = {}
  <2>1. Sendable(c) = b
    BY <1>1, <1>4, <1>5 DEF Sendable
  <2>2. b = SubSeq(b, 1, Len(b))
    BY <1>2, SubSeqFull
  <2>3. PICK q : q = Len(b)
    OBVIOUS
  <2>4. q \in Nat /\ p <= q /\ q <= Len(b) /\ b = SubSeq(b, 1, q)
    BY <1>2, <2>2, <2>3
  <2>5. IsPrefix(a, b)
    BY <1>3, <2>4
  <2> QED BY <1>1, <2>1, <2>5
<1>6. CASE B # {}
  <2>1. Sendable(c) = SubSeq(b, 1, Min(B) - 1)
    BY <1>1, <1>4, <1>6 DEF Sendable
  <2>2. PICK m : m = Min(B)
    OBVIOUS
  <2>3. m \in B
    <3>1. B \in SUBSET Nat
      BY <1>2, <1>4
    <3> QED BY <1>6, <2>2, <3>1, LeastNumber
  <2>4. m \in 1..Len(b) /\ Len(b[m]) > UINT8_MAX
    BY <1>2, <1>4, <2>3
  <2>5. m \notin 1..p
    <3>1. Len(b[m]) \in Nat
      BY <1>2, <2>4
    <3> QED BY <1>2, <2>4, <3>1
  <2>6. m - 1 \in Nat /\ p <= m - 1 /\ m - 1 <= Len(b)
    BY <1>2, <2>4, <2>5
  <2>7. PICK q, d : q = m - 1 /\ d = SubSeq(b, 1, q)
    OBVIOUS
  <2>8. IsPrefix(a, d)
    BY <1>3, <2>6, <2>7
  <2>9. Sendable(c) = d
    BY <2>1, <2>2, <2>7
  <2> QED BY <1>1, <2>8, <2>9
<1> QED BY <1>5, <1>6

\* The words a word server prints for a client that SIGINT did not cut short are a
\* prefix of those the client sends, but for one line of unread bytes when the client
\* ends between a length and its word: the two sides stay in step although neither looks
\* at how much its read() or write() transferred.  With it, a client of listen-accept
\* that ends with success has had the whole message.
THEOREM WhatIsSentArrives == Spec => []StreamsArrive
<1>1. ASSUME LinkInv, StreamInv PROVE StreamsArrive
  <2>1. ASSUME NEW c \in Clients \ interrupted, ~CutShort(c)
        PROVE  IsPrefix(printed[c], Sendable(c))
    <3>1. PICK r, T : InStep(c, r, T)
      BY <1>1, <2>1 DEF StreamInv, ClientInv
    <3>2. StreamTypes /\ Sending(c)
      BY <1>1 DEF StreamInv, ClientInv
    <3>3. PICK p, m, f : p = Len(printed[c]) /\ m = sent[c] /\ f = Len(file[c])
      OBVIOUS
    <3>4. p \in Nat /\ m \in Nat /\ f \in Nat /\ r \in {0, 1} /\ 2 * p + r <= m /\ m <= 2 * f
      BY <3>1, <3>2, <3>3, StepTypes
    <3>5. p <= f /\ \A n \in 1..p : n \in 1..f /\ 2 * n <= m + 1
      BY <3>4
    <3>6. \A n \in 1..p : Len(file[c][n]) <= UINT8_MAX
      BY <3>2, <3>3, <3>5 DEF Sending
    <3>7. \A n \in 1..p : printed[c][n] = file[c][n]
      BY <3>1, <3>3 DEF InStep
    <3> QED BY <3>2, <3>3, <3>4, <3>5, <3>6, <3>7, SendablePrefix
  <2>2. WordsArrive
    BY <2>1 DEF WordsArrive, CutShort
  <2>3. MessageArrives
    BY <1>1 DEF LinkInv, Message, MessageArrives
  <2> QED BY <2>2, <2>3 DEF StreamsArrive
<1> QED BY <1>1, InitStreamInv, NextStreamInv, LinkInvInvariant, PTL DEF Spec
===============================================================================
