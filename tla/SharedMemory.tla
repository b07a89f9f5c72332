----------------------------- MODULE SharedMemory -----------------------------
(***************************************************************************)
(* shared-memory/mmap-munmap: a client puts one word of its file after the *)
(* other into a shared memory object and a server prints them, with one    *)
(* named semaphore for each direction.                                     *)
(*                                                                         *)
(* The memory object and the semaphores are created once and never         *)
(* unlinked: they outlive every process, and every server and client that  *)
(* is ever started uses the same ones.  Word n of the file of client c is  *)
(* <<c, n>>; word n + 1 of a file of n words is the empty string that says *)
(* the client is done.                                                     *)
(***************************************************************************)
EXTENDS Integers, Sequences, FiniteSets, FiniteSetsExt

CONSTANTS Servers, Clients,    \* the processes that may be started, in any order
          MaxWords             \* bound: the words in the files of all clients

ASSUME SharedMemoryAssumption ==
    /\ IsFiniteSet(Servers) /\ IsFiniteSet(Clients)
    /\ MaxWords \in Nat

VARIABLES object,                     \* the memory object: "none", "empty" or "sized"
          shm,                        \* the string at shm_ptr
          client_sem, server_sem,     \* the values of the two semaphores
          server_pc, printed,         \* each server: where it is, what it printed
          client_pc, words, current   \* each client: where it is, its file, the next word

semVars    == <<client_sem, server_sem>>
serverVars == <<server_pc, printed>>
clientVars == <<client_pc, words, current>>
shmVars    == <<object, shm, semVars, serverVars, clientVars>>

\* "", and what strncpy leaves while it has copied part of a word.
Empty == <<"empty", 0>>
Torn  == <<"torn", 0>>

\* ftruncate fills a new object with zeros.
ShmInit == /\ object = "none" /\ shm = Empty
           /\ client_sem = 0 /\ server_sem = 0
           /\ server_pc = [s \in Servers |-> "start"] /\ printed = [s \in Servers |-> <<>>]
           /\ client_pc = [c \in Clients |-> "start"] /\ current = [c \in Clients |-> 1]
           /\ words \in [Clients -> 0..MaxWords]
           /\ MapThenSumSet(LAMBDA c : words[c], Clients) <= MaxWords

ServerGoes(s, there) == server_pc' = [server_pc EXCEPT ![s] = there]
ClientGoes(c, there) == client_pc' = [client_pc EXCEPT ![c] = there]

-------------------------------------------------------------------------------
(* server.c                                                                *)

\* shm_open with O_CREAT: what exists is used as it is.
ServerCreate(s) == /\ server_pc[s] = "start"
                   /\ object' = IF object = "none" THEN "empty" ELSE object
                   /\ ServerGoes(s, "size")
                   /\ UNCHANGED <<shm, semVars, printed, clientVars>>

\* ftruncate, which changes nothing if the object has its size, mmap and sem_open.
ServerOpen(s) == /\ server_pc[s] = "size"
                 /\ object' = "sized"
                 /\ ServerGoes(s, "wait")
                 /\ UNCHANGED <<shm, semVars, printed, clientVars>>

\* "Wait for the client to signal a word"
ServerWait(s) == /\ server_pc[s] = "wait"
                 /\ client_sem > 0 /\ client_sem' = client_sem - 1
                 /\ ServerGoes(s, "test")
                 /\ UNCHANGED <<object, shm, server_sem, printed, clientVars>>

\* strcmp with "": a word that is being copied may look like either.
ServerTest(s) == /\ server_pc[s] = "test"
                 /\ \/ shm # Empty /\ ServerGoes(s, "print")
                    \/ shm \in {Empty, Torn} /\ ServerGoes(s, "answer_last")
                 /\ UNCHANGED <<object, shm, semVars, printed, clientVars>>

ServerPrint(s) == /\ server_pc[s] = "print"
                  /\ printed' = [printed EXCEPT ![s] = Append(@, shm)]
                  /\ ServerGoes(s, "answer")
                  /\ UNCHANGED <<object, shm, semVars, clientVars>>

\* "Signal the client to proceed to the next word", or that the server has
\* finished processing.
ServerPost(s) == /\ server_pc[s] \in {"answer", "answer_last"}
                 /\ server_sem' = server_sem + 1
                 /\ ServerGoes(s, IF server_pc[s] = "answer" THEN "wait" ELSE "last")
                 /\ UNCHANGED <<object, shm, client_sem, printed, clientVars>>

ServerLast_NoWait(s) == /\ server_pc[s] = "last"
                        /\ ServerGoes(s, "ended")
                        /\ UNCHANGED <<object, shm, semVars, printed, clientVars>>

\* "Wait for the client to indicate it has finished": on server_sem, to which the
\* server itself has just posted and on which the client waits too.
ServerLast(s) == /\ server_pc[s] = "last"
                 /\ server_sem > 0 /\ server_sem' = server_sem - 1
                 /\ ServerGoes(s, "ended")
                 /\ UNCHANGED <<object, shm, client_sem, printed, clientVars>>

Server(s) == \/ ServerCreate(s) \/ ServerOpen(s) \/ ServerWait(s) \/ ServerTest(s)
             \/ ServerPrint(s) \/ ServerPost(s) \/ ServerLast(s)

-------------------------------------------------------------------------------
(* client.c                                                                *)

\* shm_open without O_CREAT; mmap and sem_open.
ClientOpen(c) == /\ client_pc[c] = "start"
                 /\ ClientGoes(c, IF object = "none" THEN "failed" ELSE "scan")
                 /\ UNCHANGED <<object, shm, semVars, serverVars, words, current>>

LastWord(c) == current[c] = words[c] + 1

\* The write raises SIGBUS while the object has no pages.
ClientFault(c) == /\ client_pc[c] = "scan" /\ object = "empty"
                  /\ ClientGoes(c, "failed")
                  /\ UNCHANGED <<object, shm, semVars, serverVars, words, current>>

\* strncpy and the terminator, or the single '\0' after the last word.
ClientCopy(c) == /\ object = "sized"
                 /\ \/ /\ client_pc[c] = "scan" /\ ~LastWord(c)
                       /\ shm' = Torn /\ ClientGoes(c, "copy")
                    \/ /\ client_pc[c] = "scan" /\ LastWord(c)
                       /\ shm' = Empty /\ ClientGoes(c, "post")
                    \/ /\ client_pc[c] = "copy"
                       /\ shm' = <<c, current[c]>> /\ ClientGoes(c, "post")
                 /\ UNCHANGED <<object, semVars, serverVars, words, current>>

\* "Signal the server that a word is ready", or that the client is done.
ClientPost(c) == /\ client_pc[c] = "post"
                 /\ client_sem' = client_sem + 1
                 /\ ClientGoes(c, "wait")
                 /\ UNCHANGED <<object, shm, server_sem, serverVars, words, current>>

ClientWait_Skipped(c) ==
    /\ client_pc[c] = "wait"
    /\ IF LastWord(c) THEN server_sem > 0 /\ server_sem' = server_sem - 1
       ELSE UNCHANGED server_sem
    /\ current' = [current EXCEPT ![c] = IF LastWord(c) THEN @ ELSE @ + 1]
    /\ ClientGoes(c, IF LastWord(c) THEN "ended" ELSE "scan")
    /\ UNCHANGED <<object, shm, client_sem, serverVars, words>>

\* "Wait for the server to acknowledge"
ClientWait(c) ==
    /\ client_pc[c] = "wait"
    /\ server_sem > 0 /\ server_sem' = server_sem - 1
    /\ current' = [current EXCEPT ![c] = IF LastWord(c) THEN @ ELSE @ + 1]
    /\ ClientGoes(c, IF LastWord(c) THEN "ended" ELSE "scan")
    /\ UNCHANGED <<object, shm, client_sem, serverVars, words>>

Client(c) == \/ ClientOpen(c) \/ ClientFault(c) \/ ClientCopy(c) \/ ClientPost(c)
             \/ ClientWait(c)

-------------------------------------------------------------------------------
\* The user interrupts a process.
KillServer(s) == /\ server_pc[s] \notin {"start", "ended", "killed"}
                 /\ ServerGoes(s, "killed")
                 /\ UNCHANGED <<object, shm, semVars, printed, clientVars>>

KillClient(c) ==
    /\ client_pc[c] \notin {"start", "ended", "failed", "killed", "killed_waiting"}
    /\ ClientGoes(c, IF client_pc[c] = "wait" THEN "killed_waiting" ELSE "killed")
    /\ UNCHANGED <<object, shm, semVars, serverVars, words, current>>

ShmNext == \/ \E s \in Servers : Server(s) \/ KillServer(s)
           \/ \E c \in Clients : Client(c) \/ KillClient(c)

ShmSpec == ShmInit /\ [][ShmNext]_shmVars

\* The kernel runs every process that was started and can run.
ShmFairSpec == /\ ShmSpec
               /\ \A s \in Servers : WF_shmVars(server_pc[s] # "start" /\ Server(s))
               /\ \A c \in Clients : WF_shmVars(client_pc[c] # "start" /\ Client(c))

-------------------------------------------------------------------------------
Busy       == {s \in Servers : server_pc[s] \in {"test", "print", "answer", "answer_last"}}
Ended      == {s \in Servers : server_pc[s] = "ended"}
Unanswered == {c \in Clients : client_pc[c] \in {"wait", "killed_waiting"}}

\* Types of the processes' state and of the semaphores.
ShmTypeOK == /\ object \in {"none", "empty", "sized"}
             /\ client_sem \in Nat /\ server_sem \in Nat
             /\ server_pc \in [Servers -> {"start", "size", "wait", "test", "print",
                                           "answer", "answer_last", "last", "ended", "killed"}]
             /\ client_pc \in [Clients -> {"start", "scan", "copy", "post", "wait", "ended",
                                           "failed", "killed", "killed_waiting"}]

\* Every answer is for a client that waits for one, and a server that ends has used
\* up an answer itself (the sem_wait after its loop): among all the processes ever
\* started there are at least as many clients that never get their answer as there
\* are servers that ended.  A server and a client never both end.
EndedServerCostsAnswer ==
    Cardinality(Ended) + server_sem + Cardinality(Busy) + client_sem
        <= Cardinality(Unanswered)

\* Server s and client c are the only processes ever started and none was killed.
Pair(s, c) == /\ server_pc[s] \notin {"start", "killed"}
              /\ client_pc[c] \notin {"start", "failed", "killed", "killed_waiting"}
              /\ \A t \in Servers \ {s} : server_pc[t] = "start"
              /\ \A d \in Clients \ {c} : client_pc[d] = "start"

\* As long as a pair is undisturbed the server prints the client's words once each
\* and in order, never a half-copied one, and leaves its loop when it has had all.
PairDelivers ==
    \A s \in Servers, c \in Clients : Pair(s, c) =>
        /\ printed[s] = [n \in 1..Len(printed[s]) |-> <<c, n>>]
        /\ Len(printed[s]) \in {current[c] - 1, current[c]}
        /\ server_pc[s] \in {"answer_last", "last", "ended"} => Len(printed[s]) = words[c]

\* An undisturbed pair comes to a point where one of the two has ended and the
\* other waits for an answer that was taken away.
OneIsStranded ==
    \A s \in Servers, c \in Clients :
        Pair(s, c) ~> \/ ~Pair(s, c)
                      \/ server_pc[s] = "ended" /\ client_pc[c] = "wait" /\ server_sem = 0
                      \/ server_pc[s] = "last" /\ client_pc[c] = "ended" /\ server_sem = 0
===============================================================================
