----------------------------- MODULE ReliablePipe -----------------------------
(***************************************************************************)
(* pipe/reliable/main.c: a child process reads a file and sends its words  *)
(* down a pipe, one length byte and then the characters; the parent reads  *)
(* them back.  write_fully and read_fully loop over partial transfers, and *)
(* two named semaphores are meant to make the two sides take turns.        *)
(*                                                                         *)
(* The semaphores live in the system, not in the processes: they survive a *)
(* run that is killed, and sem_open without O_EXCL then hands the next run *)
(* the value that was left behind.                                         *)
(***************************************************************************)
EXTENDS Integers, Sequences, SequencesExt

CONSTANTS Files,            \* the files the program may be given
          MAX_WORD_LENGTH,  \* 255 in the code
          UINT8_MAX,        \* 255: the range of "uint8_t length"
          PIPE_CAPACITY,    \* bytes the kernel buffers for a pipe
          MaxRestarts       \* bound: how often the user starts it again

ASSUME ReliablePipeAssumption ==
    /\ MAX_WORD_LENGTH \in Nat \ {0}
    /\ UINT8_MAX \in Nat /\ MAX_WORD_LENGTH <= UINT8_MAX
    /\ PIPE_CAPACITY \in Nat \ {0}
    /\ MaxRestarts \in Nat
    /\ Files \subseteq Seq(Nat)

VARIABLES
    file,       \* the file of the current run
    cpc, stage, \* the child: where it is; what it does after send_word returns
    pos, word,  \* the child: the next character; the letters buffered in word[]
    out,        \* the child: what write_fully still has to write
    ppc,        \* the parent: where it is
    need, buf,  \* the parent: what read_fully still has to read; what it has
    pipe,       \* the bytes in the pipe
    sem,        \* the values of the two semaphores
    linked,     \* the semaphore names that exist in the system
    received,   \* the words the parent has printed
    start,      \* history: the values sem_open found when the run started
    posted, waited, got, acked,  \* history: completed semaphore calls
    restarts

childVars  == <<cpc, stage, pos, word, out>>
parentVars == <<ppc, need, buf, received>>
countVars  == <<posted, waited, got, acked>>
vars == <<file, childVars, parentVars, pipe, sem, linked, start, countVars,
          restarts>>

Sep   == 0
Names == {"SEM_PARENT", "SEM_CHILD"}

\* Nobody has the write end of the pipe open any more: read() returns 0.
WriteEndClosed == cpc \in {"unlink", "unlink2", "exited", "failed", "killed"}

Over == /\ ppc \in {"exited", "failed", "killed"}
        /\ cpc \in {"none", "exited", "failed", "killed"}

-------------------------------------------------------------------------------
(* main() up to and including fork().                                      *)

\* sem_open(name, O_CREAT, mode, value): an existing semaphore keeps its value.
sem_open(name, value) == IF name \in linked THEN sem[name] ELSE value

Init == /\ file \in Files
        /\ cpc = "none" /\ stage = "reading" /\ pos = 1 /\ word = <<>> /\ out = <<>>
        /\ ppc = "main" /\ need = 0 /\ buf = <<>>
        /\ pipe = <<>>
        /\ sem = [n \in Names |-> 0] /\ linked = {}
        /\ received = <<>>
        /\ start = sem
        /\ posted = 0 /\ waited = 0 /\ got = 0 /\ acked = 0
        /\ restarts = 0

\* fopen or pipe fails, or sem_open fails for the first or the second name, or
\* fork fails: error_exit, with the semaphores made so far left linked.
MainFails ==
    /\ ppc = "main"
    /\ \E made \in {{}, {"SEM_PARENT"}, Names} :
          /\ sem' = [n \in Names |->
                        IF n \in made
                        THEN sem_open(n, IF n = "SEM_PARENT" THEN 0 ELSE 1)
                        ELSE sem[n]]
          /\ linked' = linked \cup made
    /\ ppc' = "failed"
    /\ UNCHANGED <<file, childVars, need, buf, received, pipe, start, countVars,
                   restarts>>

Main ==
    /\ ppc = "main"
    /\ sem' = [n \in Names |-> sem_open(n, IF n = "SEM_PARENT" THEN 0 ELSE 1)]
    /\ start' = sem'
    /\ linked' = Names
    /\ cpc' = "scan" /\ ppc' = "wait"
    /\ UNCHANGED <<file, stage, pos, word, out, need, buf, received, pipe,
                   countVars, restarts>>

-------------------------------------------------------------------------------
(* The child.                                                              *)

uint8_t(n) == n % (UINT8_MAX + 1)

\* send_word(word): the length byte is written first.
BeginSend(w, st) == /\ cpc' = "wlen"
                    /\ stage' = st
                    /\ out' = w

\* One turn of the fgetc loop of child_process, and what follows it at EOF.
child_process ==
    /\ cpc = "scan"
    /\ \/ /\ pos > Len(file)
          /\ IF uint8_t(Len(word)) > 0
             THEN BeginSend(word, "tail")
             ELSE BeginSend(<<>>, "sentinel")
          /\ UNCHANGED <<pos, word>>
       \/ /\ pos <= Len(file)
          /\ file[pos] = Sep
          /\ pos' = pos + 1
          /\ IF uint8_t(Len(word)) > 0
             THEN BeginSend(word, "reading")
             ELSE UNCHANGED <<cpc, stage, out>>
          /\ UNCHANGED word
       \/ /\ pos <= Len(file)
          /\ file[pos] # Sep
          /\ IF uint8_t(Len(word)) >= MAX_WORD_LENGTH
             THEN /\ cpc' = "failed"             \* error_exit
                  /\ UNCHANGED <<pos, word>>
             ELSE /\ word' = Append(word, file[pos])
                  /\ pos' = pos + 1
                  /\ UNCHANGED cpc
          /\ UNCHANGED <<stage, out>>
    /\ UNCHANGED <<file, parentVars, pipe, sem, linked, start, countVars, restarts>>

\* write_fully(&length): a single byte.
WriteLength ==
    /\ cpc = "wlen"
    /\ Len(pipe) < PIPE_CAPACITY
    /\ pipe' = Append(pipe, uint8_t(Len(out)))
    /\ cpc' = IF uint8_t(Len(out)) > 0 THEN "wword" ELSE "post"
    /\ UNCHANGED <<file, stage, pos, word, out, parentVars, sem, linked, start,
                   countVars, restarts>>

write_fully_Once ==
    /\ cpc = "wword"
    /\ \E k \in 1..Len(out) :
          /\ Len(pipe) + k <= PIPE_CAPACITY
          /\ pipe' = pipe \o SubSeq(out, 1, k)
    /\ cpc' = "post"
    /\ UNCHANGED <<file, stage, pos, word, out, parentVars, sem, linked, start,
                   countVars, restarts>>

\* write_fully(word): each write() takes what fits; the loop writes the rest.
write_fully ==
    /\ cpc = "wword"
    /\ \E k \in 1..Len(out) :
          /\ Len(pipe) + k <= PIPE_CAPACITY
          /\ pipe' = pipe \o SubSeq(out, 1, k)
          /\ out' = SubSeq(out, k + 1, Len(out))
          /\ cpc' = IF k = Len(out) THEN "post" ELSE "wword"
    /\ UNCHANGED <<file, stage, pos, word, parentVars, sem, linked, start,
                   countVars, restarts>>

\* "Tell parent it can read now"
ChildPost ==
    /\ cpc = "post"
    /\ sem' = [sem EXCEPT !["SEM_PARENT"] = @ + 1]
    /\ posted' = posted + 1
    /\ cpc' = "wait"
    /\ UNCHANGED <<file, stage, pos, word, out, parentVars, pipe, linked, start,
                   waited, got, acked, restarts>>

AwaitReader_Skipped == sem' = sem
AwaitReader_Trywait == sem' = [sem EXCEPT !["SEM_CHILD"] = IF @ > 0 THEN @ - 1 ELSE @]

\* "Wait for parent to finish reading"
AwaitReader == /\ sem["SEM_CHILD"] > 0
               /\ sem' = [sem EXCEPT !["SEM_CHILD"] = @ - 1]

\* The end of send_word, and what child_process does next.
ChildWait ==
    /\ cpc = "wait"
    /\ AwaitReader
    /\ waited' = waited + 1
    /\ \/ stage = "reading"  /\ cpc' = "scan" /\ word' = <<>> /\ UNCHANGED <<stage, out>>
       \/ stage = "tail"     /\ BeginSend(<<>>, "sentinel") /\ UNCHANGED word
       \/ stage = "sentinel" /\ cpc' = "close" /\ UNCHANGED <<stage, word, out>>
    /\ UNCHANGED <<file, pos, parentVars, pipe, linked, start, posted, got, acked,
                   restarts>>

\* fclose(file), close(pipefd[1]); then main unlinks both names and returns.
ChildFinish ==
    /\ \/ cpc = "close"   /\ cpc' = "unlink"  /\ UNCHANGED linked
       \/ cpc = "unlink"  /\ cpc' = "unlink2" /\ linked' = linked \ {"SEM_PARENT"}
       \/ cpc = "unlink2" /\ cpc' = "exited"  /\ linked' = linked \ {"SEM_CHILD"}
    /\ UNCHANGED <<file, stage, pos, word, out, parentVars, pipe, sem, start,
                   countVars, restarts>>

Child == child_process \/ WriteLength \/ write_fully \/ ChildPost \/ ChildWait
         \/ ChildFinish

-------------------------------------------------------------------------------
(* The parent.                                                             *)

AwaitWriter_Skipped == sem' = sem

\* "Wait for child to write"
AwaitWriter == /\ sem["SEM_PARENT"] > 0
               /\ sem' = [sem EXCEPT !["SEM_PARENT"] = @ - 1]

ParentWait ==
    /\ ppc = "wait"
    /\ AwaitWriter
    /\ got' = got + 1
    /\ ppc' = "rlen" /\ need' = 1 /\ buf' = <<>>
    /\ UNCHANGED <<file, childVars, received, pipe, linked, start, posted, waited,
                   acked, restarts>>

\* One read() of read_fully.  At end of file read() returns 0 and the loop goes
\* round again with the same count: the parent spins.
read_fully ==
    /\ ppc \in {"rlen", "rword"}
    /\ \/ /\ pipe = <<>> /\ WriteEndClosed
          /\ UNCHANGED <<ppc, need, buf, received, pipe>>
       \/ \E k \in 1..need :
          /\ k <= Len(pipe)
          /\ pipe' = SubSeq(pipe, k + 1, Len(pipe))
          /\ \/ /\ ppc = "rlen"
                /\ need' = Head(pipe) /\ buf' = <<>>
                /\ ppc' = IF Head(pipe) = 0 THEN "close" ELSE "rword"
                /\ UNCHANGED received
             \/ /\ ppc = "rword"
                /\ need' = need - k
                /\ buf' = buf \o SubSeq(pipe, 1, k)
                /\ IF k = need
                   THEN ppc' = "post" /\ received' = Append(received, buf')
                   ELSE UNCHANGED <<ppc, received>>
    /\ UNCHANGED <<file, childVars, sem, linked, start, countVars, restarts>>

ParentPost_Missing ==
    /\ ppc = "post"
    /\ acked' = acked + 1
    /\ ppc' = "wait"
    /\ UNCHANGED <<file, childVars, need, buf, received, pipe, sem, linked, start,
                   posted, waited, got, restarts>>

\* "Tell child it can write again"
ParentPost ==
    /\ ppc = "post"
    /\ sem' = [sem EXCEPT !["SEM_CHILD"] = @ + 1]
    /\ acked' = acked + 1
    /\ ppc' = "wait"
    /\ UNCHANGED <<file, childVars, need, buf, received, pipe, linked, start,
                   posted, waited, got, restarts>>

\* close(pipefd[0]); then main unlinks both names and returns.
ParentFinish ==
    /\ \/ ppc = "close"   /\ ppc' = "unlink"  /\ UNCHANGED linked
       \/ ppc = "unlink"  /\ ppc' = "unlink2" /\ linked' = linked \ {"SEM_PARENT"}
       \/ ppc = "unlink2" /\ ppc' = "exited"  /\ linked' = linked \ {"SEM_CHILD"}
    /\ UNCHANGED <<file, childVars, need, buf, received, pipe, sem, start,
                   countVars, restarts>>

Parent == ParentWait \/ read_fully \/ ParentPost \/ ParentFinish

-------------------------------------------------------------------------------
(* The user: interrupts the run (both processes are in the foreground      *)
(* group), and starts the program again once nothing of it is running.     *)

Kill == /\ ~Over
        /\ ppc # "main"
        /\ restarts < MaxRestarts
        /\ cpc' = IF cpc \in {"exited", "failed"} THEN cpc ELSE "killed"
        /\ ppc' = IF ppc = "exited" THEN ppc ELSE "killed"
        /\ UNCHANGED <<file, stage, pos, word, out, need, buf, received, pipe, sem,
                       linked, start, countVars, restarts>>

Restart ==
    /\ Over
    /\ restarts < MaxRestarts
    /\ restarts' = restarts + 1
    /\ file' \in Files
    /\ cpc' = "none" /\ stage' = "reading" /\ pos' = 1 /\ word' = <<>> /\ out' = <<>>
    /\ ppc' = "main" /\ need' = 0 /\ buf' = <<>>
    /\ pipe' = <<>>
    /\ received' = <<>>
    /\ posted' = 0 /\ waited' = 0 /\ got' = 0 /\ acked' = 0
    /\ UNCHANGED <<sem, linked, start>>

Next == MainFails \/ Main \/ Child \/ Parent \/ Kill \/ Restart

Spec == Init /\ [][Next]_vars

\* The kernel keeps running both processes; nobody has to interrupt them.
Fairness == WF_vars(Main) /\ WF_vars(Child) /\ WF_vars(Parent)

FairSpec == Spec /\ Fairness

-------------------------------------------------------------------------------
(* Properties.                                                             *)

CPC   == {"none", "scan", "wlen", "wword", "post", "wait", "close", "unlink",
          "unlink2", "exited", "failed", "killed"}
PPC   == {"main", "wait", "rlen", "rword", "post", "close", "unlink", "unlink2",
          "exited", "failed", "killed"}

\* Types of the state of pipe/reliable: both semaphores stay natural numbers.
TypeOK ==
    /\ file \in Files
    /\ cpc \in CPC /\ stage \in {"reading", "tail", "sentinel"}
    /\ pos \in Nat \ {0} /\ word \in Seq(Nat) /\ out \in Seq(Nat)
    /\ ppc \in PPC /\ need \in Nat /\ buf \in Seq(Nat)
    /\ pipe \in Seq(Nat)
    /\ sem \in [Names -> Nat] /\ linked \subseteq Names
    /\ received \in Seq(Seq(Nat))
    /\ start \in [Names -> Nat]
    /\ posted \in Nat /\ waited \in Nat /\ got \in Nat /\ acked \in Nat
    /\ restarts \in 0..MaxRestarts

Running == ppc # "main" /\ cpc # "none"

\* The child never runs further ahead than its permits: the words it has
\* announced and the parent has not yet acknowledged exceed the value found in
\* SEM_CHILD by at most one, whatever value that is.
BoundedAhead == Running => posted <= acked + start["SEM_CHILD"] + 1

\* The last sem_wait of the child (after the length-0 word) is never answered:
\* the parent breaks out without posting.  It needs the permit SEM_CHILD was
\* created with, so a run that finds the 0 left by a killed run never gets its
\* child past that wait.
StaleZeroStrandsChild ==
    Running /\ start["SEM_CHILD"] = 0
        => cpc \notin {"close", "unlink", "unlink2", "exited"}

\* A run in which either process ended normally leaves no semaphore name behind.
NormalExitUnlinks == "exited" \in {cpc, ppc} => linked = {}

\* The parent has read the length-0 word and stops.
ReaderDone == need = 0 /\ buf = <<>> /\ got = acked + 1

WS == INSTANCE WordStream WITH finished <- ReaderDone

\* The words of the file reach the parent once each and in order, and it stops
\* exactly when it has had them all (send_word, parent_process).
DeliversWords == WS!Spec
===============================================================================
