--------------------------- MODULE SynchronizedPipe ---------------------------
(***************************************************************************)
(* pipe/synchronized/main.c: the processes of SimplePipe with a semaphore  *)
(* for each side.  sem_open is called as                                   *)
(*     sem_open(name, O_CREAT, O_CREAT, S_IRUSR | S_IWUSR | ..., value)    *)
(* with one argument too many: the mode is O_CREAT and the initial value   *)
(* of BOTH semaphores is the permission mask; the value meant is ignored.  *)
(* A run here starts without the names; what a name left behind does to    *)
(* the next run is the subject of ReliablePipe.                            *)
(***************************************************************************)
EXTENDS Integers, Sequences, SequencesExt

CONSTANTS Files, MAX_WORD_LENGTH, UINT8_MAX, PIPE_CAPACITY, MaxPrinted,
          PERMISSIONS       \* S_IRUSR | S_IWUSR | S_IRGRP | S_IROTH: 420

ASSUME SynchronizedPipeAssumption ==
    /\ MAX_WORD_LENGTH \in Nat \ {0}
    /\ UINT8_MAX \in Nat /\ MAX_WORD_LENGTH <= UINT8_MAX
    /\ PIPE_CAPACITY \in Nat /\ MAX_WORD_LENGTH <= PIPE_CAPACITY
    /\ MaxPrinted \in Nat /\ PERMISSIONS \in Nat
    /\ Files \subseteq Seq(Nat)

VARIABLES file, cpc, stage, pos, word, ppc, length, wordbuf, pipe, received,
          sem,              \* the values of the two semaphores
          cturn, pturn,     \* where the child and the parent are around their semaphores
          posted, got       \* history: posts by the child, waits the parent got through

pipeVars == <<file, cpc, stage, pos, word, ppc, length, wordbuf, pipe, received>>
syncVars == <<sem, cturn, pturn, posted, got>>
vars == <<pipeVars, syncVars>>

S == INSTANCE SimplePipe

sem_open_Meant(mode, value, ignored) == ignored

\* sem_open(name, oflag, mode, value, ...): what follows value is not looked at.
sem_open(mode, value, ignored) == value

Init == /\ S!Init
        /\ sem = [parent |-> sem_open("O_CREAT", PERMISSIONS, 0),
                  child  |-> sem_open("O_CREAT", PERMISSIONS, 1)]
        /\ cturn = "write" /\ pturn = "wait"
        /\ posted = 0 /\ got = 0

-------------------------------------------------------------------------------
\* The fgetc loop, and fclose/close at the end.
child_process == /\ S!child_process \/ S!ChildClose
                 /\ UNCHANGED syncVars

\* send_word: the two writes, "Tell parent it can read now", "Wait for parent to
\* finish reading", and the return.
send_word ==
    \/ S!send_word /\ UNCHANGED syncVars
    \/ /\ cpc = "sent" /\ cturn = "write"
       /\ sem' = [sem EXCEPT !.parent = @ + 1]
       /\ posted' = posted + 1
       /\ cturn' = "wait"
       /\ UNCHANGED <<pipeVars, pturn, got>>
    \/ /\ cturn = "wait"
       /\ sem.child > 0
       /\ sem' = [sem EXCEPT !.child = @ - 1]
       /\ cturn' = "write"
       /\ S!AfterSend
       /\ UNCHANGED <<pturn, posted, got>>

Child == child_process \/ send_word

\* "Wait for child to write"; two reads; "Tell child it can write again".
parent_process ==
    \/ /\ pturn = "wait"
       /\ sem.parent > 0
       /\ sem' = [sem EXCEPT !.parent = @ - 1]
       /\ got' = got + 1
       /\ pturn' = "read"
       /\ UNCHANGED <<pipeVars, cturn, posted>>
    \/ /\ pturn = "read"
       /\ S!ReadLength \/ S!ParentClose
       /\ UNCHANGED syncVars
    \/ /\ pturn = "read"
       /\ S!ReadWord
       /\ pturn' = "post"
       /\ UNCHANGED <<sem, cturn, posted, got>>
    \/ /\ pturn = "post"
       /\ sem' = [sem EXCEPT !.child = @ + 1]
       /\ pturn' = "wait"
       /\ UNCHANGED <<pipeVars, cturn, posted, got>>

Next == Child \/ parent_process

Spec == Init /\ [][Next]_vars

\* The kernel keeps running both processes.
FairSpec == Spec /\ WF_vars(Child) /\ WF_vars(parent_process)
===============================================================================
