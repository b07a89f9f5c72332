------------------------------ MODULE SocketPair ------------------------------
(***************************************************************************)
(* domain-socket/socketpair/main.c: the processes of SimplePipe with a     *)
(* pair of connected sockets in place of the pipe.  Two things differ: the *)
(* child opens the file itself, after fork; and the parent's length and    *)
(* word are declared in its loop, so that they are indeterminate at the    *)
(* start of each turn and stay so when read() returns 0 bytes: any byte of *)
(* word may still be what it was in the turn before, or may not.           *)
(***************************************************************************)
EXTENDS Integers, Sequences, SequencesExt

CONSTANTS Files, MAX_WORD_LENGTH, UINT8_MAX, PIPE_CAPACITY, MaxPrinted

VARIABLES file, cpc, stage, pos, word, ppc, length, wordbuf, pipe, received

S == INSTANCE SimplePipe

Init == S!Init

-------------------------------------------------------------------------------
\* fopen: without the file the child ends, and the parent is not told.
OpenFails ==
    /\ cpc = "scan" /\ stage = "reading" /\ pos = 1 /\ word = <<>>
    /\ cpc' = "failed"
    /\ UNCHANGED <<file, stage, pos, word, ppc, length, wordbuf, pipe, received>>

child_process == S!child_process
send_word     == S!send_word
AfterSend     == S!AfterSend
ChildClose    == S!ChildClose

Child == OpenFails \/ child_process \/ send_word \/ AfterSend \/ ChildClose

\* The length byte, into a new length; what word[] holds is unspecified.
ReadLength ==
    /\ ppc = "rlen"
    /\ \E bytes \in S!ReadOutcome(1) : \E indeterminate \in 0..UINT8_MAX :
          /\ length' = IF bytes = <<>> THEN indeterminate ELSE bytes[1]
          /\ ppc' = IF length' = 0 THEN "close" ELSE "rword"
          /\ pipe' = SubSeq(pipe, Len(bytes) + 1, Len(pipe))
    /\ \E kept \in SUBSET DOMAIN wordbuf :
          wordbuf' = [i \in DOMAIN wordbuf |-> IF i \in kept THEN wordbuf[i] ELSE S!Junk]
    /\ UNCHANGED <<file, cpc, stage, pos, word, received>>

ReadWord    == S!ReadWord
ParentClose == S!ParentClose

Parent == ReadLength \/ ReadWord \/ ParentClose
===============================================================================
