------------------------------ MODULE WordStream ------------------------------
(***************************************************************************)
(* What the word-passing programs of the archive promise (pipe/simple,     *)
(* pipe/synchronized, pipe/reliable and                                    *)
(* pthread-condition/pthread_cond_wait-pthread_cond_signal): the words of  *)
(* a text file reach the reader once each, in file order, and the reader   *)
(* stops when, and only when, it has had them all.  A sender that gives up *)
(* half way leaves the reader with a prefix.                               *)
(*                                                                         *)
(* A file is a sequence of characters; every separator (' ', '\n', '\t')   *)
(* is the character Sep, every other character is a letter.                *)
(***************************************************************************)
EXTENDS Naturals, Sequences, FiniteSets

CONSTANT Files         \* the files a run may be started on

VARIABLES file, received, finished

vars == <<file, received, finished>>

Sep == 0

\* The positions at which a word starts, and where the word at i ends.
WordStarts(f) == {i \in DOMAIN f : f[i] # Sep /\ (i = 1 \/ f[i-1] = Sep)}
WordEnd(f, i) == CHOOSE j \in i..Len(f) :
                    /\ \A k \in i..j : f[k] # Sep
                    /\ j = Len(f) \/ f[j+1] = Sep

\* How many words start before i.
Before(f, i) == Cardinality({j \in WordStarts(f) : j < i})

\* The words of a file in file order: the maximal runs of letters.
Words(f) == [n \in 1..Cardinality(WordStarts(f)) |->
                LET i == CHOOSE i \in WordStarts(f) : Before(f, i) = n - 1
                IN  SubSeq(f, i, WordEnd(f, i))]

Init == /\ file \in Files
        /\ received = <<>>
        /\ finished = FALSE

Deliver == /\ ~finished
           /\ Len(received) < Len(Words(file))
           /\ received' = Append(received, Words(file)[Len(received) + 1])
           /\ UNCHANGED <<file, finished>>

Finish == /\ ~finished
          /\ received = Words(file)
          /\ finished' = TRUE
          /\ UNCHANGED <<file, received>>

\* The program is started again, on any file.
Restart == Init'

Next == Deliver \/ Finish \/ Restart

Spec == Init /\ [][Next]_vars
===============================================================================
