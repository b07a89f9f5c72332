---------------------------- MODULE MCReliablePipe ----------------------------
(* Instances of ReliablePipe for TLC, and what is checked only there. *)
EXTENDS ReliablePipe

\* Every file of up to four characters over two letters and the separator: words of
\* length 1, MAX_WORD_LENGTH = 2 and too long, leading and repeated blanks, a last
\* word with and without a newline; and a file whose second word is too long.
AllFiles == SeqOf({0, 1, 2}, 4) \cup {<<2, 0, 1, 2, 1, 0>>}

\* The user interrupted the run.
Stopped == "killed" \in {cpc, ppc}

\* A run that found a permit in SEM_CHILD ends, unless the child gives up on a word
\* that is too long: both processes exit, and the names are gone.
CleanRunEnds ==
    (Running /\ start["SEM_CHILD"] >= 1)
        ~> (Stopped \/ cpc = "failed" \/ (cpc = "exited" /\ ppc = "exited" /\ linked = {}))

\* A child that gives up says nothing to the parent, which prints every word
\* that was announced and then waits in sem_wait for ever.
GivingUpStrandsParent ==
    (cpc = "failed" /\ start["SEM_PARENT"] = 0)
        ~> (Stopped \/ [](/\ ppc = "wait" /\ sem["SEM_PARENT"] = 0
                          /\ Len(received) = posted))
===============================================================================
