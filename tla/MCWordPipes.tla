----------------------------- MODULE MCWordPipes -----------------------------
(* pipe/simple, pipe/synchronized and domain-socket/socketpair for TLC: a run is of
   one of the programs. *)
EXTENDS SynchronizedPipe

CONSTANT MaxGarbage       \* bound: the lines the parent of socketpair prints

VARIABLE program

P == INSTANCE SocketPair WITH MaxPrinted <- MaxGarbage

allVars == <<program, vars>>

PipesInit == /\ program \in {"simple", "synchronized", "socketpair"}
             /\ Init

SimpleChild  == program = "simple" /\ S!Child  /\ UNCHANGED <<program, syncVars>>
SimpleParent == program = "simple" /\ S!Parent /\ UNCHANGED <<program, syncVars>>
PairChild  == program = "socketpair" /\ P!Child  /\ UNCHANGED <<program, syncVars>>
PairParent == program = "socketpair" /\ P!Parent /\ UNCHANGED <<program, syncVars>>
SynchronizedChild  == program = "synchronized" /\ Child /\ UNCHANGED program
SynchronizedParent == program = "synchronized" /\ parent_process /\ UNCHANGED program

PipesNext == \/ SimpleChild \/ SimpleParent \/ PairChild \/ PairParent
             \/ SynchronizedChild \/ SynchronizedParent

\* The kernel keeps running both processes.
PipesSpec == /\ PipesInit /\ [][PipesNext]_allVars
             /\ WF_allVars(SimpleChild) /\ WF_allVars(SimpleParent)
             /\ WF_allVars(PairChild) /\ WF_allVars(PairParent)
             /\ WF_allVars(SynchronizedChild) /\ WF_allVars(SynchronizedParent)

-------------------------------------------------------------------------------
\* Every file of up to five characters over two letters and the separator: words
\* of length 1, MAX_WORD_LENGTH = 2 and too long, blanks anywhere, a last word
\* with and without a newline.
AllFiles == SeqOf({0, 1, 2}, 5)

WordsOf == INSTANCE WordStream WITH finished <- FALSE
Words   == WordsOf!Words(file)

\* The words the child gives up on, and how many there are before the first of them.
LongWords == {n \in DOMAIN Words : Len(Words[n]) > MAX_WORD_LENGTH}
TooLong   == LongWords # {}
Sendable  == IF TooLong THEN Min(LongWords) - 1 ELSE Len(Words)

\* The child of socketpair could not open the file.
Unopened == cpc = "failed" /\ word = <<>>
Sent     == IF Unopened THEN 0 ELSE Sendable

\* What the parent printed for words that were sent.
Genuine == SubSeq(received, 1, Min({Len(received), Sent}))

WS == INSTANCE WordStream WITH
          received <- Genuine,
          finished <- ~TooLong /\ ~Unopened /\ ppc \in {"close", "exited"}

\* The words of the file reach the parent once each and in order, as far as the
\* child sends them, and if the child does not give up the parent stops exactly
\* when it has had them all (send_word, parent_process): a single read() is enough
\* because the write of a whole word is atomic, and the semaphores add nothing.
DeliversWords == WS!Spec

\* Both processes end, however little the pipe holds, unless a word is too long or
\* the child of socketpair cannot open the file.
RunEnds == ~TooLong ~> (Unopened \/ (cpc = "exited" /\ ppc = "exited"))

\* The k-th byte of word[] after the first n words: nobody's, a terminator, or the
\* k-th letter of the last word that, with its terminator, reached so far.
Leftover(n, k, byte) ==
    \/ byte \in {S!Junk, S!Nul}
    \/ \E w \in 1..n : /\ k <= Len(Words[w]) /\ byte = Words[w][k]
                       /\ \A v \in (w + 1)..n : Len(Words[v]) + 1 < k

\* As long as the child lives or the pipe holds bytes, what the parent has printed
\* is a prefix of the words of the file.  When the child has given up after some
\* words, the parent never ends and prints the last of them again: read() returns
\* 0, length and word[] are stale (parent_process).  In socketpair, where they are
\* indeterminate, it may end; if it prints, then bytes each of which is junk, a
\* terminator, or still where the last word that reached so far left it.
RepeatsLastWord ==
    /\ cpc # "failed" \/ pipe # <<>> => IsPrefix(received, Words)
    /\ program = "socketpair" =>
          \A n \in (Sent + 1)..Len(received) : \A k \in DOMAIN received[n] :
              Leftover(Sent, k, received[n][k])
    /\ program # "socketpair" /\ TooLong /\ Sendable > 0 =>
          /\ ppc \notin {"close", "exited"}
          /\ \A n \in (Sendable + 1)..Len(received) : received[n] = received[Sendable]

\* In pipe/synchronized the repetition stops when the parent has used up the
\* permits SEM_PARENT was created with (the permission mask); then it waits for
\* ever.
GivingUpStrandsParent ==
    (program = "synchronized" /\ cpc = "failed" /\ posted > 0)
        ~> [](/\ pturn = "wait" /\ sem.parent = 0
              /\ Len(received) = PERMISSIONS + posted)
===============================================================================
