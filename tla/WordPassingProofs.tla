--------------------------- MODULE WordPassingProofs ---------------------------
(***************************************************************************)
(* Proofs about the programs in which one process passes words to another. *)
(* pipe/simple, pipe/synchronized and socketpair, for every set of files   *)
(* and every pipe capacity: the parent prints the words the child sends,   *)
(* and what it prints when the child has given up.  shared-memory, for any *)
(* finite number of servers and clients, started and killed in any order,  *)
(* and files of any length.                                                *)
(***************************************************************************)
EXTENDS MCWordPipes, SharedMemory, SequenceTheorems, FiniteSetTheorems, WellFoundedInduction,
        TLAPS

USE SynchronizedPipeAssumption DEF SynchronizedPipeAssumption

-------------------------------------------------------------------------------
(* The words of a file                                                     *)

LEMMA SameCount == \A X : WordsOf!Cardinality(X) = Cardinality(X)
  BY DEF WordsOf!Cardinality, Cardinality

\* The places at which a word starts before i.
StartsBefore(f, i) == {j \in WordsOf!WordStarts(f) : j < i}

LEMMA StartsFinite ==
    ASSUME NEW f \in Seq(Nat)
    PROVE  /\ WordsOf!WordStarts(f) \subseteq 1..Len(f) /\ Len(f) \in Nat
           /\ IsFiniteSet(WordsOf!WordStarts(f)) /\ Cardinality(WordsOf!WordStarts(f)) \in Nat
           /\ \A i : IsFiniteSet(StartsBefore(f, i)) /\ WordsOf!Before(f, i) \in Nat
                     /\ WordsOf!Before(f, i) = Cardinality(StartsBefore(f, i))
<1>1. Len(f) \in Nat /\ WordsOf!WordStarts(f) \subseteq 1..Len(f)
  BY LenProperties DEF WordsOf!WordStarts
<1>2. IsFiniteSet(1..Len(f))
  BY <1>1, FS_Interval
<1>3. IsFiniteSet(WordsOf!WordStarts(f)) /\ Cardinality(WordsOf!WordStarts(f)) \in Nat
  BY <1>1, <1>2, FS_Subset, FS_CardinalityType
<1>4. ASSUME NEW i PROVE IsFiniteSet(StartsBefore(f, i))
                         /\ Cardinality(StartsBefore(f, i)) \in Nat
                         /\ WordsOf!Before(f, i) = Cardinality(StartsBefore(f, i))
  <2>1. StartsBefore(f, i) \in SUBSET WordsOf!WordStarts(f)
    BY DEF StartsBefore
  <2>2. WordsOf!Before(f, i) = Cardinality(StartsBefore(f, i))
    BY SameCount DEF StartsBefore, WordsOf!Before
  <2> QED BY <1>3, <2>1, <2>2, FS_Subset, FS_CardinalityType
<1> QED BY <1>1, <1>3, <1>4

\* A place that starts no word adds none, one that starts a word adds one.
LEMMA BeforeNext ==
    ASSUME NEW f \in Seq(Nat), NEW s \in Nat, NEW e \in Nat, s <= e,
           \A j \in WordsOf!WordStarts(f) : ~(s < j /\ j < e)
    PROVE  WordsOf!Before(f, e) = IF s \in WordsOf!WordStarts(f) /\ s < e
                             THEN WordsOf!Before(f, s) + 1 ELSE WordsOf!Before(f, s)
<1> USE StartsFinite
<1>1. CASE s \in WordsOf!WordStarts(f) /\ s < e
  <2>1. StartsBefore(f, e) = StartsBefore(f, s) \cup {s} /\ s \notin StartsBefore(f, s)
    BY <1>1 DEF StartsBefore
  <2>2. Cardinality(StartsBefore(f, s) \cup {s}) = Cardinality(StartsBefore(f, s)) + 1
    BY <2>1, FS_AddElement
  <2> QED BY <1>1, <2>1, <2>2
<1>2. CASE ~(s \in WordsOf!WordStarts(f) /\ s < e)
  <2>1. StartsBefore(f, e) = StartsBefore(f, s)
    BY <1>2 DEF StartsBefore
  <2> QED BY <1>2, <2>1
<1> QED BY <1>1, <1>2

LEMMA BeforeEnds ==
    ASSUME NEW f \in Seq(Nat)
    PROVE  WordsOf!Before(f, 1) = 0 /\ WordsOf!Before(f, Len(f) + 1) = Cardinality(WordsOf!WordStarts(f))
<1>1. StartsBefore(f, 1) = {}
  BY StartsFinite DEF StartsBefore
<1>2. StartsBefore(f, Len(f) + 1) = WordsOf!WordStarts(f)
  BY StartsFinite DEF StartsBefore
<1> QED BY <1>1, <1>2, StartsFinite, FS_EmptySet

\* Two words are not the same number of words away from the start.
LEMMA BeforeGrows ==
    ASSUME NEW f \in Seq(Nat), NEW s \in WordsOf!WordStarts(f), NEW e \in Nat, s < e
    PROVE  WordsOf!Before(f, s) + 1 <= WordsOf!Before(f, e)
<1>1. /\ StartsBefore(f, s) \cup {s} \in SUBSET StartsBefore(f, e) /\ s \notin StartsBefore(f, s)
      /\ s \in Nat
  BY StartsFinite DEF StartsBefore
<1>2. Cardinality(StartsBefore(f, s) \cup {s}) = Cardinality(StartsBefore(f, s)) + 1
  BY <1>1, StartsFinite, FS_AddElement
<1>3. Cardinality(StartsBefore(f, s) \cup {s}) <= Cardinality(StartsBefore(f, e))
  BY <1>1, StartsFinite, FS_Subset
<1> QED BY <1>2, <1>3, StartsFinite

LEMMA WordsLength ==
    ASSUME NEW f \in Seq(Nat)
    PROVE  /\ Len(WordsOf!Words(f)) = Cardinality(WordsOf!WordStarts(f)) /\ Len(WordsOf!Words(f)) \in Nat
           /\ DOMAIN WordsOf!Words(f) = 1..Len(WordsOf!Words(f))
           /\ WordsOf!Words(f) = [n \in 1..Len(WordsOf!Words(f)) |-> WordsOf!Words(f)[n]]
<1> DEFINE w == WordsOf!Words(f)
           n == Cardinality(WordsOf!WordStarts(f))
           V == {w[k] : k \in 1..n}
<1>1. n \in Nat
  BY StartsFinite
<1>2. w \in [1..n -> V]
  <2> DEFINE nth(k) == LET i == CHOOSE i \in WordsOf!WordStarts(f) : WordsOf!Before(f, i) = k - 1
                        IN  SubSeq(f, i, WordsOf!WordEnd(f, i))
  <2>1. w = [k \in 1..n |-> nth(k)]
    BY SameCount, Zenon DEF WordsOf!Words
  <2> HIDE DEF nth, w, n
  <2>2. \A k \in 1..n : w[k] \in V
    BY DEF V
  <2> QED BY <2>1, <2>2
<1> HIDE DEF w, n, V
<1>3. w \in Seq(V)
  BY <1>1, <1>2, SeqDef
<1>4. Len(w) \in Nat /\ DOMAIN w = 1..Len(w) /\ w = [k \in 1..Len(w) |-> w[k]]
  BY <1>3, LenProperties
<1>5. Len(w) = n
  BY <1>1, <1>2, <1>4
<1> QED BY <1>4, <1>5 DEF w, n

\* A maximal run of letters is the word whose number its place gives.
LEMMA WordFound ==
    ASSUME NEW f \in Seq(Nat), NEW s \in WordsOf!WordStarts(f), NEW e \in s..Len(f),
           \A k \in s..e : f[k] # S!Sep, e = Len(f) \/ f[e + 1] = S!Sep
    PROVE  /\ WordsOf!Before(f, s) + 1 \in 1..Len(WordsOf!Words(f))
           /\ WordsOf!Words(f)[WordsOf!Before(f, s) + 1] = SubSeq(f, s, e)
<1> DEFINE n == WordsOf!Before(f, s) + 1
<1>1. s \in 1..Len(f) /\ Len(f) \in Nat /\ e \in Nat /\ WordsOf!Before(f, s) \in Nat
  BY StartsFinite
<1>2. n \in 1..Len(WordsOf!Words(f))
  <2>1. n <= WordsOf!Before(f, Len(f) + 1)
    BY <1>1, BeforeGrows
  <2> QED BY <1>1, <2>1, BeforeEnds, WordsLength, SMTT(30)
<1>3. (CHOOSE i \in WordsOf!WordStarts(f) : WordsOf!Before(f, i) = n - 1) = s
  <2>1. WordsOf!Before(f, s) = n - 1
    BY <1>1
  <2>2. ASSUME NEW i \in WordsOf!WordStarts(f), WordsOf!Before(f, i) = n - 1 PROVE i = s
    <3>1. i \in Nat /\ WordsOf!Before(f, i) \in Nat
      BY StartsFinite
    <3>2. ~(i < s) /\ ~(s < i)
      BY <1>1, <2>1, <2>2, <3>1, BeforeGrows
    <3> QED BY <1>1, <3>1, <3>2
  <2> QED BY <2>1, <2>2, Zenon
<1>4. WordsOf!WordEnd(f, s) = e
  <2> DEFINE Ends(j) == (\A k \in s..j : f[k] # WordsOf!Sep) /\ (j = Len(f) \/ f[j + 1] = WordsOf!Sep)
  <2>1. Ends(e)
    BY DEF WordsOf!Sep, S!Sep
  <2>2. ASSUME NEW j \in s..Len(f), Ends(j) PROVE j = e
    <3>1. ~(j < e)
      BY <1>1, <2>2 DEF WordsOf!Sep, S!Sep
    <3>2. ~(e < j)
      BY <1>1, <2>2 DEF WordsOf!Sep, S!Sep
    <3> QED BY <1>1, <3>1, <3>2
  <2>3. WordsOf!WordEnd(f, s) = CHOOSE j \in s..Len(f) : Ends(j)
    BY DEF WordsOf!WordEnd
  <2> HIDE DEF Ends
  <2> QED BY <2>1, <2>2, <2>3
<1>5. WordsOf!Words(f)[n] = SubSeq(f, s, WordsOf!WordEnd(f, s))
  <2>1. n \in 1..Cardinality(WordsOf!WordStarts(f))
    BY <1>2, WordsLength
  <2> HIDE DEF n
  <2> QED BY <1>3, <2>1, SameCount DEF WordsOf!Words
<1> QED BY <1>2, <1>4, <1>5

-------------------------------------------------------------------------------
(* The steps of the three programs                                         *)

\* The length byte is read; at end of file length stays as it was, or is
\* indeterminate, as word[] is.
ReadsLength ==
    /\ ppc = "rlen" /\ ppc' = IF length' = 0 THEN "close" ELSE "rword"
    /\ \/ pipe # <<>> /\ length' = Head(pipe) /\ pipe' = Tail(pipe)
       \/ /\ pipe = <<>> /\ cpc \in {"exited", "failed"} /\ pipe' = pipe
          /\ IF program = "socketpair" THEN length' \in 0..UINT8_MAX ELSE length' = length
    /\ IF program = "socketpair"
       THEN /\ wordbuf' \in [1..UINT8_MAX -> Int]
            /\ \A k \in 1..UINT8_MAX : wordbuf'[k] \in {wordbuf[k], S!Junk}
       ELSE wordbuf' = wordbuf
    /\ UNCHANGED <<program, file, cpc, stage, pos, word, received>>

\* As much of the word as there is is read and printed.
ReadsWord ==
    /\ ppc = "rword" /\ ppc' = "rlen"
    /\ \E bytes \in S!ReadOutcome(length) :
          /\ wordbuf' = [i \in DOMAIN wordbuf |->
                           IF i <= Len(bytes) THEN bytes[i]
                           ELSE IF i = length + 1 THEN S!Nul ELSE wordbuf[i]]
          /\ received' = Append(received, SubSeq(wordbuf', 1, length))
          /\ pipe' = SubSeq(pipe, Len(bytes) + 1, Len(pipe))
    /\ UNCHANGED <<program, file, cpc, stage, pos, word, length>>

ChildStep == \/ P!OpenFails /\ program = "socketpair"
             \/ S!child_process \/ S!send_word \/ S!AfterSend \/ S!ChildClose

\* The child of socketpair is that of pipe/simple, but for fopen.
LEMMA SameChild == P!Child => P!OpenFails \/ S!Child
<1>1. P!S!child_process => S!child_process
  BY DEF P!S!child_process, S!child_process, P!S!uint8_t, S!uint8_t, P!S!parentVars,
         S!parentVars, P!S!Sep, S!Sep
<1>2. P!S!send_word => S!send_word
  BY DEF P!S!send_word, S!send_word, P!S!uint8_t, S!uint8_t, P!S!parentVars, S!parentVars
<1>3. P!S!AfterSend => S!AfterSend
  BY DEF P!S!AfterSend, S!AfterSend, P!S!parentVars, S!parentVars
<1>4. P!S!ChildClose => S!ChildClose
  BY DEF P!S!ChildClose, S!ChildClose, P!S!parentVars, S!parentVars
<1> QED BY <1>1, <1>2, <1>3, <1>4
        DEF P!Child, P!child_process, P!send_word, P!AfterSend, P!ChildClose, S!Child

LEMMA ReadByte ==
    ASSUME pipe \in Seq(Nat), NEW bytes \in S!ReadOutcome(1)
    PROVE  \/ /\ pipe # <<>> /\ bytes # <<>> /\ bytes[1] = Head(pipe)
              /\ SubSeq(pipe, Len(bytes) + 1, Len(pipe)) = Tail(pipe)
           \/ /\ pipe = <<>> /\ bytes = <<>> /\ cpc \in {"exited", "failed"}
              /\ SubSeq(pipe, Len(bytes) + 1, Len(pipe)) = pipe
<1>1. CASE pipe # <<>>
  <2>1. bytes = SubSeq(pipe, 1, 1)
    BY <1>1 DEF S!ReadOutcome
  <2>2. Len(bytes) = 1 /\ bytes[1] = pipe[1] /\ bytes # <<>>
    BY <1>1, <2>1
  <2>3. SubSeq(pipe, 2, Len(pipe)) = Tail(pipe)
    BY <1>1
  <2> QED BY <1>1, <2>2, <2>3
<1>2. CASE pipe = <<>>
  BY <1>2 DEF S!ReadOutcome, S!WriteEndClosed
<1> QED BY <1>1, <1>2

Types ==
    /\ program \in {"simple", "synchronized", "socketpair"} /\ file \in Files
    /\ cpc \in {"scan", "wlen", "wword", "sent", "close", "exited", "failed"}
    /\ stage \in {"reading", "tail", "sentinel"}
    /\ pos \in Nat \ {0} /\ word \in Seq(Nat) /\ Len(word) <= MAX_WORD_LENGTH
    /\ ppc \in {"rlen", "rword", "close", "exited"}
    /\ length \in 0..UINT8_MAX /\ wordbuf \in [1..UINT8_MAX -> Int]
    /\ pipe \in Seq(Nat) /\ received \in Seq(Seq(Int))

\* Every step is one of the child, one of the parent, or one on the semaphores.
LEMMA Steps ==
    ASSUME Types, [PipesNext]_allVars
    PROVE  \/ ChildStep /\ UNCHANGED program
           \/ ReadsLength \/ ReadsWord
           \/ S!ParentClose /\ UNCHANGED program
           \/ UNCHANGED <<program, pipeVars>>
<1>0. pipe \in Seq(Nat)
  BY DEF Types
<1>1. S!Child => S!child_process \/ S!send_word \/ S!AfterSend \/ S!ChildClose
  BY DEF S!Child
<1>2. ASSUME S!ReadLength, program # "socketpair", UNCHANGED program PROVE ReadsLength
  <2>1. PICK bytes \in S!ReadOutcome(1) :
             /\ length' = IF bytes = <<>> THEN length ELSE bytes[1]
             /\ ppc' = IF length' = 0 THEN "close" ELSE "rword"
             /\ pipe' = SubSeq(pipe, Len(bytes) + 1, Len(pipe))
    BY <1>2 DEF S!ReadLength
  <2>2. ppc = "rlen" /\ UNCHANGED <<program, file, cpc, stage, pos, word, wordbuf, received>>
    BY <1>2 DEF S!ReadLength, S!childVars
  <2> QED BY <1>0, <1>2, <2>1, <2>2, ReadByte DEF ReadsLength
<1>3. ASSUME P!ReadLength, program = "socketpair", UNCHANGED program PROVE ReadsLength
  <2>1. PICK bytes \in P!S!ReadOutcome(1) : \E indeterminate \in 0..UINT8_MAX :
             /\ length' = IF bytes = <<>> THEN indeterminate ELSE bytes[1]
             /\ ppc' = IF length' = 0 THEN "close" ELSE "rword"
             /\ pipe' = SubSeq(pipe, Len(bytes) + 1, Len(pipe))
    BY <1>3 DEF P!ReadLength
  <2>2. bytes \in S!ReadOutcome(1)
    BY <2>1 DEF P!S!ReadOutcome, S!ReadOutcome, P!S!WriteEndClosed, S!WriteEndClosed
  <2>3. ppc = "rlen" /\ UNCHANGED <<program, file, cpc, stage, pos, word, received>>
    BY <1>3 DEF P!ReadLength
  <2>4. /\ wordbuf' \in [1..UINT8_MAX -> Int]
        /\ \A k \in 1..UINT8_MAX : wordbuf'[k] \in {wordbuf[k], S!Junk}
    <3>1. PICK kept : wordbuf' = [i \in DOMAIN wordbuf |-> IF i \in kept THEN wordbuf[i] ELSE S!Junk]
      BY <1>3 DEF P!ReadLength, P!S!Junk, S!Junk
    <3>2. wordbuf \in [1..UINT8_MAX -> Int] /\ S!Junk \in Int
      BY DEF Types, S!Junk
    <3>3. DOMAIN wordbuf = 1..UINT8_MAX
      BY <3>2
    <3>4. \A i \in 1..UINT8_MAX : (IF i \in kept THEN wordbuf[i] ELSE S!Junk) \in Int
      BY <3>2
    <3> QED BY <3>1, <3>3, <3>4
  <2> QED BY <1>0, <1>3, <2>1, <2>2, <2>3, <2>4, ReadByte DEF ReadsLength
<1>4. S!ReadWord /\ UNCHANGED program => ReadsWord
  BY DEF S!ReadWord, ReadsWord, S!childVars
<1>5. P!ReadWord /\ UNCHANGED program => ReadsWord
  BY DEF P!ReadWord, P!S!ReadWord, ReadsWord, P!S!childVars, P!S!ReadOutcome, S!ReadOutcome,
         P!S!WriteEndClosed, S!WriteEndClosed, P!S!Nul, S!Nul
<1>6. P!ParentClose => S!ParentClose
  BY DEF P!ParentClose, P!S!ParentClose, S!ParentClose, P!S!childVars, S!childVars
<1>7. CASE SimpleChild \/ SynchronizedChild
  <2>1. SynchronizedChild => S!Child \/ UNCHANGED pipeVars
    BY DEF SynchronizedChild, Child, child_process, send_word, S!Child
  <2> QED BY <1>1, <1>7, <2>1 DEF SimpleChild, SynchronizedChild, ChildStep, S!Child
<1>8. CASE PairChild
  BY <1>1, <1>8, SameChild DEF PairChild, ChildStep
<1>9. CASE SimpleParent \/ SynchronizedParent
  <2>1. SynchronizedParent => S!Parent \/ UNCHANGED pipeVars
    BY DEF SynchronizedParent, parent_process, S!Parent
  <2>2. program # "socketpair" /\ UNCHANGED program
    BY <1>9 DEF SimpleParent, SynchronizedParent
  <2> QED BY <1>2, <1>4, <1>9, <2>1, <2>2 DEF SimpleParent, SynchronizedParent, S!Parent
<1>10. CASE PairParent
  BY <1>3, <1>5, <1>6, <1>10 DEF PairParent, P!Parent
<1>11. CASE UNCHANGED allVars
  BY <1>11 DEF allVars, vars
<1> QED BY <1>7, <1>8, <1>9, <1>10, <1>11 DEF PipesNext

-------------------------------------------------------------------------------
(* The words on their way                                                  *)

W == Words
N == Len(W)
R == Len(received)

\* The child has sent the first m words and is reading the next one, whose letters up
\* to pos are in word.
Scanned(m) ==
    LET s == pos - Len(word) IN
    /\ stage = "reading" /\ pos \in 1..(Len(file) + 1)
    /\ s \in 1..pos /\ (s = 1 \/ file[s - 1] = S!Sep)
    /\ \A t \in 1..Len(word) : word[t] = file[s + t - 1] /\ word[t] # S!Sep
    /\ WordsOf!Before(file, s) = m

\* The word it sends, or has sent, is the n-th.
Announced(n) ==
    \/ /\ stage = "reading" /\ pos - 1 \in 1..Len(file) /\ file[pos - 1] = S!Sep
       /\ WordsOf!Before(file, pos) = n
    \/ stage = "tail" /\ n = N

Fits(n) == W[n] \in Seq(Nat) /\ Len(W[n]) \in 1..MAX_WORD_LENGTH

\* The child has written m words, and the length of one more or the 0 (z = 1).
Writer(m, z) ==
    /\ m \in 0..N /\ z \in {0, 1}
    /\ \A n \in 1..N : n < m + 1 + z => Fits(n)
    /\ cpc = "scan" => z = 0 /\ Scanned(m)
    /\ cpc = "wlen" => z = 0 /\ IF stage = "sentinel" THEN m = N
                                ELSE m < N /\ word = W[m + 1] /\ word # <<>> /\ Announced(m + 1)
    /\ cpc = "wword" => /\ z = 1 /\ stage # "sentinel" /\ m < N
                        /\ word = W[m + 1] /\ Announced(m + 1)
    /\ cpc = "sent" => IF stage = "sentinel" THEN z = 1 /\ m = N ELSE z = 0 /\ Announced(m)
    /\ cpc \in {"close", "exited"} => z = 1 /\ m = N
    /\ cpc = "failed" =>
          /\ z = 0
          /\ IF word = <<>> THEN m = 0 /\ program = "socketpair"
             ELSE m < N /\ Len(W[m + 1]) > MAX_WORD_LENGTH

\* The length byte that follows the first n words.
Size(n) == IF n = N THEN 0 ELSE Len(W[n + 1])

\* T0[n] is what follows the first n words in what has been written, T1[n] what
\* follows the length byte after them.
Queue(m, z, T0, T1) ==
    /\ T0 \in [0..N -> Seq(Nat)] /\ T1 \in [0..N -> Seq(Nat)]
    /\ IF z = 0 THEN T0[m] = <<>> ELSE T1[m] = <<>>
    /\ \A n \in R..m : n < m + z => T0[n] = <<Size(n)>> \o T1[n]
    /\ \A n \in R..m : n < m => T1[n] = W[n + 1] \o T0[n + 1]

\* The parent's locals are those of the n-th word.
LastRead(n) ==
    program # "socketpair" /\ n > 0 =>
        length = Len(W[n]) /\ \A t \in 1..length : wordbuf[t] = W[n][t]

\* The buffer of socketpair holds what the first n words left in it, at most.
Buffer(n) ==
    program = "socketpair" => \A k \in 1..UINT8_MAX : Leftover(n, k, wordbuf[k])

\* The parent has printed words of the file and has read the length of one more or the
\* 0 (r = 1).
InStep(m, z, r, T0, T1) ==
    /\ Queue(m, z, T0, T1) /\ r \in {0, 1} /\ R <= m /\ (R = m => r <= z)
    /\ pipe = IF r = 0 THEN T0[R] ELSE T1[R]
    /\ Buffer(R)
    /\ \A n \in 1..R : received[n] = W[n]
    /\ ppc = "rlen" => r = 0 /\ LastRead(R)
    /\ ppc = "rword" => r = 1 /\ R < N /\ length = Len(W[R + 1])
    /\ ppc \in {"close", "exited"} => r = 1 /\ R = N

\* The child has given up and the parent, which has read all there was, goes on.
Stale(m) ==
    /\ cpc = "failed" /\ pipe = <<>> /\ R >= m
    /\ \A n \in 1..m : received[n] = W[n]
    /\ Buffer(m)
    /\ program = "socketpair" =>
          \A n \in (m + 1)..R : \A k \in DOMAIN received[n] : Leftover(m, k, received[n][k])
    /\ program # "socketpair" /\ m > 0 =>
          /\ ppc \in {"rlen", "rword"} /\ LastRead(m)
          /\ \A n \in (m + 1)..R : received[n] = W[m]

Reader(m, z) == Stale(m) \/ \E r, T0, T1 : InStep(m, z, r, T0, T1)

DataInv == Types /\ \E m, z : Writer(m, z) /\ Reader(m, z)

LEMMA WFacts ==
    ASSUME Types
    PROVE  /\ file \in Seq(Nat) /\ Len(file) \in Nat /\ N \in Nat /\ R \in Nat
           /\ WordsOf!Before(file, 1) = 0 /\ WordsOf!Before(file, Len(file) + 1) = N
           /\ DOMAIN W = 1..N
<1>1. file \in Seq(Nat) /\ R \in Nat
  BY LenProperties DEF Types, R
<1> QED BY <1>1, LenProperties, WordsLength, BeforeEnds DEF W, N, Words

LEMMA ByteIsLength == \A n \in 0..UINT8_MAX : S!uint8_t(n) = n
  BY DEF S!uint8_t

LEMMA InitDataInv == PipesInit => DataInv
<1> SUFFICES ASSUME PipesInit PROVE DataInv
  OBVIOUS
<1> USE DEF PipesInit, Init, S!Init
<1>1. Types
  <2>1. S!Junk \in Int
    BY DEF S!Junk
  <2>2. wordbuf \in [1..UINT8_MAX -> Int]
    BY <2>1
  <2> QED BY <2>2, EmptySeq DEF Types
<1>2. N \in Nat /\ Len(file) \in Nat /\ WordsOf!Before(file, 1) = 0 /\ R = 0
  BY <1>1, WFacts DEF R
<1>3. Writer(0, 0)
  <2>1. Scanned(0)
    BY <1>2 DEF Scanned
  <2>2. \A n \in 1..N : ~(n < 0 + 1 + 0)
    BY <1>2
  <2> QED BY <1>2, <2>1, <2>2 DEF Writer
<1>4. PICK T : T = [n \in 0..N |-> <<>>]
  OBVIOUS
<1>5. InStep(0, 0, 0, T, T)
  <2>1. T \in [0..N -> Seq(Nat)] /\ T[0] = <<>>
    BY <1>2, <1>4
  <2>2. Queue(0, 0, T, T)
    BY <1>2, <2>1 DEF Queue
  <2>3. Buffer(0)
    BY DEF Buffer, Leftover
  <2> QED BY <1>2, <2>1, <2>2, <2>3 DEF InStep, LastRead
<1>6. Reader(0, 0)
  BY <1>5 DEF Reader
<1> QED BY <1>1, <1>3, <1>6 DEF DataInv

\* A set of numbers has a least one.
LEMMA LeastNumber ==
    ASSUME NEW X \in SUBSET Nat, X # {}
    PROVE  \E m \in X : \A n \in X : m <= n
<1>1. PICK m \in X : \A n \in X : ~(<<n, m>> \in OpToRel(<, Nat))
  BY NatLessThanWellFounded, WFMin, Zenon
<1>2. \A n \in X : ~(n < m)
  BY <1>1, Zenon DEF OpToRel
<1> QED BY <1>2

\* The letters read since the last separator are the next word.
LEMMA NextWord ==
    ASSUME Types, NEW m \in 0..N, Scanned(m), Len(word) > 0,
           pos = Len(file) + 1 \/ file[pos] = S!Sep
    PROVE  /\ m < N /\ word = W[m + 1] /\ WordsOf!Before(file, pos) = m + 1
           /\ Len(word) \in 1..MAX_WORD_LENGTH
<1> DEFINE s == pos - Len(word)
           e == pos - 1
<1>1. file \in Seq(Nat) /\ Len(file) \in Nat /\ N \in Nat /\ word \in Seq(Nat)
      /\ Len(word) \in Nat /\ m \in Nat
  BY WFacts, LenProperties DEF Types
<1>2. /\ pos \in 1..(Len(file) + 1) /\ s \in 1..pos /\ (s = 1 \/ file[s - 1] = S!Sep)
      /\ \A t \in 1..Len(word) : word[t] = file[s + t - 1] /\ word[t] # S!Sep
      /\ WordsOf!Before(file, s) = m
  BY DEF Scanned
<1>3. s \in Nat /\ e \in s..Len(file) /\ e + 1 = pos /\ s \in 1..Len(file) /\ pos \in Nat
      /\ Len(word) = e - s + 1 /\ s < pos /\ e \in Nat
  <2>1. pos \in Nat
    BY DEF Types
  <2> QED BY <1>1, <1>2, <2>1, SMTT(30)
<1> HIDE DEF s, e
<1>4. \A k \in s..e : file[k] # S!Sep /\ word[k - s + 1] = file[k]
  <2> SUFFICES ASSUME NEW k \in s..e PROVE file[k] # S!Sep /\ word[k - s + 1] = file[k]
    OBVIOUS
  <2>1. k - s + 1 \in 1..Len(word) /\ s + (k - s + 1) - 1 = k
    BY <1>1, <1>3
  <2> QED BY <1>2, <2>1
<1>5. DOMAIN file = 1..Len(file)
  BY <1>1, LenProperties
<1>6. s \in WordsOf!WordStarts(file)
  <2>1. file[s] # S!Sep
    BY <1>3, <1>4
  <2> QED BY <1>2, <1>3, <1>5, <2>1 DEF WordsOf!WordStarts, WordsOf!Sep, S!Sep
<1>7. e = Len(file) \/ file[e + 1] = S!Sep
  <2>1. e = Len(file) \/ e # Len(file)
    OBVIOUS
  <2> QED BY <1>1, <1>3, <2>1, SMTT(30)
<1>8. m + 1 \in 1..N /\ W[m + 1] = SubSeq(file, s, e)
  BY <1>1, <1>2, <1>3, <1>4, <1>6, <1>7, WordFound DEF W, N, Words
<1>9. word = SubSeq(file, s, e)
  <2>1. \A k \in s..e : file[k] \in Nat
    <3> SUFFICES ASSUME NEW k \in s..e PROVE file[k] \in Nat
      OBVIOUS
    <3>1. k \in 1..Len(file)
      BY <1>1, <1>3
    <3> QED BY <1>1, <3>1, ElementOfSeq
  <2>2. s \in Int /\ e \in Int
    BY <1>3
  <2>3. /\ SubSeq(file, s, e) \in Seq(Nat) /\ Len(SubSeq(file, s, e)) = e - s + 1
        /\ \A i \in 1..(e - s + 1) : SubSeq(file, s, e)[i] = file[s + i - 1]
    BY <1>3, <2>1, <2>2, SubSeqProperties, SMTT(30)
  <2>4. Len(word) = e - s + 1
    BY <1>3
  <2>5. \A i \in 1..Len(word) : word[i] = SubSeq(file, s, e)[i]
    BY <1>2, <2>3, <2>4
  <2> QED BY <1>1, <2>3, <2>4, <2>5, SeqEqual
<1>10. WordsOf!Before(file, pos) = m + 1
  <2>1. \A j \in WordsOf!WordStarts(file) : ~(s < j /\ j < pos)
    <3> SUFFICES ASSUME NEW j \in WordsOf!WordStarts(file), s < j, j < pos PROVE FALSE
      OBVIOUS
    <3>1. j \in 1..Len(file) /\ (j = 1 \/ file[j - 1] = S!Sep)
      BY <1>5 DEF WordsOf!WordStarts, WordsOf!Sep, S!Sep
    <3>2. j - 1 \in s..e
      BY <1>2, <1>3, <3>1, SMTT(30)
    <3> QED BY <1>3, <1>4, <3>1, <3>2
  <2>2. s <= pos
    BY <1>3
  <2>3. WordsOf!Before(file, pos) = IF s \in WordsOf!WordStarts(file) /\ s < pos
                               THEN WordsOf!Before(file, s) + 1 ELSE WordsOf!Before(file, s)
    BY <1>1, <1>3, <2>1, <2>2, BeforeNext
  <2> QED BY <1>2, <1>3, <1>6, <2>3
<1>11. Len(word) \in 1..MAX_WORD_LENGTH
  BY <1>1 DEF Types
<1> QED BY <1>1, <1>8, <1>9, <1>10, <1>11


\* A letter for which word[] has no room belongs to a word that is too long.
LEMMA WordIsTooLong ==
    ASSUME Types, NEW m \in 0..N, Scanned(m), Len(word) >= MAX_WORD_LENGTH,
           pos <= Len(file), file[pos] # S!Sep
    PROVE  m < N /\ Len(W[m + 1]) > MAX_WORD_LENGTH /\ word # <<>>
<1>1. file \in Seq(Nat) /\ Len(file) \in Nat /\ N \in Nat /\ word \in Seq(Nat)
      /\ Len(word) \in Nat /\ m \in Nat /\ pos \in Nat /\ DOMAIN file = 1..Len(file)
  BY WFacts, LenProperties, SMTT(30) DEF Types
<1>2. PICK s : s = pos - Len(word)
  OBVIOUS
<1>3. /\ s \in 1..pos /\ (s = 1 \/ file[s - 1] = S!Sep) /\ WordsOf!Before(file, s) = m
      /\ \A t \in 1..Len(word) : word[t] = file[s + t - 1] /\ word[t] # S!Sep
  BY <1>2 DEF Scanned
<1>4. s \in Nat /\ s \in 1..Len(file) /\ Len(word) = pos - s
  <2>1. s \in 1..pos
    BY <1>3
  <2> QED BY <1>1, <1>2, <2>1, SMTT(30)
<1>5. \A k \in s..pos : file[k] # S!Sep
  <2> SUFFICES ASSUME NEW k \in s..pos, k # pos PROVE file[k] # S!Sep
    OBVIOUS
  <2>1. k - s + 1 \in 1..Len(word) /\ s + (k - s + 1) - 1 = k
    BY <1>1, <1>4
  <2> QED BY <1>3, <2>1
<1>6. s \in WordsOf!WordStarts(file)
  <2>1. file[s] # S!Sep
    BY <1>1, <1>3, <1>4, <1>5
  <2> QED BY <1>1, <1>3, <1>4, <2>1 DEF WordsOf!WordStarts, WordsOf!Sep, S!Sep
<1>7. PICK e \in Nat : /\ e \in pos..Len(file) /\ (e = Len(file) \/ file[e + 1] = S!Sep)
                       /\ \A j \in pos..Len(file) : j < e => file[j + 1] # S!Sep
  <2>1. PICK B : B = {j \in pos..Len(file) : j = Len(file) \/ file[j + 1] = S!Sep}
    OBVIOUS
  <2>2. B \in SUBSET Nat /\ Len(file) \in B
    BY <1>1, <2>1
  <2>3. PICK e : e \in B /\ \A j \in B : e <= j
    BY <2>2, LeastNumber
  <2>4. e \in Nat /\ e \in pos..Len(file) /\ (e = Len(file) \/ file[e + 1] = S!Sep)
    BY <2>1, <2>2, <2>3
  <2>5. ASSUME NEW j \in pos..Len(file), j < e PROVE file[j + 1] # S!Sep
    <3>1. j \in B => e <= j
      BY <2>3
    <3>2. j \in Int /\ e \in Int /\ ~(e <= j)
      <4>1. j \in pos..Len(file) /\ j < e
        BY <2>5
      <4>2. j \in Int
        BY <1>1, <4>1
      <4>3. e \in Int
        BY <2>4
      <4> QED BY <4>1, <4>2, <4>3
    <3>3. j \notin B
      BY <3>1, <3>2
    <3> QED BY <2>1, <2>5, <3>3
  <2> QED BY <2>4, <2>5
<1>8. pos <= e /\ e <= Len(file)
  <2>1. e \in pos..Len(file)
    BY <1>7
  <2> QED BY <1>1, <2>1
<1>9. \A k \in s..e : file[k] # S!Sep
  <2> SUFFICES ASSUME NEW k \in s..e PROVE file[k] # S!Sep
    OBVIOUS
  <2>1. CASE k <= pos
    <3>1. k \in s..pos
      BY <1>1, <1>4, <2>1
    <3> QED BY <1>5, <3>1
  <2>2. CASE ~(k <= pos)
    <3>1. k - 1 \in pos..Len(file) /\ k - 1 < e /\ (k - 1) + 1 = k
      BY <1>1, <1>4, <1>8, <2>2
    <3> QED BY <1>7, <3>1
  <2> QED BY <2>1, <2>2
<1>10. e \in s..Len(file) /\ e \in Nat
  BY <1>1, <1>3, <1>4, <1>8
<1>11. m + 1 \in 1..N /\ W[m + 1] = SubSeq(file, s, e)
  BY <1>1, <1>3, <1>6, <1>7, <1>9, <1>10, WordFound DEF W, N, Words
<1>12. Len(SubSeq(file, s, e)) = e - s + 1
  <2>1. \A k \in s..e : file[k] \in Nat
    <3> SUFFICES ASSUME NEW k \in s..e PROVE file[k] \in Nat
      OBVIOUS
    <3>1. k \in 1..Len(file)
      BY <1>1, <1>4, <1>10
    <3> QED BY <1>1, <3>1, ElementOfSeq
  <2> QED BY <1>4, <1>10, <2>1, SubSeqProperties
<1>13. e - s + 1 > MAX_WORD_LENGTH
  BY <1>1, <1>4, <1>8, <1>10
<1>14. word # <<>>
  BY <1>1
<1> QED BY <1>1, <1>11, <1>12, <1>13, <1>14

-------------------------------------------------------------------------------
(* The child                                                               *)

LEMMA SameWords ==
    ASSUME UNCHANGED file
    PROVE  /\ W' = W /\ N' = N /\ (\A n : Fits(n)' <=> Fits(n)) /\ (\A n : Size(n)' = Size(n))
           /\ \A n, k, byte : Leftover(n, k, byte)' <=> Leftover(n, k, byte)
<1>1. W' = W /\ N' = N /\ Words' = Words
  BY DEF W, N, Words, WordsOf!Words, WordsOf!WordStarts, WordsOf!Before, WordsOf!WordEnd
<1>2. \A n, k, byte : Leftover(n, k, byte)' <=> Leftover(n, k, byte)
  BY <1>1 DEF Leftover, S!Junk, S!Nul
<1> QED BY <1>1, <1>2 DEF Fits, Size

\* A step that leaves the pipe and the parent alone.
LEMMA ReaderKept ==
    ASSUME NEW m, NEW z, Reader(m, z), cpc = "failed" => cpc' = "failed",
           UNCHANGED <<program, file, ppc, length, wordbuf, pipe, received>>
    PROVE  Reader(m, z)'
<1>1. /\ W' = W /\ N' = N /\ R' = R /\ (\A n : Size(n)' = Size(n))
      /\ \A n, k, byte : Leftover(n, k, byte)' <=> Leftover(n, k, byte)
  BY SameWords DEF R
<1>0. \A n : Buffer(n) => Buffer(n)'
  BY <1>1 DEF Buffer
<1>2. Stale(m) => Stale(m)'
  BY <1>0, <1>1 DEF Stale, LastRead
<1>3. ASSUME NEW r, NEW T0, NEW T1, InStep(m, z, r, T0, T1) PROVE InStep(m, z, r, T0, T1)'
  <2>1. Queue(m, z, T0, T1)'
    BY <1>1, <1>3 DEF InStep, Queue
  <2>2. Buffer(R)'
    BY <1>0, <1>1, <1>3 DEF InStep
  <2> QED BY <1>1, <1>3, <2>1, <2>2 DEF InStep, LastRead
<1> QED BY <1>2, <1>3 DEF Reader

LEMMA ScanTypes ==
    ASSUME Types, S!child_process
    PROVE  /\ UNCHANGED <<file, ppc, length, wordbuf, pipe, received>>
           /\ S!uint8_t(Len(word)) = Len(word)
           /\ cpc' \in {"scan", "wlen", "failed"} /\ stage' \in {stage, "tail", "sentinel"}
           /\ pos' \in Nat \ {0} /\ word' \in Seq(Nat) /\ Len(word') <= MAX_WORD_LENGTH
<1>1. UNCHANGED <<file, ppc, length, wordbuf, pipe, received>>
  BY DEF S!child_process, S!parentVars
<1>2. Len(word) \in 0..UINT8_MAX /\ pos \in Nat \ {0} /\ word \in Seq(Nat) /\ file \in Seq(Nat)
      /\ Len(file) \in Nat /\ Len(word) <= MAX_WORD_LENGTH
  BY WFacts DEF Types
<1>3. S!uint8_t(Len(word)) = Len(word)
  BY <1>2, ByteIsLength
<1>4. cpc' \in {"scan", "wlen", "failed"} /\ stage' \in {stage, "tail", "sentinel"}
  BY Zenon DEF S!child_process
<1>5. /\ pos' \in {pos, pos + 1}
      /\ \/ word' = word
         \/ /\ pos <= Len(file) /\ ~(S!uint8_t(Len(word)) >= MAX_WORD_LENGTH)
            /\ file[pos] # S!Sep /\ word' = Append(word, file[pos]) /\ pos' = pos + 1
  BY Zenon DEF S!child_process
<1>6. pos' \in Nat \ {0}
  BY <1>2, <1>5
<1>7. word' \in Seq(Nat) /\ Len(word') <= MAX_WORD_LENGTH
  <2>1. CASE word' = word
    BY <1>2, <2>1
  <2>2. CASE pos <= Len(file) /\ ~(Len(word) >= MAX_WORD_LENGTH) /\ word' = Append(word, file[pos])
    <3>1. file[pos] \in Nat
      BY <1>2, <2>2, ElementOfSeq
    <3>2. word' \in Seq(Nat) /\ Len(word') = Len(word) + 1
      BY <1>2, <2>2, <3>1, AppendProperties
    <3> QED BY <1>2, <2>2, <3>2
  <2> QED BY <1>3, <1>5, <2>1, <2>2
<1> QED BY <1>1, <1>3, <1>4, <1>6, <1>7

LEMMA ScanWriter ==
    ASSUME Types, NEW m, NEW z, Writer(m, z), S!child_process, UNCHANGED program
    PROVE  Writer(m, z)'
<1>1. /\ cpc = "scan" /\ UNCHANGED <<file, ppc, length, wordbuf, pipe, received>>
      /\ S!uint8_t(Len(word)) = Len(word)
  BY ScanTypes DEF S!child_process
<1>2. m \in 0..N /\ m \in Nat /\ z = 0 /\ Scanned(m) /\ N \in Nat /\ Len(file) \in Nat
      /\ WordsOf!Before(file, Len(file) + 1) = N /\ word \in Seq(Nat) /\ Len(word) \in Nat
      /\ pos \in Nat /\ file \in Seq(Nat) /\ Len(word) <= MAX_WORD_LENGTH
  BY <1>1, WFacts DEF Writer, Types
<1>3. W' = W /\ N' = N /\ \A n : Fits(n)' <=> Fits(n)
  BY <1>1, SameWords
<1>4. \A n \in 1..N : n < m + 1 + z => Fits(n)
  BY DEF Writer
<1>5. pos \in 1..(Len(file) + 1) /\ stage = "reading"
  BY <1>2 DEF Scanned
<1>6. ASSUME m < N, word = W[m + 1], Len(word) \in 1..MAX_WORD_LENGTH, Announced(m + 1)',
             cpc' = "wlen", stage' # "sentinel", word' = word
      PROVE  Writer(m, z)'
  <2>1. word' # <<>>
    BY <1>2, <1>6
  <2> QED BY <1>2, <1>3, <1>4, <1>6, <2>1 DEF Writer
<1>7. CASE pos > Len(file) /\ Len(word) > 0
  <2>1. cpc' = "wlen" /\ stage' = "tail" /\ word' = word
    BY <1>1, <1>2, <1>7 DEF S!child_process
  <2>2. pos = Len(file) + 1
    BY <1>2, <1>5, <1>7
  <2>3. m < N /\ word = W[m + 1] /\ WordsOf!Before(file, pos) = m + 1
        /\ Len(word) \in 1..MAX_WORD_LENGTH
    BY <1>2, <1>7, <2>2, NextWord
  <2>4. Announced(m + 1)'
    BY <1>2, <1>3, <2>1, <2>2, <2>3 DEF Announced
  <2> QED BY <1>6, <2>1, <2>3, <2>4
<1>8. CASE pos > Len(file) /\ Len(word) = 0
  <2>1. cpc' = "wlen" /\ stage' = "sentinel"
    BY <1>1, <1>2, <1>8 DEF S!child_process
  <2>2. m = N
    BY <1>2, <1>8 DEF Scanned
  <2> QED BY <1>2, <1>3, <1>4, <2>1, <2>2 DEF Writer
<1>9. CASE pos <= Len(file) /\ file[pos] = S!Sep
  <2>1. pos \in 1..Len(file) /\ pos + 1 \in Nat
    BY <1>2, <1>5, <1>9
  <2>2. WordsOf!Before(file, pos + 1) = WordsOf!Before(file, pos)
    <3>1. pos \notin WordsOf!WordStarts(file)
          /\ \A j \in WordsOf!WordStarts(file) : ~(pos < j /\ j < pos + 1)
      BY <1>2, <1>9, StartsFinite DEF WordsOf!WordStarts, WordsOf!Sep, S!Sep
    <3> QED BY <1>2, <2>1, <3>1, BeforeNext
  <2>3. stage' = stage /\ word' = word /\ pos' = pos + 1
        /\ cpc' = IF Len(word) > 0 THEN "wlen" ELSE "scan"
    BY <1>1, <1>2, <1>9 DEF S!child_process
  <2>4. CASE Len(word) > 0
    <3>1. m < N /\ word = W[m + 1] /\ WordsOf!Before(file, pos) = m + 1
          /\ Len(word) \in 1..MAX_WORD_LENGTH
      BY <1>2, <1>9, <2>4, NextWord
    <3>2. Announced(m + 1)'
      BY <1>1, <1>2, <1>5, <1>9, <2>1, <2>2, <2>3, <3>1 DEF Announced
    <3> QED BY <1>5, <1>6, <2>3, <2>4, <3>1, <3>2
  <2>5. CASE Len(word) = 0
    <3>1. WordsOf!Before(file, pos) = m
      BY <1>2, <2>5 DEF Scanned
    <3>2. Scanned(m)'
      <4>1. /\ file' = file /\ stage' = "reading" /\ Len(word') = 0
            /\ pos' = pos + 1 /\ pos' - Len(word') = pos + 1
        BY <1>1, <1>2, <1>5, <2>3, <2>5
      <4>2. pos + 1 \in 1..(Len(file) + 1) /\ pos + 1 \in 1..(pos + 1) /\ (pos + 1) - 1 = pos
        BY <1>2, <2>1
      <4>3. WordsOf!Before(file, pos + 1) = m
        BY <2>2, <3>1
      <4>4. \A t \in 1..0 : FALSE
        OBVIOUS
      <4> QED BY <1>9, <4>1, <4>2, <4>3, <4>4, Zenon DEF Scanned
    <3>3. cpc' = "scan"
      BY <2>3, <2>5
    <3> QED BY <1>2, <1>3, <1>4, <3>2, <3>3 DEF Writer
  <2> QED BY <1>2, <2>4, <2>5
<1>10. CASE pos <= Len(file) /\ file[pos] # S!Sep /\ Len(word) >= MAX_WORD_LENGTH
  <2>1. cpc' = "failed" /\ word' = word
    BY <1>1, <1>2, <1>10 DEF S!child_process
  <2>2. m < N /\ Len(W[m + 1]) > MAX_WORD_LENGTH /\ word # <<>>
    BY <1>2, <1>10, WordIsTooLong
  <2> QED BY <1>2, <1>3, <1>4, <2>1, <2>2 DEF Writer
<1>11. CASE pos <= Len(file) /\ file[pos] # S!Sep /\ ~(Len(word) >= MAX_WORD_LENGTH)
  <2>1. cpc' = "scan" /\ stage' = stage /\ word' = Append(word, file[pos]) /\ pos' = pos + 1
    BY <1>1, <1>2, <1>11 DEF S!child_process
  <2>2. pos \in 1..Len(file)
    BY <1>2, <1>5, <1>11
  <2>3. Len(word') = Len(word) + 1 /\ word'[Len(word) + 1] = file[pos]
        /\ \A t \in 1..Len(word) : word'[t] = word[t]
    BY <1>2, <2>1, <2>2, ElementOfSeq
  <2>4. PICK s : s = pos - Len(word)
    OBVIOUS
  <2>5. s \in 1..pos /\ (s = 1 \/ file[s - 1] = S!Sep) /\ WordsOf!Before(file, s) = m
        /\ \A t \in 1..Len(word) : word[t] = file[s + t - 1] /\ word[t] # S!Sep
    BY <1>2, <2>4 DEF Scanned
  <2>6. pos' - Len(word') = s /\ s \in 1..pos' /\ pos' \in 1..(Len(file) + 1)
    BY <1>2, <2>1, <2>2, <2>3, <2>4, <2>5
  <2>7. ASSUME NEW t \in 1..Len(word') PROVE word'[t] = file[s + t - 1] /\ word'[t] # S!Sep
    <3>1. CASE t = Len(word) + 1
      <4>1. s + t - 1 = pos
        BY <1>2, <2>4, <3>1
      <4> QED BY <1>11, <2>3, <3>1, <4>1
    <3>2. CASE t \in 1..Len(word)
      BY <2>3, <2>5, <3>2
    <3> QED BY <1>2, <2>3, <3>1, <3>2
  <2>8. Scanned(m)'
    BY <1>1, <1>5, <2>1, <2>5, <2>6, <2>7 DEF Scanned
  <2> QED BY <1>2, <1>3, <1>4, <2>1, <2>8 DEF Writer
<1> QED BY <1>2, <1>7, <1>8, <1>9, <1>10, <1>11

LEMMA JoinedThree ==
    \A x, y, b \in Seq(Nat) : (x \o y) \o b = x \o (y \o b)
  BY ConcatAssociative, SMTT(30)

\* The chunk b that comes after m words and z, and what is written with it.
NextChunk(m, z, b, k, y) ==
    \/ z = 0 /\ k = m /\ y = 1 /\ b = <<Size(m)>>
    \/ z = 1 /\ m < N /\ k = m + 1 /\ y = 0 /\ b = W[m + 1]

\* Every tail before k gets b at its end.
Longer(h, T, k, b, U) ==
    /\ U \in [0..h -> Seq(Nat)]
    /\ \A n \in 0..h : U[n] = IF n < k THEN T[n] \o b ELSE <<>>

LEMMA LongerTails ==
    ASSUME NEW h \in Nat, NEW T \in [0..h -> Seq(Nat)], NEW k \in Nat, NEW b \in Seq(Nat)
    PROVE  \E U : Longer(h, T, k, b, U)
<1>1. \A n \in 0..h : T[n] \o b \in Seq(Nat)
  BY ConcatProperties
<1>2. PICK U : U = [n \in 0..h |-> IF n < k THEN T[n] \o b ELSE <<>>]
  OBVIOUS
<1>3. U \in [0..h -> Seq(Nat)]
  BY <1>1, <1>2, EmptySeq
<1>4. \A n \in 0..h : U[n] = IF n < k THEN T[n] \o b ELSE <<>>
  BY <1>2, Zenon
<1> QED BY <1>3, <1>4, Zenon DEF Longer

LEMMA WriterFacts ==
    ASSUME Types, NEW m, NEW z, Writer(m, z)
    PROVE  /\ N \in Nat /\ R \in Nat /\ m \in Nat /\ m <= N /\ z \in {0, 1}
           /\ \A n \in 1..N : n < m + 1 + z => Fits(n)
  BY WFacts DEF Writer

\* The next chunk goes behind everything that is under way.
LEMMA QueueGrows ==
    ASSUME Types, NEW m, NEW z, Writer(m, z), NEW T0, NEW T1,
           Queue(m, z, T0, T1), R <= m, NEW b \in Seq(Nat), UNCHANGED <<file, received>>,
           NEW k, NEW y, NextChunk(m, z, b, k, y)
    PROVE  \E U0, U1 : /\ Queue(k, y, U0, U1)' /\ U0[R] = T0[R] \o b
                       /\ R < m + z => U1[R] = T1[R] \o b
<1>0. /\ N \in Nat /\ R \in Nat /\ m \in Nat /\ m <= N /\ z \in {0, 1}
      /\ \A n \in 1..N : n < m + 1 + z => Fits(n)
  BY WriterFacts
<1>1. W' = W /\ N' = N /\ R' = R /\ \A n : Size(n)' = Size(n)
  BY SameWords DEF R
<1>2. /\ T0 \in [0..N -> Seq(Nat)] /\ T1 \in [0..N -> Seq(Nat)]
      /\ IF z = 0 THEN T0[m] = <<>> ELSE T1[m] = <<>>
      /\ \A n \in R..m : n < m + z => T0[n] = <<Size(n)>> \o T1[n]
      /\ \A n \in R..m : n < m => T1[n] = W[n + 1] \o T0[n + 1]
  BY DEF Queue
<1>3. PICK k0 \in Nat, k1 \in Nat : k0 = m + 1 /\ k1 = m + z
  BY <1>0
<1>4. PICK U0, U1 : Longer(N, T0, k0, b, U0) /\ Longer(N, T1, k1, b, U1)
  <2>1. T0 \in [0..N -> Seq(Nat)] /\ T1 \in [0..N -> Seq(Nat)] /\ N \in Nat
    BY <1>0, <1>2
  <2>2. PICK U0 : Longer(N, T0, k0, b, U0)
    BY <1>3, <2>1, LongerTails
  <2>3. PICK U1 : Longer(N, T1, k1, b, U1)
    BY <1>3, <2>1, LongerTails
  <2> QED BY <2>2, <2>3
<1>types. U0 \in [0..N -> Seq(Nat)] /\ U1 \in [0..N -> Seq(Nat)]
  BY <1>4 DEF Longer
<1>5. /\ \A n \in 0..N : n < m + 1 => U0[n] = T0[n] \o b
      /\ \A n \in 0..N : ~(n < m + 1) => U0[n] = <<>>
      /\ \A n \in 0..N : n < m + z => U1[n] = T1[n] \o b
      /\ \A n \in 0..N : ~(n < m + z) => U1[n] = <<>>
  BY <1>3, <1>4 DEF Longer
<1>6. ASSUME NEW n \in R..m, n < m + z PROVE <<Size(n)>> \in Seq(Nat)
  <2>1. CASE n = N
    BY <2>1 DEF Size
  <2>2. CASE n # N
    <3>1. n + 1 \in 1..N /\ n + 1 < m + 1 + z
      BY <1>0, <1>6, <2>2
    <3>2. Fits(n + 1)
      BY <1>0, <3>1
    <3> QED BY <2>2, <3>2 DEF Size, Fits
  <2> QED BY <2>1, <2>2
<1>7. ASSUME NEW n \in R..m, n < m + z PROVE U0[n] = <<Size(n)>> \o U1[n]
  <2>1. n \in 0..N /\ n < m + 1
    BY <1>0
  <2>2. T0[n] = <<Size(n)>> \o T1[n]
    BY <1>2, <1>7
  <2>3. U0[n] = T0[n] \o b /\ U1[n] = T1[n] \o b
    BY <1>5, <1>7, <2>1
  <2>4. <<Size(n)>> \in Seq(Nat) /\ T1[n] \in Seq(Nat)
    BY <1>2, <1>6, <1>7, <2>1
  <2>5. (<<Size(n)>> \o T1[n]) \o b = <<Size(n)>> \o (T1[n] \o b)
    BY <2>4, JoinedThree
  <2> QED BY <2>2, <2>3, <2>5, Zenon
<1>8. ASSUME NEW n \in R..m, n < m PROVE U1[n] = W[n + 1] \o U0[n + 1]
  <2>1. n \in 0..N /\ n + 1 \in 0..N /\ n + 1 < m + 1 /\ n < m + z /\ n + 1 \in 1..N
        /\ n + 1 < m + 1 + z
    BY <1>0, <1>8
  <2>2. T1[n] = W[n + 1] \o T0[n + 1]
    BY <1>2, <1>8
  <2>3. U1[n] = T1[n] \o b /\ U0[n + 1] = T0[n + 1] \o b
    BY <1>5, <2>1
  <2>4. W[n + 1] \in Seq(Nat) /\ T0[n + 1] \in Seq(Nat)
    BY <1>0, <1>2, <2>1 DEF Fits
  <2>5. (W[n + 1] \o T0[n + 1]) \o b = W[n + 1] \o (T0[n + 1] \o b)
    BY <2>4, JoinedThree
  <2> QED BY <2>2, <2>3, <2>5, Zenon
<1>9. U0[R] = T0[R] \o b /\ (R < m + z => U1[R] = T1[R] \o b)
  <2>1. R \in 0..N /\ R < m + 1
    BY <1>0
  <2> QED BY <1>5, <2>1
<1>10. <<>> \o b = b /\ b \o <<>> = b
  BY ConcatEmptySeq
<1>11. CASE z = 0 /\ k = m /\ y = 1 /\ b = <<Size(m)>>
  <2>0. m \in 0..N /\ m < m + 1 /\ ~(m < m + z)
    BY <1>0, <1>11
  <2>1. U1[m] = <<>> /\ U0[m] = b
    <3>1. T0[m] = <<>>
      BY <1>2, <1>11
    <3> QED BY <1>5, <1>10, <2>0, <3>1
  <2>2. U0[m] = <<Size(m)>> \o U1[m]
    BY <1>10, <1>11, <2>1
  <2>3. ASSUME NEW n \in R..m, n < m + 1 PROVE U0[n] = <<Size(n)>> \o U1[n]
    <3>1. n = m \/ n < m + z
      BY <1>0, <1>11
    <3> QED BY <1>7, <2>2, <3>1
  <2>4. Queue(m, 1, U0, U1)'
    <3>1. 1 # 0
      OBVIOUS
    <3> QED BY <1>1, <1>8, <1>types, <2>1, <2>3, <3>1, Zenon DEF Queue
  <2> QED BY <1>9, <1>11, <2>4, Zenon
<1>12. CASE z = 1 /\ m < N /\ k = m + 1 /\ y = 0 /\ b = W[m + 1]
  <2>1. m + 1 \in 0..N /\ ~(m + 1 < m + 1) /\ m < m + z /\ m \in 0..N
    BY <1>0, <1>12
  <2>2. U0[m + 1] = <<>> /\ U1[m] = b
    <3>1. T1[m] = <<>>
      BY <1>2, <1>12
    <3> QED BY <1>5, <1>10, <2>1, <3>1
  <2>3. U1[m] = W[m + 1] \o U0[m + 1]
    BY <1>10, <1>12, <2>2
  <2>4. ASSUME NEW n \in R..(m + 1), n < m + 1 PROVE U1[n] = W[n + 1] \o U0[n + 1]
    <3>1. n = m \/ (n < m /\ n \in R..m)
      BY <1>0, <2>4
    <3> QED BY <1>8, <2>3, <3>1
  <2>5. ASSUME NEW n \in R..(m + 1), n < m + 1 + 0 PROVE U0[n] = <<Size(n)>> \o U1[n]
    <3>1. n \in R..m /\ n < m + z
      BY <1>0, <1>12, <2>5
    <3> QED BY <1>7, <3>1
  <2>6. Queue(m + 1, 0, U0, U1)'
    BY <1>1, <1>types, <2>2, <2>4, <2>5 DEF Queue
  <2> QED BY <1>9, <1>12, <2>6, Zenon
<1> QED BY <1>11, <1>12 DEF NextChunk

\* The parent is where it was, with one more chunk to read.
LEMMA ReaderGrows ==
    ASSUME Types, NEW m, NEW z, Writer(m, z), Reader(m, z), cpc # "failed", NEW b \in Seq(Nat),
           pipe' = pipe \o b, UNCHANGED <<program, file, ppc, length, wordbuf, received>>,
           NEW k, NEW y, NextChunk(m, z, b, k, y)
    PROVE  Reader(k, y)'
<1>1. PICK r, T0, T1 : InStep(m, z, r, T0, T1)
  BY DEF Reader, Stale
<1>2. W' = W /\ N' = N /\ R' = R
  BY SameWords DEF R
<1>3. /\ N \in Nat /\ R \in Nat /\ m \in Nat /\ m <= N /\ z \in {0, 1} /\ R <= m /\ r \in {0, 1}
      /\ Queue(m, z, T0, T1) /\ (R = m => r <= z)
  BY <1>1, WriterFacts DEF InStep
<1>6. PICK U0, U1 : /\ Queue(k, y, U0, U1)' /\ U0[R] = T0[R] \o b
                    /\ R < m + z => U1[R] = T1[R] \o b
  BY <1>3, QueueGrows, SMTT(40)
<1>7. r = 1 => R < m + z
  BY <1>3
<1>8. pipe' = IF r = 0 THEN U0[R] ELSE U1[R]
  <2>1. pipe = IF r = 0 THEN T0[R] ELSE T1[R]
    BY <1>1 DEF InStep
  <2> QED BY <1>3, <1>6, <1>7, <2>1
<1>9. R <= k /\ (R = k => r <= y)
  BY <1>3 DEF NextChunk
<1>10. Buffer(R)'
  BY <1>1, <1>2, SameWords DEF InStep, Buffer
<1>11. InStep(k, y, r, U0, U1)'
  BY <1>1, <1>2, <1>6, <1>8, <1>9, <1>10 DEF InStep, LastRead
<1> QED BY <1>11 DEF Reader

\* What send_word writes.
LEMMA SendChunk ==
    ASSUME Types, NEW m, NEW z, Writer(m, z), S!send_word
    PROVE  /\ cpc # "failed" /\ cpc' \in {"wword", "sent"}
           /\ UNCHANGED <<file, stage, pos, word, ppc, length, wordbuf, received>>
           /\ \/ /\ cpc = "wlen" /\ z = 0 /\ pipe' = pipe \o <<Size(m)>> /\ <<Size(m)>> \in Seq(Nat)
                 /\ cpc' = IF stage = "sentinel" THEN "sent" ELSE "wword"
              \/ /\ cpc = "wword" /\ z = 1 /\ m < N /\ cpc' = "sent" /\ stage # "sentinel"
                 /\ pipe' = pipe \o W[m + 1] /\ W[m + 1] \in Seq(Nat)
<1>1. /\ word \in Seq(Nat) /\ Len(word) \in Nat /\ Len(word) <= MAX_WORD_LENGTH
      /\ pipe \in Seq(Nat) /\ N \in Nat /\ m \in 0..N
  BY WFacts, LenProperties DEF Types, Writer
<1>2. Len(word) \in 0..UINT8_MAX
  BY <1>1
<1>3. S!uint8_t(Len(word)) = Len(word)
  BY <1>2, ByteIsLength
<1>4. UNCHANGED <<file, stage, pos, word, ppc, length, wordbuf, received>>
  BY DEF S!send_word, S!parentVars
<1>5. PICK len : /\ len = IF stage = "sentinel" THEN 0 ELSE Len(word)
                 /\ \/ /\ cpc = "wlen" /\ pipe' = Append(pipe, len)
                       /\ cpc' = IF len > 0 THEN "wword" ELSE "sent"
                    \/ cpc = "wword" /\ pipe' = pipe \o SubSeq(word, 1, len) /\ cpc' = "sent"
  BY <1>3, Zenon DEF S!send_word
<1>6. cpc # "failed" /\ cpc' \in {"wword", "sent"}
  BY <1>5
<1>7. CASE cpc = "wlen"
  <2>1. z = 0 /\ pipe' = Append(pipe, len) /\ cpc' = IF len > 0 THEN "wword" ELSE "sent"
    BY <1>5, <1>7 DEF Writer
  <2>2. CASE stage = "sentinel"
    <3>1. m = N /\ len = 0 /\ Size(m) = 0
      BY <1>5, <1>7, <2>2 DEF Writer, Size
    <3>2. Append(pipe, len) = pipe \o <<len>> /\ <<len>> \in Seq(Nat)
      BY <1>1, <3>1
    <3>3. cpc' = "sent"
      BY <2>1, <3>1
    <3> QED BY <1>4, <1>6, <1>7, <2>1, <2>2, <3>1, <3>2, <3>3
  <2>3. CASE stage # "sentinel"
    <3>1. m < N /\ word = W[m + 1] /\ word # <<>> /\ len = Len(word)
      BY <1>5, <1>7, <2>3 DEF Writer
    <3>2. Size(m) = len /\ len > 0 /\ len \in Nat
      BY <1>1, <3>1 DEF Size
    <3>3. Append(pipe, len) = pipe \o <<len>> /\ <<len>> \in Seq(Nat)
      BY <1>1, <3>2
    <3>4. cpc' = "wword"
      BY <2>1, <3>2
    <3> QED BY <1>4, <1>6, <1>7, <2>1, <2>3, <3>2, <3>3, <3>4
  <2> QED BY <2>2, <2>3
<1>8. CASE cpc = "wword"
  <2>1. z = 1 /\ stage # "sentinel" /\ m < N /\ word = W[m + 1] /\ len = Len(word)
    BY <1>5, <1>8 DEF Writer
  <2>2. pipe' = pipe \o SubSeq(word, 1, len) /\ cpc' = "sent"
    BY <1>5, <1>8
  <2>3. SubSeq(word, 1, Len(word)) = word
    BY <1>1
  <2> QED BY <1>1, <1>4, <1>6, <1>8, <2>1, <2>2, <2>3
<1> QED BY <1>5, <1>7, <1>8

LEMMA SendWord ==
    ASSUME Types, NEW m, NEW z, Writer(m, z), Reader(m, z), S!send_word, UNCHANGED program
    PROVE  \E k, y : Writer(k, y)' /\ Reader(k, y)'
<1>1. /\ cpc # "failed" /\ UNCHANGED <<file, stage, pos, word, ppc, length, wordbuf, received>>
  BY SendChunk
<1>2. W' = W /\ N' = N /\ \A n : Fits(n)' <=> Fits(n)
  BY <1>1, SameWords
<1>3. N \in Nat /\ m \in Nat /\ m \in 0..N /\ \A n \in 1..N : n < m + 1 + z => Fits(n)
  BY WFacts DEF Writer
<1>4. CASE /\ cpc = "wlen" /\ z = 0 /\ pipe' = pipe \o <<Size(m)>> /\ <<Size(m)>> \in Seq(Nat)
           /\ cpc' = IF stage = "sentinel" THEN "sent" ELSE "wword"
  <2>1. NextChunk(m, z, <<Size(m)>>, m, 1)
    BY <1>4 DEF NextChunk
  <2>2. Reader(m, 1)'
    BY <1>1, <1>4, <2>1, ReaderGrows
  <2>3. IF stage = "sentinel" THEN m = N
        ELSE m < N /\ word = W[m + 1] /\ word # <<>> /\ Announced(m + 1)
    BY <1>4 DEF Writer
  <2>4. Announced(m + 1) => Announced(m + 1)'
    BY <1>1, <1>2 DEF Announced
  <2>5. ASSUME NEW n \in 1..N, n < m + 1 + 1 PROVE Fits(n)
    <3>1. CASE n < m + 1 + z
      BY <1>3, <3>1
    <3>2. CASE ~(n < m + 1 + z)
      <4>1. n = m + 1 /\ m # N
        BY <1>3, <1>4, <2>5, <3>2
      <4>2. word = W[n] /\ word # <<>>
        BY <2>3, <4>1
      <4>3. word \in Seq(Nat) /\ Len(word) \in 1..MAX_WORD_LENGTH
        BY <4>2 DEF Types
      <4> QED BY <4>2, <4>3 DEF Fits
    <3> QED BY <3>1, <3>2
  <2>6. Writer(m, 1)'
    BY <1>1, <1>2, <1>3, <1>4, <2>3, <2>4, <2>5 DEF Writer
  <2> QED BY <2>2, <2>6
<1>5. CASE /\ cpc = "wword" /\ z = 1 /\ m < N /\ cpc' = "sent" /\ stage # "sentinel"
           /\ pipe' = pipe \o W[m + 1] /\ W[m + 1] \in Seq(Nat)
  <2>1. NextChunk(m, z, W[m + 1], m + 1, 0)
    BY <1>5 DEF NextChunk
  <2>2. Reader(m + 1, 0)'
    BY <1>1, <1>5, <2>1, ReaderGrows
  <2>3. Announced(m + 1)'
    BY <1>1, <1>2, <1>5 DEF Writer, Announced
  <2>4. \A n \in 1..N : n < (m + 1) + 1 + 0 => Fits(n)
    BY <1>3, <1>5
  <2>5. m + 1 \in 0..N
    BY <1>3, <1>5
  <2>6. Writer(m + 1, 0)'
    BY <1>1, <1>2, <1>5, <2>3, <2>4, <2>5 DEF Writer
  <2> QED BY <2>2, <2>6
<1> QED BY <1>4, <1>5, SendChunk

\* Back in the loop, or at the end of it; the file may not open.
LEMMA AfterSendWriter ==
    ASSUME Types, NEW m, NEW z, Writer(m, z), UNCHANGED program,
           S!AfterSend \/ S!ChildClose \/ (P!OpenFails /\ program = "socketpair")
    PROVE  /\ Writer(m, z)' /\ (cpc = "failed" => cpc' = "failed")
           /\ UNCHANGED <<file, ppc, length, wordbuf, pipe, received, pos>>
           /\ cpc' \in {"scan", "wlen", "close", "exited", "failed"}
           /\ stage' \in {stage, "sentinel"} /\ word' \in {word, <<>>}
<1>1. /\ UNCHANGED <<file, ppc, length, wordbuf, pipe, received, pos>>
      /\ cpc' \in {"scan", "wlen", "close", "exited", "failed"} /\ cpc # "failed"
      /\ stage' \in {stage, "sentinel"} /\ word' \in {word, <<>>}
  BY DEF S!AfterSend, S!ChildClose, P!OpenFails, S!parentVars
<1>2. W' = W /\ N' = N /\ \A n : Fits(n)' <=> Fits(n)
  BY <1>1, SameWords
<1>3. /\ N \in Nat /\ m \in Nat /\ m \in 0..N /\ z \in {0, 1}
      /\ \A n \in 1..N : n < m + 1 + z => Fits(n)
  BY WFacts DEF Writer
<1>4. CASE S!AfterSend /\ stage = "reading"
  <2>1. cpc = "sent" /\ cpc' = "scan" /\ word' = <<>> /\ stage' = stage
    BY <1>4 DEF S!AfterSend
  <2>2. z = 0 /\ pos - 1 \in 1..Len(file) /\ file[pos - 1] = S!Sep /\ WordsOf!Before(file, pos) = m
    BY <1>4, <2>1 DEF Writer, Announced
  <2>3. pos \in Nat /\ Len(file) \in Nat /\ Len(word') = 0
    BY <2>1, WFacts DEF Types
  <2>4. Scanned(m)'
    BY <1>1, <1>4, <2>1, <2>2, <2>3 DEF Scanned
  <2>5. Writer(m, z)'
    BY <1>2, <1>3, <2>1, <2>2, <2>4 DEF Writer
  <2> QED BY <1>1, <2>5
<1>5. CASE S!AfterSend /\ stage = "tail"
  <2>1. cpc = "sent" /\ cpc' = "wlen" /\ stage' = "sentinel"
    BY <1>5 DEF S!AfterSend
  <2>2. z = 0 /\ m = N
    BY <1>5, <2>1 DEF Writer, Announced
  <2>3. Writer(m, z)'
    BY <1>2, <1>3, <2>1, <2>2 DEF Writer
  <2> QED BY <1>1, <2>3
<1>6. CASE S!AfterSend /\ stage = "sentinel"
  <2>1. cpc = "sent" /\ cpc' = "close"
    BY <1>6 DEF S!AfterSend
  <2>2. z = 1 /\ m = N
    BY <1>6, <2>1 DEF Writer
  <2>3. Writer(m, z)'
    BY <1>2, <1>3, <2>1, <2>2 DEF Writer
  <2> QED BY <1>1, <2>3
<1>7. CASE S!ChildClose
  <2>1. cpc = "close" /\ cpc' = "exited"
    BY <1>7 DEF S!ChildClose
  <2>2. z = 1 /\ m = N
    BY <2>1 DEF Writer
  <2>3. Writer(m, z)'
    BY <1>2, <1>3, <2>1, <2>2 DEF Writer
  <2> QED BY <1>1, <2>3
<1>8. CASE P!OpenFails /\ program = "socketpair"
  <2>1. cpc = "scan" /\ pos = 1 /\ word = <<>> /\ cpc' = "failed" /\ word' = word
    BY <1>8 DEF P!OpenFails
  <2>2. z = 0 /\ m = 0
    <3>1. z = 0 /\ WordsOf!Before(file, pos - Len(word)) = m
      BY <2>1 DEF Writer, Scanned
    <3>2. pos - Len(word) = 1
      BY <2>1
    <3> QED BY <3>1, <3>2, WFacts
  <2>3. Writer(m, z)'
    BY <1>2, <1>3, <1>8, <2>1, <2>2 DEF Writer
  <2> QED BY <1>1, <2>3
<1> QED BY <1>4, <1>5, <1>6, <1>7, <1>8 DEF Types

LEMMA ChildKeeps ==
    ASSUME DataInv, ChildStep, UNCHANGED program
    PROVE  DataInv'
<1>1. Types
  BY DEF DataInv
<1>2. PICK m, z : Writer(m, z) /\ Reader(m, z)
  BY DEF DataInv
<1>3. CASE S!child_process
  <2>1. Writer(m, z)'
    BY <1>1, <1>2, <1>3, ScanWriter
  <2>2. /\ UNCHANGED <<file, ppc, length, wordbuf, pipe, received>>
        /\ cpc' \in {"scan", "wlen", "failed"} /\ stage' \in {stage, "tail", "sentinel"}
        /\ pos' \in Nat \ {0} /\ word' \in Seq(Nat) /\ Len(word') <= MAX_WORD_LENGTH
    BY <1>1, <1>3, ScanTypes
  <2>3. cpc # "failed"
    BY <1>3 DEF S!child_process
  <2>4. Reader(m, z)'
    BY <1>2, <2>2, <2>3, ReaderKept
  <2>5. Types'
    BY <1>1, <2>2 DEF Types
  <2> QED BY <2>1, <2>4, <2>5 DEF DataInv
<1>4. CASE S!send_word
  <2>1. \E k, y : Writer(k, y)' /\ Reader(k, y)'
    BY <1>1, <1>2, <1>4, SendWord
  <2>2. /\ UNCHANGED <<file, stage, pos, word, ppc, length, wordbuf, received>>
        /\ cpc' \in {"wword", "sent"}
        /\ \E b \in Seq(Nat) : pipe' = pipe \o b
    BY <1>1, <1>2, <1>4, SendChunk
  <2>3. pipe' \in Seq(Nat)
    BY <1>1, <2>2, ConcatProperties DEF Types
  <2>4. Types'
    BY <1>1, <2>2, <2>3 DEF Types
  <2> QED BY <2>1, <2>4 DEF DataInv
<1>5. CASE S!AfterSend \/ S!ChildClose \/ (P!OpenFails /\ program = "socketpair")
  <2>1. /\ Writer(m, z)' /\ (cpc = "failed" => cpc' = "failed")
        /\ UNCHANGED <<file, ppc, length, wordbuf, pipe, received, pos>>
        /\ cpc' \in {"scan", "wlen", "close", "exited", "failed"}
        /\ stage' \in {stage, "sentinel"} /\ word' \in {word, <<>>}
    BY <1>1, <1>2, <1>5, AfterSendWriter
  <2>2. Reader(m, z)'
    BY <1>2, <2>1, ReaderKept
  <2>3. word' \in Seq(Nat) /\ Len(word') <= MAX_WORD_LENGTH
    <3>1. word \in Seq(Nat) /\ Len(word) <= MAX_WORD_LENGTH
      BY <1>1 DEF Types
    <3>2. <<>> \in Seq(Nat) /\ Len(<<>>) = 0
      BY EmptySeq
    <3>3. CASE word' = word
      BY <3>1, <3>3
    <3>4. CASE word' = <<>>
      BY <3>2, <3>4
    <3> QED BY <2>1, <3>3, <3>4
  <2>4. Types'
    BY <1>1, <2>1, <2>3 DEF Types
  <2> QED BY <2>1, <2>2, <2>4 DEF DataInv
<1> QED BY <1>3, <1>4, <1>5, Zenon DEF ChildStep

-------------------------------------------------------------------------------
(* The parent                                                              *)

LEMMA WriterKept ==
    ASSUME NEW m, NEW z, Writer(m, z), UNCHANGED <<program, file, cpc, stage, pos, word>>
    PROVE  Writer(m, z)'
<1>1. W' = W /\ N' = N /\ \A n : Fits(n)' <=> Fits(n)
  BY SameWords
<1>2. /\ Scanned(m) => Scanned(m)'
      /\ \A n : Announced(n) => Announced(n)'
  BY <1>1 DEF Scanned, Announced
<1> QED BY <1>1, <1>2, Zenon DEF Writer

\* What is read is taken off the front.
LEMMA ReadsFront ==
    ASSUME NEW x \in Seq(Nat), NEW y \in Seq(Nat), x # <<>>
    PROVE  /\ x \o y # <<>> /\ SubSeq(x \o y, 1, Len(x)) = x
           /\ SubSeq(x \o y, Len(x) + 1, Len(x \o y)) = y /\ Len(x) <= Len(x \o y)
<1>1. /\ Len(x) \in Nat \ {0} /\ Len(y) \in Nat /\ x \o y \in Seq(Nat)
      /\ Len(x \o y) = Len(x) + Len(y)
      /\ \A i \in 1..(Len(x) + Len(y)) : (x \o y)[i] = IF i <= Len(x) THEN x[i] ELSE y[i - Len(x)]
  BY EmptySeq, LenProperties, ConcatProperties
<1>2. \A i \in 1..(Len(x) + Len(y)) : (x \o y)[i] \in Nat
  BY <1>1, ElementOfSeq
<1>3. SubSeq(x \o y, 1, Len(x)) = x
  <2>1. \A i \in 1..Len(x) : (x \o y)[i] = x[i] /\ (x \o y)[i] \in Nat
    BY <1>1, <1>2
  <2>2. /\ SubSeq(x \o y, 1, Len(x)) \in Seq(Nat) /\ Len(SubSeq(x \o y, 1, Len(x))) = Len(x)
        /\ \A i \in 1..Len(x) : SubSeq(x \o y, 1, Len(x))[i] = (x \o y)[i]
    BY <1>1, <2>1, SubSeqProperties
  <2> QED BY <2>1, <2>2, SeqEqual
<1>4. SubSeq(x \o y, Len(x) + 1, Len(x \o y)) = y
  <2>1. \A i \in 1..Len(y) : (x \o y)[Len(x) + i] = y[i]
    <3> SUFFICES ASSUME NEW i \in 1..Len(y) PROVE (x \o y)[Len(x) + i] = y[i]
      OBVIOUS
    <3>1. Len(x) + i \in 1..(Len(x) + Len(y)) /\ ~(Len(x) + i <= Len(x)) /\ (Len(x) + i) - Len(x) = i
      BY <1>1
    <3> QED BY <1>1, <3>1
  <2>2. PICK a \in Int, c \in Int : a = Len(x) + 1 /\ c = Len(x) + Len(y)
    BY <1>1
  <2>3. \A i \in a..c : (x \o y)[i] \in Nat
    BY <1>1, <1>2, <2>2
  <2>4. /\ SubSeq(x \o y, a, c) \in Seq(Nat)
        /\ Len(SubSeq(x \o y, a, c)) = IF a <= c THEN c - a + 1 ELSE 0
        /\ \A i \in 1..(c - a + 1) : SubSeq(x \o y, a, c)[i] = (x \o y)[a + i - 1]
    BY <2>2, <2>3, SubSeqProperties
  <2>5. Len(SubSeq(x \o y, a, c)) = Len(y) /\ c - a + 1 = Len(y)
    BY <1>1, <2>2, <2>4
  <2>6. \A i \in 1..Len(y) : SubSeq(x \o y, a, c)[i] = y[i]
    BY <1>1, <2>1, <2>2, <2>4, <2>5
  <2> QED BY <1>1, <2>2, <2>4, <2>5, <2>6, SeqEqual
<1>5. x \o y # <<>> /\ Len(x) <= Len(x \o y)
  BY <1>1
<1> QED BY <1>3, <1>4, <1>5

\* What is printed of the buffer.
LEMMA Printed ==
    ASSUME NEW buf \in [1..UINT8_MAX -> Int], NEW len \in 0..UINT8_MAX
    PROVE  /\ SubSeq(buf, 1, len) \in Seq(Int) /\ Len(SubSeq(buf, 1, len)) = len
           /\ \A t \in 1..len : SubSeq(buf, 1, len)[t] = buf[t]
           /\ \A w \in Seq(Nat) : len = Len(w) /\ (\A t \in 1..len : buf[t] = w[t]) =>
                                     SubSeq(buf, 1, len) = w
<1>1. \A t \in 1..len : buf[t] \in Int
  OBVIOUS
<1>2. /\ SubSeq(buf, 1, len) \in Seq(Int) /\ Len(SubSeq(buf, 1, len)) = len
      /\ \A t \in 1..len : SubSeq(buf, 1, len)[t] = buf[t]
  <2>1. len \in Int /\ 1 \in Int /\ len \in Nat
    OBVIOUS
  <2>2. /\ SubSeq(buf, 1, len) \in Seq(Int)
        /\ Len(SubSeq(buf, 1, len)) = IF 1 <= len THEN len - 1 + 1 ELSE 0
        /\ \A i \in 1..(len - 1 + 1) : SubSeq(buf, 1, len)[i] = buf[1 + i - 1]
    BY <1>1, <2>1, SubSeqProperties
  <2> QED BY <2>1, <2>2
<1>3. ASSUME NEW w \in Seq(Nat), len = Len(w), \A t \in 1..len : buf[t] = w[t]
      PROVE  SubSeq(buf, 1, len) = w
  <2>1. w \in Seq(Int)
    BY SeqMonotonic
  <2>2. Len(SubSeq(buf, 1, len)) = Len(w) /\ \A t \in 1..Len(w) : SubSeq(buf, 1, len)[t] = w[t]
    BY <1>2, <1>3
  <2> QED BY <1>2, <2>1, <2>2, SeqEqual
<1> QED BY <1>2, <1>3

\* The start of a turn of socketpair leaves in the buffer no more than there was.
LEMMA LengthBuffer ==
    ASSUME NEW n, Buffer(n), ReadsLength
    PROVE  Buffer(n)'
<1> SUFFICES ASSUME program' = "socketpair", NEW k \in 1..UINT8_MAX
             PROVE  Leftover(n, k, wordbuf'[k])
  BY SameWords DEF ReadsLength, Buffer
<1>1. Leftover(n, k, wordbuf[k]) /\ wordbuf'[k] \in {wordbuf[k], S!Junk}
  BY DEF ReadsLength, Buffer
<1>2. Leftover(n, k, S!Junk)
  BY DEF Leftover
<1> QED BY <1>1, <1>2

\* The length read is that of the next word, or the 0.
LEMMA LengthInStep ==
    ASSUME Types, NEW m, NEW z, Writer(m, z), NEW r, NEW T0, NEW T1, InStep(m, z, r, T0, T1),
           ReadsLength, pipe # <<>>
    PROVE  InStep(m, z, 1, T0, T1)' /\ length' \in 0..UINT8_MAX
<1>1. /\ N \in Nat /\ R \in Nat /\ m \in Nat /\ m <= N /\ z \in {0, 1} /\ R <= m
      /\ \A n \in 1..N : n < m + 1 + z => Fits(n)
  BY WriterFacts DEF InStep
<1>2. /\ length' = Head(pipe) /\ pipe' = Tail(pipe) /\ ppc = "rlen"
      /\ ppc' = IF length' = 0 THEN "close" ELSE "rword"
      /\ UNCHANGED <<program, file, cpc, stage, pos, word, received>>
  BY DEF ReadsLength
<1>3. W' = W /\ N' = N /\ R' = R /\ \A n : Size(n)' = Size(n)
  BY <1>2, SameWords DEF R
<1>4. r = 0 /\ pipe = T0[R] /\ Queue(m, z, T0, T1)
  BY <1>2 DEF InStep
<1>5. R < m + z
  <2>1. ~(z = 0 /\ R = m)
    BY <1>4 DEF Queue
  <2> QED BY <1>1, <2>1
<1>6. T0[R] = <<Size(R)>> \o T1[R] /\ T1[R] \in Seq(Nat)
  <2>1. R \in R..m /\ R \in 0..N
    BY <1>1
  <2> QED BY <1>4, <1>5, <2>1 DEF Queue
<1>7. /\ R = N => Size(R) = 0
      /\ R # N => Size(R) = Len(W[R + 1]) /\ Size(R) \in 1..UINT8_MAX
  <2>1. R = N => Size(R) = 0
    BY DEF Size
  <2>2. ASSUME R # N PROVE Size(R) = Len(W[R + 1]) /\ Size(R) \in 1..UINT8_MAX
    <3>1. R + 1 \in 1..N /\ R + 1 < m + 1 + z
      BY <1>1, <1>5, <2>2
    <3>2. Len(W[R + 1]) \in 1..MAX_WORD_LENGTH
      BY <1>1, <3>1 DEF Fits
    <3>3. Size(R) = Len(W[R + 1])
      BY <2>2 DEF Size
    <3> QED BY <3>2, <3>3
  <2> QED BY <2>1, <2>2
<1>8. Size(R) \in 0..UINT8_MAX /\ Size(R) \in Nat
  BY <1>7
<1>9. Head(pipe) = Size(R) /\ Tail(pipe) = T1[R]
  <2>1. PICK x \in Nat, y \in Seq(Nat) : x = Size(R) /\ y = T1[R]
    BY <1>6, <1>8
  <2>2. Head(<<x>> \o y) = x /\ Tail(<<x>> \o y) = y
    BY <2>1
  <2> QED BY <1>4, <1>6, <2>1, <2>2
<1>10. Queue(m, z, T0, T1)'
  BY <1>3, <1>4 DEF Queue
<1>11. (R = m => 1 <= z) /\ Buffer(R)'
  BY <1>1, <1>3, <1>5, LengthBuffer DEF InStep
<1>12. CASE R = N
  <2>1. ppc' = "close"
    BY <1>2, <1>7, <1>9, <1>12
  <2>2. InStep(m, z, 1, T0, T1)'
    BY <1>1, <1>2, <1>3, <1>9, <1>10, <1>11, <1>12, <2>1 DEF InStep
  <2> QED BY <1>2, <1>8, <1>9, <2>2
<1>13. CASE R # N
  <2>1. ppc' = "rword" /\ length' = Len(W[R + 1])
    BY <1>2, <1>7, <1>9, <1>13
  <2>2. R < N
    BY <1>1, <1>13
  <2>3. InStep(m, z, 1, T0, T1)'
    BY <1>1, <1>2, <1>3, <1>9, <1>10, <1>11, <2>1, <2>2 DEF InStep
  <2> QED BY <1>2, <1>8, <1>9, <2>3
<1> QED BY <1>12, <1>13

\* End of file: the child has given up, and the parent takes what its locals hold.
LEMMA LengthStale ==
    ASSUME Types, NEW m, NEW z, Writer(m, z), Reader(m, z), ReadsLength, pipe = <<>>
    PROVE  Stale(m)' /\ length' \in 0..UINT8_MAX
<1>1. /\ N \in Nat /\ R \in Nat /\ m \in Nat /\ m <= N /\ z \in {0, 1}
      /\ \A n \in 1..N : n < m + 1 + z => Fits(n)
  BY WriterFacts
<1>2. /\ ppc = "rlen" /\ ppc' = IF length' = 0 THEN "close" ELSE "rword"
      /\ cpc \in {"exited", "failed"} /\ pipe' = <<>>
      /\ UNCHANGED <<program, file, cpc, stage, pos, word, received>>
      /\ IF program = "socketpair" THEN length' \in 0..UINT8_MAX
         ELSE length' = length /\ wordbuf' = wordbuf
  BY DEF ReadsLength
<1>3. W' = W /\ N' = N /\ R' = R
  BY <1>2, SameWords DEF R
<1>4. length' \in 0..UINT8_MAX
  BY <1>2 DEF Types
<1>5. /\ cpc = "failed" /\ R >= m /\ Buffer(m) /\ \A n \in 1..m : received[n] = W[n]
      /\ program = "socketpair" =>
            \A n \in (m + 1)..R : \A k \in DOMAIN received[n] : Leftover(m, k, received[n][k])
      /\ program # "socketpair" /\ m > 0 =>
            LastRead(m) /\ \A n \in (m + 1)..R : received[n] = W[m]
  <2>1. CASE Stale(m)
    BY <2>1 DEF Stale
  <2>2. ASSUME NEW r, NEW T0, NEW T1, InStep(m, z, r, T0, T1)
        PROVE  /\ cpc = "failed" /\ R = m /\ LastRead(m) /\ Buffer(m)
               /\ \A n \in 1..m : received[n] = W[n]
    <3>1. r = 0 /\ pipe = T0[R] /\ LastRead(R) /\ Queue(m, z, T0, T1) /\ R <= m /\ Buffer(R)
          /\ \A n \in 1..R : received[n] = W[n]
      BY <1>2, <2>2 DEF InStep
    <3>2. ~(R < m + z)
      <4> SUFFICES ASSUME R < m + z PROVE FALSE
        OBVIOUS
      <4>1. R \in R..m /\ R \in 0..N
        BY <1>1, <3>1
      <4>2. T0[R] = <<Size(R)>> \o T1[R] /\ T1[R] \in Seq(Nat)
        BY <3>1, <4>1 DEF Queue
      <4>3. Size(R) \in Nat
        <5>1. CASE R = N
          BY <5>1 DEF Size
        <5>2. CASE R # N
          <6>1. R + 1 \in 1..N /\ R + 1 < m + 1 + z
            BY <1>1, <3>1, <5>2
          <6> QED BY <1>1, <5>2, <6>1 DEF Size, Fits
        <5> QED BY <5>1, <5>2
      <4>4. <<Size(R)>> \in Seq(Nat) /\ <<Size(R)>> # <<>>
        BY <4>3
      <4>5. T0[R] # <<>>
        BY <4>2, <4>4, ReadsFront
      <4> QED BY <3>1, <4>5
    <3>3. R = m /\ z = 0
      BY <1>1, <3>1, <3>2
    <3>4. cpc = "failed"
      BY <1>2, <3>3 DEF Writer
    <3> QED BY <3>1, <3>3, <3>4
  <2>3. CASE \E r, T0, T1 : InStep(m, z, r, T0, T1)
    <3>1. /\ cpc = "failed" /\ R = m /\ LastRead(m) /\ Buffer(m)
          /\ \A n \in 1..m : received[n] = W[n]
      BY <2>2, <2>3
    <3>2. R >= m /\ \A n \in (m + 1)..R : FALSE
      BY <1>1, <3>1
    <3> QED BY <3>1, <3>2, Zenon
  <2> QED BY <2>1, <2>3 DEF Reader
<1>6. ASSUME program # "socketpair", m > 0 PROVE ppc' = "rword" /\ LastRead(m)'
  <2>1. length' = length /\ wordbuf' = wordbuf /\ LastRead(m) /\ length = Len(W[m])
    BY <1>2, <1>5, <1>6 DEF LastRead
  <2>2. m \in 1..N /\ m < m + 1 + z
    BY <1>1, <1>6
  <2>3. length # 0
    BY <1>1, <2>1, <2>2 DEF Fits
  <2>4. LastRead(m)'
    BY <1>2, <1>3, <2>1 DEF LastRead
  <2> QED BY <1>2, <2>1, <2>3, <2>4
<1>7. /\ Buffer(m)'
      /\ program = "socketpair" => (\A n \in (m + 1)..R : \A k \in DOMAIN received[n] :
                                      Leftover(m, k, received[n][k]))'
  <2>1. Buffer(m)'
    BY <1>5, LengthBuffer
  <2>2. received' = received /\ \A n, k, byte : Leftover(n, k, byte)' <=> Leftover(n, k, byte)
    BY <1>2, SameWords
  <2> QED BY <1>3, <1>5, <2>1, <2>2
<1>8. Stale(m)'
  BY <1>2, <1>3, <1>5, <1>6, <1>7 DEF Stale
<1> QED BY <1>4, <1>8

LEMMA LengthKeeps ==
    ASSUME DataInv, ReadsLength
    PROVE  DataInv'
<1>1. Types
  BY DEF DataInv
<1>2. PICK m, z : Writer(m, z) /\ Reader(m, z)
  BY DEF DataInv
<1>3. Writer(m, z)'
  BY <1>2, WriterKept DEF ReadsLength
<1>4. Reader(m, z)' /\ length' \in 0..UINT8_MAX
  <2>1. CASE pipe = <<>>
    BY <1>1, <1>2, <2>1, LengthStale DEF Reader
  <2>2. CASE pipe # <<>>
    <3>1. PICK r, T0, T1 : InStep(m, z, r, T0, T1)
      BY <1>2, <2>2 DEF Reader, Stale
    <3> QED BY <1>1, <1>2, <2>2, <3>1, LengthInStep DEF Reader
  <2> QED BY <2>1, <2>2
<1>5. wordbuf' \in [1..UINT8_MAX -> Int]
  BY <1>1 DEF ReadsLength, Types
<1>6. pipe' \in Seq(Nat)
  <2>1. pipe \in Seq(Nat)
    BY <1>1 DEF Types
  <2>2. pipe' = pipe \/ (pipe # <<>> /\ pipe' = Tail(pipe))
    BY DEF ReadsLength
  <2> QED BY <2>1, <2>2, HeadTailProperties
<1>7. /\ ppc' \in {"close", "rword"}
      /\ UNCHANGED <<program, file, cpc, stage, pos, word, received>>
  BY Zenon DEF ReadsLength
<1>8. Types'
  BY <1>1, <1>4, <1>5, <1>6, <1>7 DEF Types
<1> QED BY <1>3, <1>4, <1>8 DEF DataInv

\* A letter of the last word.
LEMMA LastWordLeft ==
    ASSUME NEW n \in Nat \ {0}, NEW k, NEW byte, k <= Len(Words[n]), byte = Words[n][k]
    PROVE  Leftover(n, k, byte)
<1>1. n \in 1..n /\ \A v \in (n + 1)..n : Len(Words[v]) + 1 < k
  OBVIOUS
<1> QED BY <1>1, Zenon DEF Leftover

\* A word that does not reach so far leaves what there was.
LEMMA LeftoverGrows ==
    ASSUME NEW n \in Nat, NEW k \in Nat, NEW byte, Leftover(n, k, byte),
           Len(Words[n + 1]) + 1 < k
    PROVE  Leftover(n + 1, k, byte)
<1>1. CASE byte \in {S!Junk, S!Nul}
  BY <1>1 DEF Leftover
<1>2. CASE \E w \in 1..n : /\ k <= Len(Words[w]) /\ byte = Words[w][k]
                           /\ \A v \in (w + 1)..n : Len(Words[v]) + 1 < k
  <2>1. PICK w \in 1..n : /\ k <= Len(Words[w]) /\ byte = Words[w][k]
                          /\ \A v \in (w + 1)..n : Len(Words[v]) + 1 < k
    BY <1>2
  <2>2. \A v \in (w + 1)..(n + 1) : v = n + 1 \/ v \in (w + 1)..n
    OBVIOUS
  <2>3. w \in 1..(n + 1) /\ \A v \in (w + 1)..(n + 1) : Len(Words[v]) + 1 < k
    BY <2>1, <2>2
  <2> QED BY <2>1, <2>3 DEF Leftover
<1> QED BY <1>1, <1>2 DEF Leftover

\* Nothing but the words is under way: the word read is the next one.
LEMMA WordInStep ==
    ASSUME Types, NEW m, NEW z, Writer(m, z), NEW r, NEW T0, NEW T1, InStep(m, z, r, T0, T1),
           ReadsWord
    PROVE  /\ R < m /\ W[R + 1] \in Seq(Nat) /\ received' = Append(received, W[R + 1])
           /\ InStep(m, z, 0, T0, T1)'
<1>1. /\ N \in Nat /\ R \in Nat /\ m \in Nat /\ m <= N /\ z \in {0, 1} /\ R <= m
      /\ \A n \in 1..N : n < m + 1 + z => Fits(n)
  BY WriterFacts DEF InStep
<1>2. /\ ppc = "rword" /\ ppc' = "rlen"
      /\ UNCHANGED <<program, file, cpc, stage, pos, word, length>>
  BY DEF ReadsWord
<1>3. PICK bytes \in S!ReadOutcome(length) :
          /\ wordbuf' = [i \in DOMAIN wordbuf |->
                           IF i <= Len(bytes) THEN bytes[i]
                           ELSE IF i = length + 1 THEN S!Nul ELSE wordbuf[i]]
          /\ received' = Append(received, SubSeq(wordbuf', 1, length))
          /\ pipe' = SubSeq(pipe, Len(bytes) + 1, Len(pipe))
  BY DEF ReadsWord
<1>4. /\ r = 1 /\ R < N /\ length = Len(W[R + 1]) /\ pipe = T1[R] /\ Queue(m, z, T0, T1)
      /\ (R = m => r <= z) /\ \A n \in 1..R : received[n] = W[n]
  BY <1>2 DEF InStep
<1>5. R < m
  <2> SUFFICES ASSUME R = m PROVE FALSE
    BY <1>1
  <2>1. z = 1
    BY <1>1, <1>4
  <2>2. pipe = <<>>
    BY <1>4, <2>1 DEF Queue
  <2>3. cpc \in {"exited", "failed"}
    BY <1>3, <2>2 DEF S!ReadOutcome, S!WriteEndClosed
  <2> QED BY <1>1, <1>4, <2>1, <2>3 DEF Writer
<1>6. W[R + 1] \in Seq(Nat) /\ Len(W[R + 1]) \in 1..MAX_WORD_LENGTH
  <2>1. R + 1 \in 1..N /\ R + 1 < m + 1 + z
    BY <1>1, <1>4, <1>5
  <2> QED BY <1>1, <2>1 DEF Fits
<1>7. pipe = W[R + 1] \o T0[R + 1] /\ T0[R + 1] \in Seq(Nat)
  <2>1. R \in R..m /\ R + 1 \in 0..N
    BY <1>1, <1>4
  <2> QED BY <1>4, <1>5, <2>1 DEF Queue
<1>8. PICK x \in Seq(Nat), y \in Seq(Nat) : x = W[R + 1] /\ y = T0[R + 1]
  BY <1>6, <1>7
<1>9. pipe = x \o y /\ length = Len(x) /\ x # <<>> /\ Len(x) \in 1..UINT8_MAX
  BY <1>4, <1>6, <1>7, <1>8
<1>10. bytes = x /\ pipe' = y
  <2>1. /\ x \o y # <<>> /\ SubSeq(x \o y, 1, Len(x)) = x
        /\ SubSeq(x \o y, Len(x) + 1, Len(x \o y)) = y /\ Len(x) <= Len(x \o y)
    BY <1>8, <1>9, ReadsFront
  <2>2. (IF length < Len(pipe) THEN length ELSE Len(pipe)) = length
    <3>1. Len(x \o y) \in Nat
      BY <1>8, ConcatProperties, LenProperties
    <3> QED BY <1>9, <2>1, <3>1
  <2>3. bytes = SubSeq(pipe, 1, length)
    BY <1>3, <1>9, <2>1, <2>2, Zenon DEF S!ReadOutcome
  <2> QED BY <1>3, <1>9, <2>1, <2>3
<1>11. /\ wordbuf' \in [1..UINT8_MAX -> Int] /\ \A t \in 1..length : wordbuf'[t] = x[t]
       /\ \A k \in 1..UINT8_MAX : k > length =>
             wordbuf'[k] = IF k = length + 1 THEN S!Nul ELSE wordbuf[k]
  <2>1. wordbuf \in [1..UINT8_MAX -> Int]
    BY DEF Types
  <2>2. \A i \in 1..Len(x) : x[i] \in Int
    BY <1>8, ElementOfSeq
  <2>3. wordbuf' = [i \in 1..UINT8_MAX |-> IF i <= Len(x) THEN x[i]
                                           ELSE IF i = length + 1 THEN S!Nul ELSE wordbuf[i]]
    BY <1>3, <1>10, <2>1
  <2>4. S!Nul \in Int
    BY DEF S!Nul
  <2> QED BY <1>9, <2>1, <2>2, <2>3, <2>4
<1>12. SubSeq(wordbuf', 1, length) = x
  BY <1>8, <1>9, <1>11, Printed
<1>13. received' = Append(received, W[R + 1])
  BY <1>3, <1>8, <1>12
<1>14. R' = R + 1 /\ received'[R + 1] = W[R + 1] /\ \A n \in 1..R : received'[n] = received[n]
  <2>1. received \in Seq(Seq(Int)) /\ W[R + 1] \in Seq(Int)
    BY <1>6, SeqMonotonic DEF Types
  <2> QED BY <1>13, <2>1, AppendProperties DEF R
<1>15. W' = W /\ N' = N /\ \A n : Size(n)' = Size(n)
  BY <1>2, SameWords
<1>16. Queue(m, z, T0, T1)'
  <2>1. \A n \in (R + 1)..m : n \in R..m
    BY <1>1
  <2> QED BY <1>4, <1>14, <1>15, <2>1 DEF Queue
<1>17. ASSUME NEW n \in 1..(R + 1) PROVE received'[n] = W[n]
  <2>1. CASE n = R + 1
    BY <1>14, <2>1
  <2>2. CASE n # R + 1
    <3>1. n \in 1..R
      BY <1>1, <2>2
    <3> QED BY <1>4, <1>14, <3>1
  <2> QED BY <2>1, <2>2
<1>18. LastRead(R)'
  <2>1. length' = Len(W'[R']) /\ \A t \in 1..length' : wordbuf'[t] = W'[R'][t]
    BY <1>2, <1>4, <1>8, <1>11, <1>14, <1>15
  <2> QED BY <2>1, Zenon DEF LastRead
<1>19. R + 1 <= m /\ 0 <= z
  BY <1>1, <1>5
<1>20. Buffer(R)'
  <2> SUFFICES ASSUME program = "socketpair", NEW k \in 1..UINT8_MAX
               PROVE  Leftover(R + 1, k, wordbuf'[k])
    BY <1>2, <1>14, SameWords DEF Buffer
  <2>1. CASE k <= length
    <3>1. k \in 1..length
      BY <1>9, <2>1
    <3>2. k <= Len(Words[R + 1]) /\ wordbuf'[k] = Words[R + 1][k]
      BY <1>4, <1>8, <1>11, <2>1, <3>1 DEF W
    <3>3. R + 1 \in Nat \ {0}
      BY <1>1
    <3> QED BY <3>2, <3>3, LastWordLeft, Zenon
  <2>2. CASE k = length + 1
    <3>1. wordbuf'[k] = S!Nul
      BY <1>9, <1>11, <2>2
    <3> QED BY <3>1, Zenon DEF Leftover
  <2>3. CASE k > length + 1
    <3>0. k > length /\ k # length + 1
      BY <1>9, <2>3
    <3>1. wordbuf'[k] = wordbuf[k]
      BY <1>11, <3>0
    <3>2. Leftover(R, k, wordbuf[k])
      BY DEF InStep, Buffer
    <3>3. Len(Words[R + 1]) + 1 < k
      BY <1>4, <1>9, <2>3 DEF W
    <3> QED BY <1>1, <3>1, <3>2, <3>3, LeftoverGrows
  <2> QED BY <1>9, <2>1, <2>2, <2>3
<1>21. InStep(m, z, 0, T0, T1)'
  BY <1>2, <1>8, <1>10, <1>14, <1>15, <1>16, <1>17, <1>18, <1>19, <1>20 DEF InStep
<1> QED BY <1>5, <1>6, <1>13, <1>21

\* At end of file the parent prints what the buffer holds.
LEMMA WordStale ==
    ASSUME Types, NEW m, NEW z, Writer(m, z), Stale(m), ReadsWord
    PROVE  Stale(m)' /\ \E v \in Seq(Int) : received' = Append(received, v)
<1>1. /\ N \in Nat /\ R \in Nat /\ m \in Nat /\ m <= N /\ z \in {0, 1} /\ R >= m
      /\ \A n \in 1..N : n < m + 1 + z => Fits(n)
  BY WriterFacts DEF Stale
<1>2. /\ ppc = "rword" /\ ppc' = "rlen"
      /\ UNCHANGED <<program, file, cpc, stage, pos, word, length>>
  BY DEF ReadsWord
<1>3. PICK bytes \in S!ReadOutcome(length) :
          /\ wordbuf' = [i \in DOMAIN wordbuf |->
                           IF i <= Len(bytes) THEN bytes[i]
                           ELSE IF i = length + 1 THEN S!Nul ELSE wordbuf[i]]
          /\ received' = Append(received, SubSeq(wordbuf', 1, length))
          /\ pipe' = SubSeq(pipe, Len(bytes) + 1, Len(pipe))
  BY DEF ReadsWord
<1>4. cpc = "failed" /\ pipe = <<>> /\ \A n \in 1..m : received[n] = W[n]
  BY DEF Stale
<1>5. bytes = <<>>
  BY <1>3, <1>4 DEF S!ReadOutcome, S!WriteEndClosed
<1>6. wordbuf \in [1..UINT8_MAX -> Int] /\ length \in 0..UINT8_MAX /\ received \in Seq(Seq(Int))
  BY DEF Types
<1>7. /\ wordbuf' \in [1..UINT8_MAX -> Int] /\ pipe' = <<>>
      /\ \A i \in 1..UINT8_MAX : wordbuf'[i] = IF i = length + 1 THEN S!Nul ELSE wordbuf[i]
      /\ \A t \in 1..length : wordbuf'[t] = wordbuf[t]
  <2>1. \A i \in 1..UINT8_MAX : ~(i <= Len(bytes))
    BY <1>5
  <2>2. wordbuf' = [i \in 1..UINT8_MAX |-> IF i = length + 1 THEN S!Nul ELSE wordbuf[i]]
    BY <1>3, <1>6, <2>1
  <2>3. S!Nul \in Int /\ \A t \in 1..length : t \in 1..UINT8_MAX /\ t # length + 1
    BY <1>6 DEF S!Nul
  <2> QED BY <1>3, <1>4, <1>5, <1>6, <2>2, <2>3
<1>8. PICK v \in Seq(Int) : v = SubSeq(wordbuf', 1, length)
  BY <1>6, <1>7, Printed
<1>9. received' = Append(received, v)
  BY <1>3, <1>8
<1>10. R' = R + 1 /\ received'[R + 1] = v /\ \A n \in 1..R : received'[n] = received[n]
  BY <1>6, <1>8, <1>9, AppendProperties DEF R
<1>11. W' = W /\ N' = N
  BY <1>2, SameWords
<1>12. \A n \in 1..m : received'[n] = W[n]
  BY <1>1, <1>4, <1>10
<1>13. ASSUME program = "socketpair"
       PROVE  \A n \in (m + 1)..(R + 1) : \A k \in DOMAIN received'[n] :
                 Leftover(m, k, received'[n][k])
  <2>1. \A n \in (m + 1)..R : \A k \in DOMAIN received[n] : Leftover(m, k, received[n][k])
    BY <1>13 DEF Stale
  <2>2. \A i \in 1..UINT8_MAX : Leftover(m, i, wordbuf[i])
    BY <1>13 DEF Stale, Buffer
  <2>3. \A t \in 1..length : t \in 1..UINT8_MAX /\ v[t] = wordbuf[t]
    BY <1>6, <1>7, <1>8, Printed
  <2>4. DOMAIN v = 1..length
    BY <1>6, <1>7, <1>8, Printed, LenProperties
  <2>5. \A k \in DOMAIN v : Leftover(m, k, v[k])
    BY <2>2, <2>3, <2>4
  <2> SUFFICES ASSUME NEW n \in (m + 1)..(R + 1)
               PROVE  \A k \in DOMAIN received'[n] : Leftover(m, k, received'[n][k])
    OBVIOUS
  <2>6. CASE n = R + 1
    BY <1>10, <2>5, <2>6
  <2>7. CASE n # R + 1
    <3>1. n \in (m + 1)..R /\ n \in 1..R
      BY <1>1, <2>7
    <3> QED BY <1>10, <2>1, <3>1
  <2> QED BY <2>6, <2>7
<1>14. ASSUME program # "socketpair", m > 0
       PROVE  LastRead(m)' /\ \A n \in (m + 1)..(R + 1) : received'[n] = W[m]
  <2>1. /\ LastRead(m) /\ length = Len(W[m]) /\ (\A t \in 1..length : wordbuf[t] = W[m][t])
        /\ \A n \in (m + 1)..R : received[n] = W[m]
    BY <1>14 DEF Stale, LastRead
  <2>2. m \in 1..N /\ m < m + 1 + z
    BY <1>1, <1>14
  <2>3. W[m] \in Seq(Nat)
    BY <1>1, <2>2 DEF Fits
  <2>4. v = W[m]
    BY <1>6, <1>7, <1>8, <2>1, <2>3, Printed
  <2>5. LastRead(m)'
    BY <1>2, <1>7, <1>11, <2>1 DEF LastRead
  <2>6. ASSUME NEW n \in (m + 1)..(R + 1) PROVE received'[n] = W[m]
    <3>1. CASE n = R + 1
      BY <1>10, <2>4, <3>1
    <3>2. CASE n # R + 1
      <4>1. n \in (m + 1)..R /\ n \in 1..R
        BY <1>1, <3>2
      <4> QED BY <1>10, <2>1, <4>1
    <3> QED BY <3>1, <3>2
  <2> QED BY <2>5, <2>6
<1>15. R + 1 >= m
  BY <1>1
<1>16. Buffer(m)'
  <2> SUFFICES ASSUME program = "socketpair", NEW k \in 1..UINT8_MAX
               PROVE  Leftover(m, k, wordbuf'[k])
    BY <1>2, SameWords DEF Buffer
  <2>1. Leftover(m, k, wordbuf[k]) /\ Leftover(m, k, S!Nul)
    BY DEF Stale, Buffer, Leftover
  <2> QED BY <1>7, <2>1
<1>17. program = "socketpair" => (\A n \in (m + 1)..R : \A k \in DOMAIN received[n] :
                                     Leftover(m, k, received[n][k]))'
  BY <1>2, <1>10, <1>13, SameWords
<1>18. Stale(m)'
  BY <1>2, <1>4, <1>7, <1>10, <1>11, <1>12, <1>14, <1>15, <1>16, <1>17 DEF Stale
<1> QED BY <1>9, <1>18

LEMMA WordKeeps ==
    ASSUME DataInv, ReadsWord
    PROVE  DataInv'
<1>1. Types
  BY DEF DataInv
<1>2. PICK m, z : Writer(m, z) /\ Reader(m, z)
  BY DEF DataInv
<1>3. Writer(m, z)'
  BY <1>2, WriterKept DEF ReadsWord
<1>4. Reader(m, z)'
  <2>1. CASE Stale(m)
    BY <1>1, <1>2, <2>1, WordStale DEF Reader
  <2>2. ASSUME NEW r, NEW T0, NEW T1, InStep(m, z, r, T0, T1) PROVE Reader(m, z)'
    <3>1. InStep(m, z, 0, T0, T1)'
      BY <1>1, <1>2, <2>2, WordInStep
    <3> QED BY <3>1 DEF Reader
  <2> QED BY <1>2, <2>1, <2>2 DEF Reader
<1>5. PICK bytes \in S!ReadOutcome(length) :
          /\ wordbuf' = [i \in DOMAIN wordbuf |->
                           IF i <= Len(bytes) THEN bytes[i]
                           ELSE IF i = length + 1 THEN S!Nul ELSE wordbuf[i]]
          /\ received' = Append(received, SubSeq(wordbuf', 1, length))
          /\ pipe' = SubSeq(pipe, Len(bytes) + 1, Len(pipe))
  BY DEF ReadsWord
<1>6. /\ pipe \in Seq(Nat) /\ wordbuf \in [1..UINT8_MAX -> Int] /\ length \in 0..UINT8_MAX
      /\ received \in Seq(Seq(Int)) /\ Len(pipe) \in Nat
  BY <1>1, LenProperties DEF Types
<1>7. bytes \in Seq(Nat) /\ Len(bytes) \in Nat
  <2>1. PICK k \in 0..Len(pipe) : bytes = SubSeq(pipe, 1, k) \/ bytes = <<>>
    <3>1. (IF length < Len(pipe) THEN length ELSE Len(pipe)) \in 0..Len(pipe)
      BY <1>6
    <3> QED BY <1>5, <3>1 DEF S!ReadOutcome
  <2>2. SubSeq(pipe, 1, k) \in Seq(Nat)
    <3>1. \A i \in 1..k : pipe[i] \in Nat
      BY <1>6, ElementOfSeq
    <3>2. k \in Int
      BY <1>6, <2>1
    <3> QED BY <3>1, <3>2, SubSeqProperties
  <2> QED BY <2>1, <2>2, EmptySeq, LenProperties
<1>8. wordbuf' \in [1..UINT8_MAX -> Int]
  <2>1. \A i \in 1..Len(bytes) : bytes[i] \in Int
    BY <1>7, ElementOfSeq
  <2>2. \A i \in 1..UINT8_MAX : (IF i <= Len(bytes) THEN bytes[i]
                                 ELSE IF i = length + 1 THEN S!Nul ELSE wordbuf[i]) \in Int
    BY <1>6, <1>7, <2>1 DEF S!Nul
  <2> QED BY <1>5, <1>6, <2>2
<1>9. received' \in Seq(Seq(Int))
  BY <1>5, <1>6, <1>8, Printed, AppendProperties
<1>10. pipe' \in Seq(Nat)
  <2>1. \A i \in (Len(bytes) + 1)..Len(pipe) : pipe[i] \in Nat
    BY <1>6, <1>7, ElementOfSeq
  <2>2. Len(bytes) + 1 \in Int /\ Len(pipe) \in Int
    BY <1>6, <1>7
  <2> QED BY <1>5, <2>1, <2>2, SubSeqProperties
<1>11. ppc' = "rlen" /\ UNCHANGED <<program, file, cpc, stage, pos, word, length>>
  BY DEF ReadsWord
<1>12. Types'
  BY <1>1, <1>8, <1>9, <1>10, <1>11 DEF Types
<1> QED BY <1>3, <1>4, <1>12 DEF DataInv

LEMMA CloseKeeps ==
    ASSUME DataInv, UNCHANGED program, S!ParentClose \/ UNCHANGED pipeVars
    PROVE  DataInv'
<1>1. Types
  BY DEF DataInv
<1>2. PICK m, z : Writer(m, z) /\ Reader(m, z)
  BY DEF DataInv
<1>3. CASE S!ParentClose
  <2>1. /\ ppc = "close" /\ ppc' = "exited"
        /\ UNCHANGED <<program, file, cpc, stage, pos, word, length, wordbuf, pipe, received>>
    BY <1>3 DEF S!ParentClose, S!childVars
  <2>2. Writer(m, z)'
    BY <1>2, <2>1, WriterKept
  <2>3. /\ W' = W /\ N' = N /\ R' = R /\ (\A n : Size(n)' = Size(n))
        /\ \A n, k, byte : Leftover(n, k, byte)' <=> Leftover(n, k, byte)
    BY <2>1, SameWords DEF R
  <2>0. \A n : Buffer(n) => Buffer(n)'
    BY <2>1, <2>3 DEF Buffer
  <2>4. Stale(m) => Stale(m)'
    BY <2>0, <2>1, <2>3 DEF Stale, LastRead
  <2>5. ASSUME NEW r, NEW T0, NEW T1, InStep(m, z, r, T0, T1) PROVE InStep(m, z, r, T0, T1)'
    <3>1. Queue(m, z, T0, T1)'
      BY <2>3, <2>5 DEF InStep, Queue
    <3>2. Buffer(R)'
      BY <2>0, <2>3, <2>5 DEF InStep
    <3> QED BY <2>1, <2>3, <2>5, <3>1, <3>2 DEF InStep
  <2>6. Reader(m, z)'
    BY <1>2, <2>4, <2>5 DEF Reader
  <2>7. Types'
    BY <1>1, <2>1 DEF Types
  <2> QED BY <2>2, <2>6, <2>7 DEF DataInv
<1>4. CASE UNCHANGED pipeVars
  <2>1. UNCHANGED <<program, file, cpc, stage, pos, word, ppc, length, wordbuf, pipe, received>>
    BY <1>4 DEF pipeVars
  <2>2. Writer(m, z)' /\ Reader(m, z)'
    BY <1>2, <2>1, WriterKept, ReaderKept
  <2>3. Types'
    BY <1>1, <2>1 DEF Types
  <2> QED BY <2>2, <2>3 DEF DataInv
<1> QED BY <1>3, <1>4

LEMMA NextDataInv == DataInv /\ [PipesNext]_allVars => DataInv'
<1> SUFFICES ASSUME DataInv, [PipesNext]_allVars PROVE DataInv'
  OBVIOUS
<1>1. Types
  BY DEF DataInv
<1>2. \/ ChildStep /\ UNCHANGED program
      \/ ReadsLength \/ ReadsWord
      \/ S!ParentClose /\ UNCHANGED program
      \/ UNCHANGED <<program, pipeVars>>
  BY <1>1, Steps
<1> QED BY <1>2, ChildKeeps, LengthKeeps, WordKeeps, CloseKeeps

LEMMA AlwaysDataInv == PipesSpec => []DataInv
  BY InitDataInv, NextDataInv, PTL DEF PipesSpec

-------------------------------------------------------------------------------
(* What is printed                                                         *)

LEMMA LeastIsMin ==
    ASSUME NEW X \in SUBSET Nat, X # {}
    PROVE  Min(X) \in X /\ \A n \in X : Min(X) <= n
<1>1. \E m \in X : \A n \in X : m <= n
  BY LeastNumber
<1> QED BY <1>1, Zenon DEF Min

LEMMA LesserOfTwo ==
    ASSUME NEW a \in Nat, NEW c \in Nat
    PROVE  Min({a, c}) = IF a <= c THEN a ELSE c
<1>1. {a, c} \in SUBSET Nat /\ {a, c} # {}
  OBVIOUS
<1>2. Min({a, c}) \in {a, c} /\ \A n \in {a, c} : Min({a, c}) <= n
  BY <1>1, LeastIsMin
<1> QED BY <1>2

\* The words before the first one that is too long are those the child can send.
LEMMA SentFacts ==
    ASSUME Types, NEW m, NEW z, Writer(m, z)
    PROVE  /\ Sendable \in Nat /\ Sendable <= N /\ m <= Sendable
           /\ Sent \in Nat /\ Sent <= N /\ m <= Sent
           /\ cpc = "failed" => Sent = m
           /\ cpc = "failed" /\ program # "socketpair" => Sendable = m
           /\ cpc = "failed" /\ ~Unopened => TooLong
           /\ m = N => ~TooLong
<1>1. /\ N \in Nat /\ m \in Nat /\ m <= N /\ z \in {0, 1}
      /\ \A n \in 1..N : n < m + 1 + z => Fits(n)
  BY WriterFacts
<1>2. LongWords = {n \in 1..N : Len(W[n]) > MAX_WORD_LENGTH}
  BY WFacts DEF LongWords, W
<1>3. ASSUME NEW n \in LongWords PROVE n \in 1..N /\ n \in Nat /\ m < n
  <2>1. n \in 1..N /\ Len(W[n]) > MAX_WORD_LENGTH
    BY <1>2
  <2>2. n < m + 1 + z => Len(W[n]) \in 1..MAX_WORD_LENGTH
    BY <1>1, <2>1 DEF Fits
  <2>3. ~(n < m + 1 + z)
    BY <2>1, <2>2
  <2> QED BY <1>1, <2>1, <2>3
<1>4. TooLong => /\ Min(LongWords) \in LongWords /\ Min(LongWords) \in 1..N
                 /\ m < Min(LongWords) /\ \A n \in LongWords : Min(LongWords) <= n
  <2>1. LongWords \in SUBSET Nat
    BY <1>3
  <2> QED BY <1>3, <2>1, LeastIsMin DEF TooLong
<1>5. Sendable = IF TooLong THEN Min(LongWords) - 1 ELSE N
  BY DEF Sendable, N, W
<1>6. Sendable \in Nat /\ Sendable <= N /\ m <= Sendable
  BY <1>1, <1>4, <1>5
<1>7. Unopened => m = 0 /\ program = "socketpair" /\ Sent = 0
  BY DEF Unopened, Writer, Sent
<1>8. ~Unopened => Sent = Sendable
  BY DEF Sent
<1>9. ASSUME cpc = "failed", ~Unopened PROVE TooLong /\ Sendable = m
  <2>1. m < N /\ Len(W[m + 1]) > MAX_WORD_LENGTH
    BY <1>9 DEF Unopened, Writer
  <2>2. m + 1 \in LongWords
    BY <1>1, <1>2, <2>1
  <2>3. TooLong /\ Min(LongWords) <= m + 1
    BY <1>4, <2>2 DEF TooLong
  <2> QED BY <1>1, <1>4, <1>5, <2>3
<1>10. m = N => ~TooLong
  BY <1>1, <1>4
<1>11. Sent \in Nat /\ Sent <= N /\ m <= Sent
  BY <1>1, <1>6, <1>7, <1>8
<1> QED BY <1>6, <1>7, <1>8, <1>9, <1>10, <1>11

LEMMA InvRepeats == DataInv => RepeatsLastWord
<1> SUFFICES ASSUME DataInv PROVE RepeatsLastWord
  OBVIOUS
<1>1. Types
  BY DEF DataInv
<1>2. PICK m, z : Writer(m, z) /\ Reader(m, z)
  BY DEF DataInv
<1>3. /\ N \in Nat /\ R \in Nat /\ m \in Nat /\ m <= N /\ z \in {0, 1}
      /\ \A n \in 1..N : n < m + 1 + z => Fits(n)
  BY <1>1, <1>2, WriterFacts
<1>4. /\ Sendable \in Nat /\ Sendable <= N /\ m <= Sendable
      /\ Sent \in Nat /\ Sent <= N /\ m <= Sent
      /\ cpc = "failed" => Sent = m
      /\ cpc = "failed" /\ program # "socketpair" => Sendable = m
      /\ cpc = "failed" /\ ~Unopened => TooLong
      /\ m = N => ~TooLong
  BY <1>1, <1>2, SentFacts
<1>5. CASE Stale(m)
  <2>1. /\ cpc = "failed" /\ pipe = <<>> /\ R >= m /\ \A n \in 1..m : received[n] = W[n]
        /\ program = "socketpair" =>
              \A n \in (m + 1)..R : \A k \in DOMAIN received[n] : Leftover(m, k, received[n][k])
        /\ program # "socketpair" /\ m > 0 =>
              ppc \in {"rlen", "rword"} /\ \A n \in (m + 1)..R : received[n] = W[m]
    BY <1>5 DEF Stale
  <2>2. Sent = m /\ (program # "socketpair" => Sendable = m)
    BY <1>4, <2>1
  <2>3. m > 0 => received[m] = W[m]
    BY <1>3, <2>1
  <2> QED BY <2>1, <2>2, <2>3 DEF RepeatsLastWord, R
<1>6. ASSUME NEW r, NEW T0, NEW T1, InStep(m, z, r, T0, T1) PROVE RepeatsLastWord
  <2>1. /\ R <= m /\ \A n \in 1..R : received[n] = W[n]
        /\ ppc \in {"close", "exited"} => R = N
    BY <1>6 DEF InStep
  <2>2. IsPrefix(received, Words)
    <3>1. \A n \in 1..R : W[n] \in Seq(Nat) /\ received[n] \in Seq(Nat)
      <4> SUFFICES ASSUME NEW n \in 1..R PROVE W[n] \in Seq(Nat) /\ received[n] \in Seq(Nat)
        OBVIOUS
      <4>1. n \in 1..N /\ n < m + 1 + z
        BY <1>3, <2>1
      <4> QED BY <1>3, <2>1, <4>1 DEF Fits
    <3>2. R \in Int /\ 1 \in Int
      BY <1>3
    <3>3. /\ SubSeq(W, 1, R) \in Seq(Seq(Nat)) /\ SubSeq(received, 1, R) \in Seq(Seq(Nat))
          /\ Len(SubSeq(W, 1, R)) = IF 1 <= R THEN R - 1 + 1 ELSE 0
          /\ Len(SubSeq(received, 1, R)) = IF 1 <= R THEN R - 1 + 1 ELSE 0
          /\ \A i \in 1..(R - 1 + 1) : SubSeq(W, 1, R)[i] = W[1 + i - 1]
          /\ \A i \in 1..(R - 1 + 1) : SubSeq(received, 1, R)[i] = received[1 + i - 1]
      BY <3>1, <3>2, SubSeqProperties
    <3>4. Len(SubSeq(W, 1, R)) = R /\ Len(SubSeq(received, 1, R)) = R
      BY <1>3, <3>3
    <3>5. \A i \in 1..R : SubSeq(W, 1, R)[i] = SubSeq(received, 1, R)[i]
      <4> SUFFICES ASSUME NEW i \in 1..R PROVE SubSeq(W, 1, R)[i] = SubSeq(received, 1, R)[i]
        OBVIOUS
      <4>1. i \in 1..(R - 1 + 1) /\ 1 + i - 1 = i
        BY <1>3
      <4> QED BY <2>1, <3>3, <4>1
    <3>6. SubSeq(W, 1, R) = SubSeq(received, 1, R)
      BY <3>3, <3>4, <3>5, SeqEqual
    <3>7. R <= N
      BY <1>3, <2>1
    <3> QED BY <3>6, <3>7 DEF IsPrefix, R, W, N
  <2>3. \A n \in (Sent + 1)..R : FALSE
    BY <1>3, <1>4, <2>1
  <2>4. \A n \in (Sendable + 1)..R : FALSE
    BY <1>3, <1>4, <2>1
  <2>5. TooLong => ppc \notin {"close", "exited"}
    BY <1>3, <1>4, <2>1
  <2> QED BY <2>2, <2>3, <2>4, <2>5, Zenon DEF RepeatsLastWord, R
<1> QED BY <1>2, <1>5, <1>6 DEF Reader

(***************************************************************************)
(* parent_process of the three programs, for every file and every pipe     *)
(* capacity: while the child lives, or bytes are under way, what is        *)
(* printed is a prefix of the words of the file; after the child has given *)
(* up the parent prints the last word it was sent again and does not end   *)
(* (pipe), or prints, byte by byte, junk, terminators and what the words   *)
(* it was sent may have left in its buffer (socketpair).                   *)
(***************************************************************************)
THEOREM PrintsWhatWasSent == PipesSpec => []RepeatsLastWord
  BY AlwaysDataInv, InvRepeats, PTL

-------------------------------------------------------------------------------
(* Refinement of WordStream                                                *)

LEMMA SameStream ==
    ASSUME NEW f
    PROVE  WS!Words(f) = WordsOf!Words(f)
  BY DEF WS!Words, WS!WordStarts, WS!WordEnd, WS!Before, WS!Sep, WS!Cardinality,
         WordsOf!Words, WordsOf!WordStarts, WordsOf!WordEnd, WordsOf!Before, WordsOf!Sep,
         WordsOf!Cardinality

\* How many of the printed words were sent, and whether the parent has had them all.
G    == Min({R, Sent})
Done == ~TooLong /\ ~Unopened /\ ppc \in {"close", "exited"}

\* The words counted by G are the first words of the file.
LEMMA GenuineWords ==
    DataInv => /\ G \in Nat /\ G <= N /\ G = (IF R <= Sent THEN R ELSE Sent)
               /\ Genuine = SubSeq(W, 1, G) /\ Len(Genuine) = G
               /\ \A n \in 1..G : W[n] \in Seq(Nat)
<1> SUFFICES ASSUME DataInv
             PROVE  /\ G \in Nat /\ G <= N /\ G = (IF R <= Sent THEN R ELSE Sent)
                    /\ Genuine = SubSeq(W, 1, G) /\ Len(Genuine) = G
                    /\ \A n \in 1..G : W[n] \in Seq(Nat)
  OBVIOUS
<1>1. Types
  BY DEF DataInv
<1>2. PICK m, z : Writer(m, z) /\ Reader(m, z)
  BY DEF DataInv
<1>3. /\ N \in Nat /\ R \in Nat /\ m \in Nat /\ m <= N /\ z \in {0, 1}
      /\ \A n \in 1..N : n < m + 1 + z => Fits(n)
  BY <1>1, <1>2, WriterFacts
<1>4. Sent \in Nat /\ m <= Sent /\ (cpc = "failed" => Sent = m)
  BY <1>1, <1>2, SentFacts
<1>5. G = IF R <= Sent THEN R ELSE Sent
  BY <1>3, <1>4, LesserOfTwo DEF G
<1>6. G \in Nat /\ G <= m /\ \A n \in 1..G : received[n] = W[n]
  <2>1. CASE Stale(m)
    <3>1. Sent = m /\ \A n \in 1..m : received[n] = W[n]
      BY <1>4, <2>1 DEF Stale
    <3> QED BY <1>3, <1>5, <3>1
  <2>2. ASSUME NEW r, NEW T0, NEW T1, InStep(m, z, r, T0, T1)
        PROVE  G \in Nat /\ G <= m /\ \A n \in 1..G : received[n] = W[n]
    <3>1. R <= m /\ \A n \in 1..R : received[n] = W[n]
      BY <2>2 DEF InStep
    <3>2. G = R
      BY <1>3, <1>4, <1>5, <3>1
    <3> QED BY <1>3, <3>1, <3>2
  <2> QED BY <1>2, <2>1, <2>2 DEF Reader
<1>7. ASSUME NEW n \in 1..G PROVE W[n] \in Seq(Nat) /\ received[n] \in Seq(Nat)
  <2>1. n \in 1..N /\ n < m + 1 + z
    BY <1>3, <1>6
  <2> QED BY <1>3, <1>6, <2>1 DEF Fits
<1>8. /\ SubSeq(W, 1, G) \in Seq(Seq(Nat)) /\ SubSeq(received, 1, G) \in Seq(Seq(Nat))
      /\ Len(SubSeq(W, 1, G)) = IF 1 <= G THEN G - 1 + 1 ELSE 0
      /\ Len(SubSeq(received, 1, G)) = IF 1 <= G THEN G - 1 + 1 ELSE 0
      /\ \A i \in 1..(G - 1 + 1) : SubSeq(W, 1, G)[i] = W[1 + i - 1]
      /\ \A i \in 1..(G - 1 + 1) : SubSeq(received, 1, G)[i] = received[1 + i - 1]
  <2>1. G \in Int /\ 1 \in Int
    BY <1>6
  <2> QED BY <1>7, <2>1, SubSeqProperties
<1>9. Len(SubSeq(W, 1, G)) = G /\ Len(SubSeq(received, 1, G)) = G
  BY <1>6, <1>8
<1>10. ASSUME NEW i \in 1..G PROVE SubSeq(W, 1, G)[i] = SubSeq(received, 1, G)[i]
  <2>1. i \in 1..(G - 1 + 1) /\ 1 + i - 1 = i
    BY <1>6
  <2> QED BY <1>6, <1>8, <2>1
<1>11. SubSeq(W, 1, G) = SubSeq(received, 1, G)
  BY <1>8, <1>9, <1>10, SeqEqual
<1>12. Genuine = SubSeq(received, 1, G)
  BY DEF Genuine, G, R
<1>13. G <= N
  BY <1>3, <1>6
<1> QED BY <1>5, <1>6, <1>7, <1>9, <1>11, <1>12, <1>13

LEMMA StreamInit == PipesInit => WS!Init
<1> SUFFICES ASSUME PipesInit PROVE WS!Init
  OBVIOUS
<1>1. DataInv
  BY InitDataInv
<1>2. file \in Files /\ received = <<>> /\ ppc = "rlen"
  BY DEF PipesInit, Init, S!Init
<1>3. R = 0
  BY <1>2 DEF R
<1>4. Len(Genuine) = G /\ G \in Nat /\ G = (IF R <= Sent THEN R ELSE Sent)
      /\ Genuine = SubSeq(W, 1, G)
  BY <1>1, GenuineWords
<1>5. G = 0
  <2>1. Sent \in Nat
    BY <1>1, SentFacts DEF DataInv
  <2> QED BY <1>3, <1>4, <2>1
<1>6. Genuine = <<>>
  BY <1>4, <1>5, SubSeqEmpty
<1> QED BY <1>2, <1>6 DEF WS!Init

\* How a step of the programs changes what the reader has had.
StreamStutter == G' = G /\ (Done' <=> Done)
StreamDeliver == G' = G + 1 /\ ~Done /\ ~Done'
StreamFinish  == G' = G /\ G = N /\ ~Done /\ Done'

LEMMA SameSent ==
    ASSUME UNCHANGED file
    PROVE  (TooLong' <=> TooLong) /\ Sendable' = Sendable
<1>1. Words' = Words
  BY SameWords DEF W
<1>2. LongWords' = LongWords
  BY <1>1 DEF LongWords
<1> QED BY <1>1, <1>2 DEF TooLong, Sendable

LEMMA ChildStream ==
    ASSUME DataInv, DataInv', ChildStep, UNCHANGED program
    PROVE  StreamStutter /\ UNCHANGED file
<1>1. Types
  BY DEF DataInv
<1>2. PICK m, z : Writer(m, z) /\ Reader(m, z)
  BY DEF DataInv
<1>3. /\ UNCHANGED <<file, ppc, received>> /\ cpc # "failed"
  BY DEF ChildStep, S!child_process, S!send_word, S!AfterSend, S!ChildClose, P!OpenFails,
         S!parentVars
<1>4. PICK r, T0, T1 : InStep(m, z, r, T0, T1)
  BY <1>2, <1>3 DEF Reader, Stale
<1>5. /\ N \in Nat /\ R \in Nat /\ m \in Nat /\ R <= m /\ z \in {0, 1} /\ r \in {0, 1}
      /\ (R = m => r <= z) /\ (ppc \in {"close", "exited"} => r = 1)
  BY <1>1, <1>2, <1>4, WriterFacts DEF InStep
<1>6. Sent = Sendable /\ Sent \in Nat /\ m <= Sent /\ ~Unopened
  BY <1>1, <1>2, <1>3, SentFacts DEF Sent, Unopened
<1>7. (TooLong' <=> TooLong) /\ Sendable' = Sendable /\ R' = R
  BY <1>3, SameSent DEF R
<1>8. Unopened' => m = 0 /\ z = 0
  <2>1. CASE S!child_process
    <3>1. Writer(m, z)'
      BY <1>1, <1>2, <2>1, ScanWriter
    <3> QED BY <3>1 DEF Writer, Unopened
  <2>2. CASE S!send_word
    <3>1. cpc' # "failed"
      BY <1>1, <1>2, <2>2, SendChunk
    <3> QED BY <3>1 DEF Unopened
  <2>3. CASE S!AfterSend \/ S!ChildClose \/ (P!OpenFails /\ program = "socketpair")
    <3>1. Writer(m, z)'
      BY <1>1, <1>2, <2>3, AfterSendWriter
    <3> QED BY <3>1 DEF Writer, Unopened
  <2> QED BY <2>1, <2>2, <2>3, Zenon DEF ChildStep
<1>9. R <= Sent' /\ Sent' \in Nat
  <2>1. CASE Unopened'
    BY <1>5, <1>8, <2>1 DEF Sent
  <2>2. CASE ~Unopened'
    BY <1>5, <1>6, <1>7, <2>2 DEF Sent
  <2> QED BY <2>1, <2>2
<1>10. G' = G
  <2>1. G = (IF R <= Sent THEN R ELSE Sent)
    BY GenuineWords
  <2>2. G' = (IF R' <= Sent' THEN R' ELSE Sent')
    <3>1. DataInv' => (G = (IF R <= Sent THEN R ELSE Sent))'
      BY GenuineWords, PTL
    <3> QED BY <3>1
  <2> QED BY <1>5, <1>6, <1>7, <1>9, <2>1, <2>2
<1>11. Done' <=> Done
  <2>1. CASE Unopened'
    <3>1. ppc \notin {"close", "exited"}
      BY <1>5, <1>8, <2>1
    <3> QED BY <1>3, <3>1 DEF Done
  <2>2. CASE ~Unopened'
    BY <1>3, <1>6, <1>7, <2>2 DEF Done
  <2> QED BY <2>1, <2>2
<1> QED BY <1>3, <1>10, <1>11 DEF StreamStutter

\* A step of the parent leaves alone what the child does.
LEMMA ParentSent ==
    ASSUME UNCHANGED <<file, cpc, word>>
    PROVE  Sent' = Sent /\ (TooLong' <=> TooLong) /\ (Unopened' <=> Unopened)
  BY SameSent DEF Sent, Unopened

LEMMA LengthStream ==
    ASSUME DataInv, DataInv', ReadsLength
    PROVE  (StreamStutter \/ StreamFinish) /\ UNCHANGED file
<1>1. Types
  BY DEF DataInv
<1>2. PICK m, z : Writer(m, z) /\ Reader(m, z)
  BY DEF DataInv
<1>3. UNCHANGED <<program, file, cpc, word, received>> /\ ppc = "rlen"
  BY DEF ReadsLength
<1>4. Sent' = Sent /\ (TooLong' <=> TooLong) /\ (Unopened' <=> Unopened) /\ R' = R
  BY <1>3, ParentSent DEF R
<1>5. G' = G /\ ~Done
  BY <1>3, <1>4 DEF G, Done
<1>6. ASSUME Done' PROVE G = N
  <2>1. ~TooLong /\ ~Unopened /\ ppc' \in {"close", "exited"}
    BY <1>4, <1>6 DEF Done
  <2>2. pipe # <<>>
    <3> SUFFICES ASSUME pipe = <<>> PROVE FALSE
      OBVIOUS
    <3>1. Stale(m)'
      BY <1>1, <1>2, LengthStale
    <3>2. cpc = "failed"
      BY <1>3, <3>1 DEF Stale
    <3> QED BY <1>1, <1>2, <2>1, <3>2, SentFacts
  <2>3. PICK r, T0, T1 : InStep(m, z, r, T0, T1)
    BY <1>2, <2>2 DEF Reader, Stale
  <2>4. InStep(m, z, 1, T0, T1)'
    BY <1>1, <1>2, <2>2, <2>3, LengthInStep
  <2>5. N' = N
    BY <1>3, SameWords
  <2>6. R = N
    BY <1>4, <2>1, <2>4, <2>5 DEF InStep
  <2>7. Sent \in Nat /\ m <= Sent /\ Sent <= N /\ R <= m /\ N \in Nat /\ m \in Nat
    BY <1>1, <1>2, <2>3, SentFacts, WriterFacts DEF InStep
  <2>8. G = (IF R <= Sent THEN R ELSE Sent)
    BY GenuineWords
  <2> QED BY <2>6, <2>7, <2>8
<1> QED BY <1>3, <1>5, <1>6 DEF StreamStutter, StreamFinish

LEMMA WordStreams ==
    ASSUME DataInv, DataInv', ReadsWord
    PROVE  (StreamStutter \/ StreamDeliver) /\ UNCHANGED file
<1>1. Types
  BY DEF DataInv
<1>2. PICK m, z : Writer(m, z) /\ Reader(m, z)
  BY DEF DataInv
<1>3. UNCHANGED <<program, file, cpc, word>> /\ ppc = "rword" /\ ppc' = "rlen"
  BY DEF ReadsWord
<1>4. Sent' = Sent /\ ~Done /\ ~Done'
  BY <1>3, ParentSent DEF Done
<1>5. /\ N \in Nat /\ R \in Nat /\ m \in Nat /\ Sent \in Nat /\ m <= Sent
      /\ cpc = "failed" => Sent = m
  BY <1>1, <1>2, SentFacts, WriterFacts
<1>6. G = (IF R <= Sent THEN R ELSE Sent)
  BY GenuineWords
<1>7. G' = (IF R' <= Sent' THEN R' ELSE Sent')
  <2>1. DataInv' => (G = (IF R <= Sent THEN R ELSE Sent))'
    BY GenuineWords, PTL
  <2> QED BY <2>1
<1>8. ASSUME NEW v \in Seq(Int), received' = Append(received, v) PROVE R' = R + 1
  BY <1>1, <1>8, AppendProperties DEF R, Types
<1>9. CASE Stale(m)
  <2>1. R' = R + 1
    BY <1>1, <1>2, <1>8, <1>9, WordStale
  <2>2. Sent = m /\ R >= m
    BY <1>5, <1>9 DEF Stale
  <2>3. G' = G
    BY <1>4, <1>5, <1>6, <1>7, <2>1, <2>2
  <2> QED BY <1>3, <1>4, <2>3 DEF StreamStutter
<1>10. ASSUME NEW r, NEW T0, NEW T1, InStep(m, z, r, T0, T1) PROVE G' = G + 1
  <2>1. R < m /\ W[R + 1] \in Seq(Nat) /\ received' = Append(received, W[R + 1])
    BY <1>1, <1>2, <1>10, WordInStep
  <2>2. W[R + 1] \in Seq(Int)
    BY <2>1, SeqMonotonic
  <2>3. R' = R + 1
    BY <1>8, <2>1, <2>2
  <2> QED BY <1>4, <1>5, <1>6, <1>7, <2>1, <2>3
<1> QED BY <1>2, <1>3, <1>4, <1>9, <1>10 DEF Reader, StreamDeliver

LEMMA CloseStream ==
    ASSUME DataInv, UNCHANGED program, S!ParentClose \/ UNCHANGED pipeVars
    PROVE  StreamStutter /\ UNCHANGED file
<1>1. /\ UNCHANGED <<file, cpc, word, received>>
      /\ (ppc \in {"close", "exited"} <=> ppc' \in {"close", "exited"})
  BY DEF S!ParentClose, S!childVars, pipeVars
<1>2. Sent' = Sent /\ (TooLong' <=> TooLong) /\ (Unopened' <=> Unopened) /\ R' = R
  BY <1>1, ParentSent DEF R
<1> QED BY <1>1, <1>2 DEF StreamStutter, G, Done

LEMMA StreamStep ==
    DataInv /\ DataInv' /\ [PipesNext]_allVars => [WS!Next]_WS!vars
<1> SUFFICES ASSUME DataInv, DataInv', [PipesNext]_allVars PROVE [WS!Next]_WS!vars
  OBVIOUS
<1>1. (StreamStutter \/ StreamDeliver \/ StreamFinish) /\ UNCHANGED file
  <2>1. Types
    BY DEF DataInv
  <2>2. \/ ChildStep /\ UNCHANGED program
        \/ ReadsLength \/ ReadsWord
        \/ S!ParentClose /\ UNCHANGED program
        \/ UNCHANGED <<program, pipeVars>>
    BY <2>1, Steps
  <2> QED BY <2>2, ChildStream, LengthStream, WordStreams, CloseStream
<1>2. W' = W /\ N' = N /\ N \in Nat
  <2>1. N \in Nat
    BY WFacts DEF DataInv
  <2> QED BY <1>1, <2>1, SameWords
<1>3. /\ G \in Nat /\ G <= N /\ Genuine = SubSeq(W, 1, G) /\ Len(Genuine) = G
      /\ \A n \in 1..G : W[n] \in Seq(Nat)
  BY GenuineWords
<1>4. /\ G' \in Nat /\ G' <= N /\ Genuine' = SubSeq(W, 1, G')
      /\ \A n \in 1..G' : W[n] \in Seq(Nat)
  <2>1. DataInv' => (/\ G \in Nat /\ G <= N /\ Genuine = SubSeq(W, 1, G)
                     /\ \A n \in 1..G : W[n] \in Seq(Nat))'
    BY GenuineWords, PTL
  <2> QED BY <1>2, <2>1
<1>5. WS!Words(file) = W
  BY SameStream DEF W, Words
<1>6. CASE StreamStutter
  <2>1. Genuine' = Genuine /\ (Done' <=> Done)
    BY <1>3, <1>4, <1>6 DEF StreamStutter
  <2> QED BY <1>1, <2>1 DEF WS!vars, Done
<1>7. CASE StreamDeliver
  <2>1. G' = G + 1 /\ ~Done /\ ~Done'
    BY <1>7 DEF StreamDeliver
  <2>2. PICK g \in Nat : g = G
    BY <1>3
  <2>3. SubSeq(W, 1, g + 1) = Append(SubSeq(W, 1, g), W[g + 1])
    <3>1. \A n \in 1..(g + 1) : W[n] \in Seq(Nat)
      BY <1>4, <2>1, <2>2
    <3> QED BY <3>1
  <2>4. Genuine' = Append(Genuine, W[G + 1])
    BY <1>3, <1>4, <2>1, <2>2, <2>3
  <2>5. Len(Genuine) < N
    BY <1>2, <1>3, <1>4, <2>1
  <2>6. WS!Deliver
    BY <1>1, <1>3, <1>5, <2>1, <2>4, <2>5 DEF WS!Deliver, Done, N
  <2> QED BY <2>6 DEF WS!Next
<1>8. CASE StreamFinish
  <2>1. G' = G /\ G = N /\ ~Done /\ Done'
    BY <1>8 DEF StreamFinish
  <2>2. Genuine' = Genuine
    BY <1>3, <1>4, <2>1
  <2>3. W \in Seq(Seq(Nat))
    <3>1. DOMAIN W = 1..N /\ W = [n \in 1..N |-> W[n]]
      BY WordsLength, WFacts DEF W, N, Words, DataInv
    <3>2. W \in [1..N -> Seq(Nat)]
      BY <1>3, <2>1, <3>1
    <3> QED BY <1>2, <3>2, SeqDef
  <2>4. Genuine = W
    BY <1>3, <2>1, <2>3, SubSeqFull DEF N
  <2>5. WS!Finish
    BY <1>1, <1>5, <2>1, <2>2, <2>4 DEF WS!Finish, Done
  <2> QED BY <2>5 DEF WS!Next
<1> QED BY <1>1, <1>6, <1>7, <1>8

(***************************************************************************)
(* pipe/simple, pipe/synchronized and socketpair implement the word        *)
(* stream, for every file and every pipe capacity: what the parent prints  *)
(* of what send_word wrote is the words of the file, once each and in      *)
(* order, and the 0 is read when, and only when, it has had them all.      *)
(***************************************************************************)
THEOREM ImplementsWordStream == PipesSpec => DeliversWords
  BY InitDataInv, NextDataInv, StreamInit, StreamStep, PTL DEF PipesSpec, DeliversWords, WS!Spec

-------------------------------------------------------------------------------
(* shared-memory/mmap-munmap                                               *)

HIDE SynchronizedPipeAssumption DEF SynchronizedPipeAssumption
USE SharedMemoryAssumption DEF SharedMemoryAssumption

\* The three sets that are counted are finite.
LEMMA CountedSetsAreFinite ==
    /\ IsFiniteSet(Busy) /\ Cardinality(Busy) \in Nat
    /\ IsFiniteSet(Ended) /\ Cardinality(Ended) \in Nat
    /\ IsFiniteSet(Unanswered) /\ Cardinality(Unanswered) \in Nat
<1>1. Busy \in SUBSET Servers /\ Ended \in SUBSET Servers /\ Unanswered \in SUBSET Clients
  BY DEF Busy, Ended, Unanswered
<1>2. IsFiniteSet(Busy) /\ IsFiniteSet(Ended) /\ IsFiniteSet(Unanswered)
  BY <1>1, FS_Subset
<1>. QED
  BY <1>2, FS_CardinalityType

\* A server that moves between two places outside Busy and Ended changes neither.
LEMMA ServerMoves ==
    ASSUME ShmTypeOK, NEW s \in Servers, NEW there, ServerGoes(s, there)
    PROVE  /\ Busy' = IF there \in {"test", "print", "answer", "answer_last"}
                      THEN Busy \cup {s} ELSE Busy \ {s}
           /\ Ended' = IF there = "ended" THEN Ended \cup {s} ELSE Ended \ {s}
  BY DEF ShmTypeOK, ServerGoes, Busy, Ended

LEMMA ClientMoves ==
    ASSUME ShmTypeOK, NEW c \in Clients, NEW there, ClientGoes(c, there)
    PROVE  Unanswered' = IF there \in {"wait", "killed_waiting"}
                         THEN Unanswered \cup {c} ELSE Unanswered \ {c}
  BY DEF ShmTypeOK, ClientGoes, Unanswered

IInv == ShmTypeOK /\ EndedServerCostsAnswer

LEMMA InitIInv == ShmInit => IInv
<1> SUFFICES ASSUME ShmInit PROVE IInv
  OBVIOUS
<1>1. ShmTypeOK
  BY DEF ShmInit, ShmTypeOK
<1>2. Busy = {} /\ Ended = {} /\ Unanswered = {}
  BY DEF ShmInit, Busy, Ended, Unanswered
<1>. QED
  BY <1>1, <1>2, FS_EmptySet DEF IInv, EndedServerCostsAnswer, ShmInit

LEMMA StepIInv == IInv /\ [ShmNext]_shmVars => IInv'
<1> SUFFICES ASSUME IInv, [ShmNext]_shmVars PROVE IInv'
  OBVIOUS
<1> USE DEF IInv
<1>1. ShmTypeOK'
  <2>1. CASE \E s \in Servers : Server(s) \/ KillServer(s)
    <3>1. PICK s \in Servers : Server(s) \/ KillServer(s)
      BY <2>1
    <3>2. CASE ServerCreate(s)
      BY <3>2 DEF ShmTypeOK, ServerCreate, ServerGoes, semVars, serverVars, clientVars
    <3>3. CASE ServerOpen(s)
      BY <3>3 DEF ShmTypeOK, ServerOpen, ServerGoes, semVars, serverVars, clientVars
    <3>4. CASE ServerWait(s)
      BY <3>4 DEF ShmTypeOK, ServerWait, ServerGoes, semVars, serverVars, clientVars
    <3>5. CASE ServerTest(s)
      BY <3>5 DEF ShmTypeOK, ServerTest, ServerGoes, semVars, serverVars, clientVars
    <3>6. CASE ServerPrint(s)
      BY <3>6 DEF ShmTypeOK, ServerPrint, ServerGoes, semVars, serverVars, clientVars
    <3>7. CASE ServerPost(s)
      BY <3>7 DEF ShmTypeOK, ServerPost, ServerGoes, semVars, serverVars, clientVars
    <3>8. CASE ServerLast(s)
      BY <3>8 DEF ShmTypeOK, ServerLast, ServerGoes, semVars, serverVars, clientVars
    <3>9. CASE KillServer(s)
      BY <3>9 DEF ShmTypeOK, KillServer, ServerGoes, semVars, serverVars, clientVars
    <3>. QED
      BY <3>1, <3>2, <3>3, <3>4, <3>5, <3>6, <3>7, <3>8, <3>9 DEF Server
  <2>2. CASE \E c \in Clients : Client(c) \/ KillClient(c)
    <3>1. PICK c \in Clients : Client(c) \/ KillClient(c)
      BY <2>2
    <3>2. CASE ClientOpen(c)
      BY <3>2 DEF ShmTypeOK, ClientOpen, ClientGoes, semVars, serverVars, clientVars
    <3>3. CASE ClientFault(c)
      BY <3>3 DEF ShmTypeOK, ClientFault, ClientGoes, semVars, serverVars, clientVars
    <3>4. CASE ClientCopy(c)
      BY <3>4 DEF ShmTypeOK, ClientCopy, ClientGoes, semVars, serverVars, clientVars
    <3>5. CASE ClientPost(c)
      BY <3>5 DEF ShmTypeOK, ClientPost, ClientGoes, semVars, serverVars, clientVars
    <3>6. CASE ClientWait(c)
      BY <3>6 DEF ShmTypeOK, ClientWait, ClientGoes, semVars, serverVars, clientVars
    <3>7. CASE KillClient(c)
      BY <3>7 DEF ShmTypeOK, KillClient, ClientGoes, semVars, serverVars, clientVars
    <3>. QED
      BY <3>1, <3>2, <3>3, <3>4, <3>5, <3>6, <3>7 DEF Client
  <2>3. CASE UNCHANGED shmVars
    BY <2>3 DEF ShmTypeOK, shmVars, semVars, serverVars, clientVars
  <2>. QED
    BY <2>1, <2>2, <2>3 DEF ShmNext
<1>2. EndedServerCostsAnswer'
  <2> USE CountedSetsAreFinite DEF ShmTypeOK, EndedServerCostsAnswer
  <2>1. CASE \E s \in Servers : Server(s) \/ KillServer(s)
    <3>1. PICK s \in Servers : Server(s) \/ KillServer(s)
      BY <2>1
    <3>2. /\ Cardinality(Busy \cup {s}) = IF s \in Busy THEN Cardinality(Busy) ELSE Cardinality(Busy) + 1
          /\ Cardinality(Busy \ {s}) = IF s \in Busy THEN Cardinality(Busy) - 1 ELSE Cardinality(Busy)
          /\ Cardinality(Ended \cup {s}) = IF s \in Ended THEN Cardinality(Ended) ELSE Cardinality(Ended) + 1
          /\ Cardinality(Ended \ {s}) = IF s \in Ended THEN Cardinality(Ended) - 1 ELSE Cardinality(Ended)
      BY FS_AddElement, FS_RemoveElement
    <3>3. /\ s \in Busy <=> server_pc[s] \in {"test", "print", "answer", "answer_last"}
          /\ s \in Ended <=> server_pc[s] = "ended"
      BY DEF Busy, Ended
    <3>4. UNCHANGED client_pc => Unanswered' = Unanswered
      BY DEF Unanswered
    <3>5. CASE ServerCreate(s) \/ ServerOpen(s)
      <4>1. Busy' = Busy \ {s} /\ Ended' = Ended \ {s}
        BY <3>5, ServerMoves DEF ServerCreate, ServerOpen
      <4>. QED
        BY <4>1, <3>2, <3>3, <3>4, <3>5 DEF ServerCreate, ServerOpen, semVars, clientVars
    <3>6. CASE ServerWait(s)
      <4>1. Busy' = Busy \cup {s} /\ Ended' = Ended \ {s}
        BY <3>6, ServerMoves DEF ServerWait
      <4>. QED
        BY <4>1, <3>2, <3>3, <3>4, <3>6 DEF ServerWait, clientVars
    <3>7. CASE ServerTest(s) \/ ServerPrint(s)
      <4>1. Busy' = Busy \cup {s} /\ Ended' = Ended \ {s}
        BY <3>7, ServerMoves DEF ServerTest, ServerPrint
      <4>. QED
        BY <4>1, <3>2, <3>3, <3>4, <3>7 DEF ServerTest, ServerPrint, semVars, clientVars
    <3>8. CASE ServerPost(s)
      <4>1. Busy' = Busy \ {s} /\ Ended' = Ended \ {s}
        <5>1. PICK there \in {"wait", "last"} : ServerGoes(s, there)
          BY <3>8 DEF ServerPost
        <5>. QED
          BY <5>1, ServerMoves
      <4>. QED
        BY <4>1, <3>2, <3>3, <3>4, <3>8 DEF ServerPost, clientVars
    <3>9. CASE ServerLast(s)
      <4>1. Busy' = Busy \ {s} /\ Ended' = Ended \cup {s}
        BY <3>9, ServerMoves DEF ServerLast
      <4>. QED
        BY <4>1, <3>2, <3>3, <3>4, <3>9 DEF ServerLast, clientVars
    <3>10. CASE KillServer(s)
      <4>1. Busy' = Busy \ {s} /\ Ended' = Ended \ {s}
        BY <3>10, ServerMoves DEF KillServer
      <4>. QED
        BY <4>1, <3>2, <3>3, <3>4, <3>10 DEF KillServer, semVars, clientVars
    <3>. QED
      BY <3>1, <3>5, <3>6, <3>7, <3>8, <3>9, <3>10 DEF Server
  <2>2. CASE \E c \in Clients : Client(c) \/ KillClient(c)
    <3>1. PICK c \in Clients : Client(c) \/ KillClient(c)
      BY <2>2
    <3>2. /\ Cardinality(Unanswered \cup {c})
                = IF c \in Unanswered THEN Cardinality(Unanswered) ELSE Cardinality(Unanswered) + 1
          /\ Cardinality(Unanswered \ {c})
                = IF c \in Unanswered THEN Cardinality(Unanswered) - 1 ELSE Cardinality(Unanswered)
      BY FS_AddElement, FS_RemoveElement
    <3>3. c \in Unanswered <=> client_pc[c] \in {"wait", "killed_waiting"}
      BY DEF Unanswered
    <3>4. UNCHANGED server_pc => Busy' = Busy /\ Ended' = Ended
      BY DEF Busy, Ended
    <3>5. CASE ClientOpen(c) \/ ClientFault(c) \/ ClientCopy(c)
      <4>1. Unanswered' = Unanswered \ {c}
        <5>1. PICK there \in {"scan", "failed", "copy", "post"} : ClientGoes(c, there)
          BY <3>5 DEF ClientOpen, ClientFault, ClientCopy
        <5>. QED
          BY <5>1, ClientMoves
      <4>. QED
        BY <4>1, <3>2, <3>3, <3>4, <3>5 DEF ClientOpen, ClientFault, ClientCopy,
             semVars, serverVars
    <3>6. CASE ClientPost(c)
      <4>1. Unanswered' = Unanswered \cup {c}
        BY <3>6, ClientMoves DEF ClientPost
      <4>. QED
        BY <4>1, <3>2, <3>3, <3>4, <3>6 DEF ClientPost, serverVars
    <3>7. CASE ClientWait(c)
      <4>1. Unanswered' = Unanswered \ {c}
        <5>1. PICK there \in {"ended", "scan"} : ClientGoes(c, there)
          BY <3>7 DEF ClientWait
        <5>. QED
          BY <5>1, ClientMoves
      <4>. QED
        BY <4>1, <3>2, <3>3, <3>4, <3>7 DEF ClientWait, serverVars
    <3>8. CASE KillClient(c)
      <4>1. CASE client_pc[c] = "wait"
        <5>1. Unanswered' = Unanswered \cup {c}
          BY <3>8, <4>1, ClientMoves DEF KillClient
        <5>. QED
          BY <5>1, <4>1, <3>2, <3>3, <3>4, <3>8 DEF KillClient, semVars, serverVars
      <4>2. CASE client_pc[c] # "wait"
        <5>1. Unanswered' = Unanswered \ {c}
          BY <3>8, <4>2, ClientMoves DEF KillClient
        <5>. QED
          BY <5>1, <4>2, <3>2, <3>3, <3>4, <3>8 DEF KillClient, semVars, serverVars
      <4>. QED
        BY <4>1, <4>2
    <3>. QED
      BY <3>1, <3>5, <3>6, <3>7, <3>8 DEF Client
  <2>3. CASE UNCHANGED shmVars
    <3>1. Busy' = Busy /\ Ended' = Ended /\ Unanswered' = Unanswered
      BY <2>3 DEF shmVars, serverVars, clientVars, Busy, Ended, Unanswered
    <3>. QED
      BY <3>1, <2>3 DEF shmVars, semVars
  <2>. QED
    BY <2>1, <2>2, <2>3 DEF ShmNext
<1>. QED
  BY <1>1, <1>2

\* Among all processes ever started, in any number and order, killed or not, there
\* are at least as many clients without an answer as servers that ended.
THEOREM NoServerEndsForFree == ShmSpec => []EndedServerCostsAnswer
<1>1. IInv => EndedServerCostsAnswer
  BY DEF IInv
<1>. QED
  BY <1>1, InitIInv, StepIInv, PTL DEF ShmSpec

\* In particular a server and a client that are alone never both end
\* (shared-memory/mmap-munmap, the last sem_wait of server.c and of client.c).
THEOREM NeverBothEnd ==
    ShmSpec => [](\A s \in Servers, c \in Clients :
                   Clients = {c} /\ client_pc[c] = "ended" => server_pc[s] # "ended")
<1> DEFINE Alone == \A s \in Servers, c \in Clients :
                        Clients = {c} /\ client_pc[c] = "ended" => server_pc[s] # "ended"
<1>1. IInv => Alone
  <2> SUFFICES ASSUME IInv, NEW s \in Servers, NEW c \in Clients, Clients = {c},
                      client_pc[c] = "ended", server_pc[s] = "ended"
               PROVE  FALSE
    OBVIOUS
  <2>1. Unanswered = {} /\ s \in Ended
    BY DEF Unanswered, Ended
  <2>2. Cardinality(Unanswered) = 0 /\ Cardinality(Ended) # 0
    BY <2>1, FS_EmptySet, CountedSetsAreFinite
  <2>. QED
    BY <2>2, CountedSetsAreFinite DEF IInv, ShmTypeOK, EndedServerCostsAnswer
<1>. QED
  BY <1>1, InitIInv, StepIInv, PTL DEF ShmSpec

-------------------------------------------------------------------------------
(* A server and a client that are undisturbed                              *)

Items == {Empty, Torn} \cup (Clients \X Nat)

DataOK == /\ shm \in Items
          /\ printed \in [Servers -> Seq(Items)]
          /\ words \in [Clients -> Nat] /\ current \in [Clients -> Nat \ {0}]

\* Nobody but s and c was started, and neither was killed.
Undisturbed(s, c) == /\ server_pc[s] # "killed" /\ client_pc[c] \notin {"failed", "killed", "killed_waiting"}
                     /\ \A t \in Servers \ {s} : server_pc[t] = "start"
                     /\ \A d \in Clients \ {c} : client_pc[d] = "start"

InOrder(s, c) == \A n \in 1..Len(printed[s]) : printed[s][n] = <<c, n>>

\* How much the server has printed: every word before the client's current one, or this
\* one too.
Before(s, c) == Len(printed[s]) = current[c] - 1
After(s, c)  == Len(printed[s]) = current[c]

Sems(client, server) == client_sem = client /\ server_sem = server

\* Before the client copies its first word.
Opening(s, c) ==
    /\ Sems(0, 0) /\ shm = Empty /\ current[c] = 1 /\ Before(s, c)
    /\ client_pc[c] \in {"start", "scan"}
    /\ \/ server_pc[s] = "start" /\ object = "none" /\ client_pc[c] = "start"
       \/ server_pc[s] = "size" /\ object = "empty"
       \/ server_pc[s] = "wait" /\ object = "sized"

\* The client prepares what it says next; the server sleeps.
Preparing(s, c) ==
    /\ Sems(0, 0) /\ Before(s, c) /\ server_pc[s] = "wait" /\ object = "sized"
    /\ \/ client_pc[c] = "scan"
       \/ client_pc[c] = "copy" /\ ~LastWord(c)
       \/ client_pc[c] = "post" /\ shm = IF LastWord(c) THEN Empty ELSE <<c, current[c]>>

\* The client waits for its answer.
Waiting(s, c) ==
    /\ client_pc[c] = "wait" /\ object = "sized" /\ shm = IF LastWord(c) THEN Empty ELSE <<c, current[c]>>
    /\ \/ server_pc[s] = "wait" /\ Sems(1, 0) /\ Before(s, c)
       \/ server_pc[s] = "test" /\ Sems(0, 0) /\ Before(s, c)
       \/ ~LastWord(c) /\ server_pc[s] = "print" /\ Sems(0, 0) /\ Before(s, c)
       \/ ~LastWord(c) /\ server_pc[s] = "answer" /\ Sems(0, 0) /\ After(s, c)
       \/ ~LastWord(c) /\ server_pc[s] = "wait" /\ Sems(0, 1) /\ After(s, c)
       \/ LastWord(c) /\ server_pc[s] = "answer_last" /\ Sems(0, 0) /\ Before(s, c)
       \/ LastWord(c) /\ server_pc[s] = "last" /\ Sems(0, 1) /\ Before(s, c)
       \/ LastWord(c) /\ server_pc[s] = "ended" /\ Sems(0, 0) /\ Before(s, c)

\* The client took the answer and the server still waits for one.
ClientEnded(s, c) ==
    client_pc[c] = "ended" /\ LastWord(c) /\ server_pc[s] = "last" /\ Sems(0, 0) /\ Before(s, c)

PairState(s, c) ==
    /\ InOrder(s, c)
    /\ Opening(s, c) \/ Preparing(s, c) \/ Waiting(s, c) \/ ClientEnded(s, c)

PairInv == \A s \in Servers, c \in Clients : Undisturbed(s, c) => PairState(s, c)

LEMMA InitPairInv == ShmInit => DataOK /\ PairInv
<1> SUFFICES ASSUME ShmInit PROVE DataOK /\ PairInv
  OBVIOUS
<1>1. DataOK
  BY DEF ShmInit, DataOK, Items
<1>2. ASSUME NEW s \in Servers, NEW c \in Clients PROVE PairState(s, c)
  BY DEF ShmInit, PairState, InOrder, Opening, Sems, Before
<1> QED BY <1>1, <1>2 DEF PairInv

LEMMA StepDataOK == ShmTypeOK /\ DataOK /\ [ShmNext]_shmVars => DataOK'
<1> SUFFICES ASSUME ShmTypeOK, DataOK, [ShmNext]_shmVars PROVE DataOK'
  OBVIOUS
<1> USE DEF semVars, serverVars, clientVars
<1>1. ASSUME NEW s \in Servers, ServerPrint(s) PROVE DataOK'
  <2>1. Append(printed[s], shm) \in Seq(Items)
    BY DEF DataOK
  <2> QED BY <1>1, <2>1 DEF ServerPrint, DataOK
<1>2. ASSUME NEW s \in Servers, Server(s) \/ KillServer(s), ~ServerPrint(s) PROVE DataOK'
  BY <1>2 DEF Server, ServerCreate, ServerOpen, ServerWait, ServerTest, ServerPost, ServerLast,
              KillServer, DataOK
<1>3. ASSUME NEW c \in Clients, ClientCopy(c) PROVE DataOK'
  BY <1>3 DEF ClientCopy, DataOK, Items
<1>4. ASSUME NEW c \in Clients, ClientWait(c) PROVE DataOK'
  BY <1>4 DEF ClientWait, DataOK
<1>5. ASSUME NEW c \in Clients, ClientOpen(c) \/ ClientFault(c) \/ ClientPost(c) \/ KillClient(c)
      PROVE  DataOK'
  BY <1>5 DEF ClientOpen, ClientFault, ClientPost, KillClient, DataOK
<1>6. CASE UNCHANGED shmVars
  BY <1>6 DEF shmVars, DataOK
<1> QED BY <1>1, <1>2, <1>3, <1>4, <1>5, <1>6 DEF ShmNext, Client

\* The step of a pair that is undisturbed afterwards is a step of one of the two, and
\* the pair was undisturbed before.
LEMMA PairSteps ==
    ASSUME ShmTypeOK, [ShmNext]_shmVars, NEW s \in Servers, NEW c \in Clients, Undisturbed(s, c)'
    PROVE  Undisturbed(s, c) /\ (Server(s) \/ Client(c) \/ UNCHANGED shmVars)
<1> USE DEF semVars, serverVars, clientVars, ServerGoes, ClientGoes
<1>1. ASSUME NEW t \in Servers, Server(t) \/ KillServer(t)
      PROVE  Undisturbed(s, c) /\ Server(s)
  <2>1. PICK there : /\ there # "start" /\ server_pc' = [server_pc EXCEPT ![t] = there]
                     /\ UNCHANGED client_pc /\ server_pc[t] \notin {"killed"}
                     /\ Server(t) \/ there = "killed"
    BY <1>1 DEF Server, ServerCreate, ServerOpen, ServerWait, ServerTest, ServerPrint, ServerPost,
                ServerLast, KillServer
  <2> QED BY <2>1 DEF Undisturbed, ShmTypeOK
<1>2. ASSUME NEW d \in Clients, Client(d) \/ KillClient(d)
      PROVE  Undisturbed(s, c) /\ Client(c)
  <2>1. PICK there : /\ there # "start" /\ client_pc' = [client_pc EXCEPT ![d] = there]
                     /\ UNCHANGED server_pc /\ client_pc[d] \notin {"failed", "killed", "killed_waiting"}
                     /\ Client(d) \/ there \in {"killed", "killed_waiting"}
    BY <1>2 DEF Client, ClientOpen, ClientFault, ClientCopy, ClientPost, ClientWait, KillClient
  <2> QED BY <2>1 DEF Undisturbed, ShmTypeOK
<1>3. CASE UNCHANGED shmVars
  BY <1>3 DEF shmVars, Undisturbed
<1> QED BY <1>1, <1>2, <1>3 DEF ShmNext

LEMMA ServerKeepsPair ==
    ASSUME ShmTypeOK, DataOK, NEW s \in Servers, NEW c \in Clients, PairState(s, c), Server(s)
    PROVE  PairState(s, c)'
<1> USE DEF semVars, serverVars, clientVars, ServerGoes, Sems, Before, After, LastWord
<1>0. UNCHANGED <<client_pc, words, current, shm>>
  BY DEF Server, ServerCreate, ServerOpen, ServerWait, ServerTest, ServerPrint, ServerPost,
         ServerLast
<1>1. CASE ServerPrint(s)
  <2>1. Waiting(s, c) /\ server_pc[s] = "print"
    BY <1>1 DEF ServerPrint, PairState, Opening, Preparing, Waiting, ClientEnded
  <2>2. /\ ~LastWord(c) /\ Sems(0, 0) /\ Before(s, c) /\ shm = <<c, current[c]>>
        /\ client_pc[c] = "wait" /\ object = "sized"
    BY <2>1 DEF Waiting
  <2>3. printed[s] \in Seq(Items) /\ shm \in Items /\ Len(printed[s]) \in Nat /\ current[c] \in Nat
    BY DEF DataOK
  <2>4. printed'[s] = Append(printed[s], shm) /\ server_pc'[s] = "answer"
    BY <1>1 DEF ServerPrint, DataOK, ShmTypeOK
  <2>5. InOrder(s, c)' /\ Len(printed'[s]) = current[c]
    BY <2>2, <2>3, <2>4 DEF InOrder, PairState
  <2>6. Waiting(s, c)'
    BY <1>0, <1>1, <2>2, <2>4, <2>5 DEF ServerPrint, Waiting
  <2> QED BY <2>5, <2>6 DEF PairState
<1>2. CASE ~ServerPrint(s)
  <2>1. UNCHANGED printed
    BY <1>2 DEF Server, ServerCreate, ServerOpen, ServerWait, ServerTest, ServerPost, ServerLast
  <2>2. InOrder(s, c)'
    BY <2>1 DEF InOrder, PairState
  <2>3. CASE ServerCreate(s)
    <3>1. Opening(s, c)'
      BY <1>0, <2>1, <2>3 DEF ServerCreate, PairState, Opening, Preparing, Waiting, ClientEnded,
                              ShmTypeOK
    <3> QED BY <2>2, <3>1 DEF PairState
  <2>4. CASE ServerOpen(s)
    <3>1. Opening(s, c)'
      BY <1>0, <2>1, <2>4 DEF ServerOpen, PairState, Opening, Preparing, Waiting, ClientEnded,
                              ShmTypeOK
    <3> QED BY <2>2, <3>1 DEF PairState
  <2>5. CASE ServerWait(s)
    <3>1. Waiting(s, c)'
      BY <1>0, <2>1, <2>5 DEF ServerWait, PairState, Opening, Preparing, Waiting, ClientEnded,
                              ShmTypeOK
    <3> QED BY <2>2, <3>1 DEF PairState
  <2>6. CASE ServerTest(s)
    <3>1. /\ client_pc[c] = "wait" /\ object = "sized" /\ Sems(0, 0) /\ Before(s, c)
          /\ shm = IF LastWord(c) THEN Empty ELSE <<c, current[c]>>
      BY <2>6 DEF ServerTest, PairState, Opening, Preparing, Waiting, ClientEnded
    <3>2. <<c, current[c]>> \notin {Empty, Torn}
      BY DEF DataOK, Empty, Torn
    <3>3. CASE LastWord(c)
      BY <1>0, <2>1, <2>2, <2>6, <3>1, <3>3 DEF ServerTest, Waiting, PairState, ShmTypeOK
    <3>4. CASE ~LastWord(c)
      BY <1>0, <2>1, <2>2, <2>6, <3>1, <3>2, <3>4 DEF ServerTest, Waiting, PairState, ShmTypeOK
    <3> QED BY <3>3, <3>4
  <2>7. CASE ServerPost(s)
    <3>1. Waiting(s, c)'
      BY <1>0, <2>1, <2>7 DEF ServerPost, PairState, Opening, Preparing, Waiting, ClientEnded,
                              ShmTypeOK
    <3> QED BY <2>2, <3>1 DEF PairState
  <2>8. CASE ServerLast(s)
    <3>1. Waiting(s, c)'
      BY <1>0, <2>1, <2>8 DEF ServerLast, PairState, Opening, Preparing, Waiting, ClientEnded,
                              ShmTypeOK
    <3> QED BY <2>2, <3>1 DEF PairState
  <2> QED BY <1>2, <2>3, <2>4, <2>5, <2>6, <2>7, <2>8 DEF Server
<1> QED BY <1>1, <1>2

LEMMA ClientKeepsPair ==
    ASSUME ShmTypeOK, DataOK, NEW s \in Servers, NEW c \in Clients, PairState(s, c), Client(c),
           client_pc'[c] # "failed"
    PROVE  PairState(s, c)'
<1> USE DEF semVars, serverVars, clientVars, ClientGoes, Sems, Before, After, LastWord
<1>0. UNCHANGED <<server_pc, printed, object, words>>
  BY DEF Client, ClientOpen, ClientFault, ClientCopy, ClientPost, ClientWait
<1>1. InOrder(s, c)'
  BY <1>0 DEF InOrder, PairState
<1>2. CASE ClientOpen(c)
  <2>1. Opening(s, c)'
    BY <1>0, <1>2 DEF ClientOpen, PairState, Opening, Preparing, Waiting, ClientEnded, ShmTypeOK
  <2> QED BY <1>1, <2>1 DEF PairState
<1>3. CASE ClientFault(c)
  BY <1>3 DEF ClientFault, ShmTypeOK
<1>4. CASE ClientCopy(c)
  <2>1. Preparing(s, c)'
    BY <1>0, <1>4 DEF ClientCopy, PairState, Opening, Preparing, Waiting, ClientEnded, ShmTypeOK
  <2> QED BY <1>1, <2>1 DEF PairState
<1>5. CASE ClientPost(c)
  <2>1. Waiting(s, c)'
    BY <1>0, <1>5 DEF ClientPost, PairState, Opening, Preparing, Waiting, ClientEnded, ShmTypeOK
  <2> QED BY <1>1, <2>1 DEF PairState
<1>6. CASE ClientWait(c)
  <2>1. /\ Waiting(s, c) /\ Sems(0, 1) /\ object = "sized"
        /\ \/ ~LastWord(c) /\ server_pc[s] = "wait" /\ After(s, c)
           \/ LastWord(c) /\ server_pc[s] = "last" /\ Before(s, c)
    BY <1>6 DEF ClientWait, PairState, Opening, Preparing, Waiting, ClientEnded
  <2>2. Sems(0, 0)' /\ current[c] \in Nat
    BY <1>6, <2>1 DEF ClientWait, DataOK
  <2>3. CASE ~LastWord(c)
    <3>1. client_pc'[c] = "scan" /\ current'[c] = current[c] + 1
      BY <1>6, <2>3 DEF ClientWait, ShmTypeOK, DataOK
    <3>2. Preparing(s, c)'
      BY <1>0, <2>1, <2>2, <2>3, <3>1 DEF Preparing
    <3> QED BY <1>1, <3>2 DEF PairState
  <2>4. CASE LastWord(c)
    <3>1. client_pc'[c] = "ended" /\ current'[c] = current[c]
      BY <1>6, <2>4 DEF ClientWait, ShmTypeOK, DataOK
    <3>2. ClientEnded(s, c)'
      BY <1>0, <2>1, <2>2, <2>4, <3>1 DEF ClientEnded
    <3> QED BY <1>1, <3>2 DEF PairState
  <2> QED BY <2>3, <2>4
<1> QED BY <1>2, <1>3, <1>4, <1>5, <1>6 DEF Client

LEMMA StepPairInv == ShmTypeOK /\ DataOK /\ PairInv /\ [ShmNext]_shmVars => PairInv'
<1> SUFFICES ASSUME ShmTypeOK, DataOK, PairInv, [ShmNext]_shmVars,
                    NEW s \in Servers, NEW c \in Clients, Undisturbed(s, c)'
             PROVE  PairState(s, c)'
  BY DEF PairInv
<1>1. Undisturbed(s, c) /\ (Server(s) \/ Client(c) \/ UNCHANGED shmVars)
  BY PairSteps
<1>2. PairState(s, c)
  BY <1>1 DEF PairInv
<1>3. CASE UNCHANGED shmVars
  BY <1>2, <1>3 DEF shmVars, semVars, serverVars, clientVars, PairState, InOrder, Opening, Preparing,
                    Waiting, ClientEnded, Sems, Before, After, LastWord
<1>4. client_pc'[c] # "failed"
  BY DEF Undisturbed
<1> QED BY <1>1, <1>2, <1>3, <1>4, ServerKeepsPair, ClientKeepsPair

\* The server of an undisturbed pair prints the words of its client once each and in
\* order, never one that is half copied, however long the file is, and leaves its loop
\* when it has had all of them (main of server.c and client.c).
THEOREM UndisturbedPairDelivers == ShmSpec => []PairDelivers
<1>1. ASSUME DataOK, PairInv PROVE PairDelivers
  <2> SUFFICES ASSUME NEW s \in Servers, NEW c \in Clients, Pair(s, c)
               PROVE  /\ printed[s] = [n \in 1..Len(printed[s]) |-> <<c, n>>]
                      /\ Len(printed[s]) \in {current[c] - 1, current[c]}
                      /\ server_pc[s] \in {"answer_last", "last", "ended"} => Len(printed[s]) = words[c]
    BY DEF PairDelivers
  <2>1. PairState(s, c)
    BY <1>1 DEF Pair, Undisturbed, PairInv
  <2>2. printed[s] = [n \in 1..Len(printed[s]) |-> <<c, n>>]
    <3>1. printed[s] \in Seq(Items)
      BY <1>1 DEF DataOK
    <3>2. printed[s] \in [1..Len(printed[s]) -> Items]
      BY <3>1, LenProperties
    <3>3. \A n \in 1..Len(printed[s]) : printed[s][n] = <<c, n>>
      BY <2>1 DEF PairState, InOrder
    <3> QED BY <3>2, <3>3
  <2>3. words[c] \in Nat /\ current[c] \in Nat
    BY <1>1 DEF DataOK
  <2> QED BY <2>1, <2>2, <2>3 DEF PairState, Opening, Preparing, Waiting, ClientEnded, Before,
                                  After, LastWord
<1>2. IInv => ShmTypeOK
  BY DEF IInv
<1> QED
  BY <1>1, <1>2, InitIInv, StepIInv, InitPairInv, StepDataOK, StepPairInv, PTL DEF ShmSpec
================================================================================
