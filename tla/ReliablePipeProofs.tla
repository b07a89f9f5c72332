-------------------------- MODULE ReliablePipeProofs --------------------------
(***************************************************************************)
(* Proofs about ReliablePipe for every set of files, every pipe capacity   *)
(* and any number of killed and restarted runs.                            *)
(***************************************************************************)
EXTENDS ReliablePipe, SequenceTheorems, FiniteSetTheorems, TLAPS

\* The conjuncts of TypeOK that concern semaphores and counters.
CountTypes ==
    /\ cpc \in CPC /\ ppc \in PPC
    /\ sem \in [Names -> Nat] /\ start \in [Names -> Nat] /\ linked \subseteq Names
    /\ posted \in Nat /\ waited \in Nat /\ got \in Nat /\ acked \in Nat

\* What the semaphores hold is what they held at the start, plus the posts, minus
\* the waits; the child posts and waits in turn.
Balance ==
    Running =>
        /\ sem["SEM_PARENT"] + got = start["SEM_PARENT"] + posted
        /\ sem["SEM_CHILD"] + waited = start["SEM_CHILD"] + acked
        /\ posted <= waited + 1
        /\ posted = waited + (IF cpc = "wait" THEN 1 ELSE 0) \/ cpc = "killed"

\* How far the unlinking has come, on either side; and the two processes exist only
\* after main.
Unlinking ==
    /\ ppc = "main" => posted = 0 /\ waited = 0 /\ got = 0 /\ acked = 0
    /\ cpc = "none" => ppc \in {"main", "failed"}
    /\ ppc = "main" => cpc = "none"
    /\ "unlink2" \in {cpc, ppc} => "SEM_PARENT" \notin linked
    /\ "exited" \in {cpc, ppc} => linked = {}

CInv == CountTypes /\ Balance /\ Unlinking

USE ReliablePipeAssumption DEF ReliablePipeAssumption, Names, CPC, PPC

LEMMA InitCInv == Init => CInv
  BY DEF Init, CInv, CountTypes, Balance, Unlinking, Running

LEMMA StepCInv == CInv /\ [Next]_vars => CInv'
<1> SUFFICES ASSUME CInv, [Next]_vars PROVE CInv'
  OBVIOUS
<1> USE DEF CInv, CountTypes, Balance, Unlinking, Running, childVars, parentVars, countVars
<1>1. CASE MainFails
  <2>1. /\ ppc = "main" /\ ppc' = "failed" /\ cpc = "none"
        /\ UNCHANGED <<cpc, start, posted, waited, got, acked>>
    BY <1>1 DEF MainFails
  <2>2. sem' \in [Names -> Nat] /\ linked' \subseteq Names
    <3>1. PICK made \in {{}, {"SEM_PARENT"}, Names} :
              /\ sem' = [n \in Names |->
                            IF n \in made
                            THEN sem_open(n, IF n = "SEM_PARENT" THEN 0 ELSE 1)
                            ELSE sem[n]]
              /\ linked' = linked \cup made
      BY <1>1 DEF MainFails
    <3>. QED
      BY <3>1 DEF sem_open
  <2>. QED
    BY <2>1, <2>2
<1>2. CASE Main
  <2>1. /\ ppc = "main" /\ ppc' = "wait" /\ cpc' = "scan" /\ linked' = Names
        /\ start' = sem'
        /\ posted = 0 /\ waited = 0 /\ got = 0 /\ acked = 0
        /\ UNCHANGED <<posted, waited, got, acked>>
    BY <1>2 DEF Main
  <2>2. sem' \in [Names -> Nat]
    BY <1>2 DEF Main, sem_open
  <2>. QED
    BY <2>1, <2>2
<1>3. CASE child_process
  BY <1>3 DEF child_process, BeginSend
<1>4. CASE WriteLength
  BY <1>4 DEF WriteLength
<1>5. CASE write_fully
  BY <1>5 DEF write_fully
<1>6. CASE ChildPost
  <2>1. /\ cpc = "post" /\ cpc' = "wait" /\ posted' = posted + 1
        /\ sem' = [sem EXCEPT !["SEM_PARENT"] = @ + 1]
        /\ UNCHANGED <<ppc, linked, start, waited, got, acked>>
    BY <1>6 DEF ChildPost
  <2>2. /\ sem' \in [Names -> Nat]
        /\ sem'["SEM_PARENT"] = sem["SEM_PARENT"] + 1
        /\ sem'["SEM_CHILD"] = sem["SEM_CHILD"]
    BY <2>1
  <2>3. CountTypes' /\ Unlinking'
    BY <2>1, <2>2
  <2>4. Balance'
    <3>1. /\ sem["SEM_PARENT"] + got = start["SEM_PARENT"] + posted
          /\ sem["SEM_CHILD"] + waited = start["SEM_CHILD"] + acked
          /\ posted = waited
      BY <2>1
    <3>2. /\ sem["SEM_PARENT"] \in Nat /\ sem["SEM_CHILD"] \in Nat
          /\ start["SEM_PARENT"] \in Nat /\ start["SEM_CHILD"] \in Nat
      OBVIOUS
    <3>3. sem'["SEM_PARENT"] + got' = start'["SEM_PARENT"] + posted'
      BY <2>1, <2>2, <3>1, <3>2, SMTT(30)
    <3>4. sem'["SEM_CHILD"] + waited' = start'["SEM_CHILD"] + acked'
      BY <2>1, <2>2, <3>1
    <3>5. cpc' = "wait" /\ posted' = waited' + 1 /\ posted' <= waited' + 1
      BY <2>1, <3>1
    <3>. QED
      BY <3>3, <3>4, <3>5
  <2>. QED
    BY <2>3, <2>4
<1>7. CASE ChildWait
  <2>1. /\ cpc = "wait" /\ cpc' \in {"scan", "wlen", "close"} /\ waited' = waited + 1
        /\ sem["SEM_CHILD"] > 0
        /\ sem' = [sem EXCEPT !["SEM_CHILD"] = @ - 1]
        /\ UNCHANGED <<ppc, linked, start, posted, got, acked>>
    BY <1>7 DEF ChildWait, AwaitReader, BeginSend
  <2>2. /\ sem' \in [Names -> Nat]
        /\ sem'["SEM_PARENT"] = sem["SEM_PARENT"]
        /\ sem'["SEM_CHILD"] = sem["SEM_CHILD"] - 1
    BY <2>1
  <2>3. CountTypes' /\ Unlinking'
    BY <2>1, <2>2
  <2>4. Balance'
    BY <2>1, <2>2
  <2>. QED
    BY <2>3, <2>4
<1>8. CASE ChildFinish
  BY <1>8 DEF ChildFinish
<1>9. CASE ParentWait
  BY <1>9 DEF ParentWait, AwaitWriter
<1>10. CASE read_fully
  BY <1>10 DEF read_fully
<1>11. CASE ParentPost
  BY <1>11, SMTT(30) DEF ParentPost
<1>12. CASE ParentFinish
  BY <1>12 DEF ParentFinish
<1>13. CASE Kill
  BY <1>13 DEF Kill, Over
<1>14. CASE Restart
  BY <1>14 DEF Restart
<1>15. CASE UNCHANGED vars
  BY <1>15 DEF vars
<1>. QED
  BY <1>1, <1>2, <1>3, <1>4, <1>5, <1>6, <1>7, <1>8, <1>9, <1>10, <1>11, <1>12,
     <1>13, <1>14, <1>15 DEF Next, Child, Parent

LEMMA AlwaysCInv == Spec => []CInv
  BY InitCInv, StepCInv, PTL DEF Spec

\* Whatever value a killed run left in SEM_CHILD, the child of pipe/reliable is never
\* further ahead of its reader than that value and one word.
THEOREM AheadIsBounded == Spec => []BoundedAhead
<1>1. CInv => BoundedAhead
  BY DEF CInv, CountTypes, Balance, BoundedAhead
<1>. QED
  BY <1>1, AlwaysCInv, PTL

\* A process that comes to the end of main has left no semaphore name in the system.
THEOREM ExitUnlinks == Spec => []NormalExitUnlinks
<1>1. CInv => NormalExitUnlinks
  BY DEF CInv, Unlinking, NormalExitUnlinks
<1>. QED
  BY <1>1, AlwaysCInv, PTL

-------------------------------------------------------------------------------
(* Type correctness of the data: the bytes in the pipe and in the buffers. *)

\* What a partial read or write leaves and takes are sequences of bytes.
LEMMA SplitType ==
    ASSUME NEW s \in Seq(Nat), NEW k \in 1..Len(s)
    PROVE  SubSeq(s, 1, k) \in Seq(Nat) /\ SubSeq(s, k + 1, Len(s)) \in Seq(Nat)
<1>1. \A j \in 1..Len(s) : s[j] \in Nat
  OBVIOUS
<1>2. \A j \in 1..k : s[j] \in Nat
  BY <1>1
<1>3. \A j \in (k + 1)..Len(s) : s[j] \in Nat
  BY <1>1
<1>4. SubSeq(s, 1, k) \in Seq(Nat)
  BY <1>2, SubSeqProperties
<1>5. SubSeq(s, k + 1, Len(s)) \in Seq(Nat)
  BY <1>3, SubSeqProperties
<1>. QED
  BY <1>4, <1>5

LEMMA EmptyType == <<>> \in Seq(Nat)
  OBVIOUS

LEMMA ByteType == \A n \in Nat : uint8_t(n) \in Nat
  BY DEF uint8_t

LEMMA InitTypeOK == Init => TypeOK
  BY DEF Init, TypeOK

LEMMA StepTypeOK == TypeOK /\ [Next]_vars => TypeOK'
<1> SUFFICES ASSUME TypeOK, [Next]_vars PROVE TypeOK'
  OBVIOUS
<1> USE DEF TypeOK, childVars, parentVars, countVars
<1>1. CASE MainFails
  <2>1. PICK made \in {{}, {"SEM_PARENT"}, Names} :
            /\ sem' = [n \in Names |->
                          IF n \in made
                          THEN sem_open(n, IF n = "SEM_PARENT" THEN 0 ELSE 1)
                          ELSE sem[n]]
            /\ linked' = linked \cup made
    BY <1>1 DEF MainFails
  <2>2. sem' \in [Names -> Nat] /\ linked' \subseteq Names
    BY <2>1 DEF sem_open
  <2>. QED
    BY <1>1, <2>2 DEF MainFails
<1>2. CASE Main
  BY <1>2 DEF Main, sem_open
<1>3. CASE child_process
  <2>1. UNCHANGED <<file, parentVars, pipe, sem, linked, start, countVars, restarts>>
    BY <1>3 DEF child_process
  <2>2. file \in Seq(Nat)
    OBVIOUS
  <2>3. word' \in Seq(Nat) /\ pos' \in Nat \ {0}
    <3>1. CASE UNCHANGED word /\ pos' \in {pos, pos + 1}
      BY <3>1
    <3>2. CASE pos <= Len(file) /\ word' = Append(word, file[pos]) /\ pos' = pos + 1
      <4>1. file[pos] \in Nat
        BY <2>2, <3>2
      <4>. QED
        BY <3>2, <4>1
    <3>. QED
      BY <1>3, <3>1, <3>2 DEF child_process
  <2>4. out' \in {out, word, <<>>}
    BY <1>3, Zenon DEF child_process, BeginSend
  <2>5. out' \in Seq(Nat)
    BY <2>4, EmptyType, Zenon
  <2>6. cpc' \in {cpc, "wlen", "failed"} /\ stage' \in {stage, "reading", "tail", "sentinel"}
    BY <1>3, Zenon DEF child_process, BeginSend
  <2>. QED
    BY <2>1, <2>3, <2>5, <2>6
<1>4. CASE WriteLength
  <2>1. uint8_t(Len(out)) \in Nat
    BY ByteType
  <2>2. pipe' \in Seq(Nat) /\ cpc' \in CPC
    BY <1>4, <2>1 DEF WriteLength
  <2>. QED
    BY <1>4, <2>2 DEF WriteLength
<1>5. CASE write_fully
  BY <1>5, SplitType, SMTT(30) DEF write_fully
<1>6. CASE ChildPost
  BY <1>6 DEF ChildPost
<1>7. CASE ChildWait
  <2>1. /\ sem["SEM_CHILD"] > 0
        /\ sem' = [sem EXCEPT !["SEM_CHILD"] = @ - 1]
        /\ waited' = waited + 1
        /\ UNCHANGED <<file, pos, parentVars, pipe, linked, start, posted, got, acked,
                       restarts>>
    BY <1>7 DEF ChildWait, AwaitReader
  <2>2. sem' \in [Names -> Nat]
    BY <2>1
  <2>3. /\ cpc' \in {"scan", "wlen", "close"} /\ stage' \in {stage, "sentinel"}
        /\ word' \in {word, <<>>} /\ out' \in {out, <<>>}
    BY <1>7, Zenon DEF ChildWait, BeginSend
  <2>4. word' \in Seq(Nat) /\ out' \in Seq(Nat)
    BY <2>3, EmptyType, Zenon
  <2>. QED
    BY <2>1, <2>2, <2>3, <2>4, SMTT(30)
<1>8. CASE ChildFinish
  BY <1>8 DEF ChildFinish
<1>9. CASE ParentWait
  BY <1>9 DEF ParentWait, AwaitWriter
<1>10. CASE read_fully
  <2>1. UNCHANGED <<file, childVars, sem, linked, start, countVars, restarts>>
    BY <1>10 DEF read_fully
  <2>2. CASE UNCHANGED <<ppc, need, buf, received, pipe>>
    BY <2>1, <2>2
  <2>3. ASSUME NEW k \in 1..need, k <= Len(pipe),
               pipe' = SubSeq(pipe, k + 1, Len(pipe)),
               ppc = "rlen", need' = Head(pipe), buf' = <<>>,
               ppc' = IF Head(pipe) = 0 THEN "close" ELSE "rword",
               UNCHANGED received
        PROVE  TypeOK'
    <3>1. k \in 1..Len(pipe) /\ pipe # <<>>
      BY <2>3
    <3>2. pipe' \in Seq(Nat)
      BY <2>3, <3>1, SplitType
    <3>3. Head(pipe) \in Nat
      BY <3>1
    <3>. QED
      BY <2>1, <2>3, <3>2, <3>3, SMTT(30)
  <2>4. ASSUME NEW k \in 1..need, k <= Len(pipe),
               pipe' = SubSeq(pipe, k + 1, Len(pipe)),
               ppc = "rword", need' = need - k,
               buf' = buf \o SubSeq(pipe, 1, k),
               IF k = need
               THEN ppc' = "post" /\ received' = Append(received, buf')
               ELSE UNCHANGED <<ppc, received>>
        PROVE  TypeOK'
    <3>1. k \in 1..Len(pipe)
      BY <2>4
    <3>2. pipe' \in Seq(Nat) /\ SubSeq(pipe, 1, k) \in Seq(Nat)
      BY <2>4, <3>1, SplitType
    <3>3. buf' \in Seq(Nat)
      BY <2>4, <3>2
    <3>4. received' \in Seq(Seq(Nat))
      <4>1. Append(received, buf') \in Seq(Seq(Nat))
        BY <3>3, AppendProperties
      <4>. QED
        BY <2>4, <4>1, Zenon
    <3>5. need' \in Nat /\ ppc' \in {"post", "rword"}
      BY <2>4
    <3>. QED
      BY <2>1, <3>2, <3>3, <3>4, <3>5
  <2>. QED
    BY <1>10, <2>2, <2>3, <2>4 DEF read_fully
<1>11. CASE ParentPost
  BY <1>11 DEF ParentPost
<1>12. CASE ParentFinish
  BY <1>12 DEF ParentFinish
<1>13. CASE Kill
  BY <1>13 DEF Kill, Over
<1>14. CASE Restart
  BY <1>14 DEF Restart
<1>15. CASE UNCHANGED vars
  BY <1>15 DEF vars
<1>. QED
  BY <1>1, <1>2, <1>3, <1>4, <1>5, <1>6, <1>7, <1>8, <1>9, <1>10, <1>11, <1>12,
     <1>13, <1>14, <1>15 DEF Next, Child, Parent

\* The buffers and the pipe only ever hold bytes, and no semaphore goes below zero.
THEOREM TypeCorrect == Spec => []TypeOK
  BY InitTypeOK, StepTypeOK, PTL DEF Spec

-------------------------------------------------------------------------------
(* A run that finds SEM_CHILD at 0: without the permit of a first start     *)
(* the two processes take turns, one word at a time.                       *)

\* The letters of a word fit into its length byte.
WordFits == Len(word) <= MAX_WORD_LENGTH

\* The parent is before the first byte of a word.
Idle == ppc \in {"wait", "rlen"} /\ (ppc = "rlen" => need = 1)

\* The length byte of a word is written and its letters are on their way.
Sending == /\ stage # "sentinel" /\ acked = waited /\ Len(out) > 0
           /\ \/ Idle /\ pipe # <<>> /\ Head(pipe) = Len(pipe) - 1 + Len(out)
              \/ ppc = "rword" /\ need = Len(pipe) + Len(out)

\* A word is written and the parent has not told the child yet, or just has.
Sent == /\ stage # "sentinel"
        /\ \/ acked = waited /\ Idle /\ Len(pipe) > 1 /\ Head(pipe) = Len(pipe) - 1
           \/ acked = waited /\ ppc = "rword" /\ need = Len(pipe) /\ need > 0
           \/ acked = waited /\ ppc = "post" /\ pipe = <<>>
           \/ acked = waited + 1 /\ Idle /\ pipe = <<>>

\* The length-0 word is written, to which the parent does not answer.
SentLast == /\ stage = "sentinel" /\ acked = waited
            /\ \/ Idle /\ Len(pipe) = 1 /\ Head(pipe) = 0
               \/ ppc \in {"close", "unlink", "unlink2", "exited"}

Turn == \/ cpc = "scan" /\ stage = "reading" /\ acked = waited /\ Idle /\ pipe = <<>>
        \/ /\ cpc = "wlen" /\ acked = waited /\ Idle /\ pipe = <<>>
           /\ IF stage = "sentinel" THEN out = <<>> ELSE Len(out) \in 1..UINT8_MAX
        \/ cpc = "wword" /\ Sending
        \/ cpc \in {"post", "wait"} /\ (Sent \/ SentLast)
        \/ cpc \in {"failed", "killed"}

\* Before main has forked nothing has been sent.
Fresh == ppc = "main" => stage = "reading" /\ pipe = <<>>

Lockstep == Fresh /\ (Running /\ start["SEM_CHILD"] = 0 => Turn)

LEMMA ByteIsLength == \A n \in 0..UINT8_MAX : uint8_t(n) = n
  BY DEF uint8_t

LEMMA InitLockstep == Init => WordFits /\ Lockstep
  BY DEF Init, WordFits, Lockstep, Fresh, Running

LEMMA StepWordFits == TypeOK /\ WordFits /\ [Next]_vars => WordFits'
<1> SUFFICES ASSUME TypeOK, WordFits, [Next]_vars PROVE WordFits'
  OBVIOUS
<1> USE DEF TypeOK, WordFits, childVars
<1>1. CASE child_process
  <2>0. word \in Seq(Nat) /\ Len(word) \in 0..UINT8_MAX
    OBVIOUS
  <2>1. uint8_t(Len(word)) = Len(word)
    BY <2>0, ByteIsLength
  <2>2. CASE UNCHANGED word
    BY <2>2
  <2>3. CASE ~(uint8_t(Len(word)) >= MAX_WORD_LENGTH) /\ word' = Append(word, file[pos])
    BY <2>0, <2>1, <2>3
  <2> QED BY <1>1, <2>2, <2>3, Zenon DEF child_process
<1>2. CASE ChildWait
  <2>1. word' = word \/ word' = <<>>
    BY <1>2, Zenon DEF ChildWait
  <2> QED BY <2>1
<1>3. CASE Restart
  BY <1>3 DEF Restart
<1>4. CASE UNCHANGED word
  BY <1>4
<1>5. CASE MainFails \/ Main \/ WriteLength \/ write_fully \/ ChildPost \/ ChildFinish
           \/ Parent \/ Kill \/ UNCHANGED vars
  BY <1>4, <1>5 DEF MainFails, Main, WriteLength, write_fully, ChildPost, ChildFinish, Parent,
                    ParentWait, read_fully, ParentPost, ParentFinish, Kill, vars
<1> QED BY <1>1, <1>2, <1>3, <1>5 DEF Next, Child

\* What a partial transfer leaves, in bytes.
LEMMA SplitLengths ==
    ASSUME NEW s \in Seq(Nat), NEW k \in 1..Len(s)
    PROVE  /\ Len(SubSeq(s, 1, k)) = k
           /\ Len(SubSeq(s, k + 1, Len(s))) = Len(s) - k
  BY SubSeqProperties

LEMMA StepLockstep == TypeOK /\ CInv /\ WordFits /\ Lockstep /\ [Next]_vars => Lockstep'
<1> SUFFICES ASSUME TypeOK, CInv, WordFits, Lockstep, [Next]_vars PROVE Lockstep'
  OBVIOUS
<1> USE DEF childVars, parentVars, countVars, Running
<1>0. Fresh'
  BY DEF Lockstep, Fresh, CInv, Unlinking, Next, MainFails, Main, Restart, Kill, Child, Parent,
         child_process, WriteLength, write_fully, ChildPost, ChildWait, ChildFinish, ParentWait,
         read_fully, ParentPost, ParentFinish, vars
<1> SUFFICES ASSUME Running', start'["SEM_CHILD"] = 0 PROVE Turn'
  BY <1>0 DEF Lockstep
<1>1. CASE Main
  <2>1. acked = waited /\ stage = "reading" /\ pipe = <<>>
    BY <1>1 DEF Main, CInv, Unlinking, Lockstep, Fresh
  <2> QED BY <1>1, <2>1 DEF Main, Turn, Idle
<1>2. CASE MainFails \/ Restart
  BY <1>2 DEF MainFails, Restart, CInv, Unlinking
<1>3. ASSUME Running, UNCHANGED start PROVE Turn
  BY <1>3 DEF Lockstep
<1>4. CASE child_process
  <2>1. Turn /\ cpc = "scan"
    BY <1>3, <1>4 DEF child_process
  <2>2. UNCHANGED <<ppc, need, pipe, acked, waited>>
    BY <1>4 DEF child_process
  <2>3. uint8_t(Len(word)) = Len(word) /\ Len(word) \in 0..UINT8_MAX
    BY ByteIsLength DEF TypeOK, WordFits
  <2>4. CASE cpc' = "failed"
    BY <2>4 DEF Turn
  <2>5. CASE UNCHANGED <<cpc, stage>>
    BY <2>1, <2>2, <2>5 DEF Turn, Idle, Sending, Sent, SentLast
  <2>6. CASE BeginSend(word, "tail") /\ Len(word) > 0
    BY <2>1, <2>2, <2>3, <2>6 DEF BeginSend, Turn, Idle
  <2>7. CASE BeginSend(<<>>, "sentinel")
    BY <2>1, <2>2, <2>7 DEF BeginSend, Turn, Idle
  <2>8. CASE BeginSend(word, "reading") /\ Len(word) > 0
    BY <2>1, <2>2, <2>3, <2>8 DEF BeginSend, Turn, Idle
  <2> QED BY <1>4, <2>3, <2>4, <2>5, <2>6, <2>7, <2>8 DEF child_process
<1>5. CASE WriteLength
  <2>1. Turn /\ cpc = "wlen"
    BY <1>3, <1>5 DEF WriteLength
  <2>2. UNCHANGED <<ppc, need, acked, waited, stage, out>>
    BY <1>5 DEF WriteLength
  <2>3. /\ acked = waited /\ Idle /\ pipe = <<>>
        /\ IF stage = "sentinel" THEN out = <<>> ELSE Len(out) \in 1..UINT8_MAX
    BY <2>1 DEF Turn
  <2>4. uint8_t(Len(out)) = Len(out)
    BY <2>3, ByteIsLength
  <2>5. /\ Len(pipe') = 1 /\ Head(pipe') = Len(out) /\ pipe' # <<>>
        /\ cpc' = IF Len(out) > 0 THEN "wword" ELSE "post"
    BY <1>5, <2>3, <2>4 DEF WriteLength
  <2>6. CASE stage = "sentinel"
    BY <2>2, <2>3, <2>5, <2>6 DEF Turn, SentLast, Idle
  <2>7. CASE stage # "sentinel"
    BY <2>2, <2>3, <2>5, <2>7 DEF Turn, Sending, Idle
  <2> QED BY <2>6, <2>7
<1>6. CASE write_fully
  <2>1. Turn /\ cpc = "wword"
    BY <1>3, <1>6 DEF write_fully
  <2>2. UNCHANGED <<ppc, need, acked, waited, stage>>
    BY <1>6 DEF write_fully
  <2>3. Sending
    BY <2>1 DEF Turn
  <2>4. PICK k \in 1..Len(out) : /\ pipe' = pipe \o SubSeq(out, 1, k)
                                 /\ out' = SubSeq(out, k + 1, Len(out))
                                 /\ cpc' = IF k = Len(out) THEN "post" ELSE "wword"
    BY <1>6 DEF write_fully
  <2>5. /\ SubSeq(out, 1, k) \in Seq(Nat) /\ pipe \in Seq(Nat) /\ Len(out) \in Nat
        /\ Len(SubSeq(out, 1, k)) = k /\ Len(out') = Len(out) - k
    BY <2>4, SplitType, SplitLengths, SMTT(30) DEF TypeOK
  <2>6. Len(pipe') = Len(pipe) + k /\ (pipe # <<>> => Head(pipe') = Head(pipe) /\ pipe' # <<>>)
    BY <2>4, <2>5
  <2>7. CASE k = Len(out)
    <3>1. cpc' = "post" /\ stage' # "sentinel" /\ acked' = waited' /\ Len(pipe) \in Nat
      BY <2>2, <2>3, <2>4, <2>5, <2>7 DEF Sending
    <3>2. CASE Idle /\ pipe # <<>> /\ Head(pipe) = Len(pipe) - 1 + Len(out)
      <4>1. Idle' /\ Len(pipe') > 1 /\ Head(pipe') = Len(pipe') - 1
        BY <2>2, <2>5, <2>6, <2>7, <3>1, <3>2 DEF Idle
      <4> QED BY <3>1, <4>1 DEF Turn, Sent
    <3>3. CASE ppc = "rword" /\ need = Len(pipe) + Len(out)
      BY <2>2, <2>6, <2>7, <3>1, <3>3 DEF Turn, Sent
    <3> QED BY <2>3, <3>2, <3>3 DEF Sending
  <2>8. CASE k # Len(out)
    <3>1. /\ cpc' = "wword" /\ stage' # "sentinel" /\ acked' = waited' /\ Len(pipe) \in Nat
          /\ Len(out') > 0
      BY <2>2, <2>3, <2>4, <2>5, <2>8 DEF Sending
    <3>2. CASE Idle /\ pipe # <<>> /\ Head(pipe) = Len(pipe) - 1 + Len(out)
      <4>1. Idle' /\ pipe' # <<>> /\ Head(pipe') = Len(pipe') - 1 + Len(out')
        BY <2>2, <2>5, <2>6, <3>1, <3>2 DEF Idle
      <4> QED BY <3>1, <4>1 DEF Turn, Sending
    <3>3. CASE ppc = "rword" /\ need = Len(pipe) + Len(out)
      BY <2>2, <2>5, <2>6, <3>1, <3>3 DEF Turn, Sending
    <3> QED BY <2>3, <3>2, <3>3 DEF Sending
  <2> QED BY <2>7, <2>8
<1>7. CASE ChildPost
  <2>1. Turn /\ cpc = "post" /\ cpc' = "wait"
    BY <1>3, <1>7 DEF ChildPost
  <2>2. UNCHANGED <<ppc, need, pipe, acked, waited, stage>>
    BY <1>7 DEF ChildPost
  <2> QED BY <2>1, <2>2 DEF Turn, Sent, SentLast, Idle
<1>8. CASE ChildWait
  <2>1. Turn /\ cpc = "wait" /\ sem["SEM_CHILD"] > 0 /\ waited' = waited + 1
    BY <1>3, <1>8 DEF ChildWait, AwaitReader
  <2>2. UNCHANGED <<ppc, need, pipe, acked, start>>
    BY <1>8 DEF ChildWait
  <2>3. acked > waited
    BY <2>1, <2>2 DEF CInv, CountTypes, Balance, Unlinking
  <2>4. stage # "sentinel" /\ acked = waited + 1 /\ Idle /\ pipe = <<>>
    BY <2>1, <2>3 DEF Turn, Sent, SentLast, CInv, CountTypes
  <2>5. CASE stage = "reading"
    BY <1>8, <2>1, <2>2, <2>4, <2>5 DEF ChildWait, Turn, Idle
  <2>6. CASE stage = "tail"
    BY <1>8, <2>1, <2>2, <2>4, <2>6 DEF ChildWait, BeginSend, Turn, Idle
  <2> QED BY <2>4, <2>5, <2>6 DEF TypeOK
<1>9. CASE ChildFinish
  BY <1>3, <1>9 DEF ChildFinish, Turn
<1>10. CASE ParentWait
  <2>1. Turn /\ ppc = "wait" /\ ppc' = "rlen" /\ need' = 1
    BY <1>3, <1>10 DEF ParentWait, CInv, Unlinking
  <2>2. UNCHANGED <<cpc, stage, out, pipe, acked, waited>>
    BY <1>10 DEF ParentWait
  <2> QED BY <2>1, <2>2 DEF Turn, Sending, Sent, SentLast, Idle
<1>11. CASE read_fully
  <2>1. Turn
    BY <1>3, <1>11 DEF read_fully, CInv, Unlinking
  <2>2. UNCHANGED <<cpc, stage, out, acked, waited>>
    BY <1>11 DEF read_fully
  <2>3. CASE UNCHANGED <<ppc, need, pipe>>
    BY <2>1, <2>2, <2>3 DEF Turn, Sending, Sent, SentLast, Idle
  <2>4. ASSUME NEW k \in 1..need, k <= Len(pipe), pipe' = SubSeq(pipe, k + 1, Len(pipe)),
               ppc = "rlen", need' = Head(pipe),
               ppc' = IF Head(pipe) = 0 THEN "close" ELSE "rword"
        PROVE  Turn'
    <3>1. pipe \in Seq(Nat) /\ k \in 1..Len(pipe) /\ Len(out) \in Nat /\ need \in Nat
      BY <2>4 DEF TypeOK
    <3>2. Len(pipe') = Len(pipe) - k /\ pipe # <<>>
      BY <2>4, <3>1, SplitLengths
    <3>3. ASSUME Idle PROVE k = 1
      BY <2>4, <3>3 DEF Idle
    <3>4. CASE cpc = "wword"
      BY <2>1, <2>2, <2>4, <3>1, <3>2, <3>3, <3>4 DEF Turn, Sending
    <3>5. CASE cpc \in {"post", "wait"} /\ Sent
      BY <2>1, <2>2, <2>4, <3>1, <3>2, <3>3, <3>5 DEF Turn, Sent
    <3>6. CASE cpc \in {"post", "wait"} /\ SentLast
      BY <2>1, <2>2, <2>4, <3>1, <3>2, <3>3, <3>6 DEF Turn, SentLast
    <3>7. CASE cpc \in {"failed", "killed"}
      BY <2>2, <3>7 DEF Turn
    <3> QED BY <2>1, <3>2, <3>4, <3>5, <3>6, <3>7 DEF Turn
  <2>5. ASSUME NEW k \in 1..need, k <= Len(pipe), pipe' = SubSeq(pipe, k + 1, Len(pipe)),
               ppc = "rword", need' = need - k,
               ppc' = IF k = need THEN "post" ELSE "rword"
        PROVE  Turn'
    <3>1. pipe \in Seq(Nat) /\ k \in 1..Len(pipe) /\ Len(out) \in Nat /\ need \in Nat
      BY <2>5 DEF TypeOK
    <3>2. Len(pipe') = Len(pipe) - k /\ pipe' \in Seq(Nat)
      BY <2>5, <3>1, SplitLengths, SplitType
    <3>3. CASE cpc = "wword"
      BY <2>1, <2>2, <2>5, <3>1, <3>2, <3>3, SMTT(30) DEF Turn, Sending, Idle
    <3>4. CASE cpc \in {"post", "wait"} /\ Sent
      BY <2>1, <2>2, <2>5, <3>1, <3>2, <3>4 DEF Turn, Sent, Idle
    <3>5. CASE cpc \in {"failed", "killed"}
      BY <2>2, <3>5 DEF Turn
    <3> QED BY <2>1, <2>5, <3>3, <3>4, <3>5 DEF Turn, SentLast, Idle
  <2>6. ASSUME NEW k \in 1..need, ppc = "rword",
               IF k = need THEN ppc' = "post" /\ received' = Append(received, buf')
               ELSE UNCHANGED <<ppc, received>>
        PROVE  ppc' = IF k = need THEN "post" ELSE "rword"
    BY <2>6
  <2> QED BY <1>11, <2>3, <2>4, <2>5, <2>6 DEF read_fully
<1>12. CASE ParentPost
  <2>1. Turn /\ ppc = "post" /\ ppc' = "wait" /\ acked' = acked + 1
    BY <1>3, <1>12 DEF ParentPost, CInv, Unlinking
  <2>2. UNCHANGED <<cpc, stage, out, pipe, waited>>
    BY <1>12 DEF ParentPost
  <2> QED BY <2>1, <2>2 DEF Turn, Sending, Sent, SentLast, Idle, TypeOK
<1>13. CASE ParentFinish
  <2>1. Turn /\ ppc \in {"close", "unlink", "unlink2"} /\ ppc' \in {"unlink", "unlink2", "exited"}
    BY <1>3, <1>13 DEF ParentFinish, CInv, Unlinking
  <2>2. UNCHANGED <<cpc, stage, out, pipe, waited, acked>>
    BY <1>13 DEF ParentFinish
  <2> QED BY <2>1, <2>2 DEF Turn, Sending, Sent, SentLast, Idle
<1>14. CASE Kill
  <2>1. cpc # "none" /\ UNCHANGED start
    BY <1>14 DEF Kill, Over, CInv, Unlinking
  <2>2. cpc' \in {"exited", "failed", "killed"} /\ (cpc' = "exited" => cpc = "exited")
    BY <1>14 DEF Kill
  <2>3. Turn
    BY <1>3, <1>14, <2>1 DEF Kill
  <2> QED BY <2>2, <2>3 DEF Turn
<1>15. CASE UNCHANGED vars
  BY <1>3, <1>15 DEF vars, Turn, Sending, Sent, SentLast, Idle
<1> QED
  BY <1>1, <1>2, <1>4, <1>5, <1>6, <1>7, <1>8, <1>9, <1>10, <1>11, <1>12, <1>13, <1>14, <1>15
     DEF Next, Child, Parent

\* A run that finds the 0 a killed run left in SEM_CHILD never gets its child past the
\* sem_wait after the length-0 word: the only answers are those to its words, and each
\* of them has been waited for by then.
THEOREM StaleZeroStrands == Spec => []StaleZeroStrandsChild
<1>1. Lockstep => StaleZeroStrandsChild
  BY DEF Lockstep, Turn, StaleZeroStrandsChild
<1> QED
  BY <1>1, InitTypeOK, StepTypeOK, InitCInv, StepCInv, InitLockstep, StepWordFits,
     StepLockstep, PTL DEF Spec

-------------------------------------------------------------------------------
(* The words of a file                                                     *)

LEMMA SameCount == \A S : WS!Cardinality(S) = Cardinality(S)
  BY DEF WS!Cardinality, Cardinality

\* The places at which a word starts before i.
StartsBefore(f, i) == {j \in WS!WordStarts(f) : j < i}

LEMMA StartsFinite ==
    ASSUME NEW f \in Seq(Nat)
    PROVE  /\ WS!WordStarts(f) \subseteq 1..Len(f) /\ Len(f) \in Nat
           /\ IsFiniteSet(WS!WordStarts(f)) /\ Cardinality(WS!WordStarts(f)) \in Nat
           /\ \A i : IsFiniteSet(StartsBefore(f, i)) /\ WS!Before(f, i) \in Nat
                     /\ WS!Before(f, i) = Cardinality(StartsBefore(f, i))
<1>1. Len(f) \in Nat /\ WS!WordStarts(f) \subseteq 1..Len(f)
  BY LenProperties DEF WS!WordStarts
<1>2. IsFiniteSet(1..Len(f))
  BY <1>1, FS_Interval
<1>3. IsFiniteSet(WS!WordStarts(f)) /\ Cardinality(WS!WordStarts(f)) \in Nat
  BY <1>1, <1>2, FS_Subset, FS_CardinalityType
<1>4. ASSUME NEW i PROVE IsFiniteSet(StartsBefore(f, i))
                         /\ Cardinality(StartsBefore(f, i)) \in Nat
                         /\ WS!Before(f, i) = Cardinality(StartsBefore(f, i))
  <2>1. StartsBefore(f, i) \in SUBSET WS!WordStarts(f)
    BY DEF StartsBefore
  <2>2. WS!Before(f, i) = Cardinality(StartsBefore(f, i))
    BY SameCount DEF StartsBefore, WS!Before
  <2> QED BY <1>3, <2>1, <2>2, FS_Subset, FS_CardinalityType
<1> QED BY <1>1, <1>3, <1>4

\* A place that starts no word adds none, one that starts a word adds one.
LEMMA BeforeNext ==
    ASSUME NEW f \in Seq(Nat), NEW s \in Nat, NEW e \in Nat, s <= e,
           \A j \in WS!WordStarts(f) : ~(s < j /\ j < e)
    PROVE  WS!Before(f, e) = IF s \in WS!WordStarts(f) /\ s < e
                             THEN WS!Before(f, s) + 1 ELSE WS!Before(f, s)
<1> USE StartsFinite
<1>1. CASE s \in WS!WordStarts(f) /\ s < e
  <2>1. StartsBefore(f, e) = StartsBefore(f, s) \cup {s} /\ s \notin StartsBefore(f, s)
    BY <1>1 DEF StartsBefore
  <2>2. Cardinality(StartsBefore(f, s) \cup {s}) = Cardinality(StartsBefore(f, s)) + 1
    BY <2>1, FS_AddElement
  <2> QED BY <1>1, <2>1, <2>2
<1>2. CASE ~(s \in WS!WordStarts(f) /\ s < e)
  <2>1. StartsBefore(f, e) = StartsBefore(f, s)
    BY <1>2 DEF StartsBefore
  <2> QED BY <1>2, <2>1
<1> QED BY <1>1, <1>2

LEMMA BeforeEnds ==
    ASSUME NEW f \in Seq(Nat)
    PROVE  WS!Before(f, 1) = 0 /\ WS!Before(f, Len(f) + 1) = Cardinality(WS!WordStarts(f))
<1>1. StartsBefore(f, 1) = {}
  BY StartsFinite DEF StartsBefore
<1>2. StartsBefore(f, Len(f) + 1) = WS!WordStarts(f)
  BY StartsFinite DEF StartsBefore
<1> QED BY <1>1, <1>2, StartsFinite, FS_EmptySet

\* Two words are not the same number of words away from the start.
LEMMA BeforeGrows ==
    ASSUME NEW f \in Seq(Nat), NEW s \in WS!WordStarts(f), NEW e \in Nat, s < e
    PROVE  WS!Before(f, s) + 1 <= WS!Before(f, e)
<1>1. /\ StartsBefore(f, s) \cup {s} \in SUBSET StartsBefore(f, e) /\ s \notin StartsBefore(f, s)
      /\ s \in Nat
  BY StartsFinite DEF StartsBefore
<1>2. Cardinality(StartsBefore(f, s) \cup {s}) = Cardinality(StartsBefore(f, s)) + 1
  BY <1>1, StartsFinite, FS_AddElement
<1>3. Cardinality(StartsBefore(f, s) \cup {s}) <= Cardinality(StartsBefore(f, e))
  BY <1>1, StartsFinite, FS_Subset
<1> QED BY <1>2, <1>3, StartsFinite

LEMMA WordsLength ==
    ASSUME NEW f \in Seq(Nat)
    PROVE  /\ Len(WS!Words(f)) = Cardinality(WS!WordStarts(f)) /\ Len(WS!Words(f)) \in Nat
           /\ DOMAIN WS!Words(f) = 1..Len(WS!Words(f))
           /\ WS!Words(f) = [n \in 1..Len(WS!Words(f)) |-> WS!Words(f)[n]]
<1> DEFINE w == WS!Words(f)
           n == Cardinality(WS!WordStarts(f))
           S == {w[k] : k \in 1..n}
<1>1. n \in Nat
  BY StartsFinite
<1>2. w \in [1..n -> S]
  <2> DEFINE nth(k) == LET i == CHOOSE i \in WS!WordStarts(f) : WS!Before(f, i) = k - 1
                        IN  SubSeq(f, i, WS!WordEnd(f, i))
  <2>1. w = [k \in 1..n |-> nth(k)]
    BY SameCount, Zenon DEF WS!Words
  <2> HIDE DEF nth, w, n
  <2>2. \A k \in 1..n : w[k] \in S
    BY DEF S
  <2> QED BY <2>1, <2>2
<1> HIDE DEF w, n, S
<1>3. w \in Seq(S)
  BY <1>1, <1>2, SeqDef
<1>4. Len(w) \in Nat /\ DOMAIN w = 1..Len(w) /\ w = [k \in 1..Len(w) |-> w[k]]
  BY <1>3, LenProperties
<1>5. Len(w) = n
  BY <1>1, <1>2, <1>4
<1> QED BY <1>4, <1>5 DEF w, n

\* A maximal run of letters is the word whose number its place gives.
LEMMA WordFound ==
    ASSUME NEW f \in Seq(Nat), NEW s \in WS!WordStarts(f), NEW e \in s..Len(f),
           \A k \in s..e : f[k] # Sep, e = Len(f) \/ f[e + 1] = Sep
    PROVE  /\ WS!Before(f, s) + 1 \in 1..Len(WS!Words(f))
           /\ WS!Words(f)[WS!Before(f, s) + 1] = SubSeq(f, s, e)
<1> DEFINE n == WS!Before(f, s) + 1
<1>1. s \in 1..Len(f) /\ Len(f) \in Nat /\ e \in Nat /\ WS!Before(f, s) \in Nat
  BY StartsFinite
<1>2. n \in 1..Len(WS!Words(f))
  <2>1. n <= WS!Before(f, Len(f) + 1)
    BY <1>1, BeforeGrows
  <2> QED BY <1>1, <2>1, BeforeEnds, WordsLength
<1>3. (CHOOSE i \in WS!WordStarts(f) : WS!Before(f, i) = n - 1) = s
  <2>1. WS!Before(f, s) = n - 1
    BY <1>1
  <2>2. ASSUME NEW i \in WS!WordStarts(f), WS!Before(f, i) = n - 1 PROVE i = s
    <3>1. i \in Nat /\ WS!Before(f, i) \in Nat
      BY StartsFinite
    <3>2. ~(i < s) /\ ~(s < i)
      BY <1>1, <2>1, <2>2, <3>1, BeforeGrows
    <3> QED BY <1>1, <3>1, <3>2
  <2> QED BY <2>1, <2>2, Zenon
<1>4. WS!WordEnd(f, s) = e
  <2> DEFINE Ends(j) == (\A k \in s..j : f[k] # WS!Sep) /\ (j = Len(f) \/ f[j + 1] = WS!Sep)
  <2>1. Ends(e)
    BY DEF WS!Sep, Sep
  <2>2. ASSUME NEW j \in s..Len(f), Ends(j) PROVE j = e
    <3>1. ~(j < e)
      BY <1>1, <2>2 DEF WS!Sep, Sep
    <3>2. ~(e < j)
      BY <1>1, <2>2 DEF WS!Sep, Sep
    <3> QED BY <1>1, <3>1, <3>2
  <2>3. WS!WordEnd(f, s) = CHOOSE j \in s..Len(f) : Ends(j)
    BY DEF WS!WordEnd
  <2> HIDE DEF Ends
  <2> QED BY <2>1, <2>2, <2>3
<1>5. WS!Words(f)[n] = SubSeq(f, s, WS!WordEnd(f, s))
  <2>1. n \in 1..Cardinality(WS!WordStarts(f))
    BY <1>2, WordsLength
  <2> HIDE DEF n
  <2> QED BY <1>3, <2>1, SameCount DEF WS!Words
<1> QED BY <1>2, <1>4, <1>5

-------------------------------------------------------------------------------
(* The words on their way                                                  *)

W == WS!Words(file)
R == Len(received)

\* The child has sent the first m words and is reading the next one, whose letters up
\* to pos are in word.
Scanned(m) ==
    LET s == pos - Len(word) IN
    /\ stage = "reading" /\ pos \in 1..(Len(file) + 1)
    /\ s \in 1..pos /\ (s = 1 \/ file[s - 1] = Sep)
    /\ \A t \in 1..Len(word) : word[t] = file[s + t - 1] /\ word[t] # Sep
    /\ WS!Before(file, s) = m

\* The word it sends is the n-th.
Announced(n) ==
    \/ /\ stage = "reading" /\ pos - 1 \in 1..Len(file) /\ file[pos - 1] = Sep
       /\ WS!Before(file, pos) = n
    \/ stage = "tail" /\ n = Len(W)

\* Of m words the length byte has been written, and that of the length-0 word (z = 1).
Scanner(m, z) ==
    /\ m \in 0..Len(W) /\ z \in {0, 1} /\ (z = 1 => m = Len(W))
    /\ cpc = "scan" => z = 0 /\ Scanned(m)
    /\ cpc = "wlen" => /\ z = 0
                       /\ IF stage = "sentinel" THEN m = Len(W) /\ out = <<>>
                          ELSE /\ m < Len(W) /\ out = W[m + 1] /\ Announced(m + 1)
                               /\ Len(out) \in 1..UINT8_MAX
    /\ cpc = "wword" => /\ z = 0 /\ m >= 1 /\ Announced(m) /\ Len(out) \in 1..Len(W[m])
                        /\ \A t \in 1..Len(out) : out[t] = W[m][Len(W[m]) - Len(out) + t]
    /\ cpc \in {"post", "wait"} => IF stage = "sentinel" THEN z = 1 ELSE z = 0 /\ Announced(m)

\* The parent is at the head of a word, or has some of its letters.
Reader(m, o) ==
    /\ ppc \in {"wait", "rlen", "post"} => o[R + 1] = 1
    /\ ppc = "rlen" => need = 1
    /\ ppc = "post" => buf # <<>>
    /\ ppc = "rword" => /\ R < m /\ o[R + 1] + Len(buf) = 0
                        /\ need = Len(W[R + 1]) - Len(buf) /\ need > 0
                        /\ \A t \in 1..Len(buf) : buf[t] = W[R + 1][t]

\* The j-th word, as far as it is in the pipe, has its length byte at o[j].
Frame(o, j) ==
    /\ W[j] \in Seq(Nat) /\ Len(W[j]) > 0
    /\ o[j + 1] = o[j] + 1 + Len(W[j])
    /\ o[j] \in 1..Len(pipe) => pipe[o[j]] = Len(W[j])
    /\ \A t \in 1..Len(W[j]) : o[j] + t \in 1..Len(pipe) => pipe[o[j] + t] = W[j][t]

Unsent == IF cpc = "wword" THEN Len(out) ELSE 0

\* The words the parent has not had follow each other in the pipe.
Layout(m, z, o) ==
    /\ o \in [1..(Len(W) + 1) -> Int] /\ R <= m
    /\ \A j \in (R + 1)..m : Frame(o, j)
    /\ \A i, j \in (R + 1)..(m + 1) : i < j => o[i] + 1 + Len(W[i]) <= o[j]
    /\ o[m + 1] + z = Len(pipe) + 1 + Unsent
    /\ z = 1 /\ o[m + 1] \in 1..Len(pipe) => pipe[o[m + 1]] = 0

Channel(m, z, o) == Scanner(m, z) /\ Reader(m, o) /\ Layout(m, z, o)

Reading == {"wait", "rlen", "rword", "post"}

\* The parent acknowledges each word before it waits for the next.
Answers == /\ ppc \in {"main", "wait"} => got = acked
           /\ ppc \in {"rlen", "rword", "post"} => got = acked + 1

\* What the run finds.
Begins == ppc = "main" => /\ received = <<>> /\ pos = 1 /\ word = <<>> /\ stage = "reading"
                          /\ pipe = <<>> /\ cpc = "none" /\ need = 0 /\ buf = <<>>

Prefix == R <= Len(W) /\ \A j \in 1..R : received[j] = W[j]

DataInv == /\ Prefix /\ Answers /\ Begins
           /\ ppc \in Reading => \E m, z, o : Channel(m, z, o)

LEMMA WFacts ==
    ASSUME TypeOK
    PROVE  /\ file \in Seq(Nat) /\ Len(file) \in Nat /\ Len(W) \in Nat
           /\ WS!Before(file, 1) = 0 /\ WS!Before(file, Len(file) + 1) = Len(W)
<1>1. file \in Seq(Nat)
  BY DEF TypeOK
<1> QED BY <1>1, LenProperties, WordsLength, BeforeEnds DEF W

LEMMA InitDataInv == Init => DataInv
<1> SUFFICES ASSUME Init PROVE DataInv
  OBVIOUS
<1>1. TypeOK
  BY InitTypeOK
<1>2. R = 0 /\ ppc = "main" /\ got = acked /\ Begins
  BY DEF Init, R, Begins
<1> QED BY <1>1, <1>2, WFacts DEF DataInv, Prefix, Answers, Reading

LEMMA MainChannel ==
    ASSUME TypeOK, DataInv, Main
    PROVE  \E m, z, o : Channel(m, z, o)'
<1> USE DEF childVars, parentVars, countVars
<1>1. /\ received' = <<>> /\ pos' = 1 /\ word' = <<>> /\ stage' = "reading" /\ pipe' = <<>>
      /\ cpc' = "scan" /\ ppc' = "wait" /\ file' = file
  BY DEF Main, DataInv, Begins
<1>2. W' = W /\ R' = 0
  BY <1>1 DEF W, R
<1> DEFINE o == [j \in 1..(Len(W) + 1) |-> 1]
<1>3. Len(W) \in Nat /\ Len(file) \in Nat /\ WS!Before(file, 1) = 0
  BY WFacts
<1>4. Scanner(0, 0)'
  <2>1. Scanned(0)'
    BY <1>1, <1>3 DEF Scanned
  <2> QED BY <1>1, <1>2, <1>3, <2>1 DEF Scanner
<1>5. Reader(0, o)'
  BY <1>1, <1>2, <1>3 DEF Reader
<1>6. Layout(0, 0, o)'
  BY <1>1, <1>2, <1>3 DEF Layout, Unsent
<1> HIDE DEF o
<1>7. Channel(0, 0, o)'
  BY <1>4, <1>5, <1>6 DEF Channel
<1> QED BY <1>7

\* A step that leaves the parent alone, and one that leaves the pipe alone.
LEMMA ReaderKept ==
    ASSUME NEW m, NEW o, Reader(m, o), UNCHANGED <<file, ppc, need, buf, received>>
    PROVE  Reader(m, o)'
<1>1. W' = W /\ R' = R
  BY DEF W, R
<1> QED BY <1>1 DEF Reader

LEMMA LayoutKept ==
    ASSUME NEW m, NEW z, NEW o, Layout(m, z, o), UNCHANGED <<file, received, pipe>>, Unsent' = Unsent
    PROVE  Layout(m, z, o)'
<1>1. W' = W /\ R' = R
  BY DEF W, R
<1>2. \A j : Frame(o, j)' <=> Frame(o, j)
  BY <1>1 DEF Frame
<1> QED BY <1>1, <1>2 DEF Layout

\* The letters read since the last separator are the next word.
LEMMA NextWord ==
    ASSUME TypeOK, WordFits, NEW m \in 0..Len(W), Scanned(m), Len(word) > 0,
           pos = Len(file) + 1 \/ file[pos] = Sep
    PROVE  /\ m < Len(W) /\ word = W[m + 1] /\ WS!Before(file, pos) = m + 1
           /\ Len(word) \in 1..UINT8_MAX
<1> DEFINE s == pos - Len(word)
           e == pos - 1
<1>1. file \in Seq(Nat) /\ Len(file) \in Nat /\ Len(W) \in Nat /\ word \in Seq(Nat)
      /\ Len(word) \in Nat /\ m \in Nat
  BY WFacts, LenProperties DEF TypeOK
<1>2. /\ pos \in 1..(Len(file) + 1) /\ s \in 1..pos /\ (s = 1 \/ file[s - 1] = Sep)
      /\ \A t \in 1..Len(word) : word[t] = file[s + t - 1] /\ word[t] # Sep
      /\ WS!Before(file, s) = m
  BY DEF Scanned
<1>3. s \in Nat /\ e \in s..Len(file) /\ e + 1 = pos /\ s \in 1..Len(file) /\ pos \in Nat
      /\ Len(word) = e - s + 1 /\ s < pos /\ e \in Nat
  <2>1. pos \in Nat
    BY DEF TypeOK
  <2> QED BY <1>1, <1>2, <2>1, SMTT(30)
<1> HIDE DEF s, e
<1>4. \A k \in s..e : file[k] # Sep /\ word[k - s + 1] = file[k]
  <2> SUFFICES ASSUME NEW k \in s..e PROVE file[k] # Sep /\ word[k - s + 1] = file[k]
    OBVIOUS
  <2>1. k - s + 1 \in 1..Len(word) /\ s + (k - s + 1) - 1 = k
    BY <1>1, <1>3
  <2> QED BY <1>2, <2>1
<1>5. DOMAIN file = 1..Len(file)
  BY <1>1, LenProperties
<1>6. s \in WS!WordStarts(file)
  <2>1. file[s] # Sep
    BY <1>3, <1>4
  <2> QED BY <1>2, <1>3, <1>5, <2>1 DEF WS!WordStarts, WS!Sep, Sep
<1>7. e = Len(file) \/ file[e + 1] = Sep
  <2>1. e = Len(file) \/ e # Len(file)
    OBVIOUS
  <2> QED BY <1>1, <1>3, <2>1, SMTT(30)
<1>8. m + 1 \in 1..Len(W) /\ W[m + 1] = SubSeq(file, s, e)
  BY <1>1, <1>2, <1>3, <1>4, <1>6, <1>7, WordFound DEF W
<1>9. word = SubSeq(file, s, e)
  <2>1. \A k \in s..e : file[k] \in Nat
    <3> SUFFICES ASSUME NEW k \in s..e PROVE file[k] \in Nat
      OBVIOUS
    <3>1. k \in 1..Len(file)
      BY <1>1, <1>3
    <3> QED BY <1>1, <3>1, ElementOfSeq
  <2>2. s \in Int /\ e \in Int
    BY <1>3
  <2>3. /\ SubSeq(file, s, e) \in Seq(Nat) /\ Len(SubSeq(file, s, e)) = e - s + 1
        /\ \A i \in 1..(e - s + 1) : SubSeq(file, s, e)[i] = file[s + i - 1]
    BY <1>3, <2>1, <2>2, SubSeqProperties
  <2>4. Len(word) = e - s + 1
    BY <1>3
  <2>5. \A i \in 1..Len(word) : word[i] = SubSeq(file, s, e)[i]
    BY <1>2, <2>3, <2>4
  <2> QED BY <1>1, <2>3, <2>4, <2>5, SeqEqual
<1>10. WS!Before(file, pos) = m + 1
  <2>1. \A j \in WS!WordStarts(file) : ~(s < j /\ j < pos)
    <3> SUFFICES ASSUME NEW j \in WS!WordStarts(file), s < j, j < pos PROVE FALSE
      OBVIOUS
    <3>1. j \in 1..Len(file) /\ (j = 1 \/ file[j - 1] = Sep)
      BY <1>5 DEF WS!WordStarts, WS!Sep, Sep
    <3>2. j - 1 \in s..e
      BY <1>2, <1>3, <3>1, SMTT(30)
    <3> QED BY <1>3, <1>4, <3>1, <3>2
  <2>2. s <= pos
    BY <1>3
  <2>3. WS!Before(file, pos) = IF s \in WS!WordStarts(file) /\ s < pos
                               THEN WS!Before(file, s) + 1 ELSE WS!Before(file, s)
    BY <1>1, <1>3, <2>1, <2>2, BeforeNext
  <2> QED BY <1>2, <1>3, <1>6, <2>3
<1>11. Len(word) \in 1..UINT8_MAX
  BY <1>1 DEF WordFits
<1> QED BY <1>1, <1>8, <1>9, <1>10, <1>11

LEMMA ScanChannel ==
    ASSUME TypeOK, WordFits, NEW m, NEW z, NEW o, Channel(m, z, o), child_process
    PROVE  Channel(m, z, o)'
<1> USE DEF childVars, parentVars, countVars, BeginSend
<1>1. /\ cpc = "scan" /\ UNCHANGED <<file, ppc, need, buf, received, pipe>>
  BY DEF child_process
<1>2. m \in 0..Len(W) /\ m \in Nat /\ z = 0 /\ Scanned(m) /\ Len(W) \in Nat /\ Len(file) \in Nat
      /\ WS!Before(file, Len(file) + 1) = Len(W) /\ word \in Seq(Nat) /\ Len(word) \in Nat
      /\ pos \in Nat /\ file \in Seq(Nat)
  BY <1>1, WFacts DEF Channel, Scanner, TypeOK
<1>3. W' = W
  BY <1>1 DEF W
<1>4. uint8_t(Len(word)) = Len(word)
  <2>1. Len(word) \in 0..UINT8_MAX
    BY <1>2 DEF WordFits
  <2> QED BY <2>1, ByteIsLength
<1>5. Reader(m, o)'
  BY <1>1, ReaderKept DEF Channel
<1>6. cpc' # "wword"
  BY <1>1 DEF child_process
<1>7. Layout(m, z, o)'
  <2>1. Unsent' = Unsent
    BY <1>1, <1>6 DEF Unsent
  <2> QED BY <1>1, <2>1, LayoutKept DEF Channel
<1>8. Scanner(m, z)'
  <2>1. CASE pos > Len(file) /\ Len(word) > 0
    <3>1. cpc' = "wlen" /\ stage' = "tail" /\ out' = word
      BY <1>2, <1>4, <2>1 DEF child_process
    <3>2. pos = Len(file) + 1
      <4>1. pos \in 1..(Len(file) + 1)
        BY <1>2 DEF Scanned
      <4> QED BY <1>2, <2>1, <4>1
    <3>3. m < Len(W) /\ word = W[m + 1] /\ WS!Before(file, pos) = m + 1
          /\ Len(word) \in 1..UINT8_MAX
      BY <1>2, <2>1, <3>2, NextWord
    <3>4. m + 1 = Len(W)
      BY <1>2, <3>2, <3>3
    <3>5. Announced(m + 1)'
      BY <1>3, <3>1, <3>4 DEF Announced
    <3> QED BY <1>2, <1>3, <3>1, <3>3, <3>5 DEF Scanner
  <2>2. CASE pos > Len(file) /\ Len(word) = 0
    <3>1. cpc' = "wlen" /\ stage' = "sentinel" /\ out' = <<>>
      BY <1>2, <1>4, <2>2 DEF child_process
    <3>2. m = Len(W)
      BY <1>2, <2>2 DEF Scanned
    <3> QED BY <1>2, <1>3, <3>1, <3>2 DEF Scanner
  <2>3. CASE pos <= Len(file) /\ file[pos] = Sep /\ Len(word) > 0
    <3>1. cpc' = "wlen" /\ stage' = "reading" /\ out' = word /\ pos' = pos + 1
      BY <1>2, <1>4, <2>3 DEF child_process
    <3>2. m < Len(W) /\ word = W[m + 1] /\ WS!Before(file, pos) = m + 1
          /\ Len(word) \in 1..UINT8_MAX
      BY <1>2, <2>3, NextWord
    <3>3. pos \in 1..Len(file)
      BY <1>2, <2>3 DEF Scanned
    <3>4. WS!Before(file, pos + 1) = m + 1
      <4>1. pos \notin WS!WordStarts(file) /\ pos + 1 \in Nat
            /\ \A j \in WS!WordStarts(file) : ~(pos < j /\ j < pos + 1)
        BY <1>2, <2>3, StartsFinite DEF WS!WordStarts, WS!Sep, Sep
      <4> QED BY <1>2, <3>2, <4>1, BeforeNext
    <3>5. Announced(m + 1)'
      BY <1>1, <1>2, <2>3, <3>1, <3>3, <3>4 DEF Announced
    <3> QED BY <1>2, <1>3, <3>1, <3>2, <3>5 DEF Scanner
  <2>4. CASE pos <= Len(file) /\ file[pos] = Sep /\ Len(word) = 0
    <3>1. cpc' = "scan" /\ stage' = stage /\ word' = word /\ pos' = pos + 1
      BY <1>1, <1>2, <1>4, <2>4 DEF child_process
    <3>2. pos \in 1..Len(file) /\ stage = "reading" /\ WS!Before(file, pos) = m
      BY <1>2, <2>4 DEF Scanned
    <3>3. WS!Before(file, pos + 1) = m
      <4>1. pos \notin WS!WordStarts(file) /\ pos + 1 \in Nat
            /\ \A j \in WS!WordStarts(file) : ~(pos < j /\ j < pos + 1)
        BY <1>2, <2>4, StartsFinite DEF WS!WordStarts, WS!Sep, Sep
      <4> QED BY <1>2, <3>2, <4>1, BeforeNext
    <3>4. Scanned(m)'
      BY <1>1, <1>2, <2>4, <3>1, <3>2, <3>3 DEF Scanned
    <3> QED BY <1>2, <1>3, <3>1, <3>4 DEF Scanner
  <2>5. CASE pos <= Len(file) /\ file[pos] # Sep /\ cpc' = "failed"
    BY <1>2, <1>3, <2>5 DEF Scanner
  <2>6. CASE pos <= Len(file) /\ file[pos] # Sep /\ cpc' # "failed"
    <3>1. cpc' = "scan" /\ stage' = stage /\ word' = Append(word, file[pos]) /\ pos' = pos + 1
      BY <1>1, <1>2, <2>6 DEF child_process
    <3>2. pos \in 1..Len(file)
      BY <1>2, <2>6 DEF Scanned
    <3>3. Len(word') = Len(word) + 1 /\ word'[Len(word) + 1] = file[pos]
          /\ \A t \in 1..Len(word) : word'[t] = word[t]
      BY <1>2, <3>1, <3>2, ElementOfSeq
    <3>4. pos' - Len(word') = pos - Len(word)
      BY <1>2, <3>1, <3>3
    <3>5. \A t \in 1..Len(word') : word'[t] = file[(pos - Len(word)) + t - 1] /\ word'[t] # Sep
      <4> SUFFICES ASSUME NEW t \in 1..Len(word')
                   PROVE  word'[t] = file[(pos - Len(word)) + t - 1] /\ word'[t] # Sep
        OBVIOUS
      <4>1. CASE t = Len(word) + 1
        <5>1. (pos - Len(word)) + t - 1 = pos
          BY <1>2, <4>1
        <5> QED BY <2>6, <3>3, <4>1, <5>1
      <4>2. CASE t \in 1..Len(word)
        BY <1>2, <3>3, <4>2 DEF Scanned
      <4> QED BY <1>2, <3>3, <4>1, <4>2
    <3>6. Scanned(m)'
      <4> DEFINE s == pos - Len(word)
      <4>1. s \in 1..pos /\ (s = 1 \/ file[s - 1] = Sep) /\ WS!Before(file, s) = m
            /\ stage = "reading"
        BY <1>2 DEF Scanned
      <4>2. pos' - Len(word') = s /\ s \in 1..pos' /\ pos' \in 1..(Len(file) + 1)
        BY <1>2, <3>1, <3>2, <3>4, <4>1
      <4> HIDE DEF s
      <4>3. \A t \in 1..Len(word') : word'[t] = file[s + t - 1] /\ word'[t] # Sep
        BY <3>5 DEF s
      <4> QED BY <1>1, <3>1, <4>1, <4>2, <4>3 DEF Scanned
    <3> QED BY <1>2, <1>3, <3>1, <3>6 DEF Scanner
  <2> QED BY <1>2, <2>1, <2>2, <2>3, <2>4, <2>5, <2>6
<1> QED BY <1>5, <1>7, <1>8 DEF Channel

\* Bytes added at the end of the pipe do not touch a word that is in it.
LEMMA FrameKept ==
    ASSUME NEW o, NEW j, Frame(o, j), o[j] \in Int, pipe \in Seq(Nat), pipe' \in Seq(Nat),
           o[j] + Len(W[j]) <= Len(pipe), \A i \in 1..Len(pipe) : pipe'[i] = pipe[i],
           UNCHANGED file
    PROVE  Frame(o, j)'
<1>1. W' = W
  BY DEF W
<1>2. Len(W[j]) \in Nat /\ Len(pipe) \in Nat /\ Len(pipe') \in Nat
  BY DEF Frame
<1>3. ASSUME o[j] \in 1..Len(pipe') PROVE pipe'[o[j]] = Len(W[j])
  <2>1. o[j] \in 1..Len(pipe)
    BY <1>2, <1>3
  <2> QED BY <2>1 DEF Frame
<1>4. ASSUME NEW t \in 1..Len(W[j]), o[j] + t \in 1..Len(pipe') PROVE pipe'[o[j] + t] = W[j][t]
  <2>1. o[j] + t \in 1..Len(pipe)
    BY <1>2, <1>4
  <2> QED BY <2>1 DEF Frame
<1> QED BY <1>1, <1>3, <1>4 DEF Frame

\* The part of Layout that no byte of the pipe changes, with its types.
LEMMA LayoutTypes ==
    ASSUME TypeOK, NEW m, NEW z, NEW o, Channel(m, z, o)
    PROVE  /\ Len(W) \in Nat /\ m \in Nat /\ m <= Len(W) /\ R \in Nat /\ R <= m /\ z \in {0, 1}
           /\ pipe \in Seq(Nat) /\ Len(pipe) \in Nat /\ out \in Seq(Nat) /\ Len(out) \in Nat
           /\ buf \in Seq(Nat) /\ Len(buf) \in Nat /\ need \in Nat /\ Unsent \in Nat
           /\ \A j \in 1..(Len(W) + 1) : o[j] \in Int
           /\ \A j \in (R + 1)..m : W[j] \in Seq(Nat) /\ Len(W[j]) \in Nat
<1>1. Len(W) \in Nat /\ m \in 0..Len(W) /\ z \in {0, 1}
  BY WFacts DEF Channel, Scanner
<1>2. received \in Seq(Seq(Nat)) /\ R \in Nat /\ R <= m
  BY DEF TypeOK, R, Channel, Layout
<1>3. /\ pipe \in Seq(Nat) /\ Len(pipe) \in Nat /\ out \in Seq(Nat) /\ Len(out) \in Nat
      /\ buf \in Seq(Nat) /\ Len(buf) \in Nat /\ need \in Nat
  BY DEF TypeOK
<1>4. \A j \in 1..(Len(W) + 1) : o[j] \in Int
  BY DEF Channel, Layout
<1>5. \A j \in (R + 1)..m : W[j] \in Seq(Nat) /\ Len(W[j]) \in Nat
  BY DEF Channel, Layout, Frame
<1> QED BY <1>1, <1>2, <1>3, <1>4, <1>5 DEF Unsent

LEMMA WriteLastChannel ==
    ASSUME TypeOK, NEW m, NEW z, NEW o, Channel(m, z, o), WriteLength, stage = "sentinel"
    PROVE  Channel(m, 1, o)'
<1> USE DEF childVars, parentVars, countVars
<1>1. /\ cpc = "wlen" /\ z = 0 /\ m = Len(W) /\ out = <<>>
      /\ UNCHANGED <<file, ppc, need, buf, received, stage, out>>
  BY DEF WriteLength, Channel, Scanner
<1>2. uint8_t(Len(out)) = 0
  BY <1>1, ByteIsLength
<1>3. pipe' = Append(pipe, 0) /\ cpc' = "post"
  BY <1>2 DEF WriteLength
<1>4. W' = W /\ R' = R
  BY <1>1 DEF W, R
<1>5. /\ Len(W) \in Nat /\ R \in Nat /\ R <= m /\ pipe \in Seq(Nat) /\ Len(pipe) \in Nat /\ m \in Nat
      /\ \A j \in 1..(Len(W) + 1) : o[j] \in Int
      /\ \A j \in (R + 1)..m : W[j] \in Seq(Nat) /\ Len(W[j]) \in Nat
  BY LayoutTypes
<1>6. /\ pipe' \in Seq(Nat) /\ Len(pipe') = Len(pipe) + 1 /\ pipe'[Len(pipe) + 1] = 0
      /\ \A i \in 1..Len(pipe) : pipe'[i] = pipe[i]
  BY <1>3, <1>5, AppendProperties
<1>7. Scanner(m, 1)'
  BY <1>1, <1>3, <1>4, <1>5 DEF Scanner
<1>8. Reader(m, o)'
  BY <1>1, ReaderKept DEF Channel
<1>9. o[m + 1] = Len(pipe) + 1 /\ o \in [1..(Len(W) + 1) -> Int]
      /\ \A i, j \in (R + 1)..(m + 1) : i < j => o[i] + 1 + Len(W[i]) <= o[j]
  BY <1>1, <1>5 DEF Channel, Layout, Unsent
<1>10. ASSUME NEW j \in (R + 1)..m PROVE Frame(o, j)'
  <2>1. Frame(o, j) /\ o[j] \in Int /\ Len(W[j]) \in Nat
    BY <1>1, <1>5 DEF Channel, Layout
  <2>2. o[j] + 1 + Len(W[j]) <= o[m + 1] /\ o[m + 1] = Len(pipe) + 1
    <3>1. j \in (R + 1)..(m + 1) /\ m + 1 \in (R + 1)..(m + 1) /\ j < m + 1
      BY <1>5
    <3> QED BY <1>9, <3>1
  <2>3. o[j] + Len(W[j]) <= Len(pipe)
    BY <1>5, <2>1, <2>2
  <2> QED BY <1>1, <1>5, <1>6, <2>1, <2>3, FrameKept
<1>11. Unsent' = 0
  BY <1>3 DEF Unsent
<1>12. Layout(m, 1, o)'
  BY <1>4, <1>5, <1>6, <1>9, <1>10, <1>11 DEF Layout
<1> QED BY <1>7, <1>8, <1>12 DEF Channel

LEMMA WriteWordChannel ==
    ASSUME TypeOK, NEW m, NEW z, NEW o, Channel(m, z, o), WriteLength, stage # "sentinel",
           NEW p, p = [o EXCEPT ![m + 2] = o[m + 1] + 1 + Len(W[m + 1])]
    PROVE  Channel(m + 1, 0, p)'
<1> USE DEF childVars, parentVars, countVars
<1>1. /\ cpc = "wlen" /\ z = 0 /\ m < Len(W) /\ out = W[m + 1] /\ Announced(m + 1)
      /\ Len(out) \in 1..UINT8_MAX
      /\ UNCHANGED <<file, ppc, need, buf, received, stage, pos, out>>
  BY DEF WriteLength, Channel, Scanner
<1>2. uint8_t(Len(out)) = Len(out)
  BY <1>1, ByteIsLength
<1>4. W' = W /\ R' = R
  BY <1>1 DEF W, R
<1>5. /\ Len(W) \in Nat /\ R \in Nat /\ R <= m /\ pipe \in Seq(Nat) /\ Len(pipe) \in Nat /\ m \in Nat
      /\ out \in Seq(Nat) /\ Len(out) \in Nat
      /\ \A j \in 1..(Len(W) + 1) : o[j] \in Int
      /\ \A j \in (R + 1)..m : W[j] \in Seq(Nat) /\ Len(W[j]) \in Nat
  BY LayoutTypes
<1>3. pipe' = Append(pipe, Len(out)) /\ cpc' = "wword"
  BY <1>1, <1>2 DEF WriteLength
<1>6. /\ pipe' \in Seq(Nat) /\ Len(pipe') = Len(pipe) + 1 /\ pipe'[Len(pipe) + 1] = Len(out)
      /\ \A i \in 1..Len(pipe) : pipe'[i] = pipe[i]
  BY <1>3, <1>5, AppendProperties
<1>9. o[m + 1] = Len(pipe) + 1 /\ o \in [1..(Len(W) + 1) -> Int]
      /\ \A i, j \in (R + 1)..(m + 1) : i < j => o[i] + 1 + Len(W[i]) <= o[j]
  <2>1. m + 1 \in 1..(Len(W) + 1) /\ o[m + 1] \in Int
    BY <1>1, <1>5
  <2>2. o[m + 1] + 0 = Len(pipe) + 1 + 0
    BY <1>1 DEF Channel, Layout, Unsent
  <2>3. o[m + 1] = Len(pipe) + 1
    BY <1>5, <2>1, <2>2
  <2> QED BY <2>3 DEF Channel, Layout
<1>13. /\ p \in [1..(Len(W) + 1) -> Int] /\ p[m + 2] = Len(pipe) + 2 + Len(out)
       /\ \A j \in 1..(m + 1) : p[j] = o[j]
  <2>1. m + 2 \in 1..(Len(W) + 1) /\ \A j \in 1..(m + 1) : j # m + 2 /\ j \in 1..(Len(W) + 1)
    BY <1>1, <1>5
  <2>2. o[m + 1] + 1 + Len(W[m + 1]) = Len(pipe) + 2 + Len(out) /\ Len(pipe) + 2 + Len(out) \in Int
    BY <1>1, <1>5, <1>9
  <2>3. p = [o EXCEPT ![m + 2] = Len(pipe) + 2 + Len(out)]
    BY <2>2
  <2> QED BY <1>9, <2>1, <2>2, <2>3
<1>7. Scanner(m + 1, 0)'
  <2>1. Announced(m + 1)'
    BY <1>1, <1>4 DEF Announced
  <2>2. Len(W[m + 1]) - Len(out) = 0 /\ \A t \in 1..Len(out) : 0 + t = t
    BY <1>1, <1>5
  <2>3. \A t \in 1..Len(out) : out[t] = W[m + 1][Len(W[m + 1]) - Len(out) + t]
    BY <1>1, <2>2
  <2> QED BY <1>1, <1>3, <1>4, <1>5, <2>1, <2>3 DEF Scanner
<1>8. Reader(m + 1, p)'
  <2>1. p[R + 1] = o[R + 1] /\ (R < m => R < m + 1)
    BY <1>5, <1>13
  <2> QED BY <1>1, <1>4, <2>1 DEF Reader, Channel
<1>10. ASSUME NEW j \in (R + 1)..m PROVE Frame(p, j)'
  <2>1. Frame(o, j) /\ o[j] \in Int /\ Len(W[j]) \in Nat
    BY <1>1, <1>5, SMTT(30) DEF Channel, Layout
  <2>2. o[j] + 1 + Len(W[j]) <= o[m + 1] /\ o[m + 1] = Len(pipe) + 1
    <3>1. j \in (R + 1)..(m + 1) /\ m + 1 \in (R + 1)..(m + 1) /\ j < m + 1
      BY <1>5
    <3> QED BY <1>9, <3>1
  <2>3. o[j] + Len(W[j]) <= Len(pipe)
    BY <1>5, <2>1, <2>2
  <2>4. Frame(o, j)'
    BY <1>1, <1>5, <1>6, <2>1, <2>3, FrameKept
  <2>5. p[j] = o[j] /\ p[j + 1] = o[j + 1]
    BY <1>5, <1>13
  <2> QED BY <2>4, <2>5 DEF Frame
<1>11. Frame(p, m + 1)'
  <2>1. p[m + 1] = Len(pipe) + 1 /\ p[m + 2] = p[m + 1] + 1 + Len(W[m + 1]) /\ m + 1 + 1 = m + 2
    <3>1. m + 1 \in 1..(m + 1)
      BY <1>5
    <3>2. p[m + 1] = Len(pipe) + 1 /\ p[m + 2] = Len(pipe) + 2 + Len(out)
          /\ Len(W[m + 1]) = Len(out)
      BY <1>1, <1>9, <1>13, <3>1
    <3>3. Len(pipe) + 2 + Len(out) = (Len(pipe) + 1) + 1 + Len(out) /\ m + 1 + 1 = m + 2
      BY <1>5
    <3> QED BY <3>2, <3>3
  <2>2. pipe'[p[m + 1]] = Len(W[m + 1])
    BY <1>1, <1>6, <2>1
  <2>3. \A t \in 1..Len(W[m + 1]) : ~(p[m + 1] + t \in 1..Len(pipe'))
    BY <1>5, <1>6, <2>1
  <2> QED BY <1>1, <1>4, <1>5, <2>1, <2>2, <2>3 DEF Frame
<1>12. Layout(m + 1, 0, p)'
  <2>1. \A j \in (R + 1)..(m + 1) : Frame(p, j)'
    <3>1. \A j \in (R + 1)..(m + 1) : j \in (R + 1)..m \/ j = m + 1
      BY <1>5
    <3> QED BY <1>10, <1>11, <3>1, Zenon
  <2>2. ASSUME NEW i \in (R + 1)..(m + 2), NEW j \in (R + 1)..(m + 2), i < j
        PROVE  p[i] + 1 + Len(W[i]) <= p[j]
    <3>1. CASE j <= m + 1
      <4>1. i \in (R + 1)..(m + 1) /\ j \in (R + 1)..(m + 1) /\ i \in 1..(m + 1) /\ j \in 1..(m + 1)
        BY <1>5, <2>2, <3>1
      <4> QED BY <1>9, <1>13, <2>2, <4>1
    <3>2. CASE j = m + 2 /\ i = m + 1
      <4>1. i \in 1..(m + 1)
        BY <1>5, <3>2
      <4>2. p[i] = Len(pipe) + 1 /\ Len(W[i]) = Len(out) /\ p[j] = Len(pipe) + 2 + Len(out)
        BY <1>1, <1>9, <1>13, <3>2, <4>1
      <4> QED BY <1>5, <4>2
    <3>3. CASE j = m + 2 /\ i <= m
      <4>1. i \in (R + 1)..m /\ i \in (R + 1)..(m + 1) /\ i \in 1..(m + 1) /\ i < m + 1
            /\ m + 1 \in (R + 1)..(m + 1) /\ i \in 1..(Len(W) + 1)
        BY <1>1, <1>5, <3>3
      <4>2. o[i] + 1 + Len(W[i]) <= o[m + 1] /\ o[i] \in Int /\ Len(W[i]) \in Nat /\ p[i] = o[i]
        BY <1>5, <1>9, <1>13, <4>1
      <4>3. p[j] = Len(pipe) + 2 + Len(out) /\ o[m + 1] = Len(pipe) + 1
        BY <1>9, <1>13, <3>3
      <4>4. p[i] + 1 + Len(W[i]) <= Len(pipe) + 1 /\ p[i] \in Int
        BY <4>2, <4>3
      <4>5. p[i] + 1 + Len(W[i]) \in Int /\ Len(pipe) \in Nat /\ Len(out) \in Nat
        BY <1>5, <4>2, <4>4, SMTT(30)
      <4>6. p[i] + 1 + Len(W[i]) <= Len(pipe) + 2 + Len(out)
        BY <4>4, <4>5
      <4> QED BY <4>3, <4>6
    <3>4. j <= m + 1 \/ (j = m + 2 /\ i = m + 1) \/ (j = m + 2 /\ i <= m)
      BY <1>5, <2>2
    <3> QED BY <3>1, <3>2, <3>3, <3>4
  <2>3. Unsent' = Len(out)
    BY <1>1, <1>3 DEF Unsent
  <2>4. p[m + 2] + 0 = Len(pipe') + 1 + Unsent' /\ m + 1 + 1 = m + 2 /\ R <= m + 1
    BY <1>5, <1>6, <1>13, <2>3
  <2>5. \A i, j \in (R + 1)..(m + 1 + 1) : i < j => p[i] + 1 + Len(W[i]) <= p[j]
    BY <2>2, <2>4
  <2>6. p[m + 1 + 1] + 0 = Len(pipe') + 1 + Unsent'
    BY <2>4
  <2>7. ~(0 = 1)
    OBVIOUS
  <2> QED BY <1>4, <1>13, <2>1, <2>4, <2>5, <2>6, <2>7, Zenon DEF Layout
<1> QED BY <1>7, <1>8, <1>12 DEF Channel

\* What a partial transfer takes, what it leaves, and what two sequences make.
LEMMA TakenBytes ==
    ASSUME NEW s \in Seq(Nat), NEW k \in 1..Len(s)
    PROVE  /\ SubSeq(s, 1, k) \in Seq(Nat) /\ Len(SubSeq(s, 1, k)) = k
           /\ \A i \in 1..k : SubSeq(s, 1, k)[i] = s[i]
<1>1. \A i \in 1..k : s[i] \in Nat
  OBVIOUS
<1>2. 1 \in Int /\ k \in Int /\ k - 1 + 1 = k /\ \A i \in 1..k : 1 + i - 1 = i
  OBVIOUS
<1> QED BY <1>1, <1>2, SplitType, SplitLengths, SubSeqProperties

LEMMA LeftBytes ==
    ASSUME NEW s \in Seq(Nat), NEW k \in 1..Len(s)
    PROVE  /\ SubSeq(s, k + 1, Len(s)) \in Seq(Nat) /\ Len(SubSeq(s, k + 1, Len(s))) = Len(s) - k
           /\ \A i \in 1..(Len(s) - k) : SubSeq(s, k + 1, Len(s))[i] = s[k + i]
<1>1. \A i \in (k + 1)..Len(s) : s[i] \in Nat
  OBVIOUS
<1>2. /\ k + 1 \in Int /\ Len(s) \in Int /\ Len(s) - (k + 1) + 1 = Len(s) - k
      /\ \A i \in 1..(Len(s) - k) : (k + 1) + i - 1 = k + i
  OBVIOUS
<1>3. \A i \in 1..(Len(s) - (k + 1) + 1) : SubSeq(s, k + 1, Len(s))[i] = s[(k + 1) + i - 1]
  BY <1>1, <1>2, SubSeqProperties
<1> QED BY <1>2, <1>3, SplitType, SplitLengths

LEMMA JoinedBytes ==
    ASSUME NEW s \in Seq(Nat), NEW u \in Seq(Nat)
    PROVE  /\ s \o u \in Seq(Nat) /\ Len(s \o u) = Len(s) + Len(u)
           /\ \A i \in 1..Len(s) : (s \o u)[i] = s[i]
           /\ \A i \in 1..Len(u) : (s \o u)[Len(s) + i] = u[i]
  OBVIOUS

LEMMA WriteFullyChannel ==
    ASSUME TypeOK, NEW m, NEW z, NEW o, Channel(m, z, o), write_fully
    PROVE  Channel(m, z, o)'
<1> USE DEF childVars, parentVars, countVars
<1>1. /\ cpc = "wword" /\ z = 0 /\ m >= 1 /\ Announced(m) /\ Len(out) \in 1..Len(W[m])
      /\ \A t \in 1..Len(out) : out[t] = W[m][Len(W[m]) - Len(out) + t]
      /\ UNCHANGED <<file, ppc, need, buf, received, stage, pos>>
  BY DEF write_fully, Channel, Scanner
<1>2. PICK k \in 1..Len(out) : /\ pipe' = pipe \o SubSeq(out, 1, k)
                               /\ out' = SubSeq(out, k + 1, Len(out))
                               /\ cpc' = IF k = Len(out) THEN "post" ELSE "wword"
  BY DEF write_fully
<1>3. W' = W /\ R' = R
  BY <1>1 DEF W, R
<1>4. /\ Len(W) \in Nat /\ R \in Nat /\ R <= m /\ pipe \in Seq(Nat) /\ Len(pipe) \in Nat /\ m \in Nat
      /\ out \in Seq(Nat) /\ Len(out) \in Nat /\ m <= Len(W)
      /\ \A j \in 1..(Len(W) + 1) : o[j] \in Int
      /\ \A j \in (R + 1)..m : W[j] \in Seq(Nat) /\ Len(W[j]) \in Nat
  BY LayoutTypes
<1>5. k \in Nat /\ k <= Len(out) /\ k >= 1
  BY <1>4
<1>6. /\ SubSeq(out, 1, k) \in Seq(Nat) /\ Len(SubSeq(out, 1, k)) = k
      /\ \A i \in 1..k : SubSeq(out, 1, k)[i] = out[i]
  BY <1>4, TakenBytes
<1>7. /\ pipe' \in Seq(Nat) /\ Len(pipe') = Len(pipe) + k
      /\ \A i \in 1..Len(pipe) : pipe'[i] = pipe[i]
      /\ \A i \in 1..k : pipe'[Len(pipe) + i] = out[i]
  BY <1>2, <1>4, <1>6, JoinedBytes
<1>8. /\ out' \in Seq(Nat) /\ Len(out') = Len(out) - k
      /\ \A t \in 1..Len(out') : out'[t] = out[k + t]
  BY <1>2, <1>4, LeftBytes
<1>9. Reader(m, o)'
  BY <1>1, ReaderKept DEF Channel
<1>10. Scanner(m, z)'
  <2>1. Announced(m)' /\ stage' # "sentinel"
    BY <1>1, <1>3 DEF Announced
  <2>2. CASE k = Len(out)
    BY <1>1, <1>2, <1>3, <1>4, <2>1, <2>2 DEF Scanner
  <2>3. CASE k # Len(out)
    <3>1. cpc' = "wword"
      BY <1>2, <2>3
    <3>2. Len(W[m]) \in Int
      BY <1>1, <1>4
    <3>3. Len(out') \in 1..Len(W[m])
      BY <1>1, <1>4, <1>5, <1>8, <2>3, SMTT(30)
    <3>4. ASSUME NEW t \in 1..Len(out') PROVE out'[t] = W[m][Len(W[m]) - Len(out') + t]
      <4>1. k + t \in 1..Len(out)
        BY <1>4, <1>5, <1>8, SMTT(30)
      <4>2. out'[t] = W[m][Len(W[m]) - Len(out) + (k + t)]
        BY <1>1, <1>8, <4>1
      <4>3. Len(W[m]) - Len(out) + (k + t) = Len(W[m]) - Len(out') + t
        <5>1. Len(out') = Len(out) - k /\ Len(out) \in Int /\ k \in Int /\ t \in Int
          BY <1>4, <1>5, <1>8
        <5>2. PICK a, b, c : a = Len(W[m]) /\ b = Len(out) /\ c = Len(out')
          OBVIOUS
        <5>3. a \in Int /\ b \in Int /\ c = b - k
          BY <3>2, <5>1, <5>2
        <5>4. a - b + (k + t) = a - c + t
          BY <5>1, <5>3
        <5> QED BY <5>2, <5>4
      <4> QED BY <4>2, <4>3
    <3> QED BY <1>1, <1>3, <1>4, <2>1, <3>1, <3>3, <3>4 DEF Scanner
  <2> QED BY <2>2, <2>3
<1>11. Unsent = Len(out) /\ Unsent' = Len(out) - k
  BY <1>1, <1>2, <1>4, <1>5, <1>8 DEF Unsent
<1>12. /\ o[m + 1] = Len(pipe) + 1 + Len(out) /\ o \in [1..(Len(W) + 1) -> Int]
       /\ \A i, j \in (R + 1)..(m + 1) : i < j => o[i] + 1 + Len(W[i]) <= o[j]
  <2>1. m + 1 \in 1..(Len(W) + 1) /\ o[m + 1] \in Int
    BY <1>4
  <2>2. o[m + 1] + 0 = Len(pipe) + 1 + Len(out)
    BY <1>1, <1>11 DEF Channel, Layout
  <2>3. o[m + 1] = Len(pipe) + 1 + Len(out)
    BY <1>4, <2>1, <2>2
  <2> QED BY <2>3 DEF Channel, Layout
<1>13. ASSUME NEW j \in (R + 1)..m PROVE Frame(o, j)'
  <2>1. Frame(o, j) /\ o[j] \in Int /\ W[j] \in Seq(Nat) /\ Len(W[j]) \in Nat /\ j \in Nat
    <3>1. j \in 1..(Len(W) + 1) /\ j \in Nat
      BY <1>4
    <3> QED BY <1>4, <3>1 DEF Channel, Layout
  <2>2. R < m /\ m \in (R + 1)..m /\ m \in 1..(Len(W) + 1)
    BY <1>4, <2>1
  <2>3. o[m] \in Int /\ Len(W[m]) \in Nat /\ W[m] \in Seq(Nat) /\ o[m + 1] = o[m] + 1 + Len(W[m])
        /\ Frame(o, m)
    BY <1>4, <2>2 DEF Channel, Layout, Frame
  <2>4. o[m] = Len(pipe) + Len(out) - Len(W[m]) /\ o[m] <= Len(pipe)
    <3>1. o[m] + 1 + Len(W[m]) = Len(pipe) + 1 + Len(out) /\ Len(out) <= Len(W[m])
          /\ Len(pipe) \in Nat /\ Len(out) \in Nat /\ o[m] \in Int /\ Len(W[m]) \in Nat
      BY <1>1, <1>4, <1>12, <2>3
    <3>2. \A a \in Int : \A b, c, d \in Nat :
              a + 1 + b = c + 1 + d /\ d <= b => a = c + d - b /\ a <= c
      OBVIOUS
    <3> QED BY <3>1, <3>2, Zenon
  <2>5. CASE j < m
    <3>1. j \in (R + 1)..(m + 1) /\ m \in (R + 1)..(m + 1)
      BY <1>4, <2>1, <2>2
    <3>2. o[j] + 1 + Len(W[j]) <= o[m]
      BY <1>12, <2>5, <3>1
    <3>3. o[j] + Len(W[j]) <= Len(pipe)
      <4>1. o[j] \in Int /\ Len(W[j]) \in Nat /\ o[m] \in Int /\ o[m] <= Len(pipe)
            /\ Len(pipe) \in Nat
        BY <1>4, <2>1, <2>3, <2>4
      <4> QED BY <3>2, <4>1
    <3> QED BY <1>1, <1>4, <1>7, <2>1, <3>3, FrameKept
  <2>6. CASE j = m
    <3>1. ASSUME o[m] \in 1..Len(pipe') PROVE pipe'[o[m]] = Len(W[m])
      <4>1. o[m] \in 1..Len(pipe)
        BY <1>4, <2>3, <2>4, <3>1
      <4> QED BY <1>7, <2>3, <4>1 DEF Frame
    <3>2. ASSUME NEW t \in 1..Len(W[m]), o[m] + t \in 1..Len(pipe')
          PROVE  pipe'[o[m] + t] = W[m][t]
      <4>1. CASE o[m] + t <= Len(pipe)
        <5>1. o[m] + t \in 1..Len(pipe)
          BY <1>4, <2>3, <3>2, <4>1
        <5> QED BY <1>7, <2>3, <5>1 DEF Frame
      <4>2. CASE ~(o[m] + t <= Len(pipe))
        <5> DEFINE i == o[m] + t - Len(pipe)
        <5>1. i \in 1..k /\ i \in 1..Len(out) /\ Len(pipe) + i = o[m] + t
              /\ Len(W[m]) - Len(out) + i = t
          <6>1. /\ o[m] = Len(pipe) + Len(out) - Len(W[m]) /\ o[m] \in Int /\ t \in Nat
                /\ Len(pipe) \in Nat /\ Len(out) \in Nat /\ Len(W[m]) \in Nat /\ k \in Nat
                /\ t <= Len(W[m]) /\ o[m] + t <= Len(pipe) + k /\ k <= Len(out)
                /\ ~(o[m] + t <= Len(pipe))
            <7>1. t \in Nat /\ t <= Len(W[m])
              BY <2>3
            <7>2. o[m] + t <= Len(pipe) + k
              BY <1>7, <3>2
            <7> QED BY <1>4, <1>5, <2>3, <2>4, <4>2, <7>1, <7>2, Zenon
          <6>2. PICK a, b, c, d : a = o[m] /\ b = Len(pipe) /\ c = Len(out) /\ d = Len(W[m])
            OBVIOUS
          <6>3. /\ a = b + c - d /\ a \in Int /\ t \in Nat /\ b \in Nat /\ c \in Nat /\ d \in Nat
                /\ k \in Nat /\ t <= d /\ a + t <= b + k /\ k <= c /\ ~(a + t <= b)
            BY <6>1, <6>2
          <6>4. a + t - b \in 1..k /\ a + t - b \in 1..c /\ b + (a + t - b) = a + t
                /\ d - c + (a + t - b) = t
            BY <6>3
          <6> QED BY <6>2, <6>4
        <5> HIDE DEF i
        <5>2. pipe'[Len(pipe) + i] = out[i] /\ out[i] = W[m][Len(W[m]) - Len(out) + i]
          BY <1>1, <1>7, <5>1
        <5> QED BY <5>1, <5>2
      <4> QED BY <4>1, <4>2
    <3>3. Frame(o, m)'
      BY <1>3, <2>3, <3>1, <3>2 DEF Frame
    <3> QED BY <2>6, <3>3
  <2> QED BY <1>4, <2>1, <2>5, <2>6
<1>14. Layout(m, z, o)'
  <2>1. o[m + 1] + 0 = Len(pipe') + 1 + Unsent'
    BY <1>4, <1>5, <1>7, <1>11, <1>12
  <2>2. ~(0 = 1)
    OBVIOUS
  <2> QED BY <1>1, <1>3, <1>4, <1>12, <1>13, <2>1, <2>2, Zenon DEF Layout
<1> QED BY <1>9, <1>10, <1>14 DEF Channel

\* The child's semaphore calls, and its way out.
LEMMA ChildCallsChannel ==
    ASSUME TypeOK, NEW m, NEW z, NEW o, Channel(m, z, o), ChildPost \/ ChildWait \/ ChildFinish
    PROVE  Channel(m, z, o)'
<1> USE DEF childVars, parentVars, countVars
<1>1. UNCHANGED <<file, ppc, need, buf, received, pipe, pos>>
  BY DEF ChildPost, ChildWait, ChildFinish
<1>2. cpc # "wword" /\ cpc' # "wword"
  BY DEF ChildPost, ChildWait, ChildFinish, BeginSend
<1>3. Reader(m, o)'
  BY <1>1, ReaderKept DEF Channel
<1>4. Layout(m, z, o)'
  <2>1. Unsent' = Unsent
    BY <1>2 DEF Unsent
  <2> QED BY <1>1, <2>1, LayoutKept DEF Channel
<1>5. W' = W
  BY <1>1 DEF W
<1>6. m \in 0..Len(W) /\ z \in {0, 1} /\ (z = 1 => m = Len(W))
  BY DEF Channel, Scanner
<1>7. Scanner(m, z)'
  <2>1. CASE ChildPost
    <3>1. cpc = "post" /\ cpc' = "wait" /\ UNCHANGED stage
      BY <2>1 DEF ChildPost
    <3>2. IF stage = "sentinel" THEN z = 1 ELSE z = 0 /\ Announced(m)
      BY <3>1 DEF Channel, Scanner
    <3>3. Announced(m)' <=> Announced(m)
      BY <1>1, <1>5, <3>1 DEF Announced
    <3> QED BY <1>5, <1>6, <3>1, <3>2, <3>3 DEF Scanner
  <2>2. CASE ChildWait
    <3>1. cpc = "wait" /\ (IF stage = "sentinel" THEN z = 1 ELSE z = 0 /\ Announced(m))
      BY <2>2 DEF ChildWait, Channel, Scanner
    <3>2. CASE stage = "reading"
      <4>1. cpc' = "scan" /\ word' = <<>> /\ stage' = "reading"
        BY <2>2, <3>2 DEF ChildWait
      <4>2. z = 0 /\ pos - 1 \in 1..Len(file) /\ file[pos - 1] = Sep /\ WS!Before(file, pos) = m
        BY <3>1, <3>2 DEF Announced
      <4>3. pos \in Nat /\ Len(file) \in Nat
        BY WFacts DEF TypeOK
      <4>4. Len(word') = 0 /\ pos - 0 = pos /\ pos \in 1..pos /\ pos \in 1..(Len(file) + 1)
        BY <4>1, <4>2, <4>3
      <4>5. Scanned(m)'
        BY <1>1, <4>1, <4>2, <4>4 DEF Scanned
      <4> QED BY <1>5, <1>6, <4>1, <4>2, <4>5 DEF Scanner
    <3>3. CASE stage = "tail"
      <4>1. cpc' = "wlen" /\ stage' = "sentinel" /\ out' = <<>>
        BY <2>2, <3>3 DEF ChildWait, BeginSend
      <4>2. z = 0 /\ m = Len(W)
        BY <3>1, <3>3 DEF Announced
      <4> QED BY <1>5, <1>6, <4>1, <4>2 DEF Scanner
    <3>4. CASE stage = "sentinel"
      <4>1. cpc' = "close"
        BY <2>2, <3>4 DEF ChildWait
      <4> QED BY <1>5, <1>6, <4>1 DEF Scanner
    <3> QED BY <3>2, <3>3, <3>4 DEF TypeOK
  <2>3. CASE ChildFinish
    <3>1. cpc' \in {"unlink", "unlink2", "exited"}
      BY <2>3 DEF ChildFinish
    <3> QED BY <1>5, <1>6, <3>1 DEF Scanner
  <2> QED BY <2>1, <2>2, <2>3
<1> QED BY <1>3, <1>4, <1>7 DEF Channel

\* Bytes taken from the front of the pipe move every word down.
LEMMA ShiftLayout ==
    ASSUME TypeOK, NEW m, NEW z, NEW o, Channel(m, z, o), NEW k \in 1..Len(pipe),
           pipe' = SubSeq(pipe, k + 1, Len(pipe)), UNCHANGED <<file, cpc, out>>,
           R' \in Nat, R <= R', R' <= m,
           NEW p, p = [j \in 1..(Len(W) + 1) |-> o[j] - k]
    PROVE  Layout(m, z, p)'
<1>1. /\ Len(W) \in Nat /\ R \in Nat /\ R <= m /\ pipe \in Seq(Nat) /\ Len(pipe) \in Nat /\ m \in Nat
      /\ m <= Len(W) /\ Unsent \in Nat /\ z \in {0, 1} /\ k \in Nat
      /\ \A j \in 1..(Len(W) + 1) : o[j] \in Int
      /\ \A j \in (R + 1)..m : W[j] \in Seq(Nat) /\ Len(W[j]) \in Nat
  BY LayoutTypes
<1>2. W' = W /\ Unsent' = Unsent
  BY DEF W, Unsent
<1>3. /\ Len(pipe') = Len(pipe) - k
      /\ \A x \in Int : x - k \in 1..Len(pipe') => x \in 1..Len(pipe) /\ pipe'[x - k] = pipe[x]
  <2>1. Len(pipe') = Len(pipe) - k
    BY <1>1, SplitLengths
  <2>4. \A i \in 1..(Len(pipe) - k) : pipe'[i] = pipe[k + i]
    BY <1>1, LeftBytes
  <2>5. ASSUME NEW x \in Int, x - k \in 1..Len(pipe')
        PROVE  x \in 1..Len(pipe) /\ pipe'[x - k] = pipe[x]
    <3>1. PICK i, n : i = x - k /\ n = Len(pipe)
      OBVIOUS
    <3>2. i \in Int /\ n \in Nat /\ k \in Nat /\ i \in 1..(n - k)
      BY <1>1, <2>1, <2>5, <3>1
    <3>3. i \in 1..(n - k) /\ k + i = x /\ x \in 1..n
      BY <3>1, <3>2
    <3> QED BY <2>4, <3>1, <3>3
  <2> QED BY <2>1, <2>5
<1>4. p \in [1..(Len(W) + 1) -> Int] /\ \A j \in 1..(Len(W) + 1) : p[j] = o[j] - k
  BY <1>1
<1>5. ASSUME NEW j \in (R' + 1)..m PROVE Frame(p, j)'
  <2>1. j \in (R + 1)..m /\ j \in 1..(Len(W) + 1) /\ j + 1 \in 1..(Len(W) + 1)
    <3>1. PICK r : r = R'
      OBVIOUS
    <3>2. r \in Nat /\ R <= r /\ j \in (r + 1)..m
      BY <3>1
    <3> QED BY <1>1, <3>2
  <2>2. Frame(o, j) /\ o[j] \in Int /\ o[j + 1] \in Int /\ p[j] = o[j] - k /\ p[j + 1] = o[j + 1] - k
    BY <1>1, <1>4, <2>1 DEF Channel, Layout
  <2>3. PICK a, b, L : a = o[j] /\ b = o[j + 1] /\ L = Len(W[j])
    OBVIOUS
  <2>4. a \in Int /\ b \in Int /\ L \in Nat /\ b = a + 1 + L
    BY <1>1, <2>1, <2>2, <2>3 DEF Frame
  <2>5. b - k = (a - k) + 1 + L
    BY <1>1, <2>4
  <2>6. p[j + 1] = p[j] + 1 + Len(W[j])
    BY <2>2, <2>3, <2>5
  <2>7. ASSUME p[j] \in 1..Len(pipe') PROVE pipe'[p[j]] = Len(W[j])
    <3>1. o[j] \in 1..Len(pipe) /\ pipe'[p[j]] = pipe[o[j]]
      BY <1>3, <2>2, <2>7
    <3> QED BY <2>2, <3>1 DEF Frame
  <2>8. ASSUME NEW t \in 1..Len(W[j]), p[j] + t \in 1..Len(pipe') PROVE pipe'[p[j] + t] = W[j][t]
    <3>1. t \in Int /\ a + t \in Int /\ p[j] + t = (a + t) - k
      <4>1. t \in Int /\ p[j] = a - k
        BY <2>2, <2>3
      <4>2. (a - k) + t = (a + t) - k /\ a + t \in Int
        BY <1>1, <2>4, <4>1
      <4> QED BY <4>1, <4>2
    <3>2. a + t \in 1..Len(pipe) /\ pipe'[(a + t) - k] = pipe[a + t]
      BY <1>3, <2>8, <3>1
    <3> QED BY <2>2, <2>3, <3>1, <3>2 DEF Frame
  <2> QED BY <1>2, <2>2, <2>6, <2>7, <2>8 DEF Frame
<1>6. ASSUME NEW i \in (R' + 1)..(m + 1), NEW j \in (R' + 1)..(m + 1), i < j
      PROVE  p[i] + 1 + Len(W[i]) <= p[j]
  <2>1. i \in (R + 1)..m /\ i \in (R + 1)..(m + 1) /\ j \in (R + 1)..(m + 1)
        /\ i \in 1..(Len(W) + 1) /\ j \in 1..(Len(W) + 1)
    <3>1. PICK r : r = R'
      OBVIOUS
    <3>2. r \in Nat /\ R <= r /\ i \in (r + 1)..(m + 1) /\ j \in (r + 1)..(m + 1) /\ i < j
      BY <1>6, <3>1
    <3> QED BY <1>1, <3>2
  <2>2. o[i] + 1 + Len(W[i]) <= o[j] /\ o[i] \in Int /\ o[j] \in Int /\ Len(W[i]) \in Nat
    BY <1>1, <1>6, <2>1 DEF Channel, Layout
  <2>3. PICK a, b, L : a = o[i] /\ b = o[j] /\ L = Len(W[i])
    OBVIOUS
  <2>4. a \in Int /\ b \in Int /\ L \in Nat /\ a + 1 + L <= b
    BY <2>2, <2>3
  <2>5. (a - k) + 1 + L <= b - k
    BY <1>1, <2>4
  <2> QED BY <1>4, <2>1, <2>3, <2>5
<1>7. m + 1 \in 1..(Len(W) + 1) /\ p[m + 1] = o[m + 1] - k /\ o[m + 1] \in Int
  BY <1>1, <1>4
<1>8. p[m + 1] + z = Len(pipe') + 1 + Unsent'
  <2>1. o[m + 1] + z = Len(pipe) + 1 + Unsent
    BY DEF Channel, Layout
  <2>2. PICK a, b, u : a = o[m + 1] /\ b = Len(pipe) /\ u = Unsent
    OBVIOUS
  <2>3. a \in Int /\ b \in Nat /\ u \in Nat /\ a + z = b + 1 + u /\ z \in Nat
    BY <1>1, <1>7, <2>1, <2>2
  <2>4. (a - k) + z = (b - k) + 1 + u
    BY <1>1, <2>3
  <2> QED BY <1>2, <1>3, <1>7, <2>2, <2>4
<1>9. ASSUME z = 1, p[m + 1] \in 1..Len(pipe') PROVE pipe'[p[m + 1]] = 0
  <2>1. o[m + 1] \in 1..Len(pipe) /\ pipe'[p[m + 1]] = pipe[o[m + 1]]
    BY <1>3, <1>7, <1>9
  <2> QED BY <1>9, <2>1 DEF Channel, Layout
<1> QED BY <1>2, <1>4, <1>5, <1>6, <1>8, <1>9, Zenon DEF Layout

LEMMA ScannerKept ==
    ASSUME NEW m, NEW z, Scanner(m, z), UNCHANGED <<file, cpc, stage, pos, word, out>>
    PROVE  Scanner(m, z)'
<1>1. W' = W
  BY DEF W
<1>2. (Scanned(m)' <=> Scanned(m)) /\ \A n : Announced(n)' <=> Announced(n)
  BY <1>1 DEF Scanned, Announced
<1> QED BY <1>1, <1>2 DEF Scanner

\* The length byte the parent reads is that of the next word, or the 0 after the last.
LEMMA ReadLength ==
    ASSUME TypeOK, NEW m, NEW z, NEW o, Channel(m, z, o), ppc = "rlen", NEW k \in 1..need,
           k <= Len(pipe)
    PROVE  /\ k = 1 /\ pipe # <<>>
           /\ IF Head(pipe) = 0 THEN R = Len(W) ELSE R < m /\ Head(pipe) = Len(W[R + 1])
<1>1. /\ Len(W) \in Nat /\ R \in Nat /\ R <= m /\ pipe \in Seq(Nat) /\ Len(pipe) \in Nat /\ m \in Nat
      /\ m <= Len(W) /\ Unsent \in Nat /\ z \in {0, 1}
  BY LayoutTypes
<1>2. k = 1 /\ o[R + 1] = 1 /\ pipe # <<>> /\ Head(pipe) = pipe[1] /\ 1 \in 1..Len(pipe)
  <2>1. need = 1 /\ o[R + 1] = 1
    BY DEF Channel, Reader
  <2>2. k = 1
    BY <2>1
  <2> QED BY <1>1, <2>1, <2>2
<1>3. CASE R < m
  <2>1. R + 1 \in (R + 1)..m
    BY <1>1, <1>3
  <2>2. Frame(o, R + 1)
    BY <2>1 DEF Channel, Layout
  <2>3. pipe[1] = Len(W[R + 1]) /\ Len(W[R + 1]) > 0 /\ Len(W[R + 1]) \in Nat
    BY <1>2, <2>2 DEF Frame
  <2> QED BY <1>2, <1>3, <2>3
<1>4. CASE R = m
  <2>1. 1 + z = Len(pipe) + 1 + Unsent
    BY <1>2, <1>4 DEF Channel, Layout
  <2>2. z = 1
    BY <1>1, <1>2, <2>1
  <2>3. pipe[1] = 0 /\ m = Len(W)
    BY <1>2, <1>4, <2>2 DEF Channel, Layout, Scanner
  <2> QED BY <1>2, <1>4, <2>3
<1> QED BY <1>1, <1>3, <1>4

LEMMA ReadLengthChannel ==
    ASSUME TypeOK, NEW m, NEW z, NEW o, Channel(m, z, o), ppc = "rlen", NEW k \in 1..need,
           k <= Len(pipe), pipe' = SubSeq(pipe, k + 1, Len(pipe)), Head(pipe) # 0,
           ppc' = "rword", need' = Head(pipe), buf' = <<>>,
           UNCHANGED <<file, cpc, stage, pos, word, out, received>>
    PROVE  \E p : Channel(m, z, p)'
<1>1. k = 1 /\ R < m /\ Head(pipe) = Len(W[R + 1])
  BY ReadLength
<1>2. /\ Len(W) \in Nat /\ R \in Nat /\ R <= m /\ pipe \in Seq(Nat) /\ Len(pipe) \in Nat /\ m \in Nat
      /\ m <= Len(W) /\ k \in 1..Len(pipe)
      /\ \A j \in (R + 1)..m : W[j] \in Seq(Nat) /\ Len(W[j]) \in Nat
  BY LayoutTypes
<1>3. W' = W /\ R' = R
  BY DEF W, R
<1>4. PICK p : p = [j \in 1..(Len(W) + 1) |-> o[j] - k]
  OBVIOUS
<1>5. Layout(m, z, p)'
  <2>1. R' \in Nat /\ R <= R' /\ R' <= m
    BY <1>2, <1>3
  <2> QED BY <1>2, <1>4, <2>1, ShiftLayout
<1>6. Scanner(m, z)'
  BY ScannerKept DEF Channel
<1>7. Reader(m, p)'
  <2>1. o[R + 1] = 1 /\ R + 1 \in 1..(Len(W) + 1) /\ R + 1 \in (R + 1)..m
    BY <1>1, <1>2 DEF Channel, Reader
  <2>2. p[R + 1] = 0
    BY <1>1, <1>4, <2>1
  <2>3. Len(W[R + 1]) > 0 /\ Len(W[R + 1]) \in Nat
    BY <1>2, <2>1 DEF Channel, Layout, Frame
  <2>4. Len(buf') = 0 /\ need' = Len(W[R + 1]) - Len(buf') /\ need' > 0 /\ p[R + 1] + Len(buf') = 0
    <3>1. Len(buf') = 0 /\ need' = Len(W[R + 1])
      BY <1>1
    <3>2. PICK L : L = Len(W[R + 1])
      OBVIOUS
    <3>3. L - 0 = L
      BY <2>3, <3>2
    <3> QED BY <2>2, <2>3, <3>1, <3>2, <3>3
  <2> QED BY <1>1, <1>3, <2>4 DEF Reader
<1> QED BY <1>5, <1>6, <1>7 DEF Channel

\* The letters the parent reads are the next ones of its word.
LEMMA ReadLetters ==
    ASSUME TypeOK, NEW m, NEW z, NEW o, Channel(m, z, o), ppc = "rword", NEW k \in 1..need,
           k <= Len(pipe), buf' = buf \o SubSeq(pipe, 1, k)
    PROVE  /\ R < m /\ Len(buf') = Len(buf) + k /\ buf' \in Seq(Nat)
           /\ Len(buf) + k <= Len(W[R + 1])
           /\ \A t \in 1..(Len(buf) + k) : buf'[t] = W[R + 1][t]
<1>1. /\ Len(W) \in Nat /\ R \in Nat /\ R <= m /\ pipe \in Seq(Nat) /\ Len(pipe) \in Nat /\ m \in Nat
      /\ m <= Len(W) /\ buf \in Seq(Nat) /\ Len(buf) \in Nat /\ need \in Nat
      /\ \A j \in (R + 1)..m : W[j] \in Seq(Nat) /\ Len(W[j]) \in Nat
  BY LayoutTypes
<1>2. /\ R < m /\ o[R + 1] + Len(buf) = 0 /\ need = Len(W[R + 1]) - Len(buf)
      /\ \A t \in 1..Len(buf) : buf[t] = W[R + 1][t]
  BY DEF Channel, Reader
<1>3. R + 1 \in (R + 1)..m /\ k \in Nat /\ k \in 1..Len(pipe)
  BY <1>1, <1>2
<1>4. PICK a, b, L : a = o[R + 1] /\ b = Len(buf) /\ L = Len(W[R + 1])
  OBVIOUS
<1>5. b \in Nat /\ L \in Nat /\ a \in Int /\ a + b = 0 /\ need = L - b /\ b + k <= L /\ k >= 1 /\ k <= need
  <2>1. b \in Nat /\ L \in Nat /\ a \in Int /\ a + b = 0 /\ need = L - b
    <3>1. R + 1 \in 1..(Len(W) + 1)
      BY <1>1, <1>2
    <3>2. o[R + 1] \in Int
      BY <3>1 DEF Channel, Layout
    <3> QED BY <1>1, <1>2, <1>3, <1>4, <3>2
  <2>2. k >= 1 /\ k <= need /\ need \in Nat /\ k \in Nat
    BY <1>1, <1>3
  <2> QED BY <2>1, <2>2
<1>6. /\ SubSeq(pipe, 1, k) \in Seq(Nat) /\ Len(SubSeq(pipe, 1, k)) = k
      /\ \A i \in 1..k : SubSeq(pipe, 1, k)[i] = pipe[i]
  BY <1>1, <1>3, TakenBytes
<1>7. /\ buf' \in Seq(Nat) /\ Len(buf') = b + k
      /\ \A i \in 1..b : buf'[i] = buf[i]
      /\ \A i \in 1..k : buf'[b + i] = pipe[i]
  <2>1. /\ buf' \in Seq(Nat) /\ Len(buf') = Len(buf) + k
        /\ \A i \in 1..Len(buf) : buf'[i] = buf[i]
        /\ \A i \in 1..k : buf'[Len(buf) + i] = SubSeq(pipe, 1, k)[i]
    BY <1>1, <1>6, JoinedBytes
  <2> QED BY <1>4, <1>6, <2>1
<1>8. ASSUME NEW t \in 1..(b + k) PROVE buf'[t] = W[R + 1][t]
  <2>1. CASE t <= b
    BY <1>2, <1>4, <1>5, <1>7, <2>1
  <2>2. CASE ~(t <= b)
    <3>1. PICK i : i = t - b
      OBVIOUS
    <3>2. i \in 1..k /\ i \in 1..Len(pipe) /\ a + t = i /\ t \in 1..L /\ b + i = t
      BY <1>1, <1>3, <1>5, <2>2, <3>1
    <3>3. Frame(o, R + 1)
      BY <1>3 DEF Channel, Layout
    <3>4. pipe[a + t] = W[R + 1][t]
      BY <1>4, <3>2, <3>3 DEF Frame
    <3> QED BY <1>7, <3>2, <3>4
  <2> QED BY <2>1, <2>2
<1> QED BY <1>2, <1>4, <1>5, <1>7, <1>8

LEMMA ReadPartChannel ==
    ASSUME TypeOK, NEW m, NEW z, NEW o, Channel(m, z, o), ppc = "rword", NEW k \in 1..need,
           k <= Len(pipe), pipe' = SubSeq(pipe, k + 1, Len(pipe)), k # need,
           need' = need - k, buf' = buf \o SubSeq(pipe, 1, k),
           UNCHANGED <<file, cpc, stage, pos, word, out, received, ppc>>
    PROVE  \E p : Channel(m, z, p)'
<1>1. /\ R < m /\ Len(buf') = Len(buf) + k /\ Len(buf) + k <= Len(W[R + 1])
      /\ \A t \in 1..(Len(buf) + k) : buf'[t] = W[R + 1][t]
  BY ReadLetters
<1>2. /\ Len(W) \in Nat /\ R \in Nat /\ R <= m /\ pipe \in Seq(Nat) /\ Len(pipe) \in Nat /\ m \in Nat
      /\ m <= Len(W) /\ buf \in Seq(Nat) /\ Len(buf) \in Nat /\ need \in Nat
      /\ \A j \in 1..(Len(W) + 1) : o[j] \in Int
      /\ \A j \in (R + 1)..m : W[j] \in Seq(Nat) /\ Len(W[j]) \in Nat
  BY LayoutTypes
<1>3. W' = W /\ R' = R
  BY DEF W, R
<1>4. PICK p : p = [j \in 1..(Len(W) + 1) |-> o[j] - k]
  OBVIOUS
<1>5. k \in Nat /\ k \in 1..Len(pipe) /\ k < need
  BY <1>2
<1>6. Layout(m, z, p)'
  <2>1. R' \in Nat /\ R <= R' /\ R' <= m
    BY <1>2, <1>3
  <2> QED BY <1>4, <1>5, <2>1, ShiftLayout
<1>7. Scanner(m, z)'
  BY ScannerKept DEF Channel
<1>8. Reader(m, p)'
  <2>1. PICK a, b, L : a = o[R + 1] /\ b = Len(buf) /\ L = Len(W[R + 1])
    OBVIOUS
  <2>2. R + 1 \in 1..(Len(W) + 1) /\ R + 1 \in (R + 1)..m
    BY <1>1, <1>2
  <2>3. a \in Int /\ b \in Nat /\ L \in Nat /\ a + b = 0 /\ need = L - b /\ p[R + 1] = a - k
    BY <1>2, <1>4, <2>1, <2>2 DEF Channel, Reader
  <2>4. (a - k) + (b + k) = 0 /\ need - k = L - (b + k) /\ need - k > 0
    BY <1>2, <1>5, <2>3
  <2>5. p[R + 1] + Len(buf') = 0 /\ need' = Len(W[R + 1]) - Len(buf') /\ need' > 0
    BY <1>1, <2>1, <2>3, <2>4
  <2> QED BY <1>1, <1>3, <2>5 DEF Reader
<1> QED BY <1>6, <1>7, <1>8 DEF Channel

\* When the last letter is there, the buffer is the next word of the file.
LEMMA ReadWholeWord ==
    ASSUME TypeOK, NEW m, NEW z, NEW o, Channel(m, z, o), ppc = "rword", need \in 1..Len(pipe),
           buf' = buf \o SubSeq(pipe, 1, need)
    PROVE  R < m /\ m <= Len(W) /\ buf' = W[R + 1] /\ buf' # <<>> /\ Len(W[R + 1]) = Len(buf) + need
<1>1. /\ Len(W) \in Nat /\ R \in Nat /\ R <= m /\ m \in Nat
      /\ m <= Len(W) /\ buf \in Seq(Nat) /\ Len(buf) \in Nat /\ need \in Nat
      /\ \A j \in (R + 1)..m : W[j] \in Seq(Nat) /\ Len(W[j]) \in Nat
  BY LayoutTypes
<1>2. need \in 1..need /\ need <= Len(pipe) /\ need >= 1
  BY <1>1
<1>3. /\ R < m /\ Len(buf') = Len(buf) + need /\ buf' \in Seq(Nat)
      /\ \A t \in 1..(Len(buf) + need) : buf'[t] = W[R + 1][t]
  BY <1>2, ReadLetters
<1>4. R + 1 \in (R + 1)..m
  BY <1>1, <1>3
<1>5. W[R + 1] \in Seq(Nat) /\ Len(W[R + 1]) \in Nat /\ need = Len(W[R + 1]) - Len(buf)
  BY <1>1, <1>4 DEF Channel, Reader
<1>6. Len(W[R + 1]) = Len(buf) + need
  BY <1>1, <1>5
<1>7. buf' = W[R + 1]
  BY <1>3, <1>5, <1>6, SeqEqual
<1>8. buf' # <<>>
  <2>1. PICK b, c : b = Len(buf) /\ c = Len(buf')
    OBVIOUS
  <2>2. b \in Nat /\ c = b + need
    BY <1>1, <1>3, <2>1
  <2>3. c # 0
    BY <1>1, <1>2, <2>2
  <2> QED BY <2>1, <2>3
<1> QED BY <1>1, <1>3, <1>6, <1>7, <1>8

LEMMA ReadWholeChannel ==
    ASSUME TypeOK, NEW m, NEW z, NEW o, Channel(m, z, o), ppc = "rword", need \in 1..Len(pipe),
           pipe' = SubSeq(pipe, need + 1, Len(pipe)), buf' = buf \o SubSeq(pipe, 1, need),
           received' = Append(received, buf'), ppc' = "post",
           UNCHANGED <<file, cpc, stage, pos, word, out>>
    PROVE  \E p : Channel(m, z, p)'
<1>1. R < m /\ buf' # <<>> /\ buf' = W[R + 1] /\ Len(W[R + 1]) = Len(buf) + need
  BY ReadWholeWord
<1>2. /\ Len(W) \in Nat /\ R \in Nat /\ R <= m /\ pipe \in Seq(Nat) /\ Len(pipe) \in Nat /\ m \in Nat
      /\ m <= Len(W) /\ buf \in Seq(Nat) /\ Len(buf) \in Nat /\ need \in Nat
      /\ \A j \in 1..(Len(W) + 1) : o[j] \in Int
  BY LayoutTypes
<1>3. W' = W /\ R' = R + 1
  <2>1. received \in Seq(Seq(Nat))
    BY DEF TypeOK
  <2>2. Len(Append(received, buf')) = Len(received) + 1
    BY <2>1
  <2> QED BY <2>2 DEF W, R
<1>4. PICK p : p = [j \in 1..(Len(W) + 1) |-> o[j] - need]
  OBVIOUS
<1>5. Layout(m, z, p)'
  <2>1. R' \in Nat /\ R <= R' /\ R' <= m
    BY <1>1, <1>2, <1>3
  <2>2. PICK k : k = need
    OBVIOUS
  <2>3. k \in 1..Len(pipe) /\ pipe' = SubSeq(pipe, k + 1, Len(pipe))
        /\ p = [j \in 1..(Len(W) + 1) |-> o[j] - k]
    BY <1>4, <2>2
  <2> QED BY <2>1, <2>3, ShiftLayout
<1>6. Scanner(m, z)'
  BY ScannerKept DEF Channel
<1>7. Reader(m, p)'
  <2>1. PICK a, b, c, L : a = o[R + 1] /\ b = Len(buf) /\ c = o[R + 2] /\ L = Len(W[R + 1])
    OBVIOUS
  <2>2. R + 1 \in 1..(Len(W) + 1) /\ R + 2 \in 1..(Len(W) + 1) /\ R + 1 \in (R + 1)..m
        /\ R + 1 + 1 = R + 2
    BY <1>1, <1>2
  <2>3. a \in Int /\ b \in Nat /\ a + b = 0 /\ c \in Int /\ p[R + 2] = c - need
    BY <1>2, <1>4, <2>1, <2>2 DEF Channel, Reader
  <2>4. L = b + need /\ c = a + 1 + L
    BY <1>1, <2>1, <2>2 DEF Channel, Layout, Frame
  <2>5. c - need = 1
    BY <1>2, <2>3, <2>4
  <2>6. p[R' + 1] = 1
    BY <1>3, <2>2, <2>3, <2>5
  <2> QED BY <1>1, <2>6 DEF Reader
<1> QED BY <1>5, <1>6, <1>7 DEF Channel

\* The parent's semaphore calls.
LEMMA ParentCallsChannel ==
    ASSUME NEW m, NEW z, NEW o, Channel(m, z, o), ParentWait \/ ParentPost
    PROVE  Channel(m, z, o)'
<1> USE DEF childVars, parentVars, countVars
<1>1. UNCHANGED <<file, cpc, stage, pos, word, out, received, pipe>>
  BY DEF ParentWait, ParentPost
<1>2. Scanner(m, z)'
  BY <1>1, ScannerKept DEF Channel
<1>3. Layout(m, z, o)'
  <2>1. Unsent' = Unsent
    BY <1>1 DEF Unsent
  <2> QED BY <1>1, <2>1, LayoutKept DEF Channel
<1>4. W' = W /\ R' = R
  BY <1>1 DEF W, R
<1>5. o[R + 1] = 1
  BY DEF ParentWait, ParentPost, Channel, Reader
<1>6. (ppc' = "rlen" /\ need' = 1) \/ ppc' = "wait"
  BY DEF ParentWait, ParentPost
<1>7. Reader(m, o)'
  BY <1>4, <1>5, <1>6 DEF Reader
<1> QED BY <1>2, <1>3, <1>7 DEF Channel

-------------------------------------------------------------------------------
(* Every step keeps the words in the channel.                              *)

\* A read() of read_fully: at end of file, of the length byte, of some letters, or
\* of the last ones.
ReadsNothing == UNCHANGED <<ppc, need, buf, received, pipe>>
ReadsLength(k) == /\ ppc = "rlen" /\ k <= Len(pipe) /\ pipe' = SubSeq(pipe, k + 1, Len(pipe))
                  /\ need' = Head(pipe) /\ buf' = <<>> /\ UNCHANGED received
                  /\ ppc' = IF Head(pipe) = 0 THEN "close" ELSE "rword"
ReadsPart(k) == /\ ppc = "rword" /\ k <= Len(pipe) /\ pipe' = SubSeq(pipe, k + 1, Len(pipe))
                /\ need' = need - k /\ buf' = buf \o SubSeq(pipe, 1, k) /\ k # need
                /\ UNCHANGED <<ppc, received>>
ReadsWord == /\ ppc = "rword" /\ need \in 1..Len(pipe)
             /\ pipe' = SubSeq(pipe, need + 1, Len(pipe))
             /\ need' = 0 /\ buf' = buf \o SubSeq(pipe, 1, need)
             /\ ppc' = "post" /\ received' = Append(received, buf')

LEMMA ReadCases ==
    ASSUME TypeOK, read_fully
    PROVE  /\ UNCHANGED <<file, cpc, stage, pos, word, out, got, acked>>
           /\ ReadsNothing \/ ReadsWord \/ \E k \in 1..need : ReadsLength(k) \/ ReadsPart(k)
<1> USE DEF childVars, parentVars, countVars
<1>1. UNCHANGED <<file, cpc, stage, pos, word, out, got, acked>>
  BY DEF read_fully
<1>2. CASE ReadsNothing
  BY <1>1, <1>2
<1>3. CASE ~ReadsNothing
  <2>1. PICK k \in 1..need :
          /\ k <= Len(pipe)
          /\ pipe' = SubSeq(pipe, k + 1, Len(pipe))
          /\ \/ /\ ppc = "rlen"
                /\ need' = Head(pipe) /\ buf' = <<>>
                /\ ppc' = IF Head(pipe) = 0 THEN "close" ELSE "rword"
                /\ UNCHANGED received
             \/ /\ ppc = "rword"
                /\ need' = need - k
                /\ buf' = buf \o SubSeq(pipe, 1, k)
                /\ IF k = need
                   THEN ppc' = "post" /\ received' = Append(received, buf')
                   ELSE UNCHANGED <<ppc, received>>
    BY <1>3, Zenon DEF read_fully, ReadsNothing
  <2>2. CASE ppc = "rlen"
    <3>1. ReadsLength(k)
      BY <2>1, <2>2 DEF ReadsLength
    <3> QED BY <1>1, <3>1
  <2>3. CASE ppc = "rword" /\ k # need
    <3>1. ReadsPart(k)
      BY <2>1, <2>3 DEF ReadsPart
    <3> QED BY <1>1, <3>1
  <2>4. CASE ppc = "rword" /\ k = need
    <3>1. need \in Nat /\ need - need = 0 /\ Len(pipe) \in Nat
      BY DEF TypeOK
    <3>2. need \in 1..Len(pipe) /\ need' = 0
      BY <2>1, <2>4, <3>1
    <3>3. ReadsWord
      BY <2>1, <2>4, <3>2 DEF ReadsWord
    <3> QED BY <1>1, <3>3
  <2> QED BY <2>1, <2>2, <2>3, <2>4
<1> QED BY <1>2, <1>3

LEMMA ReadChannel ==
    ASSUME TypeOK, NEW m, NEW z, NEW o, Channel(m, z, o), read_fully, ppc' \in Reading
    PROVE  \E p : Channel(m, z, p)'
<1>1. /\ UNCHANGED <<file, cpc, stage, pos, word, out>>
      /\ ReadsNothing \/ ReadsWord \/ \E k \in 1..need : ReadsLength(k) \/ ReadsPart(k)
  BY ReadCases
<1>2. CASE ReadsNothing
  <2>1. UNCHANGED <<ppc, need, buf, received, pipe>> /\ Unsent' = Unsent
    BY <1>1, <1>2 DEF ReadsNothing, Unsent
  <2>2. Channel(m, z, o)'
    BY <1>1, <2>1, ScannerKept, ReaderKept, LayoutKept DEF Channel
  <2> QED BY <2>2
<1>3. CASE ReadsWord
  BY <1>1, <1>3, ReadWholeChannel DEF ReadsWord
<1>4. ASSUME NEW k \in 1..need, ReadsPart(k) PROVE \E p : Channel(m, z, p)'
  BY <1>1, <1>4, ReadPartChannel DEF ReadsPart
<1>5. ASSUME NEW k \in 1..need, ReadsLength(k) PROVE \E p : Channel(m, z, p)'
  <2>1. Head(pipe) # 0 /\ ppc' = "rword"
    BY <1>5 DEF ReadsLength, Reading
  <2> QED BY <1>1, <1>5, <2>1, ReadLengthChannel DEF ReadsLength
<1> QED BY <1>1, <1>2, <1>3, <1>4, <1>5

LEMMA WriteChannel ==
    ASSUME TypeOK, WordFits, NEW m, NEW z, NEW o, Channel(m, z, o), Child
    PROVE  \E n, y, p : Channel(n, y, p)'
<1>1. CASE child_process
  BY <1>1, ScanChannel
<1>2. CASE WriteLength /\ stage = "sentinel"
  BY <1>2, WriteLastChannel
<1>3. CASE WriteLength /\ stage # "sentinel"
  <2>1. PICK p : p = [o EXCEPT ![m + 2] = o[m + 1] + 1 + Len(W[m + 1])]
    OBVIOUS
  <2>2. Channel(m + 1, 0, p)'
    BY <1>3, <2>1, WriteWordChannel
  <2> QED BY <2>2
<1>4. CASE write_fully
  BY <1>4, WriteFullyChannel
<1>5. CASE ChildPost \/ ChildWait \/ ChildFinish
  BY <1>5, ChildCallsChannel
<1> QED BY <1>1, <1>2, <1>3, <1>4, <1>5 DEF Child

\* Only the parent changes what it has; only main, or the next run, the file.
LEMMA ChildLeaves ==
    Child => UNCHANGED <<file, ppc, need, buf, received, got, acked>>
  BY DEF Child, child_process, WriteLength, write_fully, ChildPost, ChildWait, ChildFinish,
         parentVars, countVars

LEMMA ChannelStep ==
    ASSUME TypeOK, WordFits, DataInv, [Next]_vars, ppc' \in Reading
    PROVE  \E m, z, o : Channel(m, z, o)'
<1>1. CASE Main
  BY <1>1, MainChannel
<1>2. CASE MainFails \/ ParentFinish \/ Kill \/ Restart
  BY <1>2 DEF MainFails, ParentFinish, Kill, Restart, Reading
<1>3. ASSUME ppc \in Reading PROVE \E m, z, o : Channel(m, z, o)
  BY <1>3 DEF DataInv
<1>4. CASE Child
  <2>1. PICK m, z, o : Channel(m, z, o)
    BY <1>3, <1>4, ChildLeaves
  <2> QED BY <1>4, <2>1, WriteChannel
<1>5. CASE ParentWait \/ ParentPost
  <2>1. PICK m, z, o : Channel(m, z, o)
    BY <1>3, <1>5 DEF ParentWait, ParentPost, Reading
  <2> QED BY <1>5, <2>1, ParentCallsChannel
<1>6. CASE read_fully
  <2>1. PICK m, z, o : Channel(m, z, o)
    BY <1>3, <1>6 DEF read_fully, Reading
  <2> QED BY <1>6, <2>1, ReadChannel
<1>7. CASE UNCHANGED vars
  <2>1. /\ UNCHANGED <<file, cpc, stage, pos, word, out, ppc, need, buf, received, pipe>>
        /\ Unsent' = Unsent
    BY <1>7 DEF vars, childVars, parentVars, Unsent
  <2>2. PICK m, z, o : Channel(m, z, o)
    BY <1>3, <2>1
  <2>3. Channel(m, z, o)'
    BY <2>1, <2>2, ScannerKept, ReaderKept, LayoutKept DEF Channel
  <2> QED BY <2>3
<1> QED BY <1>1, <1>2, <1>4, <1>5, <1>6, <1>7 DEF Next, Parent

\* A word the parent completes is the next of the file.
LEMMA WordArrives ==
    ASSUME TypeOK, DataInv, ReadsWord, UNCHANGED file
    PROVE  /\ R < Len(W) /\ received' = Append(received, W[R + 1]) /\ buf' # <<>>
           /\ R' = R + 1 /\ received'[R + 1] = W[R + 1] /\ \A j \in 1..R : received'[j] = received[j]
<1>1. PICK m, z, o : Channel(m, z, o)
  BY DEF DataInv, ReadsWord, Reading
<1>2. R < m /\ m <= Len(W) /\ buf' = W[R + 1] /\ buf' # <<>>
  BY <1>1, ReadWholeWord DEF ReadsWord
<1>3. R \in Nat /\ Len(W) \in Nat /\ m \in Nat
  BY <1>1, LayoutTypes
<1>4. received \in Seq(Seq(Nat)) /\ received' = Append(received, W[R + 1])
  BY <1>2 DEF TypeOK, ReadsWord
<1>5. Len(received') = Len(received) + 1 /\ received'[Len(received) + 1] = W[R + 1]
      /\ \A j \in 1..Len(received) : received'[j] = received[j]
  BY <1>4, AppendProperties
<1> QED BY <1>2, <1>3, <1>4, <1>5 DEF R

LEMMA StepDataInv == TypeOK /\ CInv /\ WordFits /\ DataInv /\ [Next]_vars => DataInv'
<1> SUFFICES ASSUME TypeOK, CInv, WordFits, DataInv, [Next]_vars PROVE DataInv'
  OBVIOUS
<1> USE DEF childVars, parentVars, countVars
<1>1. ppc' \in Reading => \E m, z, o : Channel(m, z, o)'
  BY ChannelStep
<1>2. Answers'
  <2>1. Answers /\ got \in Nat /\ acked \in Nat
    BY DEF DataInv, TypeOK
  <2>2. CASE read_fully
    <3>1. UNCHANGED <<got, acked>> /\ ppc \in {"rlen", "rword"} /\ got = acked + 1
      BY <2>1, <2>2 DEF read_fully, Answers
    <3>2. ppc' \in {"rlen", "rword", "post", "close"}
      BY <2>2, <3>1 DEF read_fully
    <3> QED BY <3>1, <3>2 DEF Answers
  <2>3. CASE Child
    BY <2>1, <2>3, ChildLeaves DEF Answers
  <2>4. CASE MainFails \/ Main \/ ParentWait \/ ParentPost \/ ParentFinish \/ Kill \/ Restart
    BY <2>1, <2>4 DEF MainFails, Main, ParentWait, ParentPost, ParentFinish, Kill, Restart, Answers
  <2>5. CASE UNCHANGED vars
    BY <2>1, <2>5 DEF vars, Answers
  <2> QED BY <2>2, <2>3, <2>4, <2>5 DEF Next, Parent
<1>3. Begins'
  <2> SUFFICES ASSUME ppc' = "main" PROVE Begins'
    BY DEF Begins
  <2>1. CASE Restart
    BY <2>1 DEF Restart, Begins
  <2>2. CASE UNCHANGED vars
    BY <2>2 DEF vars, Begins, DataInv
  <2>3. ~(MainFails \/ Main \/ ParentWait \/ ParentPost \/ ParentFinish \/ Kill)
    BY DEF MainFails, Main, ParentWait, ParentPost, ParentFinish, Kill
  <2>4. ~read_fully
    BY DEF read_fully
  <2>5. ~Child
    <3>1. Child => ppc = "main" /\ cpc = "none"
      BY ChildLeaves DEF CInv, Unlinking
    <3> QED BY <3>1 DEF Child, child_process, WriteLength, write_fully, ChildPost, ChildWait,
                        ChildFinish
  <2> QED BY <2>1, <2>2, <2>3, <2>4, <2>5 DEF Next, Parent
<1>4. Prefix'
  <2>1. CASE UNCHANGED <<file, received>>
    BY <2>1 DEF DataInv, Prefix, R, W
  <2>2. CASE Restart
    <3>1. received' = <<>> /\ TypeOK'
      BY <2>2, StepTypeOK DEF Restart
    <3>2. file' \in Seq(Nat)
      BY <3>1 DEF TypeOK
    <3>3. Len(W') \in Nat
      BY <3>2, WordsLength DEF W
    <3>4. R' = 0
      BY <3>1 DEF R
    <3> QED BY <3>3, <3>4 DEF Prefix
  <2>3. CASE read_fully
    <3>1. UNCHANGED file /\ (UNCHANGED received \/ ReadsWord)
      BY <2>3, ReadCases DEF ReadsNothing, ReadsLength, ReadsPart
    <3>2. CASE ReadsWord
      <4>1. /\ R < Len(W) /\ R' = R + 1 /\ received'[R + 1] = W[R + 1]
            /\ \A j \in 1..R : received'[j] = received[j]
        BY <3>1, <3>2, WordArrives
      <4>2. R \in Nat /\ Len(W) \in Nat /\ W' = W
        BY <3>1, WFacts DEF TypeOK, R, W
      <4>3. \A j \in 1..R : received[j] = W[j]
        BY DEF DataInv, Prefix
      <4>4. \A j \in 1..(R + 1) : j \in 1..R \/ j = R + 1
        BY <4>2
      <4> QED BY <4>1, <4>2, <4>3, <4>4 DEF Prefix
    <3> QED BY <2>1, <3>1, <3>2
  <2>4. CASE Child
    BY <2>1, <2>4, ChildLeaves
  <2>5. CASE MainFails \/ Main \/ ParentWait \/ ParentPost \/ ParentFinish \/ Kill \/ UNCHANGED vars
    BY <2>1, <2>5 DEF MainFails, Main, ParentWait, ParentPost, ParentFinish, Kill, vars
  <2> QED BY <2>2, <2>3, <2>4, <2>5 DEF Next, Parent
<1> QED BY <1>1, <1>2, <1>3, <1>4 DEF DataInv, Reading

-------------------------------------------------------------------------------
(* The refinement                                                          *)

\* A step of the pipe is a step of the word stream, or none.
LEMMA StreamInit == Init => WS!Init
<1> SUFFICES ASSUME Init PROVE WS!Init
  OBVIOUS
<1>1. file \in Files /\ received = <<>> /\ ~ReaderDone
  BY DEF Init, ReaderDone
<1>2. ReaderDone = FALSE
  BY <1>1, Zenon DEF ReaderDone
<1> QED BY <1>1, <1>2 DEF WS!Init

LEMMA StreamStep ==
    TypeOK /\ CInv /\ WordFits /\ DataInv /\ [Next]_vars => [WS!Next]_WS!vars
<1> SUFFICES ASSUME TypeOK, CInv, WordFits, DataInv, [Next]_vars PROVE [WS!Next]_WS!vars
  OBVIOUS
<1> USE DEF childVars, parentVars, countVars
<1>0. Answers /\ got \in Nat /\ acked \in Nat /\ need \in Nat
  BY DEF DataInv, TypeOK
<1>1. CASE UNCHANGED <<file, received>> /\ (ReaderDone' <=> ReaderDone)
  <2>1. ReaderDone' = ReaderDone
    BY <1>1, Zenon DEF ReaderDone
  <2> QED BY <1>1, <2>1 DEF WS!vars
<1>2. CASE MainFails \/ Main \/ ParentFinish \/ Kill \/ UNCHANGED vars
  <2>1. UNCHANGED <<file, received, need, buf, got, acked>>
    BY <1>2 DEF MainFails, Main, ParentFinish, Kill, vars
  <2> QED BY <1>1, <2>1 DEF ReaderDone
<1>3. CASE Child
  <2>1. UNCHANGED <<file, received, need, buf, got, acked>>
    BY <1>3, ChildLeaves
  <2> QED BY <1>1, <2>1 DEF ReaderDone
<1>4. CASE ParentWait
  <2>1. UNCHANGED <<file, received>> /\ ~ReaderDone /\ ~ReaderDone'
    BY <1>0, <1>4 DEF ParentWait, Answers, ReaderDone
  <2> QED BY <1>1, <2>1
<1>5. CASE ParentPost
  <2>1. PICK m, z, o : Channel(m, z, o)
    BY <1>5 DEF DataInv, ParentPost, Reading
  <2>2. buf # <<>>
    BY <1>5, <2>1 DEF ParentPost, Channel, Reader
  <2>3. got' = acked'
    BY <1>0, <1>5 DEF ParentPost, Answers
  <2>4. UNCHANGED <<file, received>> /\ ~ReaderDone /\ ~ReaderDone'
    BY <1>0, <1>5, <2>2, <2>3 DEF ParentPost, ReaderDone
  <2> QED BY <1>1, <2>4
<1>6. CASE Restart
  <2>1. file' \in Files /\ received' = <<>> /\ ~ReaderDone'
    BY <1>6 DEF Restart, ReaderDone
  <2>2. ReaderDone' = FALSE
    BY <2>1, Zenon DEF ReaderDone
  <2>3. WS!Restart
    BY <2>1, <2>2 DEF WS!Restart, WS!Init
  <2> QED BY <2>3 DEF WS!Next
<1>7. CASE read_fully
  <2>1. UNCHANGED <<file, got, acked>>
        /\ (ReadsNothing \/ ReadsWord \/ \E k \in 1..need : ReadsLength(k) \/ ReadsPart(k))
    BY <1>7, ReadCases
  <2>2. CASE ReadsNothing
    BY <1>1, <2>1, <2>2 DEF ReadsNothing, ReaderDone
  <2>3. CASE ReadsWord
    <3>1. R < Len(W) /\ received' = Append(received, W[R + 1]) /\ buf' # <<>>
      BY <2>1, <2>3, WordArrives
    <3>2. ~ReaderDone /\ ~ReaderDone'
      <4>1. need # 0
        BY <1>0, <2>3 DEF ReadsWord
      <4> QED BY <3>1, <4>1, Zenon DEF ReaderDone
    <3>3. ReaderDone' = ReaderDone
      BY <3>2, Zenon DEF ReaderDone
    <3>4. WS!Deliver
      BY <2>1, <3>1, <3>2, <3>3 DEF WS!Deliver, R, W
    <3> QED BY <3>4 DEF WS!Next
  <2>4. ASSUME NEW k \in 1..need, ReadsPart(k) PROVE [WS!Next]_WS!vars
    <3>1. need # 0 /\ need' # 0 /\ UNCHANGED received
      BY <1>0, <2>4 DEF ReadsPart
    <3> QED BY <1>1, <2>1, <3>1 DEF ReaderDone
  <2>5. ASSUME NEW k \in 1..need, ReadsLength(k) PROVE [WS!Next]_WS!vars
    <3>1. need # 0 /\ UNCHANGED received /\ need' = Head(pipe) /\ buf' = <<>> /\ got = acked + 1
      BY <1>0, <2>5 DEF ReadsLength, Answers
    <3>2. CASE Head(pipe) # 0
      BY <1>1, <2>1, <3>1, <3>2 DEF ReaderDone
    <3>3. CASE Head(pipe) = 0
      <4>1. PICK m, z, o : Channel(m, z, o)
        BY <2>5 DEF DataInv, ReadsLength, Reading
      <4>2. R = Len(W)
        BY <2>5, <3>3, <4>1, ReadLength DEF ReadsLength
      <4>3. received = W
        <5>1. received \in Seq(Seq(Nat)) /\ Len(received) \in Nat /\ DOMAIN received = 1..Len(received)
              /\ received = [j \in 1..Len(received) |-> received[j]]
          BY LenProperties DEF TypeOK
        <5>2. W = [j \in 1..Len(W) |-> W[j]] /\ file \in Seq(Nat)
          BY WFacts, WordsLength DEF W
        <5>3. \A j \in 1..Len(W) : received[j] = W[j]
          BY <4>2 DEF DataInv, Prefix
        <5>4. Len(received) = Len(W)
          BY <4>2 DEF R
        <5> QED BY <5>1, <5>2, <5>3, <5>4
      <4>4. ~ReaderDone /\ ReaderDone'
        BY <2>1, <3>1, <3>3 DEF ReaderDone
      <4>5. ReaderDone' = TRUE
        BY <4>4, Zenon DEF ReaderDone
      <4>6. WS!Finish
        BY <2>1, <3>1, <4>3, <4>4, <4>5 DEF WS!Finish, W
      <4> QED BY <4>6 DEF WS!Next
    <3> QED BY <3>2, <3>3
  <2> QED BY <2>1, <2>2, <2>3, <2>4, <2>5
<1> QED BY <1>2, <1>3, <1>4, <1>5, <1>6, <1>7 DEF Next, Parent

\* Whatever the files, the size of the pipe, the partial reads and writes, and the values
\* killed runs have left in the semaphores, the parent of pipe/reliable prints the words
\* of the file in order and stops after the last.
THEOREM PipeImplementsStream == Spec => DeliversWords
<1>1. Spec => [](TypeOK /\ CInv /\ WordFits /\ DataInv)
  BY InitTypeOK, StepTypeOK, InitCInv, StepCInv, InitLockstep, StepWordFits, InitDataInv,
     StepDataInv, PTL DEF Spec
<1> QED BY <1>1, StreamInit, StreamStep, PTL DEF Spec, DeliversWords, WS!Spec
===============================================================================
