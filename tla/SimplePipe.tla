------------------------------ MODULE SimplePipe ------------------------------
(***************************************************************************)
(* pipe/simple/main.c: the word pipe with nothing but the pipe between the *)
(* two processes.  Every transfer is a single write() or read() whose only *)
(* checked outcome is "< 0"; a write of at most PIPE_BUF bytes is atomic.  *)
(***************************************************************************)
EXTENDS Integers, Sequences, SequencesExt

CONSTANTS Files, MAX_WORD_LENGTH, UINT8_MAX, PIPE_CAPACITY,
          MaxPrinted       \* bound: the lines the parent prints after its child died

VARIABLES file,
          cpc, stage, pos, word,    \* the child, as in ReliablePipe
          ppc,                      \* the parent
          length, wordbuf,          \* the parent's locals, indeterminate at first
          pipe,
          received                  \* the words the parent has printed

childVars  == <<cpc, stage, pos, word>>
parentVars == <<ppc, length, wordbuf, received>>
vars == <<file, childVars, parentVars, pipe>>

Sep  == 0
Junk == -1     \* a byte of word[] nobody has written
Nul  == -2     \* '\0'

WriteEndClosed == cpc \in {"exited", "failed"}

uint8_t(n) == n % (UINT8_MAX + 1)

Init == /\ file \in Files
        /\ cpc = "scan" /\ stage = "reading" /\ pos = 1 /\ word = <<>>
        /\ ppc = "rlen" /\ length \in 0..UINT8_MAX
        /\ wordbuf = [i \in 1..UINT8_MAX |-> Junk]
        /\ pipe = <<>> /\ received = <<>>

-------------------------------------------------------------------------------
\* One turn of the fgetc loop, and what follows it at EOF.
child_process ==
    /\ cpc = "scan"
    /\ \/ /\ pos > Len(file)
          /\ cpc' = "wlen"
          /\ stage' = IF uint8_t(Len(word)) > 0 THEN "tail" ELSE "sentinel"
          /\ UNCHANGED <<pos, word>>
       \/ /\ pos <= Len(file) /\ file[pos] = Sep
          /\ pos' = pos + 1
          /\ cpc' = IF uint8_t(Len(word)) > 0 THEN "wlen" ELSE "scan"
          /\ UNCHANGED <<stage, word>>
       \/ /\ pos <= Len(file) /\ file[pos] # Sep
          /\ IF uint8_t(Len(word)) >= MAX_WORD_LENGTH
             THEN cpc' = "failed" /\ UNCHANGED <<pos, word>>
             ELSE word' = Append(word, file[pos]) /\ pos' = pos + 1 /\ UNCHANGED cpc
          /\ UNCHANGED stage
    /\ UNCHANGED <<file, parentVars, pipe>>

\* send_word(word, length): two writes, each of which waits for room.
send_word ==
    LET len == IF stage = "sentinel" THEN 0 ELSE uint8_t(Len(word)) IN
    /\ \/ /\ cpc = "wlen"
          /\ Len(pipe) + 1 <= PIPE_CAPACITY
          /\ pipe' = Append(pipe, len)
          /\ cpc' = IF len > 0 THEN "wword" ELSE "sent"
       \/ /\ cpc = "wword"
          /\ Len(pipe) + len <= PIPE_CAPACITY
          /\ pipe' = pipe \o SubSeq(word, 1, len)
          /\ cpc' = "sent"
    /\ UNCHANGED <<file, stage, pos, word, parentVars>>

AfterSend_KeepsWord ==
    /\ cpc = "sent"
    /\ \/ stage = "reading"  /\ cpc' = "scan" /\ UNCHANGED <<stage, word>>
       \/ stage = "tail"     /\ cpc' = "wlen" /\ stage' = "sentinel" /\ UNCHANGED word
       \/ stage = "sentinel" /\ cpc' = "close" /\ UNCHANGED <<stage, word>>
    /\ UNCHANGED <<file, pos, parentVars, pipe>>

AfterSend_NoSentinel ==
    /\ cpc = "sent"
    /\ \/ stage = "reading"  /\ cpc' = "scan" /\ word' = <<>> /\ UNCHANGED stage
       \/ stage # "reading"  /\ cpc' = "close" /\ UNCHANGED <<stage, word>>
    /\ UNCHANGED <<file, pos, parentVars, pipe>>

\* What child_process does when send_word returns.
AfterSend ==
    /\ cpc = "sent"
    /\ \/ stage = "reading"  /\ cpc' = "scan" /\ word' = <<>> /\ UNCHANGED stage
       \/ stage = "tail"     /\ cpc' = "wlen" /\ stage' = "sentinel" /\ UNCHANGED word
       \/ stage = "sentinel" /\ cpc' = "close" /\ UNCHANGED <<stage, word>>
    /\ UNCHANGED <<file, pos, parentVars, pipe>>

ChildClose == /\ cpc = "close"
              /\ cpc' = "exited"
              /\ UNCHANGED <<file, stage, pos, word, parentVars, pipe>>

Child == child_process \/ send_word \/ AfterSend \/ ChildClose

-------------------------------------------------------------------------------
\* read() returns what is there, at most count bytes; 0 bytes at end of file,
\* which leaves the destination as it was; it blocks on an empty open pipe.
ReadOutcome(count) ==
    IF pipe # <<>> THEN {SubSeq(pipe, 1, IF count < Len(pipe) THEN count ELSE Len(pipe))}
    ELSE IF WriteEndClosed THEN {<<>>}
    ELSE {}

ReadLength_Resets ==
    /\ ppc = "rlen"
    /\ \E bytes \in ReadOutcome(1) :
          /\ length' = IF bytes = <<>> THEN 0 ELSE bytes[1]
          /\ ppc' = IF length' = 0 THEN "close" ELSE "rword"
          /\ pipe' = SubSeq(pipe, Len(bytes) + 1, Len(pipe))
    /\ UNCHANGED <<file, childVars, wordbuf, received>>

\* The length byte: 0 ends the loop.  (read_bytes = 0 is not looked at.)
ReadLength ==
    /\ ppc = "rlen"
    /\ \E bytes \in ReadOutcome(1) :
          /\ length' = IF bytes = <<>> THEN length ELSE bytes[1]
          /\ ppc' = IF length' = 0 THEN "close" ELSE "rword"
          /\ pipe' = SubSeq(pipe, Len(bytes) + 1, Len(pipe))
    /\ UNCHANGED <<file, childVars, wordbuf, received>>

\* The characters; then the word is terminated at "length", if that is not past the
\* end of word[], and printed: its first "length" characters, or those of them that
\* come before a '\0' which was left there.
ReadWord ==
    /\ ppc = "rword"
    /\ Len(received) < MaxPrinted
    /\ \E bytes \in ReadOutcome(length) :
          /\ wordbuf' = [i \in DOMAIN wordbuf |->
                           IF i <= Len(bytes) THEN bytes[i]
                           ELSE IF i = length + 1 THEN Nul ELSE wordbuf[i]]
          /\ received' = Append(received, SubSeq(wordbuf', 1, length))
          /\ pipe' = SubSeq(pipe, Len(bytes) + 1, Len(pipe))
    /\ ppc' = "rlen"
    /\ UNCHANGED <<file, childVars, length>>

ParentClose == /\ ppc = "close"
               /\ ppc' = "exited"
               /\ UNCHANGED <<file, childVars, length, wordbuf, received, pipe>>

Parent == ReadLength \/ ReadWord \/ ParentClose

Next == Child \/ Parent

Spec == Init /\ [][Next]_vars

\* The kernel keeps running both processes.
FairSpec == Spec /\ WF_vars(Child) /\ WF_vars(Parent)
===============================================================================
