----------------------------- MODULE WordHandoff -----------------------------
(***************************************************************************)
(* pthread-condition/pthread_cond_wait-pthread_cond_signal/main.c: one     *)
(* thread hands the words of a file to another through one shared slot.    *)
(*                                                                         *)
(* The words are numbered 1..WordCount in file order; word n is the block  *)
(* strdup returned for it.  NULL, the end marker, is sent last.  The       *)
(* parent thread takes the pointer out of the slot and prints the string   *)
(* after it has unlocked the mutex.                                        *)
(***************************************************************************)
EXTENDS Integers, Sequences, Pthread

CONSTANT WordCount        \* the number of words in the file

ASSUME WordCountAssumption == WordCount \in Nat

VARIABLES word_ready, shared_word,   \* the slot
          freed,                     \* the blocks free() has been called on
          next,                      \* child: the word it sends, WordCount + 1 for NULL
          ptr,                       \* parent: its local pointer
          hpc,                       \* where each thread is
          lines,                     \* what the parent has printed
          taken                      \* history: how often the parent emptied the slot

handoffVars == <<mutex, waiting, word_ready, shared_word, freed, next, ptr, hpc, lines, taken>>
slot == <<word_ready, shared_word, freed>>
sync == <<mutex, waiting>>

NULL    == 0
Garbage == -1             \* what printing a freed block shows

ThreadGoes(t, there) == hpc' = [hpc EXCEPT ![t] = there]
ThreadAt(t, here)    == hpc[t] = here

HandoffInit == /\ mutex = NoThread /\ waiting = {}
               /\ word_ready = 0 /\ shared_word = NULL /\ freed = {}
               /\ next = 1 /\ ptr = NULL
               /\ hpc = [main |-> "create_child", child |-> "none", parent |-> "none"]
               /\ lines = <<>> /\ taken = 0

-------------------------------------------------------------------------------
\* exit() in any thread ends the process.
Exit == /\ hpc' = [t \in DOMAIN hpc |-> "exited"]
        /\ UNCHANGED <<sync, slot, next, ptr, lines, taken>>

\* main: two pthread_create, either of which may fail, and two pthread_join.
handoff_main ==
    \/ ThreadAt("main", "create_child") /\ Exit
    \/ ThreadAt("main", "create_parent") /\ Exit
    \/ /\ \/ /\ ThreadAt("main", "create_child")
             /\ hpc' = [hpc EXCEPT !["main"] = "create_parent", !["child"] = "open"]
          \/ /\ ThreadAt("main", "create_parent")
             /\ hpc' = [hpc EXCEPT !["main"] = "join_child", !["parent"] = "lock"]
          \/ /\ ThreadAt("main", "join_child") /\ ThreadAt("child", "done")
             /\ ThreadGoes("main", "join_parent")
          \/ /\ ThreadAt("main", "join_parent") /\ ThreadAt("parent", "done")
             /\ ThreadGoes("main", "return")
          \/ /\ ThreadAt("main", "return")
             /\ hpc' = [t \in DOMAIN hpc |-> "exited"]
       /\ UNCHANGED <<sync, slot, next, ptr, lines, taken>>

-------------------------------------------------------------------------------
\* child_process: fopen; a word at a time to send_word; NULL; pthread_exit.
child_process ==
    \/ ThreadAt("child", "open") /\ Exit
    \/ /\ \/ ThreadAt("child", "open") /\ ThreadGoes("child", "lock") /\ UNCHANGED next
          \/ /\ ThreadAt("child", "sent")
             /\ next' = next + 1
             /\ ThreadGoes("child", IF next > WordCount THEN "done" ELSE "lock")
       /\ UNCHANGED <<sync, slot, ptr, lines, taken>>

\* send_word, from here to ChildUnlock: lock, wait while the slot is full, free what
\* is in it, fill it, signal, unlock.
ChildLock_If == /\ \/ /\ ThreadAt("child", "lock") /\ pthread_mutex_lock("child")
                      /\ ThreadGoes("child", "test")
                   \/ /\ ThreadAt("child", "wait") /\ cond_wait_returns("child")
                      /\ ThreadGoes("child", "free")
                /\ UNCHANGED <<waiting, slot, next, ptr, lines, taken>>

ChildLock == /\ \/ ThreadAt("child", "lock") /\ pthread_mutex_lock("child")
                \/ ThreadAt("child", "wait") /\ cond_wait_returns("child")
             /\ ThreadGoes("child", "test")
             /\ UNCHANGED <<waiting, slot, next, ptr, lines, taken>>

ChildTest == /\ ThreadAt("child", "test")
             /\ \/ /\ word_ready = 1
                   /\ pthread_cond_wait("child")
                   /\ ThreadGoes("child", "wait")
                \/ /\ word_ready = 0
                   /\ ThreadGoes("child", "free")
                   /\ UNCHANGED sync
             /\ UNCHANGED <<slot, next, ptr, lines, taken>>

ChildFree == /\ ThreadAt("child", "free")
             /\ freed' = IF shared_word # NULL THEN freed \cup {shared_word} ELSE freed
             /\ ThreadGoes("child", "fill")
             /\ UNCHANGED <<sync, word_ready, shared_word, next, ptr, lines, taken>>

ChildFill ==
    \/ ThreadAt("child", "fill") /\ next <= WordCount /\ Exit      \* strdup fails
    \/ /\ ThreadAt("child", "fill")
       /\ shared_word' = IF next > WordCount THEN NULL ELSE next
       /\ ThreadGoes("child", "signal")
       /\ UNCHANGED <<sync, word_ready, freed, next, ptr, lines, taken>>

ChildSignal_Missing == /\ ThreadAt("child", "signal")
                       /\ word_ready' = 1
                       /\ ThreadGoes("child", "unlock")
                       /\ UNCHANGED <<sync, shared_word, freed, next, ptr, lines, taken>>

ChildSignal == /\ ThreadAt("child", "signal")
               /\ word_ready' = 1
               /\ pthread_cond_signal
               /\ ThreadGoes("child", "unlock")
               /\ UNCHANGED <<mutex, shared_word, freed, next, ptr, lines, taken>>

ChildUnlock == /\ ThreadAt("child", "unlock")
               /\ pthread_mutex_unlock("child")
               /\ ThreadGoes("child", "sent")
               /\ UNCHANGED <<waiting, slot, next, ptr, lines, taken>>

send_word == ChildLock \/ ChildTest \/ ChildFree \/ ChildFill \/ ChildSignal
             \/ ChildUnlock

-------------------------------------------------------------------------------
\* parent_process: lock, wait while the slot is empty, empty it, signal, unlock;
\* only then read the pointer and print what it points to.
ParentLock == /\ \/ ThreadAt("parent", "lock") /\ pthread_mutex_lock("parent")
                 \/ ThreadAt("parent", "wait") /\ cond_wait_returns("parent")
              /\ ThreadGoes("parent", "test")
              /\ UNCHANGED <<waiting, slot, next, ptr, lines, taken>>

ParentTest == /\ ThreadAt("parent", "test")
              /\ \/ /\ word_ready = 0
                    /\ pthread_cond_wait("parent")
                    /\ ThreadGoes("parent", "wait")
                 \/ /\ word_ready = 1
                    /\ ThreadGoes("parent", "take")
                    /\ UNCHANGED sync
              /\ UNCHANGED <<slot, next, ptr, lines, taken>>

ParentTake_KeepsReady == /\ ThreadAt("parent", "take")
                         /\ pthread_cond_signal
                         /\ taken' = taken + 1
                         /\ ThreadGoes("parent", "unlock")
                         /\ UNCHANGED <<mutex, slot, next, ptr, lines>>

ParentTake_NoSignal == /\ ThreadAt("parent", "take")
                       /\ word_ready' = 0
                       /\ taken' = taken + 1
                       /\ ThreadGoes("parent", "unlock")
                       /\ UNCHANGED <<sync, shared_word, freed, next, ptr, lines>>

ParentTake == /\ ThreadAt("parent", "take")
              /\ word_ready' = 0
              /\ pthread_cond_signal
              /\ taken' = taken + 1
              /\ ThreadGoes("parent", "unlock")
              /\ UNCHANGED <<mutex, shared_word, freed, next, ptr, lines>>

ParentUnlock == /\ ThreadAt("parent", "unlock")
                /\ pthread_mutex_unlock("parent")
                /\ ThreadGoes("parent", "load")
                /\ UNCHANGED <<waiting, slot, next, ptr, lines, taken>>

ParentLoad == /\ ThreadAt("parent", "load")
              /\ ptr' = shared_word
              /\ ThreadGoes("parent", IF shared_word = NULL THEN "done" ELSE "print")
              /\ UNCHANGED <<sync, slot, next, lines, taken>>

ParentPrint == /\ ThreadAt("parent", "print")
               /\ lines' = Append(lines, IF ptr \in freed THEN Garbage ELSE ptr)
               /\ ThreadGoes("parent", "lock")
               /\ UNCHANGED <<sync, slot, next, ptr, taken>>

parent_process == ParentLock \/ ParentTest \/ ParentTake \/ ParentUnlock
                  \/ ParentLoad \/ ParentPrint

HandoffWakeup == /\ SpuriousWakeup
                 /\ UNCHANGED <<slot, next, ptr, hpc, lines, taken>>

HandoffNext == handoff_main \/ child_process \/ send_word \/ parent_process \/ HandoffWakeup

HandoffSpec == HandoffInit /\ [][HandoffNext]_handoffVars

\* Every thread that can run is run, and spurious wakeups do not go on for ever.
HandoffFairSpec ==
    /\ HandoffSpec /\ WF_handoffVars(handoff_main) /\ WF_handoffVars(child_process \/ send_word)
    /\ WF_handoffVars(parent_process) /\ <>[][~HandoffWakeup]_handoffVars

-------------------------------------------------------------------------------
Locals == {"lock", "test", "wait", "unlock"}

\* Types of struct shared_data and of the threads' state.
HandoffTypeOK ==
    /\ mutex \in {NoThread, "child", "parent"}
    /\ waiting \subseteq {"child", "parent"}
    /\ word_ready \in {0, 1}
    /\ shared_word \in 0..WordCount /\ ptr \in 0..WordCount
    /\ freed \subseteq 1..WordCount
    /\ next \in 1..(WordCount + 2)
    /\ taken \in Nat
    /\ lines \in Seq({Garbage} \cup 1..WordCount)
    /\ DOMAIN hpc = {"main", "child", "parent"}
    /\ hpc["main"] \in {"create_child", "create_parent", "join_child", "join_parent",
                       "return", "exited"}
    /\ hpc["child"] \in Locals \cup {"none", "open", "free", "fill", "signal", "sent",
                                    "done", "exited"}
    /\ hpc["parent"] \in Locals \cup {"none", "take", "load", "print", "done", "exited"}

Alive == hpc["main"] # "exited"

\* Only the thread that holds the mutex touches the slot inside its critical
\* section.
Holders ==
    Alive => /\ hpc["child"] \in {"test", "free", "fill", "signal", "unlock"} <=> mutex = "child"
             /\ hpc["parent"] \in {"test", "take", "unlock"} <=> mutex = "parent"

\* The words handed over (next - 1, plus one from the fill to the return of
\* send_word) and the words taken differ by the slot: it never overwrites a word
\* that was not taken, and the parent never takes twice what was put once.
Put == next - 1 + (IF hpc["child"] \in {"unlock", "sent"} THEN 1 ELSE 0)
SlotAlternates == Alive => Put = taken + word_ready

\* The two threads never wait for each other: whoever waits will be signalled by
\* a thread that is not waiting, or has been.
NeverBothWait == ~ ({"child", "parent"} \subseteq waiting)

\* The unlocked read of shared_word sees the word just taken or the one after it,
\* and never an older one.
LoadsCurrentOrNext ==
    Alive /\ hpc["parent"] = "print" => ptr \in {taken, taken + 1}
===============================================================================
