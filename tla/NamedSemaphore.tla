---------------------------- MODULE NamedSemaphore ----------------------------
(***************************************************************************)
(* semaphores/sem_post-sem_wait/main.c and semaphores/sem_trywait/main.c:  *)
(* a parent and its child share the named semaphore "/example_semaphore",  *)
(* created with O_CREAT | O_EXCL and the value 1.  The third program,      *)
(* semaphores/sem_open-sem_close-sem_unlink/main.c, uses the same name.    *)
(*                                                                         *)
(* The name belongs to the system: it outlives a run that is killed, and   *)
(* runs of either program that are started side by side compete for it.    *)
(* sleep() is any delay: the kernel may hold up either process for longer. *)
(***************************************************************************)
EXTENDS Integers, FiniteSets

CONSTANTS Runs,         \* the runs the user starts, in any order or side by side
          TRY_COUNT     \* 5 in the code

NoRun == "no_run"

ASSUME NamedSemaphoreAssumption == NoRun \notin Runs /\ TRY_COUNT \in Nat \ {0}

VARIABLES name,         \* the run whose semaphore the name refers to, or NoRun
          program,      \* what each run runs: one of Programs
          value,        \* the semaphore of each run
          cpc, ppc,     \* where the child and the parent of each run are
          try_count     \* the parent's local

semVars == <<name, program, value, cpc, ppc, try_count>>

Programs == {"open", "wait", "trywait"}

SemInit ==
    /\ name = NoRun
    /\ program \in [Runs -> Programs]
    /\ value = [r \in Runs |-> 0]
    /\ cpc = [r \in Runs |-> "none"] /\ ppc = [r \in Runs |-> "start"]
    /\ try_count = [r \in Runs |-> TRY_COUNT]

-------------------------------------------------------------------------------
sem_open_NoExcl(r) ==
    /\ ppc[r] = "start"
    /\ name' = r
    /\ value' = [value EXCEPT ![r] = 1]
    /\ ppc' = [ppc EXCEPT ![r] = "fork"]
    /\ UNCHANGED <<program, cpc, try_count>>

\* sem_open(name, O_CREAT | O_EXCL, mode, 1): fails when the name exists.
sem_open(r) ==
    /\ ppc[r] = "start"
    /\ \/ /\ name # NoRun
          /\ ppc' = [ppc EXCEPT ![r] = "failed"]
          /\ UNCHANGED <<name, value>>
       \/ /\ name = NoRun
          /\ name' = r
          /\ value' = [value EXCEPT ![r] = 1]
          /\ ppc' = [ppc EXCEPT ![r] = IF program[r] = "open" THEN "close" ELSE "fork"]
    /\ UNCHANGED <<program, cpc, try_count>>

\* sem_open-sem_close-sem_unlink: nothing happens between the calls.
OpenClose(r) == /\ ppc[r] = "close"
                /\ ppc' = [ppc EXCEPT ![r] = "unlink"]
                /\ UNCHANGED <<name, program, value, cpc, try_count>>

\* fork, and the cleanup when it fails.
Fork(r) ==
    /\ ppc[r] = "fork"
    /\ \/ /\ ppc' = [ppc EXCEPT ![r] = "wait"]
          /\ cpc' = [cpc EXCEPT ![r] = "wait"]
          /\ UNCHANGED name
       \/ /\ ppc' = [ppc EXCEPT ![r] = "failed"]
          /\ name' = NoRun
          /\ UNCHANGED cpc
    /\ UNCHANGED <<program, value, try_count>>

sem_wait(r) == value[r] > 0 /\ value' = [value EXCEPT ![r] = @ - 1]
sem_post(r) == value' = [value EXCEPT ![r] = @ + 1]

\* The child: sem_wait, work, sem_post, and out.
ChildProcess(r) ==
    /\ \/ /\ cpc[r] = "wait" /\ sem_wait(r)
          /\ cpc' = [cpc EXCEPT ![r] = "work"]
       \/ /\ cpc[r] = "work" /\ sem_post(r)
          /\ cpc' = [cpc EXCEPT ![r] = "exited"]
    /\ UNCHANGED <<name, program, ppc, try_count>>

\* The parent of sem_post-sem_wait: sem_wait, sem_post.
ParentWait(r) ==
    /\ program[r] = "wait"
    /\ \/ /\ ppc[r] = "wait" /\ sem_wait(r)
          /\ ppc' = [ppc EXCEPT ![r] = "hold"]
       \/ /\ ppc[r] = "hold" /\ sem_post(r)
          /\ ppc' = [ppc EXCEPT ![r] = "reap"]
    /\ UNCHANGED <<name, program, cpc, try_count>>

LastTryFails_Counted(r) == ppc[r] = "wait" /\ try_count[r] = 1
LastTryFails(r) == ppc[r] = "wait" /\ value[r] = 0 /\ try_count[r] = 1

\* The parent of sem_trywait: at most TRY_COUNT attempts; at the last failure it
\* unlinks the name and gives up.
ParentTrywait(r) ==
    /\ program[r] = "trywait"
    /\ \/ /\ ppc[r] = "wait" /\ sem_wait(r)
          /\ ppc' = [ppc EXCEPT ![r] = "hold"]
          /\ UNCHANGED <<name, try_count>>
       \/ /\ ppc[r] = "hold" /\ sem_post(r)
          /\ ppc' = [ppc EXCEPT ![r] = "reap"]
          /\ UNCHANGED <<name, try_count>>
       \/ /\ ppc[r] = "wait" /\ value[r] = 0 /\ try_count[r] > 1
          /\ try_count' = [try_count EXCEPT ![r] = @ - 1]
          /\ UNCHANGED <<name, ppc, value>>
       \/ /\ LastTryFails(r)
          /\ name' = NoRun
          /\ ppc' = [ppc EXCEPT ![r] = "gave_up"]
          /\ UNCHANGED <<value, try_count>>
    /\ UNCHANGED <<program, cpc>>

\* wait(NULL) for the child, then sem_unlink.
ParentReap(r) ==
    /\ \/ /\ ppc[r] = "reap" /\ cpc[r] = "exited"
          /\ ppc' = [ppc EXCEPT ![r] = "unlink"]
          /\ UNCHANGED name
       \/ /\ ppc[r] = "unlink"
          /\ name' = NoRun
          /\ ppc' = [ppc EXCEPT ![r] = "exited"]
    /\ UNCHANGED <<program, value, cpc, try_count>>

ParentProcess(r) == sem_open(r) \/ OpenClose(r) \/ Fork(r) \/ ParentWait(r) \/ ParentTrywait(r)
                    \/ ParentReap(r)

\* The user interrupts a run: parent and child die where they are.
Over(r) == ppc[r] \in {"failed", "gave_up", "exited", "killed"}

Kill(r) == /\ ppc[r] # "start" /\ ~Over(r)
           /\ ppc' = [ppc EXCEPT ![r] = "killed"]
           /\ cpc' = [cpc EXCEPT ![r] = IF @ \in {"wait", "work"} THEN "killed" ELSE @]
           /\ UNCHANGED <<name, program, value, try_count>>

SemNext == \E r \in Runs : ChildProcess(r) \/ ParentProcess(r) \/ Kill(r)

SemSpec == SemInit /\ [][SemNext]_semVars

-------------------------------------------------------------------------------
Owns(r) == ppc[r] \in {"close", "fork", "wait", "hold", "reap", "unlink"}

\* Side by side runs keep out of each other's way: at most one owns the name, it
\* is the one the name refers to, and so every sem_unlink removes the semaphore
\* its own run created.
UnlinksOwn == \A r \in Runs : Owns(r) => name = r

\* A step in which the parent of sem_trywait gives up finds its child at work.
GivingUpStep ==
    \A r \in Runs : ppc[r] # "gave_up" /\ ppc'[r] = "gave_up" => cpc[r] = "work"
GivesUpOnlyOnChild == [][GivingUpStep]_semVars

\* A step in a system where a killed run has left its name: the name stays, and no
\* run that starts gets past sem_open.
BlockedStep ==
    \A r \in Runs : name = r /\ ppc[r] = "killed" =>
        name' = r /\ \A s \in Runs : ppc[s] = "start" => ppc'[s] \in {"start", "failed"}
KilledRunBlocksOthers == [][BlockedStep]_semVars
===============================================================================
