---------------------------- MODULE CondBroadcast ----------------------------
(***************************************************************************)
(* pthread-condition/pthread_cond_broadcast/main.c: the threads wait until *)
(* main has counted shared_data up to ITERATIONS, broadcasting each time.  *)
(***************************************************************************)
EXTENDS Integers, FiniteSets, Pthread

CONSTANTS Threads,         \* NUM_THREADS threads
          ITERATIONS

ASSUME CondBroadcastAssumption ==
    /\ NoThread \notin Threads /\ "main" \notin Threads
    /\ ITERATIONS \in Nat \ {0}

VARIABLES shared_data,
          i,         \* main: the iterations it has begun
          mpc,       \* where main is
          pc         \* where each thread is

vars == <<mutex, waiting, shared_data, i, mpc, pc>>

Init == /\ mutex = NoThread /\ waiting = {}
        /\ shared_data = 0 /\ i = 0
        /\ mpc = "create"
        /\ pc = [t \in Threads |-> "none"]

-------------------------------------------------------------------------------
\* pthread_create, one thread after the other; a failure ends the process.
MainCreate ==
    /\ mpc = "create"
    /\ \/ \E t \in Threads :
             /\ pc[t] = "none"
             /\ pc' = [pc EXCEPT ![t] = "lock"]
             /\ UNCHANGED mpc
       \/ /\ \A t \in Threads : pc[t] # "none"
          /\ mpc' = "lock"
          /\ UNCHANGED pc
       \/ /\ \E t \in Threads : pc[t] = "none"
          /\ mpc' = "exit"
          /\ pc' = [t \in Threads |-> "exit"]
    /\ UNCHANGED <<mutex, waiting, shared_data, i>>

MainLock == /\ mpc = "lock" /\ i < ITERATIONS
            /\ pthread_mutex_lock("main")
            /\ mpc' = "update"
            /\ UNCHANGED <<waiting, shared_data, i, pc>>

MainUpdate_Signal == /\ mpc = "update"
                     /\ shared_data' = i + 1
                     /\ pthread_cond_signal
                     /\ mpc' = "unlock"
                     /\ UNCHANGED <<mutex, i, pc>>

MainUpdate == /\ mpc = "update"
              /\ shared_data' = i + 1
              /\ pthread_cond_broadcast
              /\ mpc' = "unlock"
              /\ UNCHANGED <<mutex, i, pc>>

MainUnlock == /\ mpc = "unlock"
              /\ pthread_mutex_unlock("main")
              /\ i' = i + 1
              /\ mpc' = "lock"
              /\ UNCHANGED <<waiting, shared_data, pc>>

\* pthread_join for every thread; then mutex and condition are destroyed.
MainJoin == /\ mpc = "lock" /\ i = ITERATIONS
            /\ \A t \in Threads : pc[t] = "done"
            /\ mpc' = "destroyed"
            /\ UNCHANGED <<mutex, waiting, shared_data, i, pc>>

main == MainCreate \/ MainLock \/ MainUpdate \/ MainUnlock \/ MainJoin

-------------------------------------------------------------------------------
ThreadLock(t) == /\ \/ pc[t] = "lock" /\ pthread_mutex_lock(t)
                    \/ pc[t] = "wait" /\ cond_wait_returns(t)
                 /\ pc' = [pc EXCEPT ![t] = "test"]
                 /\ UNCHANGED <<waiting, shared_data, i, mpc>>

ThreadTest_OffByOne(t) ==
                 /\ pc[t] = "test" /\ shared_data <= ITERATIONS
                 /\ pthread_cond_wait(t)
                 /\ pc' = [pc EXCEPT ![t] = "wait"]
                 /\ UNCHANGED <<shared_data, i, mpc>>

ThreadTest(t) == /\ pc[t] = "test"
                 /\ \/ /\ shared_data < ITERATIONS
                       /\ pthread_cond_wait(t)
                       /\ pc' = [pc EXCEPT ![t] = "wait"]
                    \/ /\ shared_data >= ITERATIONS
                       /\ pthread_mutex_unlock(t)
                       /\ pc' = [pc EXCEPT ![t] = "done"]
                       /\ UNCHANGED waiting
                 /\ UNCHANGED <<shared_data, i, mpc>>

thread_function(t) == ThreadLock(t) \/ ThreadTest(t)

Wakeup == SpuriousWakeup /\ mpc # "exit" /\ UNCHANGED <<shared_data, i, mpc, pc>>

Next == main \/ (\E t \in Threads : thread_function(t)) \/ Wakeup

Spec == Init /\ [][Next]_vars

\* Every thread that can run is run; a thread that keeps finding the mutex free
\* gets it in the end; spurious wakeups do not go on for ever.
FairSpec == /\ Spec
            /\ SF_vars(main) /\ \A t \in Threads : SF_vars(thread_function(t))
            /\ <>[][~Wakeup]_vars

-------------------------------------------------------------------------------
\* Types of struct synchronization_data and of the threads' state.
TypeOK == /\ mutex \in Threads \cup {NoThread, "main"}
          /\ waiting \subseteq Threads
          /\ shared_data \in 0..ITERATIONS /\ i \in 0..ITERATIONS
          /\ mpc \in {"create", "lock", "update", "unlock", "destroyed", "exit"}
          /\ pc \in [Threads -> {"none", "lock", "test", "wait", "done", "exit"}]

\* No thread sleeps through the last broadcast: once shared_data has reached
\* ITERATIONS nobody is left waiting, and nobody starts to wait again.
NoWaiterAfterLast == shared_data = ITERATIONS => waiting = {}

\* The mutex and the condition variable are destroyed only when no thread can
\* still use them.
DestroyIsSafe ==
    mpc = "destroyed" => /\ mutex = NoThread /\ waiting = {}
                         /\ \A t \in Threads : pc[t] \notin {"lock", "test", "wait"}

\* main has joined all threads, or the process ended because one was not created.
Ended == mpc \in {"destroyed", "exit"}
===============================================================================
