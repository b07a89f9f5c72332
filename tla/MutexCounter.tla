----------------------------- MODULE MutexCounter -----------------------------
(***************************************************************************)
(* pthread-mutex/pthread_mutex_lock-pthread_mutex_unlock/main.c and        *)
(* pthread-mutex/pthread_mutex_trylock/main.c: NUM_THREADS threads each    *)
(* increment one shared int and print it.  The first program locks only    *)
(* with -m; the second gives up when pthread_mutex_trylock fails.          *)
(*                                                                         *)
(* The increment without a lock is a data race: the load and the store    *)
(* are separate steps here, as they are in the machine code.               *)
(***************************************************************************)
EXTENDS Integers, FiniteSets, Pthread

CONSTANTS Workers,   \* NUM_THREADS threads
          Modes      \* what is run: "lock" (-m), "none", "trylock"

ASSUME MutexCounterAssumption ==
    /\ IsFiniteSet(Workers) /\ NoThread \notin Workers
    /\ Modes \subseteq {"lock", "none", "trylock"}

VARIABLES mode, sharedVariable,
          reg,        \* each thread: the value it loaded
          printed,    \* each thread: the value it printed, 0 before
          place, mplace

counterVars == <<mutex, waiting, mode, sharedVariable, reg, printed, place, mplace>>

CounterInit ==
    /\ mutex = NoThread /\ waiting = {}
    /\ mode \in Modes
    /\ sharedVariable = 0
    /\ reg = [t \in Workers |-> 0] /\ printed = [t \in Workers |-> 0]
    /\ place = [t \in Workers |-> "none"]
    /\ mplace = "create"

\* pthread_create in a loop (a failure ends the process); pthread_join in a loop;
\* pthread_mutex_destroy.
counter_main ==
    /\ \/ /\ mplace = "create"
          /\ \E t \in Workers : place[t] = "none" /\ place' = [place EXCEPT ![t] = "enter"]
          /\ UNCHANGED mplace
       \/ /\ mplace = "create"
          /\ \E t \in Workers : place[t] = "none"
          /\ mplace' = "exit" /\ place' = [t \in Workers |-> "exit"]
       \/ /\ mplace = "create"
          /\ \A t \in Workers : place[t] # "none"
          /\ mplace' = "join" /\ UNCHANGED place
       \/ /\ mplace = "join"
          /\ \A t \in Workers : place[t] = "done"
          /\ mplace' = "joined" /\ UNCHANGED place
    /\ UNCHANGED <<mutex, waiting, mode, sharedVariable, reg, printed>>

-------------------------------------------------------------------------------
\* How a thread comes to its critical section: lock_enter in the first program,
\* trylock_enter in the second.
lock_enter_NoLock(t) == /\ mode \in {"lock", "none"}
                        /\ UNCHANGED mutex
                        /\ place' = [place EXCEPT ![t] = "load"]

lock_enter(t) == /\ mode \in {"lock", "none"}
                 /\ IF mode = "lock" THEN pthread_mutex_lock(t) ELSE UNCHANGED mutex
                 /\ place' = [place EXCEPT ![t] = "load"]

trylock_enter(t) == /\ mode = "trylock"
                    /\ \/ /\ pthread_mutex_lock(t)
                          /\ place' = [place EXCEPT ![t] = "load"]
                       \/ /\ mutex # NoThread
                          /\ place' = [place EXCEPT ![t] = "done"]
                          /\ UNCHANGED mutex

Enter(t) == /\ place[t] = "enter"
            /\ lock_enter(t) \/ trylock_enter(t)
            /\ UNCHANGED <<waiting, mode, sharedVariable, reg, printed, mplace>>

\* The increment of sharedVariable, and the printf that reads it again.
Load(t) == /\ place[t] = "load"
           /\ reg' = [reg EXCEPT ![t] = sharedVariable]
           /\ place' = [place EXCEPT ![t] = "store"]
           /\ UNCHANGED <<mutex, waiting, mode, sharedVariable, printed, mplace>>

Store(t) == /\ place[t] = "store"
            /\ sharedVariable' = reg[t] + 1
            /\ place' = [place EXCEPT ![t] = "print"]
            /\ UNCHANGED <<mutex, waiting, mode, reg, printed, mplace>>

PrintValue(t) == /\ place[t] = "print"
                 /\ printed' = [printed EXCEPT ![t] = sharedVariable]
                 /\ place' = [place EXCEPT ![t] = "leave"]
                 /\ UNCHANGED <<mutex, waiting, mode, sharedVariable, reg, mplace>>

Leave(t) == /\ place[t] = "leave"
            /\ IF mode = "none" THEN UNCHANGED mutex ELSE pthread_mutex_unlock(t)
            /\ place' = [place EXCEPT ![t] = "done"]
            /\ UNCHANGED <<waiting, mode, sharedVariable, reg, printed, mplace>>

counter_thread(t) == Enter(t) \/ Load(t) \/ Store(t) \/ PrintValue(t) \/ Leave(t)

CounterNext == counter_main \/ \E t \in Workers : counter_thread(t)

CounterSpec == CounterInit /\ [][CounterNext]_counterVars

-------------------------------------------------------------------------------
\* Types of the counter and of the threads' state.
CounterTypeOK ==
    /\ mutex \in Workers \cup {NoThread} /\ waiting = {}
    /\ mode \in Modes
    /\ sharedVariable \in Nat
    /\ reg \in [Workers -> Nat] /\ printed \in [Workers -> Nat]
    /\ place \in [Workers -> {"none", "enter", "load", "store", "print", "leave", "done",
                              "exit"}]
    /\ mplace \in {"create", "join", "joined", "exit"}

\* The threads whose increment is complete.
Counted == {t \in Workers : place[t] \in {"print", "leave"} \/ printed[t] > 0}

\* With the mutex no increment is lost: the counter is the number of threads that
\* have stored, whichever program and however many threads gave up, and no two
\* threads print the same value.
NoLostUpdate ==
    mode \in {"lock", "trylock"} =>
        /\ mplace # "exit" => sharedVariable = Cardinality(Counted)
        /\ \A t, u \in Workers : printed[t] > 0 /\ printed[t] = printed[u] => t = u

\* main has joined all threads, or the process ended because one was not created.
CounterEnded == mplace \in {"joined", "exit"}
===============================================================================
