------------------------------- MODULE Pthread -------------------------------
(***************************************************************************)
(* One POSIX mutex and one condition variable, as the programs under       *)
(* pthread-mutex and pthread-condition use them.                           *)
(***************************************************************************)
VARIABLES mutex,    \* the thread that holds the mutex, or NoThread
          waiting   \* the threads blocked in pthread_cond_wait

NoThread == "no_thread"

pthread_mutex_lock(t) == mutex = NoThread /\ mutex' = t

pthread_mutex_unlock(t) == mutex = t /\ mutex' = NoThread

\* Giving up the mutex and starting to wait are one step.
pthread_cond_wait(t) == /\ mutex = t
                        /\ mutex' = NoThread
                        /\ waiting' = waiting \cup {t}

\* A woken thread returns from pthread_cond_wait with the mutex.
cond_wait_returns(t) == t \notin waiting /\ pthread_mutex_lock(t)

\* signal wakes at least one waiter, if there is one; broadcast wakes all.
pthread_cond_signal == \/ waiting = {} /\ UNCHANGED waiting
                       \/ \E woken \in (SUBSET waiting) \ {{}} :
                             waiting' = waiting \ woken

pthread_cond_broadcast == waiting' = {}

\* A waiter may wake although nobody signalled.
SpuriousWakeup == /\ \E t \in waiting : waiting' = waiting \ {t}
                  /\ UNCHANGED mutex
===============================================================================
