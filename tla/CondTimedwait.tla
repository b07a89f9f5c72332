---------------------------- MODULE CondTimedwait ----------------------------
(***************************************************************************)
(* pthread-condition/pthread_cond_timedwait/main.c: main waits on a        *)
(* condition variable until a deadline while a second thread sleeps and    *)
(* then signals it.  No predicate goes with the condition variable, so     *)
(* what main prints rests on the result of pthread_cond_timedwait alone.   *)
(***************************************************************************)
EXTENDS Integers, Pthread

CONSTANTS TIME_T_MAX,      \* the largest time_t: LONG_MAX in the code
          MainSeconds,     \* the values -m may have: any time_t
          ThreadSeconds,   \* the values -t may have: any unsigned int
          StartTime,       \* the clock when the program starts
          MaxTime          \* bound: stands for this and every later time

ASSUME CondTimedwaitAssumption ==
    /\ TIME_T_MAX \in Nat /\ MaxTime \in 0..TIME_T_MAX /\ StartTime \in 0..MaxTime
    /\ MainSeconds \subseteq (-TIME_T_MAX - 1)..TIME_T_MAX
    /\ ThreadSeconds \subseteq Nat

VARIABLES now,                         \* CLOCK_REALTIME, in seconds
          main_seconds, thread_seconds,
          abs_timeout, result,         \* main's locals
          wake,                        \* when the thread's sleep is over
          tpc                          \* where main and the thread are

timedArgs == <<main_seconds, thread_seconds>>
timedVars == <<mutex, waiting, now, timedArgs, abs_timeout, result, wake, tpc>>

Goto(t, there) == tpc' = [tpc EXCEPT ![t] = there]
At(t, here)    == tpc[t] = here

\* tv_sec += main_seconds, in a time_t: signed overflow wraps in every build that
\* does not trap it.
time_t(n) == IF n > TIME_T_MAX THEN n - 2 * (TIME_T_MAX + 1) ELSE n

\* The clock has come to time t.
Reached(t) == now >= t \/ now = MaxTime

TimedInit ==
    /\ mutex = NoThread /\ waiting = {}
    /\ now = StartTime
    /\ main_seconds \in MainSeconds /\ thread_seconds \in ThreadSeconds
    /\ abs_timeout = 0 /\ result = "none" /\ wake = 0
    /\ tpc = [main |-> "create", thread |-> "none"]

Tick == /\ now < MaxTime
        /\ now' = now + 1
        /\ UNCHANGED <<mutex, waiting, timedArgs, abs_timeout, result, wake, tpc>>

-------------------------------------------------------------------------------
Deadline_Relative == time_t(main_seconds)

\* clock_gettime(CLOCK_REALTIME), and the seconds added to it.
Deadline == time_t(now + main_seconds)

pthread_join == At("thread", "done")

timed_main ==
    /\ \/ /\ At("main", "create")
          /\ tpc' = [main |-> "gettime", thread |-> "start"]
          /\ UNCHANGED <<mutex, waiting, abs_timeout, result>>
       \/ /\ At("main", "gettime")
          /\ abs_timeout' = Deadline
          /\ Goto("main", "lock")
          /\ UNCHANGED <<mutex, waiting, result>>
       \/ /\ At("main", "lock") /\ pthread_mutex_lock("main")
          /\ Goto("main", "timedwait")
          /\ UNCHANGED <<waiting, abs_timeout, result>>
       \/ /\ At("main", "unlock") /\ pthread_mutex_unlock("main")
          /\ Goto("main", "join")
          /\ UNCHANGED <<waiting, abs_timeout, result>>
       \/ /\ At("main", "join") /\ pthread_join
          /\ Goto("main", "destroyed")
          /\ UNCHANGED <<mutex, waiting, abs_timeout, result>>
    /\ UNCHANGED <<now, timedArgs, wake>>

\* pthread_cond_timedwait: wait; be woken or time out; take the mutex again.
timedwait ==
    /\ \/ /\ At("main", "timedwait") /\ ~Reached(abs_timeout)
          /\ pthread_cond_wait("main")
          /\ Goto("main", "waiting")
          /\ UNCHANGED result
       \/ /\ At("main", "timedwait") /\ Reached(abs_timeout)
          /\ Goto("main", "unlock")
          /\ result' = "ETIMEDOUT"
          /\ UNCHANGED <<mutex, waiting>>
       \/ /\ At("main", "waiting") /\ "main" \in waiting /\ Reached(abs_timeout)
          /\ waiting' = waiting \ {"main"}
          /\ result' = "ETIMEDOUT"
          /\ UNCHANGED <<mutex, tpc>>
       \/ /\ At("main", "waiting") /\ cond_wait_returns("main")
          /\ result' = IF result = "none" THEN "0" ELSE result
          /\ Goto("main", "unlock")
          /\ UNCHANGED waiting
    /\ UNCHANGED <<now, timedArgs, abs_timeout, wake>>

TimedWakeup == /\ SpuriousWakeup
               /\ UNCHANGED <<now, timedArgs, abs_timeout, result, wake, tpc>>

ThreadUnlock == At("thread", "unlock") /\ pthread_mutex_unlock("thread")

timed_thread ==
    /\ \/ /\ At("thread", "start")
          /\ wake' = now + thread_seconds
          /\ Goto("thread", "sleep")
          /\ UNCHANGED <<mutex, waiting>>
       \/ /\ At("thread", "sleep") /\ Reached(wake)
          /\ pthread_mutex_lock("thread")
          /\ Goto("thread", "signal")
          /\ UNCHANGED <<waiting, wake>>
       \/ /\ At("thread", "signal")
          /\ pthread_cond_signal
          /\ Goto("thread", "unlock")
          /\ UNCHANGED <<mutex, wake>>
       \/ /\ ThreadUnlock
          /\ Goto("thread", "done")
          /\ UNCHANGED <<waiting, wake>>
    /\ UNCHANGED <<now, timedArgs, abs_timeout, result>>

TimedNext == Tick \/ timed_main \/ timedwait \/ TimedWakeup \/ timed_thread

TimedSpec == TimedInit /\ [][TimedNext]_timedVars

-------------------------------------------------------------------------------
TimedPlaces == {"create", "gettime", "lock", "timedwait", "waiting", "unlock", "join", "destroyed",
                "none", "start", "sleep", "signal", "done"}

\* Types of main's and the thread's state.
TimedTypeOK ==
    /\ mutex \in {NoThread, "main", "thread"}
    /\ waiting \subseteq {"main"}
    /\ now \in StartTime..MaxTime
    /\ main_seconds \in MainSeconds /\ thread_seconds \in ThreadSeconds
    /\ abs_timeout \in (-TIME_T_MAX - 1)..TIME_T_MAX
    /\ result \in {"none", "0", "ETIMEDOUT"} /\ wake \in Nat
    /\ tpc \in [{"main", "thread"} -> TimedPlaces]

\* main does not report a timeout before the seconds it was given have passed,
\* as long as the deadline fits in a time_t.
TimeoutNotEarly ==
    result = "ETIMEDOUT" /\ StartTime + main_seconds <= TIME_T_MAX - MaxTime
        => Reached(StartTime + main_seconds)

\* main came back from the wait and joined the thread.
TimedEnded == At("main", "destroyed")
===============================================================================
