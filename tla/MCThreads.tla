------------------------------ MODULE MCThreads ------------------------------
(***************************************************************************)
(* The programs with threads or semaphores that need no input of their own *)
(* for TLC: a behaviour is of pthread_cond_broadcast, of one of the        *)
(* counters under pthread-mutex, of pthread_cond_timedwait, or of several  *)
(* runs of the programs under semaphores.  The others stay where they      *)
(* started.                                                                *)
(***************************************************************************)
EXTENDS CondBroadcast, MutexCounter, NamedSemaphore, CondTimedwait

VARIABLE started           \* which of them the behaviour is of

timedOnly     == <<now, timedArgs, abs_timeout, result, wake, tpc>>
broadcastOnly == <<shared_data, i, mpc, pc>>
counterOnly   == <<mode, sharedVariable, reg, printed, place, mplace>>
allVars       == <<started, vars, counterOnly, timedOnly, semVars>>

ThreadsInit ==
    /\ started \in {"broadcast", "counter", "timedwait", "semaphore"}
    /\ Init /\ CounterInit /\ TimedInit /\ SemInit
    \* What the programs that are not started are given does not matter.
    /\ started # "counter" => mode = "none"
    /\ started # "timedwait" => main_seconds = 0 /\ thread_seconds = 0
    /\ started # "semaphore" => program = [r \in Runs |-> "open"]

Broadcast(step) == /\ started = "broadcast" /\ step
                   /\ UNCHANGED <<started, counterOnly, timedOnly, semVars>>
Counter(step)   == /\ started = "counter" /\ step
                   /\ UNCHANGED <<started, broadcastOnly, timedOnly, semVars>>
Timedwait(step) == /\ started = "timedwait" /\ step
                   /\ UNCHANGED <<started, broadcastOnly, counterOnly, semVars>>
Semaphore(step) == /\ started = "semaphore" /\ step
                   /\ UNCHANGED <<started, vars, counterOnly, timedOnly>>

ThreadsNext == Broadcast(Next) \/ Counter(CounterNext) \/ Timedwait(TimedNext) \/ Semaphore(SemNext)

\* Every thread and process that can run is run, time passes, a thread that keeps
\* finding the mutex free gets it in the end, and spurious wakeups do not go on for ever.
ThreadsSpec ==
    /\ ThreadsInit /\ [][ThreadsNext]_allVars
    /\ SF_allVars(Broadcast(main)) /\ <>[][~Broadcast(Wakeup)]_allVars
    /\ \A t \in Threads : SF_allVars(Broadcast(thread_function(t)))
    /\ WF_allVars(Counter(counter_main))
    /\ \A t \in Workers : WF_allVars(Counter(counter_thread(t)))
    /\ WF_allVars(Timedwait(Tick)) /\ WF_allVars(Timedwait(timed_thread))
    /\ WF_allVars(Timedwait(timed_main \/ timedwait))
    /\ \A r \in Runs : /\ WF_allVars(Semaphore(ChildProcess(r)))
                       /\ WF_allVars(Semaphore(ParentProcess(r)))

-------------------------------------------------------------------------------
\* -m with a negative number, small ones and the largest time_t.
AllMainSeconds == {-1, 0, 1, 2, TIME_T_MAX}

\* Whichever program runs, its main joins all threads and ends, unless one could
\* not be created: no broadcast is missed, no mutex is left locked, a timed wait
\* comes back; and every run under semaphores ends, whatever the others do.
ProgramEnds == <>(\/ started = "broadcast" /\ Ended
                  \/ started = "counter" /\ CounterEnded
                  \/ started = "timedwait" /\ TimedEnded
                  \/ started = "semaphore" /\ \A r \in Runs : Over(r))
===============================================================================
