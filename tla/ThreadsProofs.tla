---------------------------- MODULE ThreadsProofs ----------------------------
(***************************************************************************)
(* What holds of the programs with threads or semaphores: of               *)
(* pthread_cond_broadcast and the counters under pthread-mutex for any     *)
(* number of threads, of pthread_cond_timedwait for any times, of the      *)
(* programs under semaphores for any number of runs side by side, killed   *)
(* or not, and any TRY_COUNT, and of pthread_cond_wait with                *)
(* pthread_cond_signal for a file of any number of words.                  *)
(***************************************************************************)
EXTENDS CondBroadcast, MutexCounter, NamedSemaphore, CondTimedwait, WordHandoff,
        FiniteSetTheorems, TLAPS

-------------------------------------------------------------------------------
(* pthread_cond_broadcast                                                  *)

USE CondBroadcastAssumption DEF CondBroadcastAssumption

\* Who holds the mutex: a thread that tests, or main between lock and unlock.
MutexHeld ==
    /\ mutex \in Threads => pc[mutex] \in {"test", "exit"}
    /\ \A t \in Threads : pc[t] = "test" => mutex = t
    /\ mpc \in {"update", "unlock"} <=> mutex = "main"

\* Only a thread inside pthread_cond_wait is waiting.
WaitersWait == \A t \in waiting : pc[t] \in {"wait", "exit"}

\* shared_data is the number of iterations main has completed.
Counts == /\ shared_data = IF mpc = "unlock" THEN i + 1 ELSE i
          /\ mpc \in {"update", "unlock"} => i < ITERATIONS

\* Everything is joined before anything is destroyed.
Joined == mpc = "destroyed" => \A t \in Threads : pc[t] = "done"

BroadcastIInv == TypeOK /\ MutexHeld /\ WaitersWait /\ Counts /\ Joined /\ NoWaiterAfterLast


LEMMA BroadcastInitIInv == Init => BroadcastIInv
<1> SUFFICES ASSUME Init PROVE BroadcastIInv
  OBVIOUS
<1>1. TypeOK
  BY DEF Init, TypeOK
<1>2. MutexHeld
  BY DEF Init, MutexHeld, NoThread
<1>3. WaitersWait /\ Counts /\ Joined /\ NoWaiterAfterLast
  BY DEF Init, WaitersWait, Counts, Joined, NoWaiterAfterLast
<1>. QED
  BY <1>1, <1>2, <1>3 DEF BroadcastIInv

LEMMA BroadcastStepIInv == BroadcastIInv /\ [Next]_vars => BroadcastIInv'
<1> SUFFICES ASSUME BroadcastIInv, [Next]_vars PROVE BroadcastIInv'
  OBVIOUS
<1>0. TypeOK /\ MutexHeld /\ WaitersWait /\ Counts /\ Joined /\ NoWaiterAfterLast
  BY DEF BroadcastIInv
<1>1. CASE MainCreate
  <2>1. TypeOK'
    BY <1>0, <1>1 DEF MainCreate, TypeOK
  <2>2. MutexHeld'
    BY <1>0, <1>1 DEF MainCreate, TypeOK, MutexHeld
  <2>3. WaitersWait'
    BY <1>0, <1>1 DEF MainCreate, TypeOK, WaitersWait
  <2>4. (Counts /\ Joined /\ NoWaiterAfterLast)'
    BY <1>0, <1>1 DEF MainCreate, Counts, Joined, NoWaiterAfterLast
  <2>. QED
    BY <2>1, <2>2, <2>3, <2>4 DEF BroadcastIInv
<1>2. CASE MainLock
  <2>1. TypeOK' /\ MutexHeld'
    BY <1>0, <1>2 DEF MainLock, pthread_mutex_lock, TypeOK, MutexHeld, NoThread
  <2>2. (WaitersWait /\ Counts /\ Joined /\ NoWaiterAfterLast)'
    BY <1>0, <1>2 DEF MainLock, WaitersWait, Counts, Joined, NoWaiterAfterLast
  <2>. QED
    BY <2>1, <2>2 DEF BroadcastIInv
<1>3. CASE MainUpdate
  <2>1. i \in 0..ITERATIONS /\ i < ITERATIONS
    BY <1>0, <1>3 DEF MainUpdate, TypeOK, Counts
  <2>2. i + 1 \in 0..ITERATIONS
    BY <2>1
  <2>3. TypeOK'
    BY <1>0, <1>3, <2>2 DEF MainUpdate, pthread_cond_broadcast, TypeOK
  <2>4. (MutexHeld /\ WaitersWait /\ Joined /\ NoWaiterAfterLast)'
    BY <1>0, <1>3 DEF MainUpdate, pthread_cond_broadcast, MutexHeld, WaitersWait,
                      Joined, NoWaiterAfterLast
  <2>5. Counts'
    BY <1>0, <1>3, <2>1 DEF MainUpdate, Counts
  <2>. QED
    BY <2>3, <2>4, <2>5 DEF BroadcastIInv
<1>4. CASE MainUnlock
  <2>1. i \in 0..ITERATIONS /\ i < ITERATIONS /\ shared_data = i + 1
    BY <1>0, <1>4 DEF MainUnlock, TypeOK, Counts
  <2>2. i + 1 \in 0..ITERATIONS
    BY <2>1
  <2>3. TypeOK'
    BY <1>0, <1>4, <2>2 DEF MainUnlock, pthread_mutex_unlock, TypeOK
  <2>4. MutexHeld'
    BY <1>0, <1>4 DEF MainUnlock, pthread_mutex_unlock, MutexHeld, NoThread
  <2>5. (WaitersWait /\ Joined /\ NoWaiterAfterLast)'
    BY <1>0, <1>4 DEF MainUnlock, WaitersWait, Joined, NoWaiterAfterLast
  <2>6. Counts'
    BY <1>4, <2>1 DEF MainUnlock, Counts
  <2>. QED
    BY <2>3, <2>4, <2>5, <2>6 DEF BroadcastIInv
<1>5. CASE MainJoin
  BY <1>0, <1>5 DEF MainJoin, BroadcastIInv, TypeOK, MutexHeld, WaitersWait, Counts, Joined,
                    NoWaiterAfterLast
<1>6. ASSUME NEW t \in Threads, ThreadLock(t) PROVE BroadcastIInv'
  <2>1. /\ mutex = NoThread /\ mutex' = t
        /\ pc' = [pc EXCEPT ![t] = "test"] /\ pc[t] \in {"lock", "wait"}
        /\ UNCHANGED <<waiting, shared_data, i, mpc>>
    BY <1>6 DEF ThreadLock, pthread_mutex_lock, cond_wait_returns
  <2>2. t \notin waiting
    BY <1>0, <1>6 DEF ThreadLock, cond_wait_returns, WaitersWait
  <2>3. TypeOK'
    BY <1>0, <2>1 DEF TypeOK
  <2>4. MutexHeld'
    BY <1>0, <2>1 DEF TypeOK, MutexHeld, NoThread
  <2>5. WaitersWait'
    BY <1>0, <2>1, <2>2 DEF TypeOK, WaitersWait
  <2>6. (Counts /\ Joined /\ NoWaiterAfterLast)'
    BY <1>0, <2>1 DEF Counts, Joined, NoWaiterAfterLast
  <2>. QED
    BY <2>3, <2>4, <2>5, <2>6 DEF BroadcastIInv
<1>7. ASSUME NEW t \in Threads, ThreadTest(t) PROVE BroadcastIInv'
  <2>1. mutex = t /\ mutex' = NoThread /\ pc[t] = "test"
        /\ UNCHANGED <<shared_data, i, mpc>>
    BY <1>7 DEF ThreadTest, pthread_cond_wait, pthread_mutex_unlock
  <2>2. CASE shared_data < ITERATIONS /\ waiting' = waiting \cup {t}
             /\ pc' = [pc EXCEPT ![t] = "wait"]
    <3>1. TypeOK'
      BY <1>0, <2>1, <2>2 DEF TypeOK
    <3>2. MutexHeld' /\ WaitersWait'
      BY <1>0, <2>1, <2>2 DEF TypeOK, MutexHeld, WaitersWait, NoThread
    <3>3. NoWaiterAfterLast'
      BY <1>0, <2>1, <2>2 DEF TypeOK, NoWaiterAfterLast
    <3>4. Counts' /\ Joined'
      BY <1>0, <2>1, <2>2 DEF Counts, Joined
    <3>. QED
      BY <3>1, <3>2, <3>3, <3>4 DEF BroadcastIInv
  <2>3. CASE waiting' = waiting /\ pc' = [pc EXCEPT ![t] = "done"]
    <3>1. TypeOK'
      BY <1>0, <2>1, <2>3 DEF TypeOK
    <3>2. MutexHeld' /\ WaitersWait'
      BY <1>0, <2>1, <2>3 DEF TypeOK, MutexHeld, WaitersWait, NoThread
    <3>3. (Counts /\ Joined /\ NoWaiterAfterLast)'
      BY <1>0, <2>1, <2>3 DEF Counts, Joined, NoWaiterAfterLast
    <3>. QED
      BY <3>1, <3>2, <3>3 DEF BroadcastIInv
  <2>. QED
    BY <1>7, <2>2, <2>3 DEF ThreadTest, pthread_cond_wait
<1>8. CASE Wakeup
  <2>1. waiting' \subseteq waiting /\ UNCHANGED <<mutex, shared_data, i, mpc, pc>>
    BY <1>8 DEF Wakeup, SpuriousWakeup
  <2>. QED
    BY <1>0, <2>1 DEF BroadcastIInv, TypeOK, MutexHeld, WaitersWait, Counts, Joined,
                      NoWaiterAfterLast
<1>9. CASE UNCHANGED vars
  BY <1>0, <1>9 DEF vars, BroadcastIInv, TypeOK, MutexHeld, WaitersWait, Counts, Joined,
                    NoWaiterAfterLast
<1>. QED
  BY <1>1, <1>2, <1>3, <1>4, <1>5, <1>6, <1>7, <1>8, <1>9
     DEF Next, main, thread_function

LEMMA BroadcastAlwaysIInv == Spec => []BroadcastIInv
  BY BroadcastInitIInv, BroadcastStepIInv, PTL DEF Spec

\* The variables of main and of the threads keep their types.
THEOREM TypeCorrect == Spec => []TypeOK
  BY BroadcastAlwaysIInv, PTL DEF BroadcastIInv

\* For any number of threads and iterations, no thread sleeps through the last
\* pthread_cond_broadcast.
THEOREM LastBroadcastReachesAll == Spec => []NoWaiterAfterLast
  BY BroadcastAlwaysIInv, PTL DEF BroadcastIInv

\* main destroys the mutex and the condition variable only when no thread can use
\* them any more.
THEOREM DestroySafe == Spec => []DestroyIsSafe
<1>1. BroadcastIInv => DestroyIsSafe
  BY DEF BroadcastIInv, TypeOK, MutexHeld, WaitersWait, Joined, DestroyIsSafe, NoThread
<1>. QED
  BY <1>1, BroadcastAlwaysIInv, PTL

HIDE CondBroadcastAssumption DEF CondBroadcastAssumption

-------------------------------------------------------------------------------
(* The counters under pthread-mutex                                        *)

USE MutexCounterAssumption DEF MutexCounterAssumption

Locked == mode \in {"lock", "trylock"}

\* A thread between lock and unlock has the mutex, and nobody else is there.
Exclusive == Locked => \A t \in Workers :
                place[t] \in {"load", "store", "print", "leave"} => mutex = t

\* What a thread has loaded is still the value when it stores.
LoadIsCurrent == Locked => \A t \in Workers : place[t] = "store" => reg[t] = sharedVariable

\* A thread prints after its store, and nobody has printed that value or a higher one.
PrintedBelow ==
    \A t \in Workers :
        /\ place[t] \in {"none", "enter", "load", "store", "print"} => printed[t] = 0
        /\ place[t] = "leave" /\ Locked => printed[t] > 0
        /\ Locked => printed[t] <= sharedVariable
        /\ place[t] = "print" /\ Locked => \A u \in Workers : printed[u] < sharedVariable

\* When a thread could not be created the process has ended, with all threads.
ExitEndsAll == mplace = "exit" => \A t \in Workers : place[t] = "exit"

CounterIInv == CounterTypeOK /\ Exclusive /\ LoadIsCurrent /\ PrintedBelow /\ ExitEndsAll /\ NoLostUpdate

LEMMA CountedIsFinite == IsFiniteSet(Counted) /\ Cardinality(Counted) \in Nat
<1>1. Counted \in SUBSET Workers
  BY DEF Counted
<1> QED BY <1>1, FS_Subset, FS_CardinalityType

LEMMA CounterInitIInv == CounterInit => CounterIInv
<1> SUFFICES ASSUME CounterInit PROVE CounterIInv
  OBVIOUS
<1>1. CounterTypeOK /\ Exclusive /\ LoadIsCurrent /\ PrintedBelow /\ ExitEndsAll
  BY DEF CounterInit, CounterTypeOK, Exclusive, LoadIsCurrent, PrintedBelow, ExitEndsAll
<1>2. Counted = {}
  BY DEF CounterInit, Counted
<1>3. NoLostUpdate
  BY <1>2, FS_EmptySet DEF CounterInit, NoLostUpdate
<1> QED BY <1>1, <1>3 DEF CounterIInv

-------------------------------------------------------------------------------
\* main creates threads and joins them; it stores nothing.
LEMMA CounterMainIInv == ASSUME CounterIInv, counter_main PROVE CounterIInv'
<1> USE DEF CounterIInv
<1>0. UNCHANGED <<mutex, waiting, mode, sharedVariable, reg, printed>>
  BY DEF counter_main
<1>1. CASE mplace = "create" /\ mplace' = "exit" /\ place' = [t \in Workers |-> "exit"]
  <2>1. CounterTypeOK' /\ Exclusive' /\ LoadIsCurrent' /\ PrintedBelow' /\ ExitEndsAll'
    BY <1>0, <1>1 DEF CounterTypeOK, Exclusive, LoadIsCurrent, PrintedBelow, ExitEndsAll, Locked
  <2>2. NoLostUpdate'
    BY <1>0, <1>1 DEF NoLostUpdate
  <2> QED BY <2>1, <2>2
<1>2. CASE /\ mplace' # "exit" \/ mplace' = mplace
           /\ \/ UNCHANGED place
              \/ \E t \in Workers : place[t] = "none" /\ place' = [place EXCEPT ![t] = "enter"]
  <2>1. mplace' \in {"create", "join", "joined"}
    BY <1>2 DEF counter_main
  <2>2. CounterTypeOK' /\ Exclusive' /\ LoadIsCurrent' /\ PrintedBelow' /\ ExitEndsAll'
    BY <1>0, <1>2, <2>1 DEF CounterTypeOK, Exclusive, LoadIsCurrent, PrintedBelow, ExitEndsAll,
                            Locked
  <2>3. Counted' = Counted
    BY <1>0, <1>2 DEF Counted, CounterTypeOK
  <2>4. mplace # "exit"
    BY DEF counter_main
  <2>5. NoLostUpdate'
    BY <1>0, <2>3, <2>4 DEF NoLostUpdate
  <2> QED BY <2>2, <2>5
<1> QED BY <1>1, <1>2 DEF counter_main

\* Steps of a thread that store and print nothing: into the critical section, the load,
\* and out of it.
LEMMA CounterQuietIInv ==
    ASSUME CounterIInv, NEW t \in Workers, Enter(t) \/ Load(t) \/ Leave(t)
    PROVE  CounterIInv'
<1> USE DEF CounterIInv
<1>1. mplace # "exit" /\ UNCHANGED <<waiting, mode, sharedVariable, printed, mplace>>
  BY DEF Enter, Load, Leave, ExitEndsAll
<1>2. Locked => Counted' = Counted
  BY <1>1 DEF Enter, Load, Leave, lock_enter, trylock_enter, Counted, CounterTypeOK,
              PrintedBelow, Locked
<1>3. NoLostUpdate'
  BY <1>1, <1>2 DEF NoLostUpdate, Locked
<1>4. CASE Enter(t)
  <2>1. CounterTypeOK' /\ PrintedBelow' /\ LoadIsCurrent' /\ ExitEndsAll'
    BY <1>4 DEF Enter, lock_enter, trylock_enter, pthread_mutex_lock, CounterTypeOK, PrintedBelow,
                LoadIsCurrent, ExitEndsAll, Locked
  <2>2. Exclusive'
    BY <1>4 DEF Enter, lock_enter, trylock_enter, pthread_mutex_lock, CounterTypeOK, Exclusive,
                Locked
  <2> QED BY <1>3, <2>1, <2>2
<1>5. CASE Load(t)
  <2>1. CounterTypeOK' /\ PrintedBelow' /\ LoadIsCurrent' /\ ExitEndsAll' /\ Exclusive'
    BY <1>5 DEF Load, CounterTypeOK, PrintedBelow, LoadIsCurrent, ExitEndsAll, Exclusive, Locked
  <2> QED BY <1>3, <2>1
<1>6. CASE Leave(t)
  <2>1. CounterTypeOK' /\ PrintedBelow' /\ LoadIsCurrent' /\ ExitEndsAll' /\ Exclusive'
    BY <1>6 DEF Leave, pthread_mutex_unlock, CounterTypeOK, PrintedBelow, LoadIsCurrent,
                ExitEndsAll, Exclusive, Locked
  <2> QED BY <1>3, <2>1
<1> QED BY <1>4, <1>5, <1>6

\* The store adds one thread to those that are counted, and one to the counter.
LEMMA CounterStoreIInv == ASSUME CounterIInv, NEW t \in Workers, Store(t) PROVE CounterIInv'
<1> USE DEF CounterIInv
<1>1. CounterTypeOK' /\ Exclusive' /\ ExitEndsAll'
  BY DEF Store, CounterTypeOK, Exclusive, ExitEndsAll, Locked
<1>2. LoadIsCurrent'
  BY DEF Store, CounterTypeOK, Exclusive, LoadIsCurrent, Locked
<1>3. PrintedBelow'
  BY DEF Store, CounterTypeOK, Exclusive, LoadIsCurrent, PrintedBelow, Locked
<1>4. Counted' = Counted \cup {t} /\ t \notin Counted
  BY DEF Store, CounterTypeOK, PrintedBelow, Counted
<1>5. Cardinality(Counted') = Cardinality(Counted) + 1
  BY <1>4, CountedIsFinite, FS_AddElement
<1>6. NoLostUpdate'
  BY <1>5 DEF Store, CounterTypeOK, LoadIsCurrent, ExitEndsAll, NoLostUpdate, Locked
<1> QED BY <1>1, <1>2, <1>3, <1>6

\* The value printed is higher than every one before.
LEMMA CounterPrintIInv == ASSUME CounterIInv, NEW t \in Workers, PrintValue(t) PROVE CounterIInv'
<1> USE DEF CounterIInv
<1>1. CounterTypeOK' /\ Exclusive' /\ ExitEndsAll' /\ LoadIsCurrent'
  BY DEF PrintValue, CounterTypeOK, Exclusive, ExitEndsAll, LoadIsCurrent, Locked
<1>2. Locked => sharedVariable > 0
  BY DEF PrintValue, CounterTypeOK, PrintedBelow
<1>3. PrintedBelow'
  BY <1>2 DEF PrintValue, CounterTypeOK, Exclusive, PrintedBelow, Locked
<1>4. Counted' = Counted
  BY DEF PrintValue, CounterTypeOK, PrintedBelow, Counted
<1>5. NoLostUpdate'
  BY <1>4 DEF PrintValue, CounterTypeOK, PrintedBelow, NoLostUpdate, Locked
<1> QED BY <1>1, <1>3, <1>5

\* With the mutex, held or tried, the counter counts exactly the threads that have
\* incremented it and no two threads print the same value, however many threads there
\* are and however many of them find the mutex taken and leave.
THEOREM EveryUpdateCounts == CounterSpec => []NoLostUpdate
<1>1. ASSUME CounterIInv, [CounterNext]_counterVars PROVE CounterIInv'
  <2>1. CASE UNCHANGED counterVars
    BY <1>1, <2>1 DEF CounterIInv, counterVars, CounterTypeOK, Exclusive, LoadIsCurrent, PrintedBelow,
                      ExitEndsAll, NoLostUpdate, Counted, Locked
  <2>2. CASE CounterNext
    BY <1>1, <2>2, CounterMainIInv, CounterQuietIInv, CounterStoreIInv, CounterPrintIInv DEF CounterNext, counter_thread
  <2> QED BY <1>1, <2>1, <2>2
<1>2. CounterIInv => NoLostUpdate
  BY DEF CounterIInv
<1> QED BY <1>1, <1>2, CounterInitIInv, PTL DEF CounterSpec

HIDE MutexCounterAssumption DEF MutexCounterAssumption

-------------------------------------------------------------------------------
(* The programs under semaphores                                           *)

USE NamedSemaphoreAssumption DEF NamedSemaphoreAssumption

SemTypeOK ==
    /\ name \in Runs \cup {NoRun}
    /\ program \in [Runs -> Programs]
    /\ value \in [Runs -> Int]
    /\ cpc \in [Runs -> {"none", "wait", "work", "exited", "killed"}]
    /\ ppc \in [Runs -> {"start", "failed", "close", "fork", "wait", "hold", "reap", "unlink",
                         "gave_up", "exited", "killed"}]

\* The permit of a run's semaphore is in the semaphore, with the child or with the parent.
\* While the parent waits for it, nobody else can have it but the child.
OnePermit ==
    \A r \in Runs :
        /\ ppc[r] \in {"start", "fork"} => cpc[r] = "none"
        /\ ppc[r] = "fork" => value[r] = 1
        /\ ppc[r] = "wait" => \/ value[r] = 1 /\ cpc[r] \in {"wait", "exited"}
                              \/ value[r] = 0 /\ cpc[r] = "work"
        /\ ppc[r] = "hold" => value[r] = 0 /\ cpc[r] \in {"wait", "exited"}

SemIInv == SemTypeOK /\ UnlinksOwn /\ OnePermit

LEMMA SemInitIInv == SemInit => SemIInv
  BY DEF SemInit, SemIInv, SemTypeOK, UnlinksOwn, OnePermit, Owns, Programs

\* Each step keeps the name with the run that owns it, and the permit where it was
\* or hands it on.
LEMMA SemNextIInv == ASSUME SemIInv, [SemNext]_semVars PROVE SemIInv'
<1> USE DEF SemIInv
<1>1. CASE UNCHANGED semVars
  BY <1>1 DEF semVars, SemTypeOK, UnlinksOwn, OnePermit, Owns
<1>2. ASSUME NEW r \in Runs, sem_open(r) PROVE SemIInv'
  <2>1. SemTypeOK'
    BY <1>2 DEF sem_open, SemTypeOK
  <2>2. UnlinksOwn'
    BY <1>2 DEF sem_open, SemTypeOK, UnlinksOwn, Owns
  <2>3. OnePermit'
    BY <1>2 DEF sem_open, SemTypeOK, OnePermit
  <2> QED BY <2>1, <2>2, <2>3
<1>3. ASSUME NEW r \in Runs, OpenClose(r) PROVE SemIInv'
  BY <1>3 DEF OpenClose, SemTypeOK, UnlinksOwn, Owns, OnePermit
<1>4. ASSUME NEW r \in Runs, Fork(r) PROVE SemIInv'
  <2>1. SemTypeOK'
    BY <1>4 DEF Fork, SemTypeOK
  <2>2. UnlinksOwn'
    BY <1>4 DEF Fork, SemTypeOK, UnlinksOwn, Owns
  <2>3. OnePermit'
    BY <1>4 DEF Fork, SemTypeOK, OnePermit
  <2> QED BY <2>1, <2>2, <2>3
<1>5. ASSUME NEW r \in Runs, ChildProcess(r) PROVE SemIInv'
  <2>1. SemTypeOK' /\ UnlinksOwn'
    BY <1>5 DEF ChildProcess, sem_wait, sem_post, SemTypeOK, UnlinksOwn, Owns
  <2>2. OnePermit'
    BY <1>5 DEF ChildProcess, sem_wait, sem_post, SemTypeOK, OnePermit
  <2> QED BY <2>1, <2>2
<1>6. ASSUME NEW r \in Runs, ParentWait(r) PROVE SemIInv'
  <2>1. SemTypeOK' /\ UnlinksOwn'
    BY <1>6 DEF ParentWait, sem_wait, sem_post, SemTypeOK, UnlinksOwn, Owns
  <2>2. OnePermit'
    BY <1>6 DEF ParentWait, sem_wait, sem_post, SemTypeOK, OnePermit
  <2> QED BY <2>1, <2>2
<1>7. ASSUME NEW r \in Runs, ParentTrywait(r) PROVE SemIInv'
  <2>1. SemTypeOK'
    BY <1>7 DEF ParentTrywait, LastTryFails, sem_wait, sem_post, SemTypeOK
  <2>2. UnlinksOwn'
    BY <1>7 DEF ParentTrywait, LastTryFails, sem_wait, sem_post, SemTypeOK, UnlinksOwn, Owns
  <2>3. OnePermit'
    BY <1>7 DEF ParentTrywait, LastTryFails, sem_wait, sem_post, SemTypeOK, OnePermit
  <2> QED BY <2>1, <2>2, <2>3
<1>8. ASSUME NEW r \in Runs, ParentReap(r) PROVE SemIInv'
  <2>1. SemTypeOK' /\ OnePermit'
    BY <1>8 DEF ParentReap, SemTypeOK, OnePermit
  <2>2. UnlinksOwn'
    BY <1>8 DEF ParentReap, SemTypeOK, UnlinksOwn, Owns
  <2> QED BY <2>1, <2>2
<1>9. ASSUME NEW r \in Runs, Kill(r) PROVE SemIInv'
  <2>1. SemTypeOK' /\ UnlinksOwn'
    BY <1>9 DEF Kill, Over, SemTypeOK, UnlinksOwn, Owns
  <2>2. OnePermit'
    BY <1>9 DEF Kill, Over, SemTypeOK, OnePermit
  <2> QED BY <2>1, <2>2
<1> QED
  BY <1>1, <1>2, <1>3, <1>4, <1>5, <1>6, <1>7, <1>8, <1>9 DEF SemNext, ParentProcess

LEMMA SemInvariance == SemSpec => []SemIInv
  BY SemInitIInv, SemNextIInv, PTL DEF SemSpec

\* However many runs are side by side, sem_unlink only ever removes the semaphore of
\* the run that calls it.
THEOREM NoRunUnlinksAnother == SemSpec => []UnlinksOwn
<1>1. SemIInv => UnlinksOwn
  BY DEF SemIInv
<1> QED BY <1>1, SemInvariance, PTL

\* The parent of sem_trywait runs out of tries only against its own child.
THEOREM NobodyElseHasIt == SemSpec => GivesUpOnlyOnChild
<1>1. ASSUME SemIInv, [SemNext]_semVars PROVE [GivingUpStep]_semVars
  <2>1. SUFFICES ASSUME NEW r \in Runs, ppc[r] # "gave_up", ppc'[r] = "gave_up", SemNext
                 PROVE  cpc[r] = "work"
    BY <1>1 DEF GivingUpStep, semVars
  <2>2. LastTryFails(r)
    BY <1>1, <2>1 DEF SemIInv, SemTypeOK, SemNext, ParentProcess, ChildProcess, sem_open, OpenClose, Fork,
       ParentWait, ParentTrywait, ParentReap, Kill
  <2> QED BY <1>1, <2>2 DEF SemIInv, OnePermit, LastTryFails
<1> QED BY <1>1, SemInvariance, PTL DEF SemSpec, GivesUpOnlyOnChild

\* What a killed run has left stays, and blocks all three programs, for ever.
THEOREM LeftNameBlocks == SemSpec => KilledRunBlocksOthers
<1>1. ASSUME SemIInv, [SemNext]_semVars PROVE [BlockedStep]_semVars
  <2>1. SUFFICES ASSUME NEW r \in Runs, name = r, ppc[r] = "killed", SemNext
                 PROVE  name' = r /\ \A s \in Runs : ppc[s] = "start" => ppc'[s] \in {"start", "failed"}
    BY <1>1 DEF BlockedStep, semVars
  <2>2. PICK s \in Runs : ChildProcess(s) \/ ParentProcess(s) \/ Kill(s)
    BY <2>1 DEF SemNext
  <2>3. ~Owns(s) 
    BY <1>1, <2>1 DEF SemIInv, UnlinksOwn, Owns
  <2>4. CASE sem_open(s)
    BY <1>1, <2>1, <2>4 DEF sem_open, SemIInv, SemTypeOK
  <2>5. CASE ~sem_open(s)
    BY <1>1, <2>1, <2>2, <2>3, <2>5 DEF ParentProcess, OpenClose, Fork, ChildProcess, ParentWait,
       ParentTrywait, LastTryFails, ParentReap, Kill, Owns, SemIInv, SemTypeOK
  <2> QED BY <2>4, <2>5
<1> QED BY <1>1, SemInvariance, PTL DEF SemSpec, KilledRunBlocksOthers

HIDE NamedSemaphoreAssumption DEF NamedSemaphoreAssumption

-------------------------------------------------------------------------------
(* pthread_cond_timedwait                                                  *)

USE CondTimedwaitAssumption DEF CondTimedwaitAssumption, Goto, At

\* The deadline the user meant fits in a time_t, whenever main reads the clock.
Fits == StartTime + main_seconds <= TIME_T_MAX - MaxTime

\* Once main has a deadline it is not before the seconds it was given have passed, and
\* main times out only when the clock has come to it.
DeadlineKept ==
    /\ tpc["main"] \in {"create", "gettime"} => result = "none"
    /\ tpc["main"] \notin {"create", "gettime"} /\ Fits => abs_timeout >= StartTime + main_seconds
    /\ result = "ETIMEDOUT" => Reached(abs_timeout)

TimedIInv == TimedTypeOK /\ DeadlineKept

LEMMA TimedInitIInv == TimedInit => TimedIInv
<1> SUFFICES ASSUME TimedInit PROVE TimedIInv
  OBVIOUS
<1>1. TimedTypeOK
  BY DEF TimedInit, TimedTypeOK, TimedPlaces
<1> QED BY <1>1 DEF TimedInit, TimedIInv, DeadlineKept

\* The sum is a time_t, and does not wrap around when it fits.
LEMMA DeadlineNotEarly ==
    ASSUME TimedTypeOK
    PROVE  /\ Deadline \in (-TIME_T_MAX - 1)..TIME_T_MAX
           /\ Fits => Deadline >= StartTime + main_seconds
  BY DEF TimedTypeOK, Fits, Deadline, time_t

LEMMA TimedNextIInv == ASSUME TimedIInv, [TimedNext]_timedVars PROVE TimedIInv'
<1> USE DEF TimedIInv, timedArgs
<1>1. CASE UNCHANGED timedVars
  BY <1>1 DEF timedVars, TimedTypeOK, DeadlineKept, Fits, Reached
<1>2. CASE Tick
  BY <1>2 DEF Tick, TimedTypeOK, DeadlineKept, Fits, Reached
<1>3. CASE timed_main
  <2>1. TimedTypeOK'
    <3>1. tpc' \in [{"main", "thread"} -> TimedPlaces]
      BY <1>3 DEF timed_main, TimedTypeOK, TimedPlaces
    <3>2. mutex' \in {NoThread, "main", "thread"} /\ waiting' = waiting /\ result' = result
      BY <1>3 DEF timed_main, TimedTypeOK, pthread_mutex_lock, pthread_mutex_unlock
    <3>3. abs_timeout' = abs_timeout \/ abs_timeout' = Deadline
      BY <1>3 DEF timed_main
    <3> QED BY <1>3, <3>1, <3>2, <3>3, DeadlineNotEarly DEF timed_main, TimedTypeOK
  <2>2. DeadlineKept'
    BY <1>3, DeadlineNotEarly DEF timed_main, TimedTypeOK, DeadlineKept, Fits, Reached
  <2> QED BY <2>1, <2>2
<1>4. CASE timedwait
  <2>1. TimedTypeOK'
    <3>1. tpc' \in [{"main", "thread"} -> TimedPlaces]
      BY <1>4 DEF timedwait, TimedTypeOK, TimedPlaces
    <3>2. mutex' \in {NoThread, "main", "thread"} /\ waiting' \subseteq {"main"}
      BY <1>4 DEF timedwait, TimedTypeOK, pthread_cond_wait, cond_wait_returns, pthread_mutex_lock
    <3>3. result' \in {"none", "0", "ETIMEDOUT"}
      BY <1>4 DEF timedwait, TimedTypeOK
    <3> QED BY <1>4, <3>1, <3>2, <3>3 DEF timedwait, TimedTypeOK
  <2>2. DeadlineKept'
    BY <1>4 DEF timedwait, TimedTypeOK, DeadlineKept, Fits, Reached
  <2> QED BY <2>1, <2>2
<1>5. CASE TimedWakeup
  BY <1>5 DEF TimedWakeup, SpuriousWakeup, TimedTypeOK, DeadlineKept, Fits, Reached
<1>6. CASE timed_thread
  <2>1. TimedTypeOK'
    <3>1. tpc' \in [{"main", "thread"} -> TimedPlaces]
      BY <1>6 DEF timed_thread, ThreadUnlock, TimedTypeOK, TimedPlaces
    <3>2. mutex' \in {NoThread, "main", "thread"} /\ waiting' \subseteq {"main"}
      BY <1>6 DEF timed_thread, ThreadUnlock, TimedTypeOK, pthread_mutex_lock,
                  pthread_mutex_unlock, pthread_cond_signal
    <3>3. wake' \in Nat
      BY <1>6 DEF timed_thread, TimedTypeOK
    <3> QED BY <1>6, <3>1, <3>2, <3>3 DEF timed_thread, TimedTypeOK
  <2>2. DeadlineKept'
    BY <1>6 DEF timed_thread, ThreadUnlock, TimedTypeOK, DeadlineKept, Fits, Reached
  <2> QED BY <2>1, <2>2
<1> QED BY <1>1, <1>2, <1>3, <1>4, <1>5, <1>6 DEF TimedNext

\* main of pthread_cond_timedwait never reports a timeout before the time it was given,
\* whatever the signal, a spurious wakeup or the clock do in between.
THEOREM TimeoutIsNotEarly == TimedSpec => []TimeoutNotEarly
<1>1. TimedIInv => TimeoutNotEarly
  BY DEF TimedIInv, TimedTypeOK, DeadlineKept, TimeoutNotEarly, Fits, Reached
<1> QED BY <1>1, TimedInitIInv, TimedNextIInv, PTL DEF TimedSpec
HIDE CondTimedwaitAssumption DEF CondTimedwaitAssumption, Goto, At

-------------------------------------------------------------------------------
(* pthread_cond_wait-pthread_cond_signal                                   *)


\* exit() takes every thread with it.
ExitsTogether == /\ hpc["child"] = "exited" <=> ~Alive
                 /\ hpc["parent"] = "exited" <=> ~Alive

\* main creates the threads in order.
NotYetCreated == /\ hpc["main"] = "create_child" => hpc["child"] = "none"
                 /\ hpc["main"] \in {"create_child", "create_parent"} => hpc["parent"] = "none"

\* A thread waits only for the slot to change: nobody is left waiting once it has.
Waiters ==
    /\ "child" \in waiting  => hpc["child"] \in {"wait", "exited"} /\ word_ready = 1
    /\ "parent" \in waiting => hpc["parent"] \in {"wait", "exited"} /\ word_ready = 0

\* Past the test of word_ready, what was tested stays true.
Tested == /\ hpc["child"] \in {"free", "fill", "signal"} => word_ready = 0
          /\ hpc["parent"] = "take" => word_ready = 1

\* send_word is called for the words and once for NULL.
NextBound ==
    /\ hpc["child"] \in Locals \cup {"free", "fill", "signal", "sent", "none", "open"}
          => next <= WordCount + 1
    /\ hpc["parent"] = "print" => ptr # NULL

\* The word in the slot is the last one stored, NULL before the first and at the end.
Stored  == next - 1 + (IF hpc["child"] \in {"signal", "unlock", "sent"} THEN 1 ELSE 0)
Content == Alive => shared_word = IF Stored \in 1..WordCount THEN Stored ELSE NULL

HandoffIInv == /\ HandoffTypeOK /\ ExitsTogether /\ NotYetCreated /\ Holders /\ Waiters /\ Tested /\ NextBound
        /\ Content /\ SlotAlternates /\ LoadsCurrentOrNext

USE WordCountAssumption DEF WordCountAssumption, ThreadGoes, ThreadAt, NoThread, NULL, Garbage

\* pthread_cond_signal leaves nobody waiting when at most one thread was.
LEMMA SignalWakesTheWaiter ==
    ASSUME NEW t, waiting \subseteq {t}, pthread_cond_signal PROVE waiting' = {}
<1>1. CASE waiting = {} /\ UNCHANGED waiting
  BY <1>1
<1>2. CASE \E woken \in (SUBSET waiting) \ {{}} : waiting' = waiting \ woken
  <2>1. PICK woken \in (SUBSET waiting) \ {{}} : waiting' = waiting \ woken
    BY <1>2
  <2>2. t \in woken
    BY <2>1
  <2>. QED
    BY <2>1, <2>2
<1>. QED
  BY <1>1, <1>2 DEF pthread_cond_signal

LEMMA HandoffInitIInv == HandoffInit => HandoffIInv
<1> SUFFICES ASSUME HandoffInit PROVE HandoffIInv
  OBVIOUS
<1>1. /\ hpc["main"] = "create_child" /\ hpc["child"] = "none" /\ hpc["parent"] = "none"
      /\ DOMAIN hpc = {"main", "child", "parent"}
  BY DEF HandoffInit
<1>2. /\ mutex = "no_thread" /\ waiting = {} /\ word_ready = 0 /\ shared_word = 0
      /\ freed = {} /\ next = 1 /\ ptr = 0 /\ taken = 0
  BY DEF HandoffInit
<1>3. HandoffTypeOK
  <2>1. 0 \in 0..WordCount /\ 1 \in 1..(WordCount + 2) /\ 0 \in Nat
    OBVIOUS
  <2>2. lines \in Seq({Garbage} \cup 1..WordCount)
    BY DEF HandoffInit
  <2>. QED
    BY <1>1, <1>2, <2>1, <2>2 DEF HandoffTypeOK, Locals
<1>4. ExitsTogether /\ NotYetCreated /\ Holders /\ Waiters /\ Tested
  BY <1>1, <1>2 DEF ExitsTogether, NotYetCreated, Holders, Waiters, Tested, Alive
<1>5. NextBound /\ LoadsCurrentOrNext
  BY <1>1, <1>2 DEF NextBound, Locals, LoadsCurrentOrNext
<1>6. Content /\ SlotAlternates
  BY <1>1, <1>2 DEF Content, SlotAlternates, Stored, Put
<1>. QED
  BY <1>3, <1>4, <1>5, <1>6 DEF HandoffIInv

LEMMA HandoffExitIInv == HandoffIInv /\ Exit => HandoffIInv'
<1> SUFFICES ASSUME HandoffIInv, Exit PROVE HandoffIInv'
  OBVIOUS
<1>1. /\ hpc'["main"] = "exited" /\ hpc'["child"] = "exited" /\ hpc'["parent"] = "exited"
      /\ DOMAIN hpc' = {"main", "child", "parent"}
      /\ UNCHANGED <<sync, slot, next, ptr, lines, taken>>
  BY DEF Exit, HandoffIInv, HandoffTypeOK
<1>. QED
  BY <1>1 DEF HandoffIInv, HandoffTypeOK, ExitsTogether, NotYetCreated, Holders, Waiters, Tested, NextBound, Content,
              SlotAlternates, LoadsCurrentOrNext, Alive, Locals, sync, slot

LEMMA HandoffStepIInv == HandoffIInv /\ [HandoffNext]_handoffVars => HandoffIInv'
<1> SUFFICES ASSUME HandoffIInv, [HandoffNext]_handoffVars PROVE HandoffIInv'
  OBVIOUS
<1>0. CASE Exit
  BY <1>0, HandoffExitIInv
<1> USE DEF HandoffIInv, HandoffTypeOK, ExitsTogether, NotYetCreated, Holders, Waiters, Tested, NextBound, Content,
            Stored, SlotAlternates, Put, LoadsCurrentOrNext, Alive, Locals, sync, slot
<1>1. CASE handoff_main
  <2>1. CASE ThreadAt("main", "create_child") /\ UNCHANGED <<sync, slot, next, ptr, lines, taken>>
             /\ hpc' = [hpc EXCEPT !["main"] = "create_parent", !["child"] = "open"]
    BY <2>1
  <2>2. CASE ThreadAt("main", "create_parent") /\ UNCHANGED <<sync, slot, next, ptr, lines, taken>>
             /\ hpc' = [hpc EXCEPT !["main"] = "join_child", !["parent"] = "lock"]
    BY <2>2
  <2>3. CASE /\ UNCHANGED <<sync, slot, next, ptr, lines, taken>>
             /\ \/ ThreadAt("main", "join_child") /\ ThreadGoes("main", "join_parent")
                \/ ThreadAt("main", "join_parent") /\ ThreadGoes("main", "return")
    BY <2>3
  <2>4. CASE ThreadAt("main", "return") /\ Exit
    BY <2>4, <1>0
  <2>. QED
    BY <1>0, <1>1, <2>1, <2>2, <2>3, <2>4 DEF handoff_main, Exit
<1>2. CASE child_process
  <2>1. CASE ThreadAt("child", "open") /\ ThreadGoes("child", "lock")
             /\ UNCHANGED <<sync, slot, next, ptr, lines, taken>>
    BY <2>1
  <2>2. CASE ThreadAt("child", "sent") /\ UNCHANGED <<sync, slot, ptr, lines, taken>>
             /\ next' = next + 1
             /\ ThreadGoes("child", IF next > WordCount THEN "done" ELSE "lock")
    BY <2>2
  <2>. QED
    BY <1>0, <1>2, <2>1, <2>2 DEF child_process
<1>3. CASE ChildFill
  <2>1. CASE /\ ThreadAt("child", "fill")
             /\ shared_word' = IF next > WordCount THEN NULL ELSE next
             /\ ThreadGoes("child", "signal")
             /\ UNCHANGED <<sync, word_ready, freed, next, ptr, lines, taken>>
    BY <2>1
  <2>. QED
    BY <1>0, <1>3, <2>1 DEF ChildFill
<1>4. CASE ChildSignal
  <2>a. waiting \subseteq {"parent"}
    BY <1>4 DEF ChildSignal
  <2>1. waiting' = {}
    BY <1>4, <2>a, SignalWakesTheWaiter DEF ChildSignal
  <2>. QED
    BY <1>4, <2>1 DEF ChildSignal
<1>5. CASE ParentTake
  <2>a. waiting \subseteq {"child"}
    BY <1>5 DEF ParentTake
  <2>1. waiting' = {}
    BY <1>5, <2>a, SignalWakesTheWaiter DEF ParentTake
  <2>. QED
    BY <1>5, <2>1 DEF ParentTake
<1>6. CASE ChildLock
  BY <1>6 DEF ChildLock, pthread_mutex_lock, cond_wait_returns
<1>7. CASE ChildTest
  BY <1>7 DEF ChildTest, pthread_cond_wait
<1>8. CASE ChildFree
  BY <1>8 DEF ChildFree
<1>9. CASE ChildUnlock
  BY <1>9 DEF ChildUnlock, pthread_mutex_unlock
<1>10. CASE ParentLock
  BY <1>10 DEF ParentLock, pthread_mutex_lock, cond_wait_returns
<1>11. CASE ParentTest
  BY <1>11 DEF ParentTest, pthread_cond_wait
<1>12. CASE ParentUnlock
  BY <1>12 DEF ParentUnlock, pthread_mutex_unlock
<1>13. CASE ParentLoad
  BY <1>13 DEF ParentLoad
<1>14. CASE ParentPrint
  BY <1>14 DEF ParentPrint
<1>15. CASE HandoffWakeup
  BY <1>15 DEF HandoffWakeup, SpuriousWakeup
<1>16. CASE UNCHANGED handoffVars
  BY <1>16 DEF handoffVars
<1>. QED
  BY <1>1, <1>2, <1>3, <1>4, <1>5, <1>6, <1>7, <1>8, <1>9, <1>10, <1>11, <1>12, <1>13, <1>14, <1>15, <1>16
     DEF HandoffNext, send_word, parent_process

LEMMA HandoffAlwaysIInv == HandoffSpec => []HandoffIInv
  BY HandoffInitIInv, HandoffStepIInv, PTL DEF HandoffSpec

\* The shared struct and the locals of the threads keep their types; in particular
\* free() is only ever given blocks that strdup returned.
THEOREM HandoffTypeCorrect == HandoffSpec => []HandoffTypeOK
  BY HandoffAlwaysIInv, PTL DEF HandoffIInv

\* However many words the file has, and whatever spurious wakeups there are: the slot
\* of send_word and parent_process is filled and emptied in turn.
THEOREM SlotNeverOverwritten == HandoffSpec => []SlotAlternates
  BY HandoffAlwaysIInv, PTL DEF HandoffIInv

\* The two threads are never both asleep in pthread_cond_wait: no signal is lost.
THEOREM NoLostSignal == HandoffSpec => []NeverBothWait
<1>1. HandoffIInv => NeverBothWait
  BY DEF HandoffIInv, Waiters, NeverBothWait
<1>. QED
  BY <1>1, HandoffAlwaysIInv, PTL

\* The read of shared_word after the unlock sees the word just taken or the next.
THEOREM UnlockedReadIsBounded == HandoffSpec => []LoadsCurrentOrNext
  BY HandoffAlwaysIInv, PTL DEF HandoffIInv
===============================================================================
