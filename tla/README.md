# TLA+ specifications of c-examples

c-examples is an archive of small POSIX programs in C: about two hundred, most
of them one `main.c` that shows one family of system calls. There is no common
library and no build of the whole; a program stands for itself, and programs meet
only through the system: files, named semaphores, sockets. This directory keeps
TLA+ models of the programs in which something can go wrong that running them
once does not show: two processes or threads, a pipe or socket that transfers
less than asked, a signal at a bad moment, a name that survives a killed run, a
counter at its limit.

Every module is translated from the source; `PROJECT.json` ("map") names the
lines of each definition. Where the code's behaviour and what a comment or message
says part, the module follows the code.

## Parts of the archive

| Part | State | Operations | Hard behaviour | Correct when |
|---|---|---|---|---|
| `pipe/` (simple, synchronized, reliable) | pipe, two named semaphores, the child's word buffer, the parent's length and word | `send_word`, `read_fully`, `write_fully`, `sem_wait`/`sem_post`, unlink at the end | partial reads and writes, two processes, left-behind semaphores, a child that gives up | the words of the file arrive once each and in order; the run ends; names are unlinked |
| `pthread-condition/` | mutex, condition variable, a one-word slot; a counter; a deadline | lock, wait, signal, broadcast, timed wait, join, destroy | spurious and lost wakeups, reads outside the lock, a signal racing a timeout | the slot alternates; nobody sleeps for ever; nothing is destroyed in use |
| `pthread-mutex/` | mutex, shared counter | lock or trylock, increment, print, unlock | lost updates | the counter counts the threads |
| `semaphores/` | one named semaphore in the system, O_EXCL | open, wait, trywait, post, unlink | side-by-side runs, kills, giving up after `TRY_COUNT` tries | a run removes only its own semaphore; every run ends |
| `io-multiplexing/` | arrays of client sockets, pollfd array or fd_set, `exit_flag` | accept, grow, serve, remove, SIGINT handler, cleanup | readiness that is stale when used, removal by moving the last entry, descriptor reuse, SIGINT around the system call | arrays list exactly the open descriptors; all that is sent is read; SIGINT cleans up |
| `domain-socket/`, `networking-functions/`, `sockets/`, `tcp/` | an address or `SOCKET_PATH`, a queue of connections, one connection at a time, `exit_flag` | bind, listen, accept, connect, serve, shutdown, close, unlink, SIGINT handler | SIGINT between and during the calls, clients that end in the middle, side-by-side runs, TIME_WAIT, remains of a killed run, half-close | what is sent arrives whole; a run that is alone gets its address; one client stops nobody; SIGINT ends the server |
| `file-system/`, `files/` (the programs that make names) | names in the working directory and `/tmp`, descriptors, `stdout` | create, link, symlink, rename, mkdir, mkstemp, truncate, dup2, unlink | calls that fail halfway, remains of killed runs, side-by-side runs, files of the user | a run removes what it made and nothing else |
| `shared-memory/` | a memory object and two named semaphores that outlive the processes | copy a word, post, wait; server loop | half-copied words, kills, a wait on the process's own post | every word is printed once; both processes end |
| the command lines of all programs (`parse_arguments`, `handle_arguments`, the `parse_` functions, `usage`) | `optind`, option arguments, operands | getopt loop, operand counts, NULL tests, conversions | any order and repetition of options and operands, numbers at the limits of their types | a program accepts what its usage line says, and a number is what was written |
| `number-conversion/`, `string-processing/`, `strings/`, `memory/`, `endianness/`, `sorting-searching/` | none | one library call and a message | the library's | not modelled (the range tests of the `parse_` functions are) |
| the others (`process/`, `process-groups/`, `users/`, `groups/`, `pthread/`, `udp/`, `sleep/`, `terminal/`, `time/`, `logging/`, ...) | none of their own | make one system call and print what it returns | none | only their command lines are modelled |

`PROJECT.json` ("components") lists every directory with its status.

## Modules

| Module | Models | Used by |
|---|---|---|
| `WordStream` | the promise of the word-passing programs: words arrive once each, in order, and the reader stops when it has had all | `ReliablePipe` (refinement, run and proof), `MCWordPipes` (refinement, run and proof) |
| `ReliablePipe` | `pipe/reliable/main.c`, killed and restarted | `MCReliablePipe`, `ReliablePipeProofs` |
| `SimplePipe` | `pipe/simple/main.c` | `SynchronizedPipe` (instance), `WordPassingProofs` |
| `SynchronizedPipe` | `pipe/synchronized/main.c`: the processes of `SimplePipe` between their semaphores | `MCWordPipes`, `WordPassingProofs` |
| `SocketPair` | `domain-socket/socketpair/main.c`: the processes of `SimplePipe` on a pair of sockets | `MCWordPipes`, `WordPassingProofs` |
| `Pthread` | mutex and condition variable as POSIX gives them (external) | the thread modules |
| `WordHandoff` | `pthread_cond_wait-pthread_cond_signal/main.c` | `MCWordHandoff`, `ThreadsProofs` |
| `CondBroadcast` | `pthread_cond_broadcast/main.c` | `MCThreads`, `ThreadsProofs` |
| `CondTimedwait` | `pthread_cond_timedwait/main.c` | `MCThreads`, `ThreadsProofs` |
| `MutexCounter` | `pthread_mutex_lock-pthread_mutex_unlock` (with and without `-m`) and `pthread_mutex_trylock` | `MCThreads`, `ThreadsProofs` |
| `NamedSemaphore` | the three programs under `semaphores/`, side by side on their common name | `MCThreads`, `ThreadsProofs` |
| `WordClients` | `io-multiplexing/client.c` and the kernel's side of the connections | the servers |
| `PollServer`, `SelectServer` | `io-multiplexing/poll/main.c`, `io-multiplexing/select/main.c` | themselves, `PollServerProofs`, `SelectServerProofs` |
| `Programs` | how each of 89 programs reads its command line: the getopt string, the counts and tests, the conversions, the usage line | `Arguments` |
| `Arguments` | `parse_arguments`, `handle_arguments` and the conversions, for any program of the table | `MCArguments`, `ArgumentsProofs` |
| `SharedMemory` | `shared-memory/mmap-munmap`: server and client, any number of each | itself, `WordPassingProofs` |
| `StreamClients` | the clients of the servers below (`read-write/client.c`, `send-recv/client.c`, `networking-functions/connect`, `setsockopt/client.c`, `tcp/shutdown/client.c`) and the kernel's side of a connection | `AcceptServers` |
| `AcceptServers` | the servers that take one connection after another: `read-write/server.c`, `send-recv/server.c`, `listen-accept`, `setsockopt/server.c`, `tcp/shutdown/server.c`; and `bind` and `getsockopt`, which hold the address for a moment | `MCSockets`, `AcceptServersProofs` |
| `SampleFiles` | the fifteen programs of `file-system/`, `files/` and `shared-memory/` that create names and remove them | `MCSampleFiles`, `SampleFilesProofs` |

### How state and actions correspond to the code

A process or thread has a program counter (`cpc`, `ppc`, `pc`, `mpc`,
`hpc`, `server_pc`, ...) whose values
are named after the call it is about to make. One action is one system call, or
one access to shared memory, with the local computation around it: local
computation cannot be observed by another process. Variables keep the names of
the C variables (`shared_word`, `word_ready`, `client_sockets`, `fds`,
`exit_flag`, `abs_timeout`, ...). Some modules add history variables (`posted`,
`got`, `handled`, `received`), which no guard reads.

Characters are numbers: 0 is any separator, 1 and 2 are letters. A word is a
sequence of letters. A byte on a pipe is a length or a letter. `uint8_t` wraps at
`UINT8_MAX + 1`, a `time_t` at `TIME_T_MAX`.

- **pipe/reliable.** `Main` opens the semaphores (an existing name keeps its
  value) and forks. `child_process` is the fgetc loop; `WriteLength`,
  `write_fully`, `ChildPost`, `ChildWait` are `send_word`; `ParentWait`,
  `read_fully`, `ParentPost` are the parent's loop; `ChildFinish` and
  `ParentFinish` close and unlink. `write_fully` and `read_fully` transfer any
  non-zero part of what is left and loop. `Kill` is the user's SIGINT, `Restart`
  the next run on what is left in the system.
- **pipe/simple.** A `read()` that returns 0 changes neither `length` nor
  `wordbuf`, which hold any value at first, as in the code. `MaxPrinted` stops the endless
  loop after end of file.
- **pipe/synchronized.** `sem_open` is called with one argument too many; the
  initial value of both semaphores is the permission mask (420; `PERMISSIONS = 6`
  in the run, more than the words of any file in it).
- **WordHandoff.** `pthread_cond_wait` is two actions (sleep; take the mutex
  again), `SpuriousWakeup` wakes any set of sleepers. `ParentLoad` and `ParentPrint`
  are apart because the code reads the pointer after the unlock and dereferences
  it later; a freed block prints as `Garbage`.
- **CondTimedwait.** `Tick` moves the clock; at `MaxTime` every deadline counts as
  reached, so no behaviour is cut off.
- **NamedSemaphore.** `name` is the run whose semaphore the name refers to, one
  `sem_open` with O_EXCL succeeds, the others fail.
- **SocketPair.** The actions of `SimplePipe`, except that the file is opened in the
  child and that `length` and `word` are locals of the loop: a `read()` of 0 bytes
  leaves them indeterminate: any value in `length`, and in each byte of `word` either
  what was there before or `Junk`.
- **AcceptServers.** A record says in what a server differs from the others (kind of
  address, SO_REUSEADDR, what a failed `accept()` means, what it does with a
  connection and with its socket at the end); the actions are the calls of `main` and
  `handle_connection`. `start` is everything up to `bind()`, the unlink of
  `SOCKET_PATH` included. A signal may come anywhere; in a call that sleeps it is
  `Interrupt`, elsewhere only `exit_flag` changes. `EndProcess` is what the kernel does
  with the sockets of a process: queued connections are reset, the one being served
  is closed, and it lingers (`timewait`) when this side closed first. `AddressFree`
  differs between Linux and BSD, and so does `shutdown` of a listening socket.
- **SampleFiles.** A program is the sequence of its calls, each with what the program
  does when it fails (`exit`, go on, jump to the cleanup, note it and go on). `Works` and
  `Effect` are the kernel's directory. A call fails because of the directory (`Fail`)
  or for another reason (`Fault`). `create_sample_file` in link, rename and truncate
  does not report that `fopen` failed.
- **SharedMemory.** The memory object is absent, empty (created, before `ftruncate`)
  or sized; a store into an empty one is SIGBUS (`ClientFault`). A word is written in
  two steps, with `Torn` between them. Kills leave the object and the semaphores.
- **Arguments.** `Programs` has one record per program, translated from its
  `parse_arguments` and `handle_arguments` and, apart from these, from its `usage`. The
  getopt loop, the tests and the conversions are actions of `Arguments`; getopt itself
  is external and comes in two kinds, one that steps over operands (glibc) and one that
  stops at the first. Of an argument the letter after a leading "-", the number and what
  follows it are kept. `UsageOutcome` reads the same command line by the usage line only.
- **The servers.** `Ready` is what the kernel reports at the time of the call;
  the loop over the clients works on that snapshot while clients send and close.
  `read_full` for the characters blocks the server, as in the code. `accept`
  gives the lowest free descriptor; with none free it fails and the server exits.
  The select server accepts a descriptor of `FD_SETSIZE` or more (`Accept`) and closes
  it in a step of its own (`Refuse`), with whatever its client has sent by then.

## Runs

| Run | Shows | Bounds |
|---|---|---|
| `reliable_pipe` | `DeliversWords` (refinement of `WordStream`), `BoundedAhead`, `StaleZeroStrandsChild`, `CleanRunEnds`, `GivingUpStrandsParent` | all files of up to 4 characters and one with a second word that is too long; words of up to 2; 2 restarts, so that a value can be left by a run that itself found one |
| `word_pipes` | `DeliversWords`, `RunEnds`, `RepeatsLastWord`, `GivingUpStrandsParent` | all files of up to 5 characters; a pipe of 3 bytes, less than a word, its length and the next length; 3 printed lines in socketpair, so that two lines follow the last word that was sent |
| `word_handoff` | `SlotAlternates`, `NeverBothWait`, `LoadsCurrentOrNext`, `Ends` | 3 words: one in the slot, one before it, one after it |
| `word_handoff_order` | violated: `PrintsWordsInOrder` | 3 words |
| `threads` | `NoWaiterAfterLast`, `NoLostUpdate`, `TimeoutNotEarly`, `UnlinksOwn`, `GivesUpOnlyOnChild`, `KilledRunBlocksOthers`, `ProgramEnds` | 3 threads, 2 iterations; times up to 4, deadlines before, at and after every event, one that overflows; 3 runs of any of the semaphore programs, 2 tries |
| `poll_server` | `ListsOpenFds`, `LengthReadNeverBlocks`, `EverythingRead` | 3 clients, 2 descriptors (so that one is reused and the table fills), arrays of 1 slot (so that they grow), 1 word each |
| `poll_server_cleanup` | violated: `SigintCleansUp` | 1 client |
| `select_server` | `ListsOpenFds`, `TurnServesAllReady`, `DropsServedOnlyWhenFinished`, `EverythingRead` | as `poll_server`; in one of the two initial states the second of the descriptors cannot be selected, so that clients are refused while another is served |
| `shared_memory` | `EndedServerCostsAnswer`, `PairDelivers`, `OneIsStranded` | 2 servers and 2 clients (one pair after or beside another), 2 words in all |
| `sockets` | `StreamsArrive`, `AloneIsReachable`, `FailsOnlyBecause`, `SigintStops`, `EveryoneServed` | 2 runs (one after the other or side by side) and 2 clients (one served, one queued); a file of two words and one with a word that is too long; a message of 2 characters; 1 kill, any number of SIGINTs |
| `sample_files` | `UserFilesSurvive`, `CleanupIsComplete`, `UndisturbedRun` | 2 runs of any of the programs (one after the other or side by side), 2 kills, 2 faults (one that leads to the cleanup, one in it), a user who has or saves files at any time |
| `arguments` | `ParsedAsUsageSays`, `NumbersMeanWhatTheySay` | all 89 programs; a right command line and the empty one, after any two edits; integer types of 2 to 4 bits, numbers at and beyond every limit |

Programs that need no common state share a run: `MCWordPipes`, `MCThreads` and
`MCArguments` choose the program in their initial state.

Deadlock is not checked: every program may end, and some are stranded, which the
properties say explicitly.

### Fairness

Each process or thread that can take a step takes one in the end (weak fairness):
the kernel's scheduler. A thread that keeps finding the mutex free for a moment
gets it (strong fairness on `CondBroadcast`); spurious wakeups do not go on for
ever. Time passes in `CondTimedwait`. A client is only required to finish a word
it has begun, since the server blocks on it, and in `AcceptServers`, where a server
serves nobody else meanwhile, to go on to the end of its file; nobody has to connect,
be started or interrupt. A `Kill`, a `Restart` and a SIGINT have no fairness.

### What the violated runs say

- `word_handoff_order`: the parent unlocks and then reads `shared_word`
  (`pthread_cond_wait-pthread_cond_signal/main.c:276`). The child may have freed and
  replaced it: the parent prints a word late, twice or not at all, or a freed block.
  `LoadsCurrentOrNext` is what remains true.
- `poll_server_cleanup`: `poll()` interrupted by the handler returns EINTR, which
  `poll/main.c:84` treats as an error and exits past the cleanup. The select server
  tests for EINTR, and `DropsServedOnlyWhenFinished` shows that this is enough there.

### What else the models show

These follow from the models and are not properties of a run:

- `pipe/reliable/main.c:230` "Wait for parent to finish reading": SEM_CHILD starts at
  1, so the child is one word ahead; `BoundedAhead` is the true statement.
- `pipe/reliable/main.c:258`: a word of exactly MAX_WORD_LENGTH letters passes the test
  of line 265 and its terminator goes one past `word[]`.
- `pipe/synchronized/main.c:270` "Wait for child to write": with the permission mask as
  the value the first waits return at once (`sem_open` at line 63).
- `pthread_cond_timedwait/main.c:76-82`: a signal sent before the wait is reported as
  "not signaled", a spurious wakeup as "signaled": there is no predicate.
- `sem_post-sem_wait/main.c:77` "Wait for the semaphore signal from the child": the
  value starts at 1, the parent may go first. `sem_trywait/main.c:59` "without
  blocking": the child calls `sem_wait`.
- `poll/main.c:80`: a SIGINT between the test of `exit_flag` and `poll()` is noticed only
  at the next event; the select server has the same window.
- `shared-memory/mmap-munmap/server.c:110` "Wait for the client to indicate it has
  finished": the server waits on `server_sem`, to which it has just posted itself, and
  takes the answer the client waits for, or the client takes it and the server waits
  for ever. `OneIsStranded` is what follows; `NeverBothEnd` is proved.
- `shared-memory/mmap-munmap/server.c:54` adds a page to a size that is already a
  multiple of the page size; the client maps one page less. Words are shorter than either.
- `shared-memory/mmap-munmap/client.c:115`: a word comes from a buffer of 100 bytes and
  is never too long for 1024.
- `domain-socket/socketpair/main.c:231` has the same array without room for the
  terminator, and `length` and `word` are read uninitialised after end of file: what is
  printed then may be the last word again, parts of it, or anything (`RepeatsLastWord`
  says what each byte can be); its line 181 "TODO: this does not exit the reading thread": the parent
  reads end of file for ever, as it does after a word that is too long.
- Two runs of a domain-socket server side by side: the second unlinks the first one's
  `SOCKET_PATH`, and whichever ends first unlinks the other's (`read-write/server.c:45,73`).
  `AloneIsReachable` is what holds for runs that do not meet.
- A SIGINT between the test of `exit_flag` and `accept()` waits for one more client in
  every server; `setsockopt/server.c:311` treats the EINTR of a SIGINT during `accept()` as
  an error and ends with EXIT_FAILURE, the other servers end in order; on BSD the
  `shutdown` of the listening socket fails (`tcp/shutdown/server.c`). Line 88 of that file
  also ends the server if `shutdown(SHUT_RD)` fails, which it does with ENOTCONN for a
  connection that was reset. Its own client never resets one, so `close_client` has no such
  outcome; a foreign client could stop the server this way.
- `select/main.c:164`: a client whose descriptor is `FD_SETSIZE` or more is accepted and closed
  at once, and what it has sent is lost without a word to it.
- `listen-accept/main.c:428`: one client that leaves early ends the server, by SIGPIPE or by
  `exit(EXIT_FAILURE)`.
- `file-system/link`, `symlink` and `truncate` create, overwrite and delete `example.txt`, also
  when it is a file of the user; the other programs keep to names of their own.
- A run of `link`, `symlink`, `lstat`, `mkdir-rmdir` or `umask` that is killed or fails halfway
  blocks every later run until the name is removed by hand; `lstat` of a file that does not
  exist does so by itself, since it leaves `symlink_example.txt`; `umask` leaves a
  `file2.txt` that its next run may not write.
- Usage lines that are not what the program accepts (`Misdescribed`): `dlopen`,
  `shm_open-shm_unlink` and `fprintf` have "h:" in their getopt string, so that "-h" alone is
  an unknown option and "-h x" is help; `getpeername` announces `-p <port>` and rejects it;
  `fseek` (lines 117, 160) and `fseeko` (lines 125, 240) leave `-o` out of the usage line
  and demand it;
  `process/fork` announces `<seconds>`, which it ignores, and takes `-s`; `nanosleep` has both
  options in brackets and wants one of them.
- The list of options below the usage line is not modelled. That of `getnameinfo`
  (`network-address/getnameinfo/main.c:177`) has `-p <port>`, which the program rejects;
  those of `fseek` and `fseeko` do have `-o <offset>`.
- `regexec`, `setregid`, `dlsym`, `abort` and `pthread_mutex_lock` ignore operands too many.
- An empty argument is the number 0 in every `parse_` function (`users/setuid/main.c:148`:
  user 0); `-1` is a valid `size_t` and `rlim_t`, and numbers near `-UINTMAX_MAX` are valid for
  every unsigned type.
- `terminal/cfgetispeed-cfsetispeed/main.c:32` "TODO the speed is always invalid": the text
  is compared with the constants B0 to B38400, on Linux 0 to 15, not with the rates.
- `client.c:186`: the nanoseconds of the delay pass 999999999 in about half of the
  calls, and nanosleep then fails without a delay. Clients here send at any time.

## Proofs

For every value of the constants, with TLAPS. Each invariant below is inductive, and
TLC has checked it on the instance of the component's run.

**Threads and semaphores (`ThreadsProofs`)**

- `pthread_cond_broadcast`: `TypeCorrect`, `LastBroadcastReachesAll`
  (`NoWaiterAfterLast`) and `DestroySafe`. That nobody waits after the last
  broadcast needs to know who holds the mutex (`MutexHeld`: main updates and a
  thread tests only with it), that only threads inside the wait are waiting
  (`WaitersWait`) and how `shared_data` follows the loop counter (`Counts`).
- `pthread-mutex`: `EveryUpdateCounts` (`NoLostUpdate`), for any finite set of threads. A
  thread between lock and unlock has the mutex (`Exclusive`), so what it loaded is
  current when it stores (`LoadIsCurrent`) and what it prints is higher than anything
  printed before (`PrintedBelow`).
- `semaphores`: `NoRunUnlinksAnother` (`UnlinksOwn`), `NobodyElseHasIt`
  (`GivesUpOnlyOnChild`) and `LeftNameBlocks` (`KilledRunBlocksOthers`), for any runs and
  number of tries. `UnlinksOwn` is nearly inductive; that a parent gives up only on its own
  child needs `OnePermit`: the one permit is in the semaphore, with the child or with the
  parent, so that while the parent waits nobody but its child can have it.
- `pthread_cond_timedwait`: `TimeoutIsNotEarly` (`TimeoutNotEarly`), for any times. The
  deadline main computed is not before the start time plus its seconds as long as the
  addition does not wrap (`DeadlineKept`).

**Words in shared memory and pipes**

- `pthread_cond_wait` with `pthread_cond_signal` (`ThreadsProofs`): `HandoffTypeCorrect`,
  `SlotNeverOverwritten` (`SlotAlternates`),
  `NoLostSignal` (`NeverBothWait`) and `UnlockedReadIsBounded`
  (`LoadsCurrentOrNext`), for files of any number of words. The inductive invariant
  says who holds the mutex (`Holders`), that a thread waits only for the value of
  `word_ready` that stops it (`Waiters`: this is why one condition variable is enough
  for both directions), that a tested value stays (`Tested`), and what is in the
  slot (`Content`).
- `ReliablePipeProofs`: `TypeCorrect`, `AheadIsBounded` (`BoundedAhead`),
  `ExitUnlinks` (`NormalExitUnlinks`) and `StaleZeroStrands` (`StaleZeroStrandsChild`), for
  all files and pipe sizes and any number of kills and restarts. The counting invariant
  `CInv` has the balance of each semaphore (value = value found + posts - waits) and the
  progress of the unlinking. That a child without a permit stays behind needs more than
  counting: with SEM_CHILD at 0 the two processes move in lockstep (`Turn`), one frame is
  in the pipe or in the parent's hands at a time (`Sending`, `Sent`), so the frame the
  parent reads after the length-0 word was announced is that word and it is not
  acknowledged (`SentLast`).
  `PipeImplementsStream` (`DeliversWords`) is the refinement: every behaviour of
  `ReliablePipe` is one of `WordStream`. Its invariant `Channel` lays the words out in the
  pipe: the child has sent the first m words and has the next in its buffer up to `pos`
  (`Scanner`), the parent has the first R and some letters of the next (`Reader`), and of
  the words between, each has its length byte at a position o[j] and its letters behind
  it (`Frame`, `Layout`); a write extends the pipe, a read shifts every position
  (`ShiftLayout`). It does not mention the semaphores: the order of the bytes and the
  loops of `write_fully` and `read_fully` are enough, whatever value a killed run left. That
  the letters buffered at a separator are the next of `Words(file)` is `WordFound`: a word is
  numbered by the words that start before it (`Before`), so no induction over the file
  is needed.
- `pipe/simple`, `pipe/synchronized` and `socketpair` (`WordPassingProofs`):
  `ImplementsWordStream` (`DeliversWords`) is their refinement of `WordStream`, and
  `PrintsWhatWasSent` (`RepeatsLastWord`) says what the parent prints when the child has
  given up; for all files over the natural numbers, all word lengths and all pipe sizes.
  The invariant `DataInv` has the number m of words that the child has written and whether
  it has written one more length (`Writer`), and of the parent either that it has read as
  far as the pipe has been emptied (`InStep`) or that it goes on behind a child that failed
  (`Stale`). `Queue` describes the pipe by its tails: what follows the first n words in what
  has been written, and what follows the length behind them; a write appends to every
  tail (`QueueGrows`), a read goes from one tail to the next. That a single `read()` is
  enough is in it: a word is in the pipe as a whole or not at all. `Stale` keeps the
  parent's locals equal to the last word (`LastRead`), which is what it repeats. For
  `socketpair` both cases have `Buffer`: a byte of `word` is junk, a terminator, or the
  letter of the last word that was long enough to overwrite it.
- `shared-memory` (`WordPassingProofs`): `NoServerEndsForFree` (`EndedServerCostsAnswer`) and
  `NeverBothEnd`, for any finite sets of servers and clients. The invariant is a
  balance: what has been posted and not yet used up, on either semaphore or in the
  hands of a server, is owed to a client that waits; a server that ends takes one.
  `UndisturbedPairDelivers` (`PairDelivers`), for files of any length, follows the pair
  through its rounds (`PairInv`: `Opening`, `Preparing`, `Waiting`, `ClientEnded`, each with
  both semaphores, the memory and the lines printed).

**Servers**

- `PollServerProofs`: `PollListsOpenFds` (`ListsOpenFds`) and `PollLengthReadNeverBlocks`
  (`LengthReadNeverBlocks`), for any clients, words, descriptors and initial capacity. Both
  arrays agree through growth and the moving of the last entry (`ArraysAgree`, `Listing`),
  revents that are set belong to a client that has sent or closed (`Fresh`), and a
  client has one place, the queue or one descriptor (`OnePlace`), so that nobody else
  reads what made it ready.
- `SelectServerProofs`: `SelectListsOpenFds` (`ListsOpenFds`), `SelectServesAllReady`
  (`TurnServesAllReady`) and the action property `SelectServesToTheEnd`
  (`DropsServedOnlyWhenFinished`). `PassedServed` says that every reported descriptor before
  `i` has been dealt with; it survives `remove_client` because the entry moved into the
  slot comes from behind `i` and `i` goes back by one. That nothing was read of a client
  that is refused is `Newcomers`: a client connects once, so one that waits in the queue is
  new, no two descriptors have the same client, and the one in `new_socket` comes from the
  queue.
- `AcceptServersProofs`: `NobodyTakesTheAddress` (`AloneIsReachable`), for any runs, clients and
  files. The invariant says that whoever holds the address or listens on it runs
  (`Holders`), that a run that has not met another is the only one running (`Alone`), and
  that its path is its own from `bind()` to `unlink()` (`OwnPath`); so it finds the address
  free (`AloneIsFree`). The steps are first reduced to those that only move a run in
  its loop (`Moves`), that end it (`Ends`), and the four calls that change the address.
  `OnlyTheUserStopsARun` (`FailsOnlyBecause`) and `SuccessIsTheWholeMessage` (`MessageArrives`,
  one half of `StreamsArrive`) rest on `LinkInv`: a client is in one queue or in one
  connection (`OnePlace`), a run has a client exactly while it serves it (`RunPlaces`), and
  what a client has had of the message is at most what was written (`Message`).
  `WhatIsSentArrives` (`StreamsArrive`) adds the words: `StreamInv` numbers what a client
  sends in chunks, a length or the characters of a word (`Chunk`), and has for every
  client the tails of what it has sent behind the chunks the server has taken
  (`Behind`), with the server at a length or at the word of that length (`InStep`). It is
  left only through SIGINT (`interrupted`) or when the client ends between the two
  (`CutShort`).

**Sample files (`SampleFilesProofs`)**

- `TheUsersFileSurvives` (`UserFilesSurvive`), for any number of runs of any of the programs,
  kills and faults. The calls of all programs are first reduced to the few facts that
  matter (`CallFacts`, by cases on the programs), the effect of a call to the names it
  can change (`EffectDir`). The invariant has the symbolic links there can be
  (`Symlinks`: so no program writes through one onto the file) and that a run of `unlink`
  that is past its test did not see the file (`UserFile`).
- `NothingIsLeftSilently` (`CleanupIsComplete`). A temporary name is changed by its own run only
  (`OwnName`); `Cleanup` follows `dup2` call by call: `failed` is set exactly when a call
  has failed, and where `stdout` has been redirected the saved descriptor is open
  until the cleanup has tried to restore it.
- `UndisturbedRunsKeepTheDirectory` (`UndisturbedRun`), in every directory that any number of
  runs, kills, faults and saves can leave. `Kinds` says what such a directory can hold: under a
  name that is written only files, and the one file that may not be written is the one
  `umask` makes under `file2.txt`. Nobody else runs while a run is undisturbed (`Alone`), and
  `Reached` has for each program what is in the directory before its k-th call, compared
  with the directory it began with. `CallEnds`, `CreateDoes` and `CallDoes` say what a call does
  that only the directory can keep from succeeding; one lemma for each program
  (`ChmodRuns`, ..., `Dup2Runs`) puts its calls together.

**Command lines (`ArgumentsProofs`)**

- `UsageIsTrue` (`ParsedAsUsageSays`), for command lines of any length over any entries and for
  both kinds of `getopt`. The 81 programs outside `Misdescribed` are first shown to have one
  property in common (`Described`: the getopt string, the tests and the usage line agree), and
  the rest of the proof uses nothing else of them. The invariant `ParseInv` says how far
  `getopt` is: the entry it is at is not the value of an option and no `--` and no rest is
  before it (`FrontierAt`), and of the entries before it, no option decides the outcome
  (`Clean`), the operands are in their places (`Placed`, which counts them) and each option has
  the value given last (`Known`). The table `Role` of what each entry is, a recursive
  function, exists by a least-counterexample argument (`RolesExist`); so do the roles behind
  `--` (`RestForever`). What the usage line says follows at the first option that decides
  (`FirstDecides`) or at the end (`NothingDecides`).
- `NumbersAreMeant` (`NumbersMeanWhatTheySay`), for all texts and all widths of the types that
  satisfy `ArgumentsAssumption`.

The assumptions are the ASSUMEs of the component modules: lengths and capacities are
natural numbers, characters are natural numbers, model values differ from the names used
for nobody, `mkstemp` and `mkdtemp` give every run a name that nobody else has
(`TemporaryNamesAreFresh`), and `NoLimit`, which stands for the number of operands of a
program that does not limit them, is at least the length of every command line.

Induction over data is out of the prover's reach as a rule to cite; where a proof
needs it, it takes the least number at which a statement fails (`LeastNumber`).

**Only model-checked.** All liveness (`CleanRunEnds`, `GivingUpStrandsParent`, `RunEnds`, `Ends`,
`ProgramEnds`, `EverythingRead`, `OneIsStranded`, `SigintStops`, `EveryoneServed`): out of the
prover's reach. The two properties that the code violates (`PrintsWordsInOrder`, `SigintCleansUp`).

## Bounds and what is not modelled

`MaxRestarts`, `MaxPrinted`, `MaxGarbage`, `MaxTime`, `MaxWords`, `MaxKills`, `MaxFaults`
and `NoLimit` are bounds of the models, the other constants exist in the code. System calls that the
code treats alike fail alike: an `error_exit` is one failing step, and failures that
cannot be told from a kill (`fopen`, `pipe`, `fork`, `socket`, `close`) are one action.

Not modelled, with the reason for each directory in `PROJECT.json`:

- output, the client's delays in `io-multiplexing/client.c`, clusters of options in one
  argument;
- the programs that make one library call on fixed data and print the result
  (`string-processing`, `strings`, `memory`, `number-conversion`, `endianness`,
  `sorting-searching`, `time`, `character-types`, ...): what could be wrong is the library's;
- the programs that make one system call and print what it returns (`process`,
  `process-groups`, `users`, `groups`, `terminal`, `system-information`, ...): no state
  outlives the call, and no other process takes part;
- `udp/`: one datagram without an answer or a timeout;
- `pthread/`: the threads share no data.

## Plan

Every invariant and every action property of a passing run has a theorem. What is left is
liveness, which needs another prover, and `udp/`, once its programs answer or time out.
