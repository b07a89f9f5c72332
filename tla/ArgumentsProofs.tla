---------------------------- MODULE ArgumentsProofs ----------------------------
(***************************************************************************)
(* Proofs about Arguments: what the programs make of a command line, for   *)
(* command lines of any length.                                            *)
(***************************************************************************)
EXTENDS Arguments, SequenceTheorems, FiniteSetTheorems, WellFoundedInduction, TLAPS

-------------------------------------------------------------------------------
(* What parse_arguments and usage have in common                           *)

\* The options for which the switch has a case.
Handled(p) == {l \in DOMAIN p.options : p.options[l] # "unhandled"}

\* The getopt string, the tests and the usage line say the same.
Described(p) ==
    /\ p.help_takes = FALSE
    /\ p.usage.required \cup p.usage.optional = Handled(p)
    /\ p.usage.flags = {l \in Handled(p) : p.options[l] = "flag"}
    /\ {"h", "?"} \cap DOMAIN p.options = {}
    /\ p.needed = p.usage.required /\ p.one_of = {}
    /\ {p.few, p.many, p.nonnull, p.usage.lo, p.usage.hi} \subseteq Nat
    /\ p.usage.lo = (IF p.few <= p.nonnull THEN p.nonnull ELSE p.few)
    /\ p.many \in {p.usage.hi, NoLimit}

LEMMA TakesDescribed ==
    ASSUME NEW kinds, Len(kinds) \in Nat
    PROVE  Described(Takes(kinds))
  BY DEF Described, Handled, Takes

LEMMA RequiresDescribed ==
    ASSUME NEW kinds, Len(kinds) \in Nat, NEW options, {"h", "?"} \cap DOMAIN options = {},
           \A l \in DOMAIN options : options[l] \notin {"unhandled", "flag"}
    PROVE  Described(Requires(Takes(kinds), options))
  BY DEF Described, Handled, Takes, Requires

LEMMA SingleOperand ==
    \A kind : Described(Takes(<<kind>>))
  BY TakesDescribed

LEMMA TwoOperands ==
    \A kind, other : Described(Takes(<<kind, other>>))
  BY TakesDescribed

LEMMA OneOperandPrograms ==
    /\ Described(chdir) /\ Described(access) /\ Described(opendir)
    /\ Described(readdir) /\ Described(unlink) /\ Described(stat) /\ Described(lstat)
    /\ Described(nftw) /\ Described(multiplexing_client)
    /\ Described(read_write_client) /\ Described(send_recv_client)
    /\ Described(socketpair) /\ Described(strdup) /\ Described(strlen)
    /\ Described(getpwnam) /\ Described(pthread_cond_signal) /\ Described(reliable)
    /\ Described(simple) /\ Described(synchronized) /\ Described(regcomp)
    /\ Described(strtok_r) /\ Described(dirname) /\ Described(basename)
    /\ Described(glob) /\ Described(syslog) /\ Described(setlogmask)
    /\ Described(openlog) /\ Described(popen) /\ Described(system)
    /\ Described(fcntl) /\ Described(S_IS) /\ Described(fdopen) /\ Described(open)
    /\ Described(fstat) /\ Described(mmap_client) /\ Described(getaddrinfo)
    /\ Described(fopen) /\ Described(ferror) /\ Described(getgrnam)
    /\ Described(getpwuid) /\ Described(seteuid) /\ Described(setuid)
    /\ Described(getgrgid) /\ Described(setegid) /\ Described(setgid)
    /\ Described(cfgetispeed) /\ Described(cfgetospeed) /\ Described(difftime)
  BY SingleOperand, Zenon DEF chdir, access, opendir, readdir, unlink, stat, lstat, nftw,
                       multiplexing_client, read_write_client, send_recv_client,
                       socketpair, strdup, strlen, getpwnam, pthread_cond_signal,
                       reliable, simple, synchronized, regcomp, strtok_r, dirname,
                       basename, glob, syslog, setlogmask, openlog, popen, system,
                       fcntl, S_IS, fdopen, open, fstat, mmap_client, getaddrinfo,
                       fopen, ferror, getgrnam, getpwuid, seteuid, setuid, getgrgid,
                       setegid, setgid, cfgetispeed, cfgetospeed, difftime

LEMMA TwoOperandPrograms ==
    /\ Described(strcmp) /\ Described(strstr) /\ Described(strchr)
    /\ Described(socket) /\ Described(getsockname) /\ Described(getnameinfo)
    /\ Described(shutdown_client) /\ Described(shutdown_server)
    /\ Described(setsockopt_client) /\ Described(setsockopt_server)
    /\ Described(getsockopt) /\ Described(connect) /\ Described(udp_server)
  BY TwoOperands, Zenon DEF strcmp, strstr, strchr, socket, getsockname, getnameinfo,
                            shutdown_client, shutdown_server, setsockopt_client,
                            setsockopt_server, getsockopt, connect, udp_server

LEMMA RequiringPrograms ==
    /\ Described(strncpy) /\ Described(strncmp) /\ Described(lseek)
    /\ Described(chown) /\ Described(setreuid) /\ Described(timedwait)
  BY RequiresDescribed DEF strncpy, strncmp, lseek, chown, setreuid, timedwait

LEMMA OtherPrograms ==
    /\ Described(bind) /\ Described(udp_client) /\ Described(wordexp)
    /\ Described(fnmatch) /\ Described(regexec) /\ Described(nice)
    /\ Described(sleep) /\ Described(setregid) /\ Described(dlsym)
    /\ Described(listen_accept)
  BY NoLimitAssumption DEF Described, Handled, Takes, Requires, Allows, bind,
                           udp_client, wordexp, fnmatch, regexec, nice, sleep,
                           setregid, dlsym, listen_accept

LEMMA AllowingPrograms ==
    Described(abort) /\ Described(mutex_lock) /\ Described(getopt) /\ Described(getopt_long)
<1>1. Described(abort)
  BY NoLimitAssumption DEF Described, Handled, Takes, Allows, abort
<1>2. Described(mutex_lock)
  <2>1. Handled(mutex_lock) = {"m"} /\ mutex_lock.options["m"] = "flag"
    BY DEF Handled, Takes, Allows, mutex_lock
  <2>2. mutex_lock.usage = [optional |-> {"m"}, required |-> {}, flags |-> {"m"}, lo |-> 0, hi |-> 0]
    BY DEF Takes, Allows, mutex_lock
  <2> QED BY <2>1, <2>2, NoLimitAssumption DEF Described, Takes, Allows, mutex_lock
<1>3. Described(getopt)
  <2>1. /\ Handled(getopt) = {"a", "b", "c"}
        /\ {l \in Handled(getopt) : getopt.options[l] = "flag"} = {"a", "b"}
    BY DEF Handled, Takes, Allows, getopt
  <2> QED BY <2>1, NoLimitAssumption DEF Described, Takes, Allows, getopt
<1> QED BY <1>1, <1>2, <1>3 DEF getopt_long

LEMMA AllDescribed ==
    \A p \in AllPrograms \ Misdescribed : Described(p)
  BY OneOperandPrograms, TwoOperandPrograms, RequiringPrograms, OtherPrograms,
     AllowingPrograms
     DEF AllPrograms, Misdescribed

-------------------------------------------------------------------------------
(* What the entries of a command line are                                  *)

LEMMA LeastNumber ==
    ASSUME NEW X \in SUBSET Nat, X # {}
    PROVE  \E m \in X : \A n \in X : m <= n
<1>1. PICK m \in X : \A n \in X : ~(<<n, m>> \in OpToRel(<, Nat))
  BY NatLessThanWellFounded, WFMin, Zenon
<1>2. \A n \in X : ~(n < m)
  BY <1>1, Zenon DEF OpToRel
<1> QED BY <1>2

\* What entry i is when the one before it is r.
RoleAfter(r, i) ==
    IF r \in {"end", "rest"} THEN "rest"
    ELSE IF r = "option" /\ argv[i - 1].letter \in Valued THEN "value"
    ELSE CASE argv[i].letter = "-" -> "end"
           [] argv[i].letter = ""  -> IF permute THEN "operand" ELSE "rest"
           [] OTHER                -> "option"

RolesUpTo(f, n) == f = [i \in 0..n |-> IF i = 0 THEN "start" ELSE RoleAfter(f[i - 1], i)]

\* There is a table of the roles.
LEMMA RolesExist ==
    ASSUME NEW n \in Nat
    PROVE  \E f : RolesUpTo(f, n)
<1> DEFINE X == {k \in Nat : ~\E f : RolesUpTo(f, k)}
<1> SUFFICES ASSUME X # {} PROVE FALSE
  OBVIOUS
<1>1. PICK m \in X : \A k \in X : m <= k
  <2> HIDE DEF X
  <2> QED BY LeastNumber DEF X
<1>2. m \in Nat /\ ~\E f : RolesUpTo(f, m)
  OBVIOUS
<1>3. m # 0
  <2> DEFINE f == [i \in 0..0 |-> "start"]
  <2>1. RolesUpTo(f, 0)
    BY DEF RolesUpTo
  <2> QED BY <1>2, <2>1
<1>4. PICK g : RolesUpTo(g, m - 1)
  <2>1. m - 1 \in Nat /\ m - 1 \notin X
    BY <1>1, <1>2, <1>3
  <2> QED BY <2>1
<1> DEFINE f == [i \in 0..m |-> IF i = m THEN RoleAfter(g[m - 1], m) ELSE g[i]]
<1>5. g = [i \in 0..(m - 1) |-> IF i = 0 THEN "start" ELSE RoleAfter(g[i - 1], i)]
  BY <1>4 DEF RolesUpTo
<1>6. ASSUME NEW i \in 0..m
      PROVE  f[i] = IF i = 0 THEN "start" ELSE RoleAfter(f[i - 1], i)
  <2>1. CASE i = 0
    BY <1>2, <1>3, <1>5, <2>1
  <2>2. CASE i = m
    <3>1. f[i - 1] = g[m - 1]
      BY <1>2, <1>3, <2>2
    <3> QED BY <1>2, <1>3, <2>2, <3>1
  <2>3. CASE i # 0 /\ i # m
    <3>1. f[i - 1] = g[i - 1] /\ f[i] = g[i] /\ i \in 0..(m - 1)
      BY <1>2, <1>3, <2>3
    <3>2. g[i] = RoleAfter(g[i - 1], i)
      BY <1>5, <2>3, <3>1
    <3> QED BY <2>3, <3>1, <3>2
  <2> QED BY <2>1, <2>2, <2>3
<1>7. RolesUpTo(f, m)
  <2> HIDE DEF f
  <2>1. f = [i \in 0..m |-> f[i]]
    BY DEF f
  <2> QED BY <1>6, <2>1, Zenon DEF RolesUpTo
<1> QED BY <1>2, <1>7

LEMMA RoleTable ==
    ASSUME Len(argv) \in Nat
    PROVE  /\ Role[0] = "start"
           /\ \A i \in 1..Len(argv) : Role[i] = RoleAfter(Role[i - 1], i)
<1>1. \E f : RolesUpTo(f, Len(argv))
  BY RolesExist
<1>2. Role = CHOOSE f : RolesUpTo(f, Len(argv))
  BY Zenon DEF Role, RolesUpTo, RoleAfter
<1>3. RolesUpTo(Role, Len(argv))
  BY <1>1, <1>2, Zenon
<1>4. Role = [i \in 0..Len(argv) |-> IF i = 0 THEN "start" ELSE RoleAfter(Role[i - 1], i)]
  BY <1>3, Zenon DEF RolesUpTo
<1> HIDE DEF Role
<1> QED BY <1>4

LEMMA RoleKept ==
    ASSUME UNCHANGED <<argv, permute, program>>
    PROVE  Role' = Role
<1> DEFINE Table(a, p, v, f) ==
        f = [i \in 0..Len(a) |->
                IF i = 0 THEN "start"
                ELSE IF f[i - 1] \in {"end", "rest"} THEN "rest"
                ELSE IF f[i - 1] = "option" /\ a[i - 1].letter \in v THEN "value"
                ELSE CASE a[i].letter = "-" -> "end"
                       [] a[i].letter = ""  -> IF p THEN "operand" ELSE "rest"
                       [] OTHER             -> "option"]
<1> DEFINE RoleIn(a, p, v) == CHOOSE f : Table(a, p, v, f)
<1>1. Role = RoleIn(argv, permute, Valued)
  BY Zenon DEF Role
<1>2. Role' = RoleIn(argv', permute', Valued')
  BY Zenon DEF Role
<1>3. argv' = argv /\ permute' = permute /\ Valued' = Valued
  BY Zenon DEF Valued, Usage
<1> HIDE DEF RoleIn
<1> QED BY <1>1, <1>2, <1>3, Zenon

-------------------------------------------------------------------------------
(* Types and numbers                                                       *)

\* No option has the name getopt gives to a wrong one, or that of -h.
LEMMA OptionNames ==
    \A p \in AllPrograms : {"h", "?"} \cap DOMAIN p.options = {}
<1>1. \A p \in Misdescribed : {"h", "?"} \cap DOMAIN p.options = {}
  <2>1. \A p \in {dlopen, shm_open, fprintf, getpeername} : DOMAIN p.options = {}
    BY DEF dlopen, shm_open, fprintf, getpeername, Takes
  <2>2. DOMAIN fork.options = {"s"}
    BY DEF fork, Allows, Takes
  <2>3. DOMAIN nanosleep.options = {"s", "n"}
    BY DEF nanosleep, Allows, Takes
  <2>4. DOMAIN fseek.options = {"o"} /\ DOMAIN fseeko.options = {"o"}
    BY DEF fseek, fseeko, Takes
  <2>5. /\ {"h", "?"} \cap {} = {} /\ {"h", "?"} \cap {"s"} = {}
        /\ {"h", "?"} \cap {"s", "n"} = {} /\ {"h", "?"} \cap {"o"} = {}
    OBVIOUS
  <2> QED BY <2>1, <2>2, <2>3, <2>4, <2>5, Zenon DEF Misdescribed
<1>2. \A p \in AllPrograms \ Misdescribed : {"h", "?"} \cap DOMAIN p.options = {}
  BY AllDescribed DEF Described
<1> QED BY <1>1, <1>2, Zenon

Types ==
    /\ program \in AllPrograms /\ permute \in BOOLEAN /\ argv \in Argvs(program)
    /\ next \in Nat \ {0} /\ operands \in Seq(Entries)
    /\ \A l \in DOMAIN values : values[l] \in Entries

LEMMA ArgvFacts ==
    ASSUME Types
    PROVE  argv \in Seq(Entries) /\ Len(argv) \in Nat /\ Len(argv) <= NoLimit
<1>1. argv \in Seq(Entries) /\ Len(argv) <= NoLimit
  BY ArgumentsAssumption DEF Types
<1> QED BY <1>1

\* What an option that the switch handles does.
LEMMA OptionTaken ==
    ASSUME Types, next <= Len(argv), NEW opt, opt = Returned,
           opt \in DOMAIN program.options
    PROVE  /\ opt = Entry.letter /\ opt # "h"
           /\ TakesValue(opt) <=> program.options[opt] # "flag"
           /\ TakesValue(opt) => next + 1 \in 1..Len(argv)
<1>1. {"h", "?"} \cap DOMAIN program.options = {}
  BY OptionNames DEF Types
<1>2. opt # "?" /\ opt # "h"
  BY <1>1
<1>3. opt = Entry.letter
  BY <1>2, Zenon DEF Returned
<1>4. TakesValue(opt) => next # Len(argv)
  BY <1>2, <1>3, Zenon DEF Returned
<1> QED BY <1>2, <1>3, <1>4, ArgvFacts DEF TakesValue, Types

LEMMA ValueTypes ==
    ASSUME NEW v, \A l \in DOMAIN v : v[l] \in Entries, NEW opt, NEW e \in Entries
    PROVE  \A l \in DOMAIN With(v, opt, e) : With(v, opt, e)[l] \in Entries
  BY DEF With

LEMMA Negated ==
    ASSUME NEW u \in Nat, NEW a \in -u..u
    PROVE  a % (u + 1) = IF a >= 0 THEN a ELSE a + u + 1
  OBVIOUS

LEMMA NumberParsed ==
    ASSUME NEW kind \in Unsigned \cup Signed, NEW t \in Entries, NEW v \in Convert(kind, t)
    PROVE  /\ v \in Limits(kind) /\ ~t.junk
           /\ \/ v = t.value
              \/ kind \in Unsigned /\ t.value < 0 /\ v = t.value + UINTMAX_MAX + 1
<1>1. v \in parse_number(kind, t)
  BY Zenon DEF Convert
<1>2. ~t.junk /\ v \in Limits(kind)
      /\ v \in (IF kind \in Unsigned THEN strtoumax(t) ELSE strtoimax(t))
  BY <1>1, Zenon DEF parse_number
<1>3. t.value \in Int /\ UINTMAX_MAX \in Nat
  BY ArgumentsAssumption DEF Entries
<1>4. CASE kind \in Unsigned
  <2>1. t.value \in -UINTMAX_MAX..UINTMAX_MAX /\ v = t.value % (UINTMAX_MAX + 1)
    BY <1>2, <1>4 DEF strtoumax
  <2>2. v = IF t.value >= 0 THEN t.value ELSE t.value + UINTMAX_MAX + 1
    BY <1>3, <2>1, Negated
  <2> QED BY <1>2, <1>3, <1>4, <2>2
<1>5. CASE kind \notin Unsigned
  <2>1. v \in strtoimax(t)
    BY <1>2, <1>5, Zenon
  <2>2. v = t.value
    BY <2>1 DEF strtoimax
  <2> QED BY <1>2, <2>2
<1> QED BY <1>4, <1>5

LEMMA InitTypes == Init => Types /\ NumbersMeanWhatTheySay
<1> SUFFICES ASSUME Init PROVE Types /\ NumbersMeanWhatTheySay
  OBVIOUS
<1>1. operands \in Seq(Entries) /\ next \in Nat \ {0} /\ DOMAIN values = {}
  BY DEF Init
<1>2. Types
  BY <1>1 DEF Init, Types
<1>3. converted = {}
  BY DEF Init
<1> QED BY <1>2, <1>3 DEF NumbersMeanWhatTheySay

LEMMA GivenTypes ==
    ASSUME Types, NEW g \in Given
    PROVE  g[2] \in Entries
<1>1. \A i \in 1..Len(operands) : operands[i] \in Entries
  BY DEF Types
<1>2. \A l \in DOMAIN values : values[l] \in Entries
  BY DEF Types
<1> QED BY <1>1, <1>2 DEF Given

LEMMA StepTypes ==
    ASSUME Types, NumbersMeanWhatTheySay, [Next]_vars
    PROVE  Types' /\ NumbersMeanWhatTheySay'
<1>1. argv \in Seq(Entries) /\ Len(argv) \in Nat
  BY ArgvFacts
<1>2. next \in Nat /\ next > 0 /\ operands \in Seq(Entries)
  BY DEF Types
<1>3. ASSUME next <= Len(argv)
      PROVE  Entry \in Entries
  BY <1>1, <1>2, <1>3 DEF Entry
<1>4. ASSUME UNCHANGED <<program, argv, permute>>, next' \in Nat \ {0}, operands' \in Seq(Entries),
             \A l \in DOMAIN values' : values'[l] \in Entries
      PROVE  Types'
  BY <1>4, Zenon DEF Types
<1>5. ASSUME UNCHANGED converted
      PROVE  NumbersMeanWhatTheySay'
  BY <1>5, Zenon DEF NumbersMeanWhatTheySay
<1>6. CASE getopt_operand
  <2>1. Append(operands, Entry) \in Seq(Entries)
    BY <1>2, <1>3, <1>6, AppendProperties DEF getopt_operand
  <2>2. SubSeq(argv, next, Len(argv)) \in Seq(Entries)
    BY <1>1, <1>2
  <2>3. operands' = Append(operands, Entry) \/ operands' = SubSeq(argv, next, Len(argv))
    BY <1>6, Zenon DEF getopt_operand
  <2>4. operands' \in Seq(Entries)
    BY <2>1, <2>2, <2>3, Zenon
  <2>5. next' = next + 1 \/ next' = next
    BY <1>6, Zenon DEF getopt_operand
  <2>6. next' \in Nat \ {0}
    BY <1>2, <2>5
  <2> QED BY <1>4, <1>5, <1>6, <2>4, <2>6 DEF getopt_operand, Types
<1>7. CASE getopt_ends
  <2>1. SubSeq(argv, next + 1, Len(argv)) \in Seq(Entries)
    BY <1>1, <1>2
  <2>2. operands \o SubSeq(argv, next + 1, Len(argv)) \in Seq(Entries)
    BY <1>2, <2>1, ConcatProperties, Zenon
  <2>3. operands' \in Seq(Entries)
    BY <1>2, <1>7, <2>2, Zenon DEF getopt_ends
  <2> QED BY <1>2, <1>4, <1>5, <1>7, <2>3 DEF getopt_ends, Types
<1>8. CASE ParseOption
  <2>1. next <= Len(argv) /\ UNCHANGED <<program, argv, permute, operands, converted>>
    BY <1>8 DEF ParseOption
  <2>2. CASE UNCHANGED <<next, values>>
    BY <1>2, <1>4, <1>5, <2>1, <2>2 DEF Types
  <2>3. CASE ~UNCHANGED <<next, values>>
    <3> DEFINE e == IF TakesValue(Returned) THEN argv[next + 1] ELSE Entry
    <3>1. /\ Returned \in DOMAIN program.options
          /\ values' = With(values, Returned, e)
          /\ next' = IF TakesValue(Returned) THEN next + 2 ELSE next + 1
      BY <1>8, <2>3 DEF ParseOption
    <3>2. e \in Entries
      <4>1. TakesValue(Returned) => next + 1 \in 1..Len(argv)
        BY <2>1, <3>1, OptionTaken
      <4>2. TakesValue(Returned) => argv[next + 1] \in Entries
        BY <1>1, <4>1
      <4> QED BY <1>3, <2>1, <4>2
    <3>3. \A l \in DOMAIN values' : values'[l] \in Entries
      <4> HIDE DEF e
      <4> QED BY <3>1, <3>2, ValueTypes DEF Types
    <3>4. next' \in Nat \ {0}
      BY <1>2, <3>1
    <3> QED BY <1>2, <1>4, <1>5, <2>1, <3>3, <3>4
  <2> QED BY <2>2, <2>3
<1>9. CASE CheckOperands \/ HandleArguments
  BY <1>2, <1>4, <1>5, <1>9 DEF CheckOperands, HandleArguments, Types
<1>10. CASE ConvertArguments
  <2>1. Types'
    BY <1>2, <1>4, <1>10 DEF ConvertArguments, Types
  <2>2. CASE converted' = UNION {{<<g[1], g[2], v>> : v \in Convert(g[1], g[2])} : g \in Given}
    <3> SUFFICES ASSUME NEW c \in converted', c[1] \in Unsigned \cup Signed
                 PROVE  /\ c[3] \in Limits(c[1]) /\ ~c[2].junk
                        /\ \/ c[3] = c[2].value
                           \/ /\ c[1] \in Unsigned /\ c[2].value < 0
                              /\ c[3] = c[2].value + UINTMAX_MAX + 1
      BY <2>1 DEF NumbersMeanWhatTheySay
    <3>1. PICK g \in Given : c \in {<<g[1], g[2], v>> : v \in Convert(g[1], g[2])}
      BY <2>2
    <3>2. PICK v \in Convert(g[1], g[2]) : c = <<g[1], g[2], v>>
      BY <3>1
    <3>3. g[2] \in Entries
      BY GivenTypes
    <3>4. c[1] = g[1] /\ c[2] = g[2] /\ c[3] = v
      BY <3>2
    <3> QED BY <3>3, <3>4, NumberParsed
  <2>3. CASE UNCHANGED converted
    BY <1>5, <2>1, <2>3
  <2> QED BY <1>10, <2>1, <2>2, <2>3 DEF ConvertArguments
<1>11. CASE UNCHANGED vars
  BY <1>2, <1>4, <1>5, <1>11 DEF vars, Types
<1> QED BY <1>6, <1>7, <1>8, <1>9, <1>10, <1>11 DEF Next

\* A number a program runs with is within its type and is the number the user wrote, or
\* what strtoumax makes of a negative one, for all texts and all widths of the types.
THEOREM NumbersAreMeant == Spec => []NumbersMeanWhatTheySay
<1>1. Types /\ NumbersMeanWhatTheySay /\ [Next]_vars => (Types /\ NumbersMeanWhatTheySay)'
  BY StepTypes
<1> QED BY <1>1, InitTypes, PTL DEF Spec

-------------------------------------------------------------------------------
(* Counting operands                                                       *)

OperandsTo(n) == OperandsAt \cap 1..n
Count(n)      == Cardinality(OperandsTo(n))

LEMMA OperandsFinite ==
    ASSUME Types, NEW n \in Nat
    PROVE  IsFiniteSet(OperandsTo(n)) /\ Count(n) \in Nat /\ Count(n) <= n
<1>1. IsFiniteSet(1..n) /\ Cardinality(1..n) = n
  BY FS_Interval
<1>2. IsFiniteSet(OperandsTo(n)) /\ Cardinality(OperandsTo(n)) <= Cardinality(1..n)
  <2>1. OperandsTo(n) \subseteq 1..n
    BY DEF OperandsTo
  <2> QED BY <1>1, <2>1, FS_Subset
<1> QED BY <1>1, <1>2, FS_CardinalityType DEF Count

LEMMA CountZero == Count(0) = 0
<1>1. OperandsTo(0) = {}
  BY DEF OperandsTo
<1> QED BY <1>1, FS_EmptySet DEF Count

LEMMA CountAll == ASSUME Types PROVE OperandsTo(Len(argv)) = OperandsAt
  BY ArgvFacts DEF OperandsTo, OperandsAt

LEMMA CountStep ==
    ASSUME Types, NEW n \in Nat
    PROVE  /\ n + 1 \in OperandsAt => Count(n + 1) = Count(n) + 1
           /\ n + 1 \notin OperandsAt =>
                 OperandsTo(n + 1) = OperandsTo(n) /\ Count(n + 1) = Count(n)
<1>1. ASSUME n + 1 \in OperandsAt
      PROVE  Count(n + 1) = Count(n) + 1
  <2>1. OperandsTo(n + 1) = OperandsTo(n) \cup {n + 1} /\ n + 1 \notin OperandsTo(n)
    BY <1>1 DEF OperandsTo
  <2> QED BY <2>1, OperandsFinite, FS_AddElement DEF Count
<1>2. ASSUME n + 1 \notin OperandsAt
      PROVE  OperandsTo(n + 1) = OperandsTo(n)
  BY <1>2 DEF OperandsTo
<1> QED BY <1>1, <1>2, Zenon DEF Count

LEMMA CountWithin ==
    ASSUME Types, NEW n \in Nat, NEW i \in OperandsTo(n)
    PROVE  i \in 1..n /\ Count(i) \in 1..Count(n)
<1>1. i \in 1..n /\ i \in OperandsTo(i)
  BY DEF OperandsTo
<1>2. OperandsTo(i) \subseteq OperandsTo(n)
  BY <1>1 DEF OperandsTo
<1>3. Count(i) <= Count(n)
  BY <1>2, OperandsFinite, FS_Subset DEF Count
<1>4. Count(i) # 0
  BY <1>1, OperandsFinite, FS_EmptySet DEF Count
<1> QED BY <1>1, <1>3, <1>4, OperandsFinite

LEMMA CountTail ==
    ASSUME Types, NEW k \in Nat, NEW n \in Nat, k <= n, (k + 1)..n \subseteq OperandsAt
    PROVE  Count(n) = Count(k) + (n - k)
<1>1. OperandsTo(n) = OperandsTo(k) \cup ((k + 1)..n) /\ OperandsTo(k) \cap ((k + 1)..n) = {}
  BY DEF OperandsTo
<1>2. IsFiniteSet((k + 1)..n) /\ Cardinality((k + 1)..n) = n - k
  <2>1. k + 1 \in Int /\ n \in Int /\ (k + 1 > n => n - k = 0) /\ n - (k + 1) + 1 = n - k
    OBVIOUS
  <2>2. /\ IsFiniteSet((k + 1)..n)
        /\ Cardinality((k + 1)..n) = IF k + 1 > n THEN 0 ELSE n - (k + 1) + 1
    BY <2>1, FS_Interval, Zenon
  <2> QED BY <2>1, <2>2, Zenon
<1>3. Cardinality({}) = 0
  BY FS_EmptySet
<1>4. Cardinality(OperandsTo(k) \cup ((k + 1)..n))
        = Cardinality(OperandsTo(k)) + Cardinality((k + 1)..n)
            - Cardinality(OperandsTo(k) \cap ((k + 1)..n))
  BY <1>2, OperandsFinite, FS_Union
<1>5. Count(n) = Count(k) + (n - k) - 0
  BY <1>1, <1>2, <1>3, <1>4, Zenon DEF Count
<1> QED BY <1>5, OperandsFinite

\* Behind "--", and behind the first operand where getopt stops there, all is rest.
LEMMA RestForever ==
    ASSUME Types, NEW k \in 0..Len(argv), Role[k] \in {"end", "rest"}
    PROVE  \A i \in (k + 1)..Len(argv) : Role[i] = "rest"
<1> DEFINE X == {i \in Nat : i \in (k + 1)..Len(argv) /\ Role[i] # "rest"}
<1>1. Len(argv) \in Nat
  BY ArgvFacts
<1> SUFFICES ASSUME X # {} PROVE FALSE
  BY <1>1
<1>2. PICK m \in X : \A i \in X : m <= i
  <2> HIDE DEF X
  <2> QED BY LeastNumber DEF X
<1>3. m \in Nat /\ m \in (k + 1)..Len(argv) /\ Role[m] # "rest"
  OBVIOUS
<1>4. Role[m - 1] \in {"end", "rest"}
  <2>1. CASE m = k + 1
    BY <1>1, <2>1
  <2>2. CASE m # k + 1
    <3>1. m - 1 \in Nat /\ m - 1 \in (k + 1)..Len(argv) /\ ~(m <= m - 1)
      BY <1>1, <1>3, <2>2
    <3>2. m - 1 \notin X
      BY <1>2, <3>1
    <3> QED BY <3>1, <3>2
  <2> QED BY <2>1, <2>2
<1>5. Role[m] = RoleAfter(Role[m - 1], m)
  <2>1. m \in 1..Len(argv)
    BY <1>1, <1>3
  <2> QED BY <1>1, <2>1, RoleTable
<1>6. Role[m] = "rest"
  BY <1>4, <1>5, Zenon DEF RoleAfter
<1> QED BY <1>3, <1>6

-------------------------------------------------------------------------------
(* What has been made of the first n entries                               *)

OptionsTo(n) == OptionsAt \cap 1..n

\* No option among them decides the outcome.
Clean(n) == \A i \in OptionsTo(n) : ~Bad(i) /\ argv[i].letter # "h"

\* Their operands are in s.
Placed(s, n) ==
    /\ Len(s) = Count(n)
    /\ \A i \in OperandsTo(n) : s[Count(i)] = argv[i]

\* v has the arguments of their options, the last of each.
Known(v, n) ==
    /\ DOMAIN v = {argv[i].letter : i \in OptionsTo(n)}
    /\ \A i \in OptionsTo(n) :
          argv[i].letter \in Valued
          /\ (\A j \in OptionsTo(n) : j > i => argv[j].letter # argv[i].letter)
          => v[argv[i].letter] = argv[i + 1]

Seen(s, v, n) == Clean(n) /\ Placed(s, n) /\ Known(v, n)

LEMMA PlacedSkip ==
    ASSUME Types, NEW n \in Nat, n + 1 \notin OperandsAt, NEW s, Placed(s, n)
    PROVE  Placed(s, n + 1)
  BY CountStep, Zenon DEF Placed

LEMMA PlacedNext ==
    ASSUME Types, NEW n \in Nat, n + 1 \in OperandsAt, NEW s \in Seq(Entries), Placed(s, n)
    PROVE  Placed(Append(s, argv[n + 1]), n + 1)
<1>1. Count(n + 1) = Count(n) + 1 /\ Count(n) \in Nat /\ Len(s) = Count(n)
  BY CountStep, OperandsFinite DEF Placed
<1>2. argv[n + 1] \in Entries
  BY ArgvFacts DEF OperandsAt
<1>3. /\ Len(Append(s, argv[n + 1])) = Len(s) + 1
      /\ \A i \in 1..Len(s) : Append(s, argv[n + 1])[i] = s[i]
      /\ Append(s, argv[n + 1])[Len(s) + 1] = argv[n + 1]
  BY <1>2, AppendProperties
<1> DEFINE r == Append(s, argv[n + 1])
<1>4. ASSUME NEW i \in OperandsTo(n + 1)
      PROVE  r[Count(i)] = argv[i]
  <2>1. CASE i = n + 1
    BY <1>1, <1>3, <2>1
  <2>2. CASE i # n + 1
    <3>1. i \in OperandsTo(n)
      BY <2>2 DEF OperandsTo
    <3>2. Count(i) \in 1..Len(s) /\ s[Count(i)] = argv[i]
      BY <1>1, <3>1, CountWithin DEF Placed
    <3> QED BY <1>3, <3>2
  <2> QED BY <2>1, <2>2
<1> HIDE DEF r
<1>5. Len(r) = Count(n + 1)
  BY <1>1, <1>3 DEF r
<1>6. Placed(r, n + 1)
  BY <1>4, <1>5 DEF Placed
<1> QED BY <1>6 DEF r

LEMMA PlacedTail ==
    ASSUME Types, NEW k \in 0..Len(argv), (k + 1)..Len(argv) \subseteq OperandsAt,
           NEW s \in Seq(Entries), Placed(s, k)
    PROVE  Placed(s \o SubSeq(argv, k + 1, Len(argv)), Len(argv))
<1> DEFINE L == Len(argv)
<1> DEFINE t == SubSeq(argv, k + 1, L)
<1> DEFINE r == s \o t
<1>1. L \in Nat /\ argv \in Seq(Entries) /\ k \in Nat /\ k <= L
  BY ArgvFacts
<1>2. t \in Seq(Entries) /\ Len(t) = L - k /\ \A i \in 1..(L - k) : t[i] = argv[k + i]
  BY <1>1
<1>3. Len(s) = Count(k) /\ Count(k) \in Nat
  BY <1>1, OperandsFinite DEF Placed
<1>4. /\ Len(r) = Count(k) + (L - k)
      /\ \A i \in 1..Count(k) : r[i] = s[i]
      /\ \A i \in 1..(L - k) : r[Count(k) + i] = t[i]
  <2> HIDE DEF t, L
  <2>1. /\ Len(r) = Len(s) + Len(t)
        /\ \A i \in 1..(Len(s) + Len(t)) : r[i] = IF i <= Len(s) THEN s[i] ELSE t[i - Len(s)]
    BY <1>2, ConcatProperties
  <2> HIDE DEF r
  <2>2. L \in Nat /\ k \in Nat /\ k <= L /\ Count(k) \in Nat /\ Len(t) = L - k /\ Len(s) = Count(k)
    BY <1>1, <1>2, <1>3
  <2>3. Len(r) = Count(k) + (L - k)
    BY <2>1, <2>2
  <2>4. ASSUME NEW i \in 1..Count(k) PROVE r[i] = s[i]
    BY <2>1, <2>2
  <2>5. ASSUME NEW i \in 1..(L - k) PROVE r[Count(k) + i] = t[i]
    <3>1. PICK c : c = Count(k) + i
      OBVIOUS
    <3>2. c \in 1..(Len(s) + Len(t)) /\ ~(c <= Len(s)) /\ c - Len(s) = i
      BY <2>2, <3>1
    <3>3. r[c] = t[c - Len(s)]
      BY <2>1, <3>2
    <3> QED BY <3>1, <3>2, <3>3, Zenon
  <2> QED BY <2>3, <2>4, <2>5
<1>5. \A i \in k..L : Count(i) = Count(k) + (i - k)
  <2> SUFFICES ASSUME NEW i \in k..L PROVE Count(i) = Count(k) + (i - k)
    OBVIOUS
  <2>1. i \in Nat /\ k <= i /\ (k + 1)..i \subseteq OperandsAt
    BY <1>1
  <2> QED BY <1>1, <2>1, CountTail
<1>6. ASSUME NEW i \in OperandsTo(L)
      PROVE  r[Count(i)] = argv[i]
  <2> HIDE DEF r, t
  <2>1. i \in 1..L
    BY DEF OperandsTo
  <2>2. CASE i <= k
    <3>1. i \in OperandsTo(k)
      BY <1>1, <2>1, <2>2 DEF OperandsTo
    <3>2. Count(i) \in 1..Count(k) /\ s[Count(i)] = argv[i]
      BY <1>1, <3>1, CountWithin DEF Placed
    <3> QED BY <1>4, <3>2
  <2>3. CASE ~(i <= k)
    <3>1. i - k \in 1..(L - k) /\ i \in k..L /\ k + (i - k) = i
      BY <1>1, <2>1, <2>3
    <3>2. r[Count(i)] = t[i - k]
      BY <1>4, <1>5, <3>1
    <3> QED BY <1>2, <3>1, <3>2
  <2> QED BY <2>2, <2>3
<1>7. Len(r) = Count(L)
  <2>1. L \in k..L
    BY <1>1
  <2> QED BY <1>4, <1>5, <2>1
<1>8. Placed(r, L)
  <2> HIDE DEF r, L
  <2> QED BY <1>6, <1>7 DEF Placed
<1> QED BY <1>8

\* Entries that are not options change nothing for the options.
LEMMA NoMoreOptions ==
    ASSUME NEW k \in Nat, NEW n \in Nat, k <= n, OptionsAt \cap ((k + 1)..n) = {}
    PROVE  /\ OptionsTo(n) = OptionsTo(k)
           /\ Clean(k) => Clean(n)
           /\ \A v : Known(v, k) => Known(v, n)
<1>1. OptionsTo(n) = OptionsTo(k)
  BY DEF OptionsTo
<1> QED BY <1>1, Zenon DEF Clean, Known

LEMMA KnownNext ==
    ASSUME Types, NEW n \in Nat, n + 1 \in OptionsAt, NEW v, Known(v, n), NEW e,
           argv[n + 1].letter \in Valued => e = argv[n + 2]
    PROVE  Known(With(v, argv[n + 1].letter, e), n + 1)
<1> DEFINE l == argv[n + 1].letter
<1> DEFINE w == With(v, l, e)
<1>1. OptionsTo(n + 1) = OptionsTo(n) \cup {n + 1} /\ \A i \in OptionsTo(n) : i \in Nat /\ i < n + 1
  BY DEF OptionsTo
<1>2. /\ DOMAIN w = DOMAIN v \cup {l} /\ w[l] = e
      /\ \A m \in DOMAIN v : m # l => w[m] = v[m]
  BY DEF With
<1> HIDE DEF w
<1>3. DOMAIN v = {argv[i].letter : i \in OptionsTo(n)}
  BY DEF Known
<1>4. DOMAIN w = {argv[i].letter : i \in OptionsTo(n + 1)}
  BY <1>1, <1>2, <1>3
<1>5. ASSUME NEW i \in OptionsTo(n + 1), argv[i].letter \in Valued,
             \A j \in OptionsTo(n + 1) : j > i => argv[j].letter # argv[i].letter
      PROVE  w[argv[i].letter] = argv[i + 1]
  <2>1. CASE i = n + 1
    <3>1. argv[i + 1] = argv[n + 2]
      BY <2>1
    <3> QED BY <1>2, <1>5, <2>1, <3>1
  <2>2. CASE i # n + 1
    <3>1. i \in OptionsTo(n) /\ n + 1 > i
      BY <1>1, <2>2
    <3>2. argv[i].letter # l /\ argv[i].letter \in DOMAIN v
      BY <1>1, <1>3, <1>5, <3>1
    <3>3. v[argv[i].letter] = argv[i + 1]
      BY <1>1, <1>5, <3>1, Zenon DEF Known
    <3> QED BY <1>2, <3>2, <3>3
  <2> QED BY <2>1, <2>2
<1>6. Known(w, n + 1)
  <2> HIDE DEF l
  <2> QED BY <1>4, <1>5, Zenon DEF Known
<1> QED BY <1>6 DEF w

-------------------------------------------------------------------------------
(* What the usage line says of a command line                              *)

\* An option that decides, behind options that do not.
LEMMA FirstDecides ==
    ASSUME Types, NEW n \in Nat, Clean(n), n + 1 \in OptionsAt,
           Bad(n + 1) \/ argv[n + 1].letter = "h"
    PROVE  UsageOutcome = IF Bad(n + 1) THEN "failed" ELSE "help"
<1> DEFINE D == {i \in OptionsAt : Bad(i) \/ argv[i].letter = "h"}
<1>1. D \subseteq Nat \ {0} /\ n + 1 \in D
  BY ArgvFacts DEF OptionsAt
<1>2. \A i \in D : n + 1 <= i
  <2> SUFFICES ASSUME NEW i \in D, ~(n + 1 <= i) PROVE FALSE
    OBVIOUS
  <2>1. i \in OptionsTo(n)
    BY <1>1 DEF OptionsTo
  <2> QED BY <2>1 DEF Clean
<1>3. Min(D) \in D /\ \A i \in D : Min(D) <= i
  <2> HIDE DEF D
  <2>1. \E x \in D : \A y \in D : x <= y
    BY <1>1, <1>2
  <2> QED BY <2>1, Zenon DEF Min
<1>4. Min(D) = n + 1
  <2> HIDE DEF D
  <2>1. PICK m : m = Min(D)
    OBVIOUS
  <2>2. m \in Nat /\ n + 1 <= m /\ m <= n + 1
    BY <1>1, <1>2, <1>3, <2>1
  <2> QED BY <2>1, <2>2
<1>5. D # {}
  BY <1>1
<1> QED BY <1>4, <1>5, Zenon DEF UsageOutcome

LEMMA NothingDecides ==
    ASSUME Types, Clean(Len(argv))
    PROVE  UsageOutcome = IF /\ Usage.required \subseteq {argv[i].letter : i \in OptionsTo(Len(argv))}
                             /\ Count(Len(argv)) \in Usage.lo..Usage.hi
                          THEN "run" ELSE "failed"
<1> DEFINE D == {i \in OptionsAt : Bad(i) \/ argv[i].letter = "h"}
<1>1. OptionsTo(Len(argv)) = OptionsAt
  BY ArgvFacts DEF OptionsTo, OptionsAt
<1>2. D = {}
  BY <1>1 DEF Clean
<1>3. Count(Len(argv)) = Cardinality(OperandsAt)
  BY CountAll DEF Count
<1> QED BY <1>1, <1>2, <1>3, Zenon DEF UsageOutcome

LEMMA UsageOptions ==
    ASSUME Described(program)
    PROVE  /\ Letters = {"h"} \cup Handled(program)
           /\ Valued = {l \in Handled(program) : program.options[l] # "flag"}
           /\ "h" \notin Valued
<1>1. /\ Usage.required \cup Usage.optional = Handled(program)
      /\ Usage.flags = {l \in Handled(program) : program.options[l] = "flag"}
  BY DEF Described, Usage
<1>2. Letters = {"h"} \cup Handled(program)
  BY <1>1, Zenon DEF Letters
<1>3. Valued = {l \in Handled(program) : program.options[l] # "flag"}
  BY <1>1 DEF Valued
<1>4. "h" \notin Handled(program)
  BY DEF Described, Handled
<1> QED BY <1>2, <1>3, <1>4

-------------------------------------------------------------------------------
(* The invariant                                                           *)

\* getopt is at an entry that is not the value of an option, with no "--" and no rest
\* before it.
FrontierAt(n) ==
    /\ n \in 1..(Len(argv) + 1)
    /\ \A i \in 0..(n - 1) : Role[i] \notin {"end", "rest"}
    /\ Role[n - 1] = "option" => argv[n - 1].letter \notin Valued

Unconvertible == \E g \in Given : Convert(g[1], g[2]) = {}

ParseInv ==
    /\ pc = "options" => FrontierAt(next) /\ Seen(operands, values, next - 1)
    /\ pc \in {"operands", "arguments", "convert", "run"} => Seen(operands, values, Len(argv))
    /\ pc \in {"arguments", "convert", "run"} =>
          program.few <= Len(operands) /\ Len(operands) <= program.many
    /\ pc \in {"convert", "run"} =>
          program.nonnull <= Len(operands) /\ program.needed \subseteq DOMAIN values
    /\ pc = "help" => UsageOutcome = "help"
    /\ pc = "failed" => UsageOutcome = "failed" \/ (UsageOutcome = "run" /\ Unconvertible)

IInv == Types /\ (program \notin Misdescribed => ParseInv)

LEMMA StaticKept ==
    ASSUME UNCHANGED <<argv, permute, program>>
    PROVE  /\ argv' = argv /\ Role' = Role /\ Valued' = Valued /\ Letters' = Letters
           /\ OptionsAt' = OptionsAt /\ OperandsAt' = OperandsAt
           /\ UsageOutcome' = UsageOutcome
<1>1. argv' = argv /\ Role' = Role
  BY RoleKept
<1>2. Valued' = Valued /\ Letters' = Letters /\ Usage' = Usage
  BY Zenon DEF Valued, Letters, Usage
<1>3. OptionsAt' = OptionsAt /\ OperandsAt' = OperandsAt
  BY <1>1, Zenon DEF OptionsAt, OperandsAt
<1>4. UsageOutcome' = UsageOutcome
  <2> DEFINE BadIn(i, a, l, v) == a[i].letter \notin l \/ (a[i].letter \in v /\ i = Len(a))
  <2> DEFINE Outcome(a, l, v, u, options, n) ==
          LET decisive == {i \in options : BadIn(i, a, l, v) \/ a[i].letter = "h"}
          IN  IF decisive # {} THEN (IF BadIn(Min(decisive), a, l, v) THEN "failed" ELSE "help")
              ELSE IF /\ u.required \subseteq {a[i].letter : i \in options}
                      /\ Cardinality(n) \in u.lo..u.hi
                   THEN "run" ELSE "failed"
  <2>1. UsageOutcome = Outcome(argv, Letters, Valued, Usage, OptionsAt, OperandsAt)
    BY Zenon DEF UsageOutcome, Bad
  <2>2. UsageOutcome' = Outcome(argv', Letters', Valued', Usage', OptionsAt', OperandsAt')
    BY Zenon DEF UsageOutcome, Bad
  <2> HIDE DEF Outcome
  <2> QED BY <1>1, <1>2, <1>3, <2>1, <2>2, Zenon
<1> QED BY <1>1, <1>2, <1>3, <1>4

LEMMA SeenAllKept ==
    ASSUME UNCHANGED <<argv, permute, program>>, Seen(operands', values', Len(argv))
    PROVE  Seen(operands, values, Len(argv))'
<1>1. Clean(Len(argv))'
  BY StaticKept, Zenon DEF Seen, Clean, OptionsTo, Bad
<1>2. Placed(operands, Len(argv))'
  BY StaticKept, Zenon DEF Seen, Placed, Count, OperandsTo
<1>3. Known(values, Len(argv))'
  BY StaticKept, Zenon DEF Seen, Known, OptionsTo
<1> QED BY <1>1, <1>2, <1>3 DEF Seen

LEMMA FrontierKept ==
    ASSUME UNCHANGED <<argv, permute, program>>, FrontierAt(next'),
           Seen(operands', values', next' - 1)
    PROVE  (FrontierAt(next) /\ Seen(operands, values, next - 1))'
<1>1. FrontierAt(next)'
  BY StaticKept, Zenon DEF FrontierAt
<1>2. Clean(next - 1)'
  BY StaticKept, Zenon DEF Seen, Clean, OptionsTo, Bad
<1>3. Placed(operands, next - 1)'
  BY StaticKept, Zenon DEF Seen, Placed, Count, OperandsTo
<1>4. Known(values, next - 1)'
  BY StaticKept, Zenon DEF Seen, Known, OptionsTo
<1> QED BY <1>1, <1>2, <1>3, <1>4 DEF Seen

\* What getopt finds at the frontier.
LEMMA FrontierRole ==
    ASSUME Types, FrontierAt(next), next <= Len(argv)
    PROVE  /\ next \in 1..Len(argv) /\ next - 1 \in Nat /\ (next - 1) + 1 = next
           /\ Entry.letter = "-" => Role[next] = "end"
           /\ Entry.letter = "" => Role[next] = IF permute THEN "operand" ELSE "rest"
           /\ Entry.letter \notin {"", "-"} => Role[next] = "option"
<1>1. Len(argv) \in Nat /\ next \in 1..Len(argv) /\ next - 1 \in Nat /\ (next - 1) + 1 = next
  BY ArgvFacts DEF FrontierAt
<1>2. Role[next] = RoleAfter(Role[next - 1], next)
  BY <1>1, RoleTable
<1>3. /\ Role[next - 1] \notin {"end", "rest"}
      /\ Role[next - 1] = "option" => argv[next - 1].letter \notin Valued
  BY <1>1 DEF FrontierAt
<1>4. Role[next] = CASE argv[next].letter = "-" -> "end"
                     [] argv[next].letter = ""  -> IF permute THEN "operand" ELSE "rest"
                     [] OTHER                   -> "option"
  BY <1>2, <1>3, Zenon DEF RoleAfter
<1>5. argv[next].letter = "-" => Role[next] = "end"
  BY <1>4
<1>6. argv[next].letter = "" => Role[next] = IF permute THEN "operand" ELSE "rest"
  BY <1>4
<1>7. argv[next].letter \notin {"", "-"} => Role[next] = "option"
  BY <1>4
<1> QED BY <1>1, <1>5, <1>6, <1>7 DEF Entry

\* An entry further, the frontier is behind an option without value or an operand.
LEMMA FrontierMoves ==
    ASSUME Types, FrontierAt(next), NEW n \in (next + 1)..(Len(argv) + 1),
           \A i \in next..(n - 1) : Role[i] \notin {"end", "rest"},
           Role[n - 1] = "option" => argv[n - 1].letter \notin Valued
    PROVE  FrontierAt(n)
<1>1. Len(argv) \in Nat /\ next \in 1..(Len(argv) + 1)
  BY ArgvFacts DEF FrontierAt
<1>2. n \in 1..(Len(argv) + 1)
  BY <1>1
<1>3. \A i \in 0..(n - 1) : i \in 0..(next - 1) \/ i \in next..(n - 1)
  BY <1>1
<1>4. \A i \in 0..(next - 1) : Role[i] \notin {"end", "rest"}
  BY DEF FrontierAt
<1>5. \A i \in 0..(n - 1) : Role[i] \notin {"end", "rest"}
  BY <1>3, <1>4, Zenon
<1> QED BY <1>2, <1>5 DEF FrontierAt

LEMMA StopsAtOperand ==
    ASSUME Types, ~permute
    PROVE  \A i \in 1..Len(argv) : Role[i] # "operand"
<1> SUFFICES ASSUME NEW i \in 1..Len(argv) PROVE Role[i] # "operand"
  OBVIOUS
<1>1. Role[i] = RoleAfter(Role[i - 1], i)
  BY ArgvFacts, RoleTable
<1> QED BY <1>1 DEF RoleAfter

\* From entry k + 1 on all is rest: getopt leaves the tail of argv.
LEMMA SeenRest ==
    ASSUME Types, NEW k \in 0..Len(argv), \A i \in (k + 1)..Len(argv) : Role[i] = "rest",
           Clean(k), Placed(operands, k), Known(values, k)
    PROVE  Seen(operands \o SubSeq(argv, k + 1, Len(argv)), values, Len(argv))
<1>1. Len(argv) \in Nat /\ k \in Nat /\ k <= Len(argv)
  BY ArgvFacts
<1>2. (k + 1)..Len(argv) \subseteq OperandsAt
  BY <1>1 DEF OperandsAt
<1>3. OptionsAt \cap ((k + 1)..Len(argv)) = {}
  BY <1>1 DEF OptionsAt
<1>4. Clean(Len(argv)) /\ Known(values, Len(argv))
  BY <1>1, <1>3, NoMoreOptions
<1>5. Placed(operands \o SubSeq(argv, k + 1, Len(argv)), Len(argv))
  BY <1>2, PlacedTail DEF Types
<1> QED BY <1>4, <1>5, Zenon DEF Seen

LEMMA OperandStep ==
    ASSUME Types, ParseInv, getopt_operand
    PROVE  ParseInv'
<1>1. /\ pc = "options" /\ next <= Len(argv) /\ Entry.letter = ""
      /\ UNCHANGED <<program, argv, permute, values>>
  BY DEF getopt_operand
<1>2. FrontierAt(next) /\ Seen(operands, values, next - 1)
  BY <1>1 DEF ParseInv
<1> DEFINE n == next - 1
<1>3. n \in Nat /\ n + 1 = next /\ next \in 1..Len(argv) /\ Len(argv) \in Nat
  BY <1>1, <1>2, FrontierRole, ArgvFacts
<1>4. Clean(n) /\ Placed(operands, n) /\ Known(values, n)
  BY <1>2 DEF Seen
<1>5. Role[next] = IF permute THEN "operand" ELSE "rest"
  BY <1>1, <1>2, FrontierRole
<1>6. CASE permute
  <2>1. operands' = Append(operands, argv[next]) /\ next' = next + 1 /\ pc' = "options"
    BY <1>1, <1>6, Zenon DEF getopt_operand, Entry
  <2>2. Role[next] = "operand"
    BY <1>5, <1>6
  <2>3. n + 1 \in OperandsAt /\ n + 1 \notin OptionsAt
    BY <1>3, <2>2 DEF OperandsAt, OptionsAt
  <2>4. Placed(operands', next)
    BY <1>3, <1>4, <2>1, <2>3, PlacedNext DEF Types
  <2>5. Clean(next) /\ Known(values, next)
    <3>1. OptionsAt \cap ((n + 1)..next) = {} /\ n <= next
      BY <1>3, <2>3
    <3> QED BY <1>3, <1>4, <3>1, NoMoreOptions
  <2>6. Seen(operands', values', next' - 1)
    <3>1. next' - 1 = next /\ values' = values
      <4>1. next \in Nat /\ next' = next + 1
        BY <1>3, <2>1
      <4>2. next' - 1 = next
        BY <4>1
      <4>3. values' = values
        BY <1>1, Zenon
      <4> QED BY <4>2, <4>3
    <3> QED BY <2>4, <2>5, <3>1, Zenon DEF Seen
  <2>7. FrontierAt(next')
    <3>1. next + 1 \in (next + 1)..(Len(argv) + 1) /\ (next + 1) - 1 = next
          /\ \A i \in next..((next + 1) - 1) : i = next
      BY <1>3
    <3>2. FrontierAt(next + 1)
      BY <1>2, <2>2, <3>1, FrontierMoves
    <3> QED BY <2>1, <3>2
  <2>8. (FrontierAt(next) /\ Seen(operands, values, next - 1))'
    BY <1>1, <2>6, <2>7, FrontierKept
  <2> QED BY <2>1, <2>8 DEF ParseInv
<1>7. CASE ~permute
  <2>1. operands' = SubSeq(argv, next, Len(argv)) /\ pc' = "operands"
    BY <1>1, <1>7, Zenon DEF getopt_operand
  <2>2. Role[next] = "rest"
    BY <1>5, <1>7
  <2>3. \A i \in (n + 1)..Len(argv) : Role[i] = "rest"
    <3>1. next \in 0..Len(argv) /\ \A i \in (n + 1)..Len(argv) : i = next \/ i \in (next + 1)..Len(argv)
      BY <1>3
    <3>2. \A i \in (next + 1)..Len(argv) : Role[i] = "rest"
      BY <2>2, <3>1, RestForever
    <3> QED BY <2>2, <3>1, <3>2, Zenon
  <2>4. OperandsTo(n) = {}
    <3>1. \A i \in 1..n : Role[i] \notin {"operand", "rest"}
      <4>1. \A i \in 1..n : i \in 0..(next - 1) /\ i \in 1..Len(argv)
        BY <1>3
      <4> QED BY <1>2, <1>7, <4>1, StopsAtOperand DEF FrontierAt
    <3> QED BY <3>1 DEF OperandsTo, OperandsAt
  <2>5. operands = <<>>
    <3>1. Len(operands) = 0
      BY <1>4, <2>4, FS_EmptySet DEF Placed, Count
    <3> QED BY <3>1, EmptySeq DEF Types
  <2>6. operands' = operands \o SubSeq(argv, n + 1, Len(argv))
    <3>1. SubSeq(argv, n + 1, Len(argv)) \in Seq(Entries)
      BY <1>3, ArgvFacts
    <3> QED BY <1>3, <2>1, <2>5, <3>1, ConcatEmptySeq
  <2>7. Seen(operands', values', Len(argv))
    <3>1. n \in 0..Len(argv)
      BY <1>3
    <3>2. Seen(operands \o SubSeq(argv, n + 1, Len(argv)), values, Len(argv))
      <4> HIDE DEF n
      <4> QED BY <1>4, <2>3, <3>1, SeenRest
    <3> QED BY <1>1, <2>6, <3>2, Zenon
  <2>8. Seen(operands, values, Len(argv))'
    BY <1>1, <2>7, SeenAllKept
  <2> QED BY <2>1, <2>8 DEF ParseInv
<1> QED BY <1>6, <1>7

LEMMA EndsStep ==
    ASSUME Types, ParseInv, getopt_ends
    PROVE  ParseInv'
<1>1. pc = "options" /\ pc' = "operands" /\ UNCHANGED <<program, argv, permute, values>>
  BY DEF getopt_ends
<1>2. FrontierAt(next) /\ Seen(operands, values, next - 1)
  BY <1>1 DEF ParseInv
<1>3. Seen(operands', values', Len(argv))
  <2>1. CASE next > Len(argv) /\ UNCHANGED operands
    <3>1. next - 1 = Len(argv)
      BY <1>2, <2>1, ArgvFacts DEF FrontierAt
    <3> QED BY <1>1, <1>2, <2>1, <3>1, Zenon
  <2>2. CASE /\ next <= Len(argv) /\ Entry = End
             /\ operands' = operands \o SubSeq(argv, next + 1, Len(argv))
    <3> DEFINE n == next - 1
    <3>1. n \in Nat /\ n + 1 = next /\ next \in 1..Len(argv) /\ Len(argv) \in Nat
      BY <1>2, <2>2, FrontierRole, ArgvFacts
    <3>2. Entry.letter = "-"
      BY <2>2 DEF End, Option
    <3>3. Role[next] = "end"
      BY <1>2, <2>2, <3>2, FrontierRole
    <3>4. n + 1 \notin OperandsAt /\ n + 1 \notin OptionsAt
      BY <3>1, <3>3 DEF OperandsAt, OptionsAt
    <3>5. Clean(n) /\ Placed(operands, n) /\ Known(values, n)
      BY <1>2 DEF Seen
    <3>6. Placed(operands, next)
      BY <3>1, <3>4, <3>5, PlacedSkip
    <3>7. Clean(next) /\ Known(values, next)
      <4>1. OptionsAt \cap ((n + 1)..next) = {} /\ n <= next
        BY <3>1, <3>4
      <4> QED BY <3>1, <3>5, <4>1, NoMoreOptions
    <3>8. next \in 0..Len(argv)
      BY <3>1
    <3>9. \A i \in (next + 1)..Len(argv) : Role[i] = "rest"
      BY <3>3, <3>8, RestForever
    <3>10. Seen(operands \o SubSeq(argv, next + 1, Len(argv)), values, Len(argv))
      BY <3>6, <3>7, <3>8, <3>9, SeenRest
    <3> QED BY <1>1, <2>2, <3>10, Zenon
  <2> QED BY <2>1, <2>2 DEF getopt_ends
<1>4. Seen(operands, values, Len(argv))'
  BY <1>1, <1>3, SeenAllKept
<1> QED BY <1>1, <1>4 DEF ParseInv

LEMMA OptionStep ==
    ASSUME Types, ParseInv, ParseOption, Described(program)
    PROVE  ParseInv'
<1>1. /\ pc = "options" /\ next <= Len(argv) /\ Entry.letter \notin {"", "-"}
      /\ UNCHANGED <<program, argv, permute, operands>>
  BY DEF ParseOption
<1>2. FrontierAt(next) /\ Seen(operands, values, next - 1)
  BY <1>1 DEF ParseInv
<1> DEFINE n == next - 1
<1> DEFINE l == argv[next].letter
<1>3. n \in Nat /\ n + 1 = next /\ next \in 1..Len(argv) /\ Len(argv) \in Nat
  BY <1>1, <1>2, FrontierRole, ArgvFacts
<1>4. Clean(n) /\ Placed(operands, n) /\ Known(values, n)
  BY <1>2 DEF Seen
<1>5. Role[next] = "option"
  BY <1>1, <1>2, FrontierRole
<1>6. n + 1 \in OptionsAt /\ n + 1 \notin OperandsAt
  BY <1>3, <1>5 DEF OptionsAt, OperandsAt
<1>7. /\ Letters = {"h"} \cup Handled(program)
      /\ Valued = {m \in Handled(program) : program.options[m] # "flag"} /\ "h" \notin Valued
  BY UsageOptions
<1>8. UsageOutcome' = UsageOutcome
  BY <1>1, StaticKept
<1>9. CASE Returned # "h" /\ Returned \notin Handled(program) /\ pc' = "failed"
  <2>1. Bad(next)
    <3>1. CASE l \notin Letters
      BY <3>1 DEF Bad
    <3>2. CASE l = "h"
      <4>1. Returned = "h"
        BY <3>2 DEF Returned, Entry, TakesValue, Described
      <4> QED BY <1>9, <4>1
    <3>3. CASE l \in Handled(program) /\ l # "h"
      <4>1. l \in DOMAIN program.options
        BY <3>3 DEF Handled
      <4>2. TakesValue(l) /\ next = Len(argv)
        BY <1>9, <3>3, <4>1, Zenon DEF Returned, Entry
      <4>3. l \in Valued
        BY <1>7, <3>3, <4>2 DEF TakesValue
      <4> QED BY <4>2, <4>3 DEF Bad
    <3> QED BY <1>7, <3>1, <3>2, <3>3
  <2>2. UsageOutcome = "failed"
    BY <1>3, <1>4, <1>6, <2>1, FirstDecides
  <2> QED BY <1>8, <1>9, <2>2 DEF ParseInv
<1>10. CASE Returned = "h" /\ pc' = "help"
  <2>1. l = "h"
    BY <1>10 DEF Returned, Entry
  <2>2. ~Bad(next)
    BY <1>7, <2>1 DEF Bad
  <2>3. UsageOutcome = "help"
    BY <1>3, <1>4, <1>6, <2>1, <2>2, FirstDecides
  <2> QED BY <1>8, <1>10, <2>3 DEF ParseInv
<1>11. CASE /\ Returned \in Handled(program) /\ pc' = "options"
            /\ values' = With(values, Returned, IF TakesValue(Returned) THEN argv[next + 1] ELSE Entry)
            /\ next' = IF TakesValue(Returned) THEN next + 2 ELSE next + 1
  <2> DEFINE e == IF TakesValue(Returned) THEN argv[next + 1] ELSE Entry
  <2>1. Returned \in DOMAIN program.options
    BY <1>11 DEF Handled
  <2>2. /\ Returned = l /\ l # "h" /\ (TakesValue(l) <=> program.options[l] # "flag")
        /\ TakesValue(l) => next + 1 \in 1..Len(argv)
    BY <1>1, <2>1, OptionTaken DEF Entry
  <2>3. l \in Letters /\ (l \in Valued <=> TakesValue(l))
    BY <1>7, <1>11, <2>2
  <2>4. ~Bad(next)
    <3>1. TakesValue(l) => next # Len(argv)
      BY <1>3, <2>2
    <3> QED BY <2>3, <3>1 DEF Bad
  <2>5. Clean(next)
    <3>1. \A i \in OptionsTo(next) : i = next \/ i \in OptionsTo(n)
      BY <1>3 DEF OptionsTo
    <3> QED BY <1>4, <2>2, <2>4, <3>1, Zenon DEF Clean
  <2>6. Placed(operands, next)
    BY <1>3, <1>4, <1>6, PlacedSkip
  <2>7. Known(values', next)
    <3>1. l \in Valued => e = argv[n + 2]
      <4>1. n + 2 = next + 1
        BY <1>3
      <4> QED BY <2>2, <2>3, <4>1
    <3>2. Known(With(values, argv[n + 1].letter, e), n + 1)
      <4> HIDE DEF e, n
      <4>1. argv[n + 1].letter \in Valued => e = argv[n + 2]
        BY <1>3, <3>1
      <4> QED BY <1>3, <1>4, <1>6, <4>1, KnownNext
    <3>3. values' = With(values, l, e)
      BY <1>11, <2>2
    <3> HIDE DEF e, n
    <3> QED BY <1>3, <3>2, <3>3
  <2>8. FrontierAt(next') /\ Seen(operands', values', next' - 1)
    <3>1. operands' = operands
      BY <1>1, Zenon
    <3>2. CASE TakesValue(l)
      <4>1. next' = next + 2 /\ next + 1 \in 1..Len(argv) /\ l \in Valued
        BY <1>11, <2>2, <2>3, <3>2
      <4>2. Role[next + 1] = "value"
        <5>1. Role[next + 1] = RoleAfter(Role[(next + 1) - 1], next + 1) /\ (next + 1) - 1 = next
          BY <1>3, <4>1, RoleTable
        <5>2. RoleAfter("option", next + 1) = "value"
          <6>1. argv[(next + 1) - 1].letter \in Valued
            BY <1>3, <4>1
          <6> QED BY <6>1 DEF RoleAfter
        <5> QED BY <1>5, <5>1, <5>2
      <4>3. next + 1 \notin OperandsAt /\ next + 1 \notin OptionsAt
        BY <4>1, <4>2 DEF OperandsAt, OptionsAt
      <4>4. Placed(operands, next + 1)
        BY <1>3, <2>6, <4>3, PlacedSkip
      <4>5. Clean(next + 1) /\ Known(values', next + 1)
        <5>1. OptionsAt \cap ((next + 1)..(next + 1)) = {} /\ next <= next + 1
              /\ next \in Nat /\ next + 1 \in Nat
          BY <1>3, <4>3
        <5> QED BY <2>5, <2>7, <5>1, NoMoreOptions
      <4>6. FrontierAt(next + 2)
        <5>1. next + 2 \in (next + 1)..(Len(argv) + 1) /\ (next + 2) - 1 = next + 1
              /\ \A i \in next..((next + 2) - 1) : i = next \/ i = next + 1
          BY <1>3, <4>1
        <5> QED BY <1>2, <1>5, <4>2, <5>1, FrontierMoves
      <4>7. next' - 1 = next + 1
        BY <1>3, <4>1
      <4> QED BY <3>1, <4>1, <4>4, <4>5, <4>6, <4>7, Zenon DEF Seen
    <3>3. CASE ~TakesValue(l)
      <4>1. next' = next + 1 /\ l \notin Valued
        BY <1>11, <2>2, <2>3, <3>3
      <4>2. FrontierAt(next + 1)
        <5>1. next + 1 \in (next + 1)..(Len(argv) + 1) /\ (next + 1) - 1 = next
              /\ \A i \in next..((next + 1) - 1) : i = next
          BY <1>3
        <5> QED BY <1>2, <1>5, <4>1, <5>1, FrontierMoves
      <4>3. next' - 1 = next
        BY <1>3, <4>1
      <4> QED BY <2>5, <2>6, <2>7, <3>1, <4>1, <4>2, <4>3, Zenon DEF Seen
    <3> QED BY <3>2, <3>3
  <2>9. (FrontierAt(next) /\ Seen(operands, values, next - 1))'
    BY <1>1, <2>8, FrontierKept
  <2> QED BY <1>11, <2>9 DEF ParseInv
<1> QED
  <2>1. \/ Returned # "h" /\ Returned \notin Handled(program) /\ pc' = "failed"
        \/ Returned = "h" /\ pc' = "help"
        \/ /\ Returned \in Handled(program) /\ pc' = pc
           /\ values' = With(values, Returned, IF TakesValue(Returned) THEN argv[next + 1] ELSE Entry)
           /\ next' = IF TakesValue(Returned) THEN next + 2 ELSE next + 1
    BY Zenon DEF ParseOption, Handled
  <2> QED BY <1>1, <1>9, <1>10, <1>11, <2>1, Zenon

LEMMA GivenKept ==
    ASSUME UNCHANGED <<program, operands, values>>
    PROVE  Unconvertible' = Unconvertible
<1>1. program' = program /\ operands' = operands /\ values' = values
  OBVIOUS
<1> DEFINE GivenIn(p, o, v) ==
        {<<p.operands[i], o[i]>> : i \in 1..Len(o) \cap 1..Len(p.operands)}
        \cup {<<p.options[l], v[l]>> : l \in {m \in DOMAIN v : p.options[m] # "flag"}}
<1>2. Given = GivenIn(program, operands, values) /\ Given' = GivenIn(program', operands', values')
  BY Zenon DEF Given
<1> HIDE DEF GivenIn
<1>3. Given' = Given
  BY <1>1, <1>2, Zenon
<1> QED BY <1>3, Zenon DEF Unconvertible

LEMMA LaterSteps ==
    ASSUME Types, ParseInv, Described(program), CheckOperands \/ HandleArguments \/ ConvertArguments
    PROVE  ParseInv'
<1>1. UNCHANGED <<program, argv, permute, operands, values>>
  BY DEF CheckOperands, HandleArguments, ConvertArguments
<1>2. pc \in {"operands", "arguments", "convert"}
  BY DEF CheckOperands, HandleArguments, ConvertArguments
<1>3. Seen(operands, values, Len(argv))
  BY <1>2 DEF ParseInv
<1>4. Seen(operands, values, Len(argv))'
  <2>1. Seen(operands', values', Len(argv))
    BY <1>1, <1>3, Zenon
  <2> QED BY <1>1, <2>1, SeenAllKept
<1>5. UsageOutcome' = UsageOutcome /\ Unconvertible' = Unconvertible
  BY <1>1, StaticKept, GivenKept
<1> DEFINE k == Len(operands)
<1> DEFINE Complete == Usage.required \subseteq DOMAIN values /\ k \in Usage.lo..Usage.hi
<1>6. UsageOutcome = IF Complete THEN "run" ELSE "failed"
  <2>1. Clean(Len(argv)) /\ k = Count(Len(argv))
        /\ DOMAIN values = {argv[i].letter : i \in OptionsTo(Len(argv))}
    BY <1>3 DEF Seen, Placed, Known
  <2> QED BY <2>1, NothingDecides, Zenon
<1>7. /\ k \in Nat /\ k <= NoLimit
  <2>1. k = Count(Len(argv))
    BY <1>3 DEF Seen, Placed
  <2> QED BY <2>1, OperandsFinite, ArgvFacts, NoLimitAssumption
<1>8. /\ program.few \in Nat /\ program.many \in Nat /\ program.nonnull \in Nat
      /\ Usage.lo \in Nat /\ Usage.hi \in Nat
      /\ Usage.lo = IF program.few <= program.nonnull THEN program.nonnull ELSE program.few
      /\ program.many \in {Usage.hi, NoLimit}
      /\ program.needed = Usage.required /\ program.one_of = {}
  BY DEF Described, Usage
<1>9. program' = program /\ operands' = operands /\ values' = values
  BY <1>1, Zenon
<1>10. CASE CheckOperands
  <2>1. \/ pc' = "arguments" /\ program.few <= k /\ k <= program.many
        \/ pc' = "failed" /\ ~(program.few <= k /\ k <= program.many)
    BY <1>10 DEF CheckOperands
  <2>2. ~(program.few <= k /\ k <= program.many) => ~Complete
    BY <1>7, <1>8
  <2> QED BY <1>4, <1>5, <1>6, <1>9, <2>1, <2>2 DEF ParseInv
<1>11. CASE HandleArguments
  <2>1. pc = "arguments" /\ program.few <= k /\ k <= program.many
    BY <1>11 DEF HandleArguments, ParseInv
  <2>2. \/ pc' = "convert" /\ program.nonnull <= k /\ program.needed \subseteq DOMAIN values
        \/ pc' = "failed" /\ ~(program.nonnull <= k /\ program.needed \subseteq DOMAIN values)
    BY <1>8, <1>11 DEF HandleArguments
  <2>3. ~(program.nonnull <= k /\ program.needed \subseteq DOMAIN values) => ~Complete
    BY <1>7, <1>8
  <2> QED BY <1>4, <1>5, <1>6, <1>9, <2>1, <2>2, <2>3 DEF ParseInv
<1>12. CASE ConvertArguments
  <2>1. /\ pc = "convert" /\ program.few <= k /\ k <= program.many
        /\ program.nonnull <= k /\ program.needed \subseteq DOMAIN values
    BY <1>12 DEF ConvertArguments, ParseInv
  <2>2. pc' = "run" \/ (pc' = "failed" /\ Unconvertible)
    BY <1>12 DEF ConvertArguments, Unconvertible
  <2>3. UsageOutcome = "failed" \/ UsageOutcome = "run"
    BY <1>6, Zenon
  <2> QED BY <1>4, <1>5, <1>9, <2>1, <2>2, <2>3 DEF ParseInv
<1> QED BY <1>10, <1>11, <1>12

LEMMA InitParse == Init => IInv
<1> SUFFICES ASSUME Init PROVE IInv
  OBVIOUS
<1>1. Types
  BY InitTypes
<1>2. pc = "options" /\ next = 1 /\ operands = <<>> /\ values = <<>>
  BY DEF Init
<1>3. FrontierAt(1)
  <2>1. Role[0] = "start" /\ Len(argv) \in Nat
    BY <1>1, RoleTable, ArgvFacts
  <2>2. 1 \in 1..(Len(argv) + 1) /\ 1 - 1 = 0 /\ \A i \in 0..0 : i = 0
    BY <2>1
  <2> QED BY <2>1, <2>2 DEF FrontierAt
<1>4. OptionsTo(0) = {} /\ OperandsTo(0) = {}
  BY DEF OptionsTo, OperandsTo
<1>5. Placed(operands, 0)
  BY <1>2, <1>4, CountZero DEF Placed
<1>6. Clean(0) /\ Known(values, 0)
  BY <1>2, <1>4 DEF Clean, Known
<1>7. next - 1 = 0
  BY <1>2
<1>8. FrontierAt(next) /\ Seen(operands, values, next - 1)
  BY <1>2, <1>3, <1>5, <1>6, <1>7 DEF Seen
<1> QED BY <1>1, <1>2, <1>8 DEF IInv, ParseInv

LEMMA StepParse ==
    ASSUME IInv, NumbersMeanWhatTheySay, [Next]_vars
    PROVE  IInv'
<1>1. Types'
  BY StepTypes DEF IInv
<1> SUFFICES ASSUME program' \notin Misdescribed PROVE ParseInv'
  BY <1>1 DEF IInv
<1>2. UNCHANGED <<program, argv, permute>>
  BY DEF Next, vars, getopt_operand, getopt_ends, ParseOption, CheckOperands, HandleArguments,
         ConvertArguments
<1>3. Types /\ ParseInv
  BY <1>2 DEF IInv
<1>4. Described(program)
  BY <1>2, <1>3, AllDescribed DEF Types
<1>5. CASE UNCHANGED vars
  <2>1. UNCHANGED <<program, argv, permute>> /\ pc' = pc /\ next' = next /\ operands' = operands
        /\ values' = values
    BY <1>5, Zenon DEF vars
  <2>2. pc = "options" => (FrontierAt(next) /\ Seen(operands, values, next - 1))'
    <3> SUFFICES ASSUME pc = "options"
                 PROVE  (FrontierAt(next) /\ Seen(operands, values, next - 1))'
      OBVIOUS
    <3>1. FrontierAt(next) /\ Seen(operands, values, next - 1)
      BY <1>3 DEF ParseInv
    <3>2. FrontierAt(next') /\ Seen(operands', values', next' - 1)
      BY <2>1, <3>1, Zenon
    <3> QED BY <2>1, <3>2, FrontierKept
  <2>3. pc \in {"operands", "arguments", "convert", "run"} => Seen(operands, values, Len(argv))'
    <3> SUFFICES ASSUME pc \in {"operands", "arguments", "convert", "run"}
                 PROVE  Seen(operands, values, Len(argv))'
      OBVIOUS
    <3>1. Seen(operands, values, Len(argv))
      BY <1>3 DEF ParseInv
    <3>2. Seen(operands', values', Len(argv))
      BY <2>1, <3>1, Zenon
    <3> QED BY <2>1, <3>2, SeenAllKept
  <2>4. UsageOutcome' = UsageOutcome /\ Unconvertible' = Unconvertible
    BY <2>1, StaticKept, GivenKept
  <2> QED BY <1>3, <2>1, <2>2, <2>3, <2>4, Zenon DEF ParseInv
<1>6. CASE ~UNCHANGED vars
  BY <1>3, <1>4, <1>6, OperandStep, EndsStep, OptionStep, LaterSteps DEF Next
<1> QED BY <1>5, <1>6

LEMMA ParsedAsMeant ==
    ASSUME IInv
    PROVE  ParsedAsUsageSays
<1> SUFFICES ASSUME program \notin Misdescribed, pc \in {"run", "help", "failed"}
             PROVE  /\ \/ pc = UsageOutcome
                       \/ pc = "failed" /\ UsageOutcome = "run" /\ Unconvertible
                       \/ /\ pc = "run" /\ program.many = NoLimit
                          /\ Cardinality(OperandsAt) > Usage.hi
                    /\ pc = "run" => ArgumentsInPlace
  BY Zenon DEF ParsedAsUsageSays, Unconvertible
<1>1. Types /\ ParseInv
  BY DEF IInv
<1>2. CASE pc \in {"help", "failed"}
  BY <1>1, <1>2 DEF ParseInv
<1>3. CASE pc = "run"
  <2>1. /\ Seen(operands, values, Len(argv))
        /\ program.few <= Len(operands) /\ Len(operands) <= program.many
        /\ program.nonnull <= Len(operands) /\ program.needed \subseteq DOMAIN values
    BY <1>1, <1>3 DEF ParseInv
  <2>2. OperandsTo(Len(argv)) = OperandsAt /\ Len(operands) = Cardinality(OperandsAt)
    BY <1>1, <2>1, CountAll DEF Seen, Placed, Count
  <2>3. OptionsTo(Len(argv)) = OptionsAt
    BY <1>1, ArgvFacts DEF OptionsTo, OptionsAt
  <2>4. /\ DOMAIN values = {argv[i].letter : i \in OptionsAt}
        /\ \A i \in OptionsAt :
              /\ argv[i].letter \in Valued
              /\ \A j \in OptionsAt : j > i => argv[j].letter # argv[i].letter
              => values[argv[i].letter] = argv[i + 1]
    BY <2>1, <2>3, Zenon DEF Seen, Known
  <2>5. \A i \in OperandsAt : operands[Cardinality(OperandsAt \cap 1..i)] = argv[i]
    BY <2>1, <2>2, Zenon DEF Seen, Placed, Count, OperandsTo
  <2>6. ArgumentsInPlace
    BY <2>2, <2>4, <2>5, Zenon DEF ArgumentsInPlace
  <2>7. UsageOutcome = IF /\ Usage.required \subseteq DOMAIN values
                          /\ Len(operands) \in Usage.lo..Usage.hi
                       THEN "run" ELSE "failed"
    <3>1. Clean(Len(argv)) /\ Len(operands) = Count(Len(argv))
          /\ DOMAIN values = {argv[i].letter : i \in OptionsTo(Len(argv))}
      BY <2>1 DEF Seen, Placed, Known
    <3> QED BY <1>1, <3>1, NothingDecides, Zenon
  <2>8. Described(program)
    BY <1>1, AllDescribed DEF Types
  <2>9. /\ program.few \in Nat /\ program.many \in Nat /\ program.nonnull \in Nat
        /\ Usage.lo \in Nat /\ Usage.hi \in Nat
        /\ Usage.lo = IF program.few <= program.nonnull THEN program.nonnull ELSE program.few
        /\ program.many \in {Usage.hi, NoLimit} /\ program.needed = Usage.required
    BY <2>8 DEF Described, Usage
  <2>10. Len(operands) \in Nat
    BY <1>1 DEF Types
  <2>11. CASE Len(operands) <= Usage.hi
    BY <1>3, <2>1, <2>6, <2>7, <2>9, <2>10, <2>11
  <2>12. CASE ~(Len(operands) <= Usage.hi)
    <3>1. program.many = NoLimit /\ Len(operands) > Usage.hi
      BY <2>1, <2>9, <2>10, <2>12
    <3> QED BY <1>3, <2>2, <2>6, <3>1
  <2> QED BY <2>11, <2>12
<1> QED BY <1>2, <1>3

\* For command lines of any length, every program outside Misdescribed runs, shows its
\* help or fails as its usage line says and runs on the arguments the user meant, in
\* whatever order and however often they are given, with both kinds of getopt.
THEOREM UsageIsTrue == Spec => []ParsedAsUsageSays
<1>1. IInv /\ NumbersMeanWhatTheySay /\ [Next]_vars => IInv'
  BY StepParse
<1>2. IInv => ParsedAsUsageSays
  BY ParsedAsMeant
<1> QED BY <1>1, <1>2, InitParse, NumbersAreMeant, PTL DEF Spec
================================================================================
