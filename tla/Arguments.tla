------------------------------- MODULE Arguments -------------------------------
(***************************************************************************)
(* The command line of the programs in Programs: the getopt loop and the   *)
(* operand tests of parse_arguments, the tests of handle_arguments and the *)
(* conversions of numbers (parse_uid_t, parse_in_port_t, ...), addresses   *)
(* and names.                                                              *)
(*                                                                         *)
(* Of an argv entry only this is kept: the letter after a leading "-" ("-" *)
(* for the entry "--"), a word if it is not a number, whether it has       *)
(* digits, their value, and whether other characters follow them.          *)
(***************************************************************************)
EXTENDS Programs, Integers, FiniteSetsExt

CONSTANTS Argvs(_),              \* the command lines a program is started with
          UINTMAX_MAX, UINT_MAX, UINT16_MAX, INTMAX_MAX, INT_MAX,
          BAUD_RATES             \* the values of B0 to B38400 on this system

\* The entries of argv.
Entries == [letter : STRING, word : STRING, digits : BOOLEAN, value : Int, junk : BOOLEAN]

ASSUME ArgumentsAssumption ==
    /\ \A p \in AllPrograms : \A a \in Argvs(p) : a \in Seq(Entries) /\ Len(a) <= NoLimit
    /\ {UINTMAX_MAX, UINT_MAX, UINT16_MAX, INTMAX_MAX, INT_MAX} \subseteq Nat
    /\ UINT16_MAX <= UINT_MAX /\ UINT_MAX <= UINTMAX_MAX
    /\ UINTMAX_MAX = 2 * INTMAX_MAX + 1
    /\ BAUD_RATES \subseteq 0..INTMAX_MAX

VARIABLES program, argv,
          permute,               \* getopt moves operands to the end, as glibc's does
          next,                  \* the argv entry getopt looks at next
          operands,              \* argv[optind..] when the loop ends
          values,                \* the arguments of the options given, the last of each
          converted,             \* <<kind, text, value>> for every argument
          pc

vars == <<program, argv, permute, next, operands, values, converted, pc>>

Option(letter)  == [letter |-> letter, word |-> "option", digits |-> FALSE, value |-> 0, junk |-> TRUE]
Word(word)      == [letter |-> "", word |-> word, digits |-> FALSE, value |-> 0, junk |-> word # ""]
Number(n, junk) == [letter |-> IF n < 0 THEN "digit" ELSE "", word |-> "", digits |-> TRUE,
                    value |-> n, junk |-> junk]
End             == Option("-")

Init == /\ program \in AllPrograms /\ permute \in BOOLEAN
        /\ argv \in Argvs(program)
        /\ next = 1 /\ operands = <<>> /\ values = <<>> /\ converted = {}
        /\ pc = "options"

-------------------------------------------------------------------------------
(* parse_arguments                                                         *)

Entry == argv[next]

\* getopt steps over an operand, or stops there; it stops at "--" and at the end.
getopt_operand ==
    /\ pc = "options" /\ next <= Len(argv) /\ Entry.letter = ""
    /\ IF permute
       THEN operands' = Append(operands, Entry) /\ next' = next + 1 /\ pc' = pc
       ELSE operands' = SubSeq(argv, next, Len(argv)) /\ pc' = "operands" /\ UNCHANGED next
    /\ UNCHANGED <<program, argv, permute, values, converted>>

getopt_ends ==
    /\ pc = "options"
    /\ \/ next > Len(argv) /\ UNCHANGED operands
       \/ next <= Len(argv) /\ Entry = End
          /\ operands' = operands \o SubSeq(argv, next + 1, Len(argv))
    /\ pc' = "operands"
    /\ UNCHANGED <<program, argv, permute, next, values, converted>>

\* What getopt returns for the option it is at: '?' if it is unknown or lacks its
\* argument.
TakesValue(l) == IF l = "h" THEN program.help_takes ELSE program.options[l] # "flag"
Returned == LET l == Entry.letter
            IN  IF l # "h" /\ l \notin DOMAIN program.options THEN "?"
                ELSE IF TakesValue(l) /\ next = Len(argv) THEN "?" ELSE l

\* The variable of option x is set, whether or not it was before.
With(f, x, e) == [y \in DOMAIN f \cup {x} |-> IF y = x THEN e ELSE f[y]]

\* The switch: '?' and default; case 'h'; the program's own options.
ParseOption ==
    /\ pc = "options" /\ next <= Len(argv) /\ Entry.letter \notin {"", "-"}
    /\ LET opt == Returned
           handled == opt \in {l \in DOMAIN program.options : program.options[l] # "unhandled"}
       IN  \/ /\ opt # "h" /\ ~handled
              /\ pc' = "failed" /\ UNCHANGED <<next, values>>
           \/ /\ opt = "h"
              /\ pc' = "help" /\ UNCHANGED <<next, values>>
           \/ /\ handled
              /\ values' = With(values, opt, IF TakesValue(opt) THEN argv[next + 1] ELSE Entry)
              /\ next' = IF TakesValue(opt) THEN next + 2 ELSE next + 1
              /\ pc' = pc
    /\ UNCHANGED <<program, argv, permute, operands, converted>>

CheckOperands_OffByOne ==
    /\ pc = "operands"
    /\ pc' = IF program.few <= Len(operands) /\ Len(operands) <= program.many + 1
             THEN "arguments" ELSE "failed"
    /\ UNCHANGED <<program, argv, permute, next, operands, values, converted>>

\* "Too many arguments.", "... is required"
CheckOperands ==
    /\ pc = "operands"
    /\ pc' = IF program.few <= Len(operands) /\ Len(operands) <= program.many
             THEN "arguments" ELSE "failed"
    /\ UNCHANGED <<program, argv, permute, next, operands, values, converted>>

-------------------------------------------------------------------------------
(* handle_arguments                                                        *)

\* The tests for NULL.
HandleArguments ==
    /\ pc = "arguments"
    /\ pc' = IF /\ program.nonnull <= Len(operands)
                /\ program.needed \subseteq DOMAIN values
                /\ program.one_of # {} => program.one_of \cap DOMAIN values # {}
             THEN "convert" ELSE "failed"
    /\ UNCHANGED <<program, argv, permute, next, operands, values, converted>>

\* strtoumax and strtoimax: the value, or none with errno = ERANGE; 0 if there are no
\* digits.  strtoumax negates in uintmax_t what follows a minus sign.
strtoumax(t) == IF t.value \in -UINTMAX_MAX..UINTMAX_MAX THEN {t.value % (UINTMAX_MAX + 1)} ELSE {}
strtoimax(t) == IF t.value \in (-INTMAX_MAX - 1)..INTMAX_MAX THEN {t.value} ELSE {}

Unsigned == {"in_port_t", "uid_t", "gid_t", "unsigned_int", "size_t", "rlim_t"}
Signed   == {"int", "positive_int", "long", "time_t", "off_t", "speed_t"}

\* The values the range test of each conversion lets pass.
Limits(kind) == CASE kind = "in_port_t"                            -> 0..UINT16_MAX
                  [] kind \in {"uid_t", "gid_t", "unsigned_int"}   -> 0..UINT_MAX
                  [] kind \in {"size_t", "rlim_t"}                 -> 0..UINTMAX_MAX
                  [] kind = "int"                                  -> (-INT_MAX - 1)..INT_MAX
                  [] kind = "positive_int"                         -> 0..INT_MAX
                  [] kind \in {"long", "time_t", "off_t"}          -> (-INTMAX_MAX - 1)..INTMAX_MAX
                  [] kind = "speed_t"                              -> BAUD_RATES

parse_number_NoEndptr(kind, t) ==
    (IF kind \in Unsigned THEN strtoumax(t) ELSE strtoimax(t)) \cap Limits(kind)

\* What is left after the tests of errno, of *endptr and of the range: parse_in_port_t,
\* parse_uid_t, parse_unsigned_int, parse_int, parse_long, parse_off_t, ...
parse_number(kind, t) ==
    IF t.junk THEN {}
    ELSE (IF kind \in Unsigned THEN strtoumax(t) ELSE strtoimax(t)) \cap Limits(kind)

\* inet_pton on either family; the names of networking-functions/socket; strlen.
Accepts(kind, t) == CASE kind = "address" -> t = Word("address")
                      [] kind = "family"  -> t = Word("AF_INET")
                      [] kind = "type"    -> t = Word("SOCK_STREAM")
                      [] kind = "char"    -> t = Word("c") \/ (t.digits /\ ~t.junk /\ t.value \in 0..9)
                      [] kind = "needle"  -> t # Word("")
                      [] kind = "string"  -> TRUE

\* What an argument becomes, {} if it is rejected.  A text that is kept has no number.
Convert(kind, t) == IF kind \in Unsigned \cup Signed THEN parse_number(kind, t)
                    ELSE IF Accepts(kind, t) THEN {0} ELSE {}

\* The arguments that are converted, each with what it is to be.
Given == {<<program.operands[i], operands[i]>> :
             i \in 1..Len(operands) \cap 1..Len(program.operands)}
         \cup {<<program.options[l], values[l]>> :
             l \in {m \in DOMAIN values : program.options[m] # "flag"}}

ConvertArguments ==
    /\ pc = "convert"
    /\ \/ /\ \A g \in Given : Convert(g[1], g[2]) # {}
          /\ converted' = UNION {{<<g[1], g[2], v>> : v \in Convert(g[1], g[2])} : g \in Given}
          /\ pc' = "run"
       \/ /\ \E g \in Given : Convert(g[1], g[2]) = {}
          /\ pc' = "failed" /\ UNCHANGED converted
    /\ UNCHANGED <<program, argv, permute, next, operands, values>>

Next == getopt_operand \/ getopt_ends \/ ParseOption \/ CheckOperands \/ HandleArguments
        \/ ConvertArguments

Spec == Init /\ [][Next]_vars

-------------------------------------------------------------------------------
(* What a user reads from the usage line.                                  *)

Usage   == program.usage
Letters == {"h"} \cup Usage.required \cup Usage.optional
Valued  == (Usage.required \cup Usage.optional) \ Usage.flags

\* What each argv entry is: an option, the value of the option before it, the "--",
\* an operand among the options, or one of the rest, after which no options follow.
Role[i \in 0..Len(argv)] ==
    IF i = 0 THEN "start"
    ELSE IF Role[i - 1] \in {"end", "rest"} THEN "rest"
    ELSE IF Role[i - 1] = "option" /\ argv[i - 1].letter \in Valued THEN "value"
    ELSE CASE argv[i].letter = "-" -> "end"
           [] argv[i].letter = ""  -> IF permute THEN "operand" ELSE "rest"
           [] OTHER                -> "option"

OptionsAt  == {i \in 1..Len(argv) : Role[i] = "option"}
OperandsAt == {i \in 1..Len(argv) : Role[i] \in {"operand", "rest"}}

\* An option that is not in the usage line, or has no value where it should.
Bad(i) == argv[i].letter \notin Letters \/ (argv[i].letter \in Valued /\ i = Len(argv))

\* The first bad option or -h decides; without one, all that is required must be there.
UsageOutcome ==
    LET decisive == {i \in OptionsAt : Bad(i) \/ argv[i].letter = "h"}
    IN  IF decisive # {} THEN (IF Bad(Min(decisive)) THEN "failed" ELSE "help")
        ELSE IF /\ Usage.required \subseteq {argv[i].letter : i \in OptionsAt}
                /\ Cardinality(OperandsAt) \in Usage.lo..Usage.hi
             THEN "run" ELSE "failed"

\* Programs whose usage line is not what they accept: -h wants an argument
\* (dlopen, shm_open, fprintf), -p does not exist (getpeername), -o is needed and not
\* in the line (fseek, fseeko), the seconds are an option (fork), one of the options is
\* needed (nanosleep).
Misdescribed == {dlopen, shm_open, fprintf, getpeername, fseek, fseeko, fork, nanosleep}

\* The operands are in the order they were given, and each option has the argument
\* that was given last.
ArgumentsInPlace ==
    /\ Len(operands) = Cardinality(OperandsAt)
    /\ \A i \in OperandsAt : operands[Cardinality(OperandsAt \cap 1..i)] = argv[i]
    /\ DOMAIN values = {argv[i].letter : i \in OptionsAt}
    /\ \A i \in OptionsAt :
          /\ argv[i].letter \in Valued
          /\ \A j \in OptionsAt : j > i => argv[j].letter # argv[i].letter
          => values[argv[i].letter] = argv[i + 1]

\* Every other program runs, shows its help or fails as its usage line says, and runs
\* on the arguments the user meant, for every order and repetition of options and
\* operands and both kinds of getopt.  It may also fail because an argument cannot be
\* converted, and regexec, setregid, dlsym, abort and pthread_mutex_lock run with
\* more operands than they say (parse_arguments, handle_arguments and usage of each
\* program).
ParsedAsUsageSays ==
    program \notin Misdescribed /\ pc \in {"run", "help", "failed"} =>
        /\ \/ pc = UsageOutcome
           \/ pc = "failed" /\ UsageOutcome = "run" /\ \E g \in Given : Convert(g[1], g[2]) = {}
           \/ pc = "run" /\ program.many = NoLimit /\ Cardinality(OperandsAt) > Usage.hi
        /\ pc = "run" => ArgumentsInPlace

\* A number a program runs with is within its type and is the number that was
\* written, or 0 for an empty text, or, for an unsigned type, what a negative number
\* becomes in a uintmax_t: -1 is a size_t or rlim_t, and only a number below
\* -(UINTMAX_MAX - UINT_MAX) is a uid_t (the parse_ functions, strtoumax).
NumbersMeanWhatTheySay ==
    \A c \in converted : c[1] \in Unsigned \cup Signed =>
        /\ c[3] \in Limits(c[1]) /\ ~c[2].junk
        /\ \/ c[3] = c[2].value
           \/ c[1] \in Unsigned /\ c[2].value < 0 /\ c[3] = c[2].value + UINTMAX_MAX + 1
===============================================================================
