------------------------------- MODULE Programs -------------------------------
(***************************************************************************)
(* How each program reads its command line: what parse_arguments and       *)
(* handle_arguments let pass, and what the usage message says.             *)
(*                                                                         *)
(* A program is a record:                                                  *)
(*   options     the letters of the getopt string other than h, and for    *)
(*               each what its argument is converted to: "flag" is an      *)
(*               option without argument, "unhandled" one with an argument *)
(*               for which the switch has no case                          *)
(*   help_takes  the getopt string has "h:", so that -h takes an argument  *)
(*   few, many   parse_arguments rejects fewer and more operands than this *)
(*   nonnull     handle_arguments rejects fewer operands than this         *)
(*   needed      the options handle_arguments rejects the absence of       *)
(*   one_of      options of which handle_arguments wants at least one      *)
(*   operands    what each operand is converted to                         *)
(*   usage       the line usage() prints, [-h] left out: the options in    *)
(*               brackets, those without, those of both that are shown     *)
(*               without an argument, the least and most operands          *)
(***************************************************************************)
EXTENDS Naturals, Sequences

CONSTANT NoLimit        \* no command line has more operands than this

ASSUME NoLimitAssumption == NoLimit \in Nat

\* A program with operands only.
Takes(kinds) ==
    [options |-> <<>>, help_takes |-> FALSE, few |-> Len(kinds), many |-> Len(kinds),
     nonnull |-> Len(kinds), needed |-> {}, one_of |-> {}, operands |-> kinds,
     usage |-> [optional |-> {}, required |-> {}, flags |-> {}, lo |-> Len(kinds), hi |-> Len(kinds)]]

\* The same with options, all of which must be given, or none of which must.
Requires(p, options) ==
    [p EXCEPT !.options = options, !.needed = DOMAIN options, !.usage.required = DOMAIN options]
Allows(p, options) == [p EXCEPT !.options = options, !.usage.optional = DOMAIN options]

-------------------------------------------------------------------------------
\* One operand, passed on as it is: a path, a name, a string, a command.
chdir == Takes(<<"string">>)
access == Takes(<<"string">>)
opendir == Takes(<<"string">>)
readdir == Takes(<<"string">>)
unlink == Takes(<<"string">>)
stat == Takes(<<"string">>)
lstat == Takes(<<"string">>)
nftw == Takes(<<"string">>)
multiplexing_client == Takes(<<"string">>)
read_write_client == Takes(<<"string">>)
send_recv_client == Takes(<<"string">>)
socketpair == Takes(<<"string">>)
strdup == Takes(<<"string">>)
strlen == Takes(<<"string">>)
getpwnam == Takes(<<"string">>)
pthread_cond_signal == Takes(<<"string">>)
reliable == Takes(<<"string">>)
simple == Takes(<<"string">>)
synchronized == Takes(<<"string">>)
regcomp == Takes(<<"string">>)
strtok_r == Takes(<<"string">>)
dirname == Takes(<<"string">>)
basename == Takes(<<"string">>)
glob == Takes(<<"string">>)
syslog == Takes(<<"string">>)
setlogmask == Takes(<<"string">>)
openlog == Takes(<<"string">>)
popen == Takes(<<"string">>)
system == Takes(<<"string">>)
fcntl == Takes(<<"string">>)
S_IS == Takes(<<"string">>)
fdopen == Takes(<<"string">>)
open == Takes(<<"string">>)
fstat == Takes(<<"string">>)
mmap_client == Takes(<<"string">>)
getaddrinfo == Takes(<<"string">>)
fopen == Takes(<<"string">>)
ferror == Takes(<<"string">>)
getgrnam == Takes(<<"string">>)
-------------------------------------------------------------------------------
\* One number.
getpwuid == Takes(<<"uid_t">>)
seteuid == Takes(<<"uid_t">>)
setuid == Takes(<<"uid_t">>)
getgrgid == Takes(<<"gid_t">>)
setegid == Takes(<<"gid_t">>)
setgid == Takes(<<"gid_t">>)
cfgetispeed == Takes(<<"speed_t">>)
cfgetospeed == Takes(<<"speed_t">>)
difftime == Takes(<<"unsigned_int">>)
-------------------------------------------------------------------------------
\* Two operands.
strcmp == Takes(<<"string", "string">>)
strstr == Takes(<<"needle", "string">>)
strchr == Takes(<<"char", "string">>)
socket == Takes(<<"family", "type">>)
getsockname == Takes(<<"string", "string">>)
getnameinfo == Takes(<<"string", "in_port_t">>)
-------------------------------------------------------------------------------
\* An address and a port.
shutdown_client == Takes(<<"address", "in_port_t">>)
shutdown_server == Takes(<<"address", "in_port_t">>)
setsockopt_client == Takes(<<"address", "in_port_t">>)
setsockopt_server == Takes(<<"address", "in_port_t">>)
getsockopt == Takes(<<"address", "in_port_t">>)
connect == Takes(<<"address", "in_port_t">>)
udp_server == Takes(<<"address", "in_port_t">>)
-------------------------------------------------------------------------------
\* parse_arguments and handle_arguments want different numbers of operands, and
\* argv[argc] is NULL.
bind == [Takes(<<"address", "in_port_t">>) EXCEPT !.few = 1]
udp_client == [Takes(<<"address", "in_port_t", "string">>) EXCEPT !.few = 2]
wordexp == [Takes(<<"string">>) EXCEPT !.few = 0]
fnmatch == [Takes(<<"string", "string">>) EXCEPT
    !.many = NoLimit, !.nonnull = 1, !.usage.hi = NoLimit]
regexec == [Takes(<<"string", "string">>) EXCEPT !.many = NoLimit, !.nonnull = 1]
-------------------------------------------------------------------------------
\* The getopt string has an option for which the switch has no case.
nice == [Takes(<<"int">>) EXCEPT !.options = [s |-> "unhandled"]]
sleep == [Takes(<<"unsigned_int">>) EXCEPT !.options = [s |-> "unhandled"], !.nonnull = 0]
-------------------------------------------------------------------------------
\* -h takes an argument, by a colon in the getopt string.
dlopen == [Takes(<<"string">>) EXCEPT !.help_takes = TRUE]
shm_open == [Takes(<<"string">>) EXCEPT !.help_takes = TRUE]
fprintf == [Takes(<<"string">>) EXCEPT !.help_takes = TRUE]
-------------------------------------------------------------------------------
\* The usage line has an option that the getopt string has not.
getpeername == [Takes(<<"string", "string">>) EXCEPT !.usage.optional = {"p"}]
-------------------------------------------------------------------------------
\* The usage line leaves out an option that must be given.
fseek == [Takes(<<"string">>) EXCEPT !.options = [o |-> "long"], !.needed = {"o"}]
fseeko == [Takes(<<"string">>) EXCEPT !.options = [o |-> "off_t"], !.needed = {"o"}]
-------------------------------------------------------------------------------
\* Options that must be given.
strncpy == Requires(Takes(<<"string">>), [n |-> "size_t"])
strncmp == Requires(Takes(<<"string", "string">>), [n |-> "size_t"])
lseek == Requires(Takes(<<"string">>), [o |-> "off_t"])
chown == Requires(Takes(<<"string">>), [u |-> "uid_t", g |-> "gid_t"])
setreuid == Requires(Takes(<<>>), [u |-> "uid_t", e |-> "uid_t"])
setregid == [Requires(Takes(<<>>), [g |-> "gid_t", e |-> "gid_t"]) EXCEPT !.many = NoLimit]
dlsym == [Requires(Takes(<<>>), [l |-> "string", f |-> "string"]) EXCEPT !.many = NoLimit]
timedwait == Requires(Takes(<<>>), [m |-> "time_t", t |-> "unsigned_int"])
listen_accept == [Requires(Takes(<<"address", "in_port_t", "string">>), [b |-> "positive_int"]) EXCEPT
    !.few = 2]
-------------------------------------------------------------------------------
\* Options that may be given.
abort == [Allows(Takes(<<>>), [l |-> "rlim_t"]) EXCEPT !.many = NoLimit]
mutex_lock == [Allows(Takes(<<>>), [m |-> "flag"]) EXCEPT !.many = NoLimit, !.usage.flags = {"m"}]
nanosleep == [Allows(Takes(<<>>), [s |-> "time_t", n |-> "long"]) EXCEPT
    !.one_of = {"s", "n"}]
fork == [Allows(Takes(<<>>), [s |-> "unsigned_int"]) EXCEPT
            !.many = NoLimit, !.usage = Takes(<<"unsigned_int">>).usage]
getopt == [Allows(Takes(<<>>), [a |-> "flag", b |-> "flag", c |-> "string"]) EXCEPT
    !.needed = {"c"}, !.many = NoLimit,
    !.usage = [optional |-> {"a", "b"}, required |-> {"c"}, flags |-> {"a", "b"}, lo |-> 0, hi |-> NoLimit]]
\* The long names stand for the same letters.
getopt_long == getopt
-------------------------------------------------------------------------------
AllPrograms == {
    chdir, access, opendir, readdir, unlink, stat, lstat, nftw,
    multiplexing_client, read_write_client, send_recv_client, socketpair, strdup,
    strlen, getpwnam, pthread_cond_signal, reliable, simple, synchronized, regcomp,
    strtok_r, dirname, basename, glob, syslog, setlogmask, openlog, popen, system,
    fcntl, S_IS, fdopen, open, fstat, mmap_client, getaddrinfo, fopen, ferror,
    getgrnam, getpwuid, seteuid, setuid, getgrgid, setegid, setgid, cfgetispeed,
    cfgetospeed, difftime, strcmp, strstr, strchr, socket, getsockname,
    getnameinfo, shutdown_client, shutdown_server, setsockopt_client,
    setsockopt_server, getsockopt, connect, udp_server, bind, udp_client, wordexp,
    fnmatch, regexec, nice, sleep, dlopen, shm_open, fprintf, getpeername, strncpy,
    strncmp, lseek, fseek, fseeko, chown, setreuid, setregid, dlsym, timedwait,
    listen_accept, abort, mutex_lock, nanosleep, fork, getopt, getopt_long}
===============================================================================
