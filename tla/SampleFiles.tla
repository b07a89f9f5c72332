------------------------------ MODULE SampleFiles ------------------------------
(***************************************************************************)
(* The programs of file-system, files and shared-memory that create names  *)
(* and remove them again, as the calls they make one after another.  Most  *)
(* use fixed names in the working directory, so that runs side by side,    *)
(* the remains of a killed run and the user's own files meet there.  The   *)
(* user is not the superuser.                                              *)
(*                                                                         *)
(* Calls that only look and whose result is only printed are left out.     *)
(***************************************************************************)
EXTENDS Integers, Sequences, FiniteSets, Functions

CONSTANTS Procs,         \* the runs, each of one program
          MaxKills,      \* bound: runs that are killed
          MaxFaults      \* bound: calls that fail for a reason outside the directory

ASSUME SampleFilesAssumption == MaxKills \in Nat /\ MaxFaults \in Nat

VARIABLES main,          \* per run: its calls, once it has started
          at,            \* per run: the call it is at
          status,        \* per run: "new", "running" or how it ended
          dir,           \* what each name refers to
          readonly,      \* the files that may not be written
          stdout,        \* per run: where its standard output goes
          open,          \* per run: the descriptors it has to close
          failed,        \* per run: the local of files/dup2
          saved,         \* history: the names under which the user keeps a file
          spoilt,        \* history: the files that were overwritten
          raced,         \* history: saved while a run was about to create the name
          met,           \* history: runs during which something else happened
          faulty,        \* history: <<run, call>> that failed for such a reason
          before,        \* history: per run, the directory when it began
          kills

procVars == <<main, at, status, stdout, open, failed, before>>
fileVars == <<dir, readonly, spoilt>>
history  == <<saved, raced, met, faulty, kills>>
vars     == <<procVars, fileVars, history>>

-------------------------------------------------------------------------------
(* The programs.  What a call does when it fails: the program exits with   *)
(* EXIT_FAILURE, goes on, jumps to its cleanup, or notes it and goes on.    *)

example     == "example.txt"
hard_link   == "hard_link.txt"
soft_link   == "symbolic_link.txt"
link_name   == "symlink_example.txt"
example_dir == "example_dir"
file_txt    == "file.txt"
file1       == "file1.txt"
file2       == "file2.txt"
old_file    == "old_file.txt"
new_file    == "new_file.txt"
shm_name    == "/shm"
mine        == "mine.txt"        \* a file of the user that no program names
templ       == "XXXXXX"          \* a name that no other run has

Paths == {example, mine}         \* what the user may give as <file path>
FixedNames == Paths \cup {hard_link, soft_link, link_name, example_dir, file_txt, file1, file2,
                          old_file, new_file, shm_name}

\* mkstemp and mkdtemp give each run a name of its own, which is called like the run.
ASSUME TemporaryNamesAreFresh == Procs \cap (FixedNames \cup {templ}) = {}

Names == FixedNames \cup Procs

Call(op, a, b, otherwise) == [op |-> op, a |-> a, b |-> b, otherwise |-> otherwise]
Do(op, a) == Call(op, a, a, "exit")

create_sample_file(a) == Call("create", a, a, "go_on")

link_main_KeepsLink == <<create_sample_file(example), Call("link", example, hard_link, "exit"),
                         Do("unlink", example)>>

chmod_main     == <<Do("create", file_txt), Do("stat", file_txt), Do("chmod", file_txt),
                    Do("stat", file_txt), Do("unlink", file_txt)>>
link_main      == <<create_sample_file(example), Call("link", example, hard_link, "exit"),
                    Do("unlink", example), Do("unlink", hard_link)>>
symlink_main   == <<Do("create", example), Call("symlink", example, soft_link, "exit"),
                    Do("unlink", example), Do("unlink", soft_link)>>
lstat_main(p)  == <<Call("symlink", p, link_name, "exit"), Do("lstat", link_name),
                    Do("stat", link_name), Do("unlink", link_name)>>
rename_main    == <<create_sample_file(old_file), Call("rename", old_file, new_file, "exit"),
                    Do("unlink", new_file)>>
truncate_main  == <<create_sample_file(example), Do("truncate", example), Do("unlink", example)>>
umask_main     == <<Do("create", file1), Do("write", file1), Do("create_222", file2),
                    Do("write", file2), Do("unlink", file1), Do("unlink", file2)>>
mkdir_main     == <<Do("mkdir", example_dir), Do("rmdir", example_dir)>>
mkdtemp_main   == <<Do("mkdir", templ), Do("rmdir", templ)>>
mkstemp_main   == <<Do("mkstemp", templ), Call("close", templ, templ, "go_on"),
                    Do("unlink", templ)>>
sync_main      == <<Do("mkstemp", templ), Do("write", templ), Do("close", templ),
                    Do("unlink", templ)>>
ftruncate_main == <<Do("mkstemp", templ), Do("ftruncate", templ), Do("close", templ),
                    Do("unlink", templ)>>
shm_main       == <<Do("shm_open", shm_name), Do("unlink", shm_name)>>

unlink_main_NoTest(p) == <<Do("create", p), Do("stat", p), Do("unlink", p)>>
unlink_main(p) == <<Do("absent", p), Do("create", p), Do("stat", p), Do("unlink", p)>>

dup2_main_Returns ==
    <<Call("mkstemp", templ, templ, "cleanup"), Call("fstat", templ, templ, "cleanup"),
      Call("dup", templ, templ, "exit"), Call("dup2", templ, templ, "cleanup"),
      Call("write", templ, templ, "cleanup"), Call("fstat", templ, templ, "cleanup"),
      Call("restore", templ, templ, "note"), Call("close_saved", templ, templ, "note"),
      Call("close", templ, templ, "note"), Call("unlink", templ, templ, "note")>>

\* files/dup2: printf and fflush are the one write; the cleanup begins with "restore".
dup2_main ==
    <<Call("mkstemp", templ, templ, "cleanup"), Call("fstat", templ, templ, "cleanup"),
      Call("dup", templ, templ, "cleanup"), Call("dup2", templ, templ, "cleanup"),
      Call("write", templ, templ, "cleanup"), Call("fstat", templ, templ, "cleanup"),
      Call("restore", templ, templ, "note"), Call("close_saved", templ, templ, "note"),
      Call("close", templ, templ, "note"), Call("unlink", templ, templ, "note")>>
cleanup == 7

Mains == {chmod_main, link_main, symlink_main, rename_main, truncate_main, umask_main,
          mkdir_main, mkdtemp_main, mkstemp_main, sync_main, ftruncate_main, shm_main,
          dup2_main}
         \cup {lstat_main(p) : p \in Paths} \cup {unlink_main(p) : p \in Paths}

-------------------------------------------------------------------------------
(* The directory                                                           *)

None       == [kind |-> "none"]
Directory  == [kind |-> "dir"]
Symlink(n) == [kind |-> "symlink", to |-> n]
\* A file is known by the run that made it and when; a file of the user by its name.
File(by, step) == [kind |-> "file", by |-> by, step |-> step]

Is(n, kinds) == dir[n].kind \in kinds
Follow(n)    == IF Is(n, {"symlink"}) THEN dir[n].to ELSE n
Writable(n)  == Is(n, {"file"}) /\ dir[n] \notin readonly

Current(r) == main[r][at[r]]
Source(r)  == IF Current(r).a = templ THEN r ELSE Current(r).a
Target(r)  == IF Current(r).b = templ THEN r ELSE Current(r).b

\* The directory lets the call succeed.
Works(r) ==
    LET op == Current(r).op
        a  == Source(r)
        b  == Target(r) IN
    CASE op \in {"create", "create_222"} -> Is(Follow(a), {"none"}) \/ Writable(Follow(a))
      [] op \in {"mkdir", "mkstemp"}     -> Is(a, {"none"})
      [] op = "absent"                   -> Is(Follow(a), {"none"})
      [] op \in {"stat", "chmod"}        -> ~Is(Follow(a), {"none"})
      [] op = "lstat"                    -> ~Is(a, {"none"})
      [] op = "truncate"                 -> Writable(Follow(a))
      [] op = "link"                     -> ~Is(a, {"none"}) /\ Is(b, {"none"})
      [] op = "symlink"                  -> Is(b, {"none"})
      [] op = "rename"                   -> ~Is(a, {"none"})
      [] op = "unlink"                   -> Is(a, {"file", "symlink"})
      [] op = "rmdir"                    -> Is(a, {"dir"})
      [] OTHER                           -> TRUE

Put(n, entry) == dir' = [dir EXCEPT ![n] = entry]

\* What it then does to the directory.
Effect(r) ==
    LET op  == Current(r).op
        a   == Source(r)
        b   == Target(r)
        new == File(r, at[r]) IN
    \/ /\ op \in {"create", "create_222"} /\ Is(Follow(a), {"none"})
       /\ Put(Follow(a), new)
       /\ readonly' = IF op = "create_222" THEN readonly \cup {new} ELSE readonly
       /\ UNCHANGED spoilt
    \/ /\ op \in {"create", "create_222", "truncate"} /\ ~Is(Follow(a), {"none"})
       /\ spoilt' = spoilt \cup {dir[Follow(a)]}
       /\ UNCHANGED <<dir, readonly>>
    \/ /\ op = "chmod"
       /\ readonly' = readonly \ {dir[Follow(a)]}
       /\ UNCHANGED <<dir, spoilt>>
    \/ /\ \/ op = "mkdir" /\ Put(a, Directory)
          \/ op = "mkstemp" /\ Put(a, new)
          \/ op = "shm_open" /\ Put(a, IF Is(a, {"none"}) THEN new ELSE dir[a])
          \/ op = "link" /\ Put(b, dir[a])
          \/ op = "symlink" /\ Put(b, Symlink(a))
          \/ op = "rename" /\ dir' = [dir EXCEPT ![b] = dir[a], ![a] = None]
          \/ op \in {"unlink", "rmdir"} /\ Put(a, None)
       /\ UNCHANGED <<readonly, spoilt>>
    \/ /\ op \in {"absent", "stat", "lstat", "fstat", "write", "ftruncate", "dup", "dup2", "restore",
                  "close", "close_saved"}
       /\ UNCHANGED fileVars

\* What it does to the descriptors of its run.
Descriptors(r) ==
    LET op == Current(r).op IN
    /\ open' = [open EXCEPT ![r] = (@ \cup CASE op = "mkstemp" -> {"temp"}
                                             [] op = "dup"     -> {"saved"}
                                             [] OTHER          -> {})
                                   \ CASE op = "close"       -> {"temp"}
                                       [] op = "close_saved" -> {"saved"}
                                       [] OTHER              -> {}]
    /\ stdout' = [stdout EXCEPT ![r] = CASE op = "dup2"    -> "file"
                                         [] op = "restore" -> "terminal"
                                         [] OTHER          -> @]

\* The if around each part of the cleanup of files/dup2.
Skipped(r) == LET op == Current(r).op IN
              \/ op = "restore" /\ ~(stdout[r] = "file" /\ "saved" \in open[r])
              \/ op = "close_saved" /\ "saved" \notin open[r]
              \/ op = "close" /\ "temp" \notin open[r]

-------------------------------------------------------------------------------
(* The runs                                                                *)

Init == /\ main = [r \in Procs |-> <<>>]
        /\ at = [r \in Procs |-> 1] /\ status = [r \in Procs |-> "new"]
        /\ stdout = [r \in Procs |-> "terminal"] /\ open = [r \in Procs |-> {}]
        /\ failed = [r \in Procs |-> FALSE]
        /\ saved \in SUBSET Paths
        /\ dir = [n \in Names |-> IF n \in saved THEN File(n, 0) ELSE None]
        /\ readonly = {} /\ spoilt = {} /\ raced = {} /\ met = {} /\ kills = 0
        /\ faulty = {} /\ before = [r \in Procs |-> dir]

Running == {r \in Procs : status[r] = "running"}

start(r) ==
    /\ status[r] = "new"
    /\ \E m \in Mains : main' = [main EXCEPT ![r] = m]
    /\ status' = [status EXCEPT ![r] = "running"]
    /\ before' = [before EXCEPT ![r] = dir]
    /\ met' = met \cup IF Running = {} THEN {} ELSE Running \cup {r}
    /\ UNCHANGED <<at, stdout, open, failed, fileVars, saved, raced, faulty, kills>>

\* On to call k, or out of main.
Goto(r, k) ==
    /\ at' = [at EXCEPT ![r] = k]
    /\ status' = IF k <= Len(main[r]) THEN status
                 ELSE [status EXCEPT ![r] = IF failed'[r] THEN "failure" ELSE "success"]

Succeed(r) ==
    /\ Works(r) /\ ~Skipped(r)
    /\ Effect(r) /\ Descriptors(r)
    /\ UNCHANGED failed /\ Goto(r, at[r] + 1)
    /\ UNCHANGED <<main, before, history>>

Skip(r) ==
    /\ Skipped(r)
    /\ UNCHANGED failed /\ Goto(r, at[r] + 1)
    /\ UNCHANGED <<main, before, stdout, open, fileVars, history>>

\* The program leaves main, goes on, or jumps to its cleanup, and remembers why.  That
\* a name is gone already is no failure to the cleanup.
Otherwise(r) ==
    LET then == Current(r).otherwise IN
    /\ failed' = [failed EXCEPT ![r] = @ \/ then = "cleanup" \/ (then = "note" /\ Works(r))]
    /\ IF then = "exit"
       THEN status' = [status EXCEPT ![r] = "failure"] /\ UNCHANGED at
       ELSE Goto(r, IF then = "cleanup" THEN cleanup ELSE at[r] + 1)
    /\ UNCHANGED <<main, before, stdout, open, fileVars, saved, raced, met, kills>>

Fail(r) == /\ ~Works(r) /\ Otherwise(r)
           /\ UNCHANGED faulty

\* The call fails for another reason: a full disk, no descriptor left, no permission.
\* To unlink an access() that fails says that the file does not exist.
Fault(r) ==
    /\ ~Skipped(r) /\ Cardinality(faulty) < MaxFaults
    /\ faulty' = faulty \cup {<<r, at[r]>>}
    /\ IF Current(r).op = "absent"
       THEN /\ ~Works(r) /\ UNCHANGED failed /\ Goto(r, at[r] + 1)
            /\ UNCHANGED <<main, before, stdout, open, fileVars, saved, raced, met, kills>>
       ELSE Works(r) /\ Otherwise(r)

Step(r) == status[r] = "running" /\ (Succeed(r) \/ Skip(r) \/ Fail(r) \/ Fault(r))

Kill(r) == /\ status[r] = "running" /\ kills < MaxKills
           /\ status' = [status EXCEPT ![r] = "killed"]
           /\ kills' = kills + 1
           /\ UNCHANGED <<main, at, stdout, open, failed, before, fileVars, saved, raced, met,
                          faulty>>

\* The user saves a file of his own under a name that is free.
UserSaves(n) ==
    /\ n \notin saved /\ Is(n, {"none"})
    /\ Put(n, File(n, 0))
    /\ saved' = saved \cup {n}
    /\ raced' = raced \cup {m \in {n} : \E r \in Running : main[r] = unlink_main(n) /\ at[r] > 1}
    /\ met' = met \cup Running
    /\ UNCHANGED <<procVars, readonly, spoilt, faulty, kills>>

Next == \/ \E r \in Procs : start(r) \/ Step(r) \/ Kill(r)
        \/ \E n \in Paths : UserSaves(n)

Spec == Init /\ [][Next]_vars

-------------------------------------------------------------------------------
\* The names a run makes, and is to have removed when it ends.
Made(r) == {IF c.b = templ THEN r ELSE c.b :
               c \in {c \in Range(main[r]) : c.op \in {"create", "create_222", "link", "symlink",
                                                      "rename", "mkdir", "mkstemp", "shm_open"}}}

\* What in the directory d keeps the program of a run from succeeding.
Obstructed(m, d) ==
    \/ m = link_main    /\ d[hard_link] # None
    \/ m = symlink_main /\ d[soft_link] # None
    \/ m = mkdir_main   /\ d[example_dir] # None
    \/ m = umask_main   /\ d[file2] # None
    \/ \E p \in Paths : \/ m = lstat_main(p)  /\ (d[link_name] # None \/ d[p] = None)
                        \/ m = unlink_main(p) /\ d[p] # None

\* A run that nothing disturbs succeeds unless the remains of an earlier one are in its
\* way; then it leaves nothing of what it made, even where such remains or a file of
\* the user had that name before.  When it fails it touches no other name, and what
\* was in its way still is: a program that was killed at the wrong place fails until
\* somebody removes the name by hand (link, symlink, lstat, mkdir and umask).
UndisturbedRun ==
    [][\A r \in Procs \ met :
         status[r] = "running" /\ status'[r] \in {"success", "failure"}
         /\ ~(\E k \in 1..Len(main[r]) : <<r, k>> \in faulty') =>
           /\ status'[r] = "success" <=> ~Obstructed(main[r], before[r])
           /\ \A n \in Names \ Made(r) : dir'[n] = before[r][n]
           /\ IF status'[r] = "success" THEN \A n \in Made(r) : dir'[n] = None
              ELSE Obstructed(main[r], dir')]_vars

\* A file the user has saved under a name of his own is neither removed nor overwritten,
\* unless it appeared after unlink had looked for it, or access() failed for another
\* reason than its absence (file-system/unlink, "please us a file that does not exist").
UserFilesSurvive ==
    mine \in saved /\ (dir[mine] # File(mine, 0) \/ dir[mine] \in spoilt) =>
        mine \in raced \/ \E r \in Procs : main[r] = unlink_main(mine) /\ <<r, 1>> \in faulty

\* When files/dup2 has ended, whichever of its calls failed, its standard output is the
\* terminal again and its temporary file is gone, unless the very call that was to do so
\* failed, and EXIT_FAILURE says whether any did.  The others leave their temporary file
\* behind when a call in between fails, but never silently.
CleanupIsComplete ==
    \A r \in Procs : status[r] \in {"success", "failure"} =>
        /\ main[r] = dup2_main =>
             /\ stdout[r] = "file" => <<r, 7>> \in faulty
             /\ dir[r] # None => <<r, 10>> \in faulty
             /\ status[r] = "failure" <=> \E k \in 1..10 : <<r, k>> \in faulty
        /\ dir[r] # None => status[r] = "failure"
===============================================================================
