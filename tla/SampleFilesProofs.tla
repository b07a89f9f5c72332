--------------------------- MODULE SampleFilesProofs ---------------------------
(***************************************************************************)
(* For any number of runs of the programs side by side, with any number    *)
(* of kills and faults: the file the user keeps under a name of his own    *)
(* survives, files/dup2 cleans up, and a run that nothing disturbs does    *)
(* what its program says and leaves every other name alone.                *)
(***************************************************************************)
EXTENDS SampleFiles, SequenceTheorems, FiniteSetTheorems, TLAPS

-------------------------------------------------------------------------------
(* What the programs call                                                  *)

Making == {"create", "create_222", "truncate", "mkdir", "mkstemp", "shm_open", "unlink", "rmdir"}
Looking == {"absent", "stat", "lstat", "chmod", "fstat", "write", "ftruncate", "dup", "dup2",
            "restore", "close", "close_saved"}

\* The programs with a temporary name.
Temps == {mkdtemp_main, mkstemp_main, sync_main, ftruncate_main, dup2_main}

\* What is used of the calls: none writes through a symbolic link, only unlink is given
\* a name to make and remove, and it looks first; only dup2 goes on after a failure
\* that counts; the last call of a program with a temporary name removes it.
CallFacts(m, c, j) ==
    /\ c.op \in Making \cup Looking \cup {"link", "symlink", "rename"}
    /\ c.otherwise \in {"exit", "go_on", "cleanup", "note"}
    /\ c.otherwise \in {"cleanup", "note"} => m = dup2_main
    /\ c.a \in FixedNames \cup {templ} /\ c.b \in FixedNames \cup {templ}
    /\ c.op \in {"create", "create_222", "truncate"} => c.a \notin {soft_link, link_name, templ}
    /\ c.op \in Making /\ c.a = mine => m = unlink_main(mine) /\ j > 1
    /\ c.op = "symlink" => \/ c.b = soft_link /\ c.a = example
                           \/ c.b = link_name /\ c.a \in Paths
    /\ c.op = "link" => c.a = example /\ c.b = hard_link
    /\ c.op = "rename" => c.a = old_file /\ c.b = new_file
    /\ m \notin Temps => c.a # templ
    /\ m \in Temps \ {dup2_main} /\ j = Len(m) =>
          c.op \in {"unlink", "rmdir"} /\ c.a = templ /\ c.otherwise = "exit"

USE DEF example, hard_link, soft_link, link_name, example_dir, file_txt, file1, file2, old_file,
        new_file, shm_name, mine, templ

LEMMA TempsBegin == \A m \in Temps : m[1].a = templ
  BY DEF Temps, mkdtemp_main, mkstemp_main, sync_main, ftruncate_main, dup2_main, Call, Do

LEMMA MainsCalls == \A m \in Mains : \A j \in 1..Len(m) : CallFacts(m, m[j], j)
<1> USE DEF CallFacts, Call, Do, create_sample_file, Making, Looking, FixedNames, Paths
<1> SUFFICES ASSUME NEW m \in Mains, NEW j \in 1..Len(m) PROVE CallFacts(m, m[j], j)
  OBVIOUS
<1>1. CASE m = chmod_main
  BY <1>1, TempsBegin DEF chmod_main
<1>2. CASE m = link_main
  BY <1>2, TempsBegin DEF link_main
<1>3. CASE m = symlink_main
  BY <1>3, TempsBegin DEF symlink_main
<1>4. CASE m = rename_main
  BY <1>4, TempsBegin DEF rename_main
<1>5. CASE m = truncate_main
  BY <1>5, TempsBegin DEF truncate_main
<1>6. CASE m = umask_main
  BY <1>6, TempsBegin DEF umask_main
<1>7. CASE m = mkdir_main
  BY <1>7, TempsBegin DEF mkdir_main
<1>8. CASE m = mkdtemp_main
  BY <1>8 DEF Temps, mkdtemp_main
<1>9. CASE m = mkstemp_main
  BY <1>9 DEF Temps, mkstemp_main
<1>10. CASE m = sync_main
  BY <1>10 DEF Temps, sync_main
<1>11. CASE m = ftruncate_main
  BY <1>11 DEF Temps, ftruncate_main
<1>12. CASE m = shm_main
  BY <1>12, TempsBegin DEF shm_main
<1>13. CASE m = dup2_main
  BY <1>13 DEF Temps, dup2_main
<1>14. ASSUME NEW p \in Paths, m = lstat_main(p) PROVE CallFacts(m, m[j], j)
  BY <1>14, TempsBegin DEF lstat_main
<1>15. ASSUME NEW p \in Paths, m = unlink_main(p) PROVE CallFacts(m, m[j], j)
  BY <1>15, TempsBegin DEF unlink_main
<1> QED
  BY <1>1, <1>2, <1>3, <1>4, <1>5, <1>6, <1>7, <1>8, <1>9, <1>10, <1>11, <1>12, <1>13, <1>14,
     <1>15 DEF Mains

LEMMA MainsLengths == \A m \in Mains : Len(m) \in Nat \ {0}
<1> SUFFICES ASSUME NEW m \in Mains PROVE Len(m) \in Nat \ {0}
  OBVIOUS
<1>1. \A p \in Paths : Len(lstat_main(p)) = 4 /\ Len(unlink_main(p)) = 4
  BY DEF lstat_main, unlink_main
<1>2. CASE m \in {chmod_main, link_main, symlink_main, rename_main, truncate_main, umask_main,
                  mkdir_main}
  BY <1>2 DEF chmod_main, link_main, symlink_main, rename_main, truncate_main, umask_main,
              mkdir_main
<1>3. CASE m \in {mkdtemp_main, mkstemp_main, sync_main, ftruncate_main, shm_main}
  BY <1>3 DEF mkdtemp_main, mkstemp_main, sync_main, ftruncate_main, shm_main
<1>4. CASE m = dup2_main
  BY <1>4 DEF dup2_main
<1> QED BY <1>1, <1>2, <1>3, <1>4 DEF Mains

Entries == {None, Directory} \cup {Symlink(n) : n \in Names}
           \cup {File(b, i) : b \in Names, i \in Nat}

TypeOK ==
    /\ main \in [Procs -> Mains \cup {<<>>}] /\ at \in [Procs -> Nat \ {0}]
    /\ status \in [Procs -> {"new", "running", "success", "failure", "killed"}]
    /\ dir \in [Names -> Entries]
    /\ failed \in [Procs -> BOOLEAN]

\* Where a run is in its program.
Places == /\ \A r \in Procs : status[r] = "new" => main[r] = <<>> /\ at[r] = 1
          /\ \A r \in Running : main[r] \in Mains /\ at[r] \in 1..Len(main[r])

\* The symbolic links there can be.
Symlinks == \A n \in Names : dir[n].kind = "symlink" =>
               \/ n = soft_link /\ dir[n].to = example
               \/ n = link_name /\ dir[n].to \in Paths

\* The run of unlink that did not see the user's file, or could not.
Blame == mine \in raced \/ \E r \in Procs : main[r] = unlink_main(mine) /\ <<r, 1>> \in faulty

\* The user's file is under its name only, and nobody is about to create that name
\* without having been unlucky.
UserFile ==
    /\ \A n \in Names : dir[n] = File(mine, 0) => n = mine /\ mine \in saved
    /\ File(mine, 0) \in spoilt => mine \in saved
    /\ mine \in saved /\ ~Blame => dir[mine] = File(mine, 0) /\ File(mine, 0) \notin spoilt
    /\ \A r \in Running : main[r] = unlink_main(mine) /\ at[r] > 1 /\ mine \in saved => Blame

FInv == TypeOK /\ Places /\ Symlinks /\ UserFile

\* The temporary name of a run, and the locals and descriptors of files/dup2.
Cleanup(r) ==
    /\ status[r] = "new" => /\ dir[r] = None /\ stdout[r] = "terminal" /\ ~failed[r]
                            /\ \A k \in Nat : <<r, k>> \notin faulty
    /\ status[r] = "running" =>
         /\ (at[r] = 1 \/ main[r] \notin Temps) => dir[r] = None
         /\ main[r] = dup2_main =>
              /\ dir[r] = None \/ dir[r].kind = "file"
              /\ failed[r] <=> \E k \in 1..10 : <<r, k>> \in faulty
              /\ at[r] <= 4 => stdout[r] = "terminal"
              /\ at[r] = 4 => "saved" \in open[r]
              /\ at[r] <= 7 /\ stdout[r] = "file" => "saved" \in open[r]
              /\ at[r] > 7 /\ stdout[r] = "file" => <<r, 7>> \in faulty
    /\ status[r] \in {"success", "failure"} =>
         /\ main[r] = dup2_main =>
              /\ stdout[r] = "file" => <<r, 7>> \in faulty
              /\ dir[r] # None => <<r, 10>> \in faulty
              /\ status[r] = "failure" <=> \E k \in 1..10 : <<r, k>> \in faulty
         /\ dir[r] # None => status[r] = "failure"

DescriptorsOK == /\ stdout \in [Procs -> {"terminal", "file"}]
                 /\ open \in [Procs -> SUBSET {"temp", "saved"}]

CInv == FInv /\ DescriptorsOK /\ \A r \in Procs : Cleanup(r)

-------------------------------------------------------------------------------
(* What a call does to the directory                                       *)

USE TemporaryNamesAreFresh

LEMMA RunCalls ==
    ASSUME TypeOK, Places, NEW r \in Running
    PROVE  /\ r \in Procs /\ CallFacts(main[r], Current(r), at[r])
           /\ Source(r) = IF Current(r).a = templ THEN r ELSE Current(r).a
           /\ Target(r) = IF Current(r).b = templ THEN r ELSE Current(r).b
           /\ Source(r) \in Names /\ Target(r) \in Names
<1>1. r \in Procs /\ CallFacts(main[r], Current(r), at[r])
  BY MainsCalls DEF Running, Places, Current
<1>2. Current(r).a \in FixedNames \cup {templ} /\ Current(r).b \in FixedNames \cup {templ}
  BY <1>1 DEF CallFacts
<1> QED BY <1>1, <1>2 DEF Source, Target, Names

\* The calls that follow a symbolic link to a file they write never meet one.
LEMMA NoFollow ==
    ASSUME TypeOK, Symlinks, NEW n \in Names \ {soft_link, link_name}
    PROVE  Follow(n) = n
  BY DEF Follow, Is, Symlinks

LEMMA EntryKinds ==
    /\ None.kind = "none" /\ Directory.kind = "dir"
    /\ \A n : Symlink(n).kind = "symlink" /\ Symlink(n).to = n
    /\ \A b, i : File(b, i).kind = "file" /\ File(b, i).by = b /\ File(b, i).step = i
    /\ \A n \in Names : Symlink(n) \in Entries
    /\ \A b \in Names, i \in Nat : File(b, i) \in Entries
    /\ None \in Entries /\ Directory \in Entries
<1>1. /\ None.kind = "none" /\ Directory.kind = "dir"
      /\ \A n : Symlink(n).kind = "symlink" /\ Symlink(n).to = n
      /\ \A b, i : File(b, i).kind = "file" /\ File(b, i).by = b /\ File(b, i).step = i
  BY DEF None, Directory, Symlink, File
<1>2. \A n \in Names : Symlink(n) \in Entries
  BY DEF Entries
<1>3. \A b \in Names, i \in Nat : File(b, i) \in Entries
  BY DEF Entries
<1>4. None \in Entries /\ Directory \in Entries
  BY DEF Entries
<1> QED BY <1>1, <1>2, <1>3, <1>4, ZenonT(30)

\* Writable files, new files and directories go under the name the call is given.
LEMMA EffectDir ==
    ASSUME TypeOK, Places, Symlinks, NEW r \in Running, Effect(r)
    PROVE  /\ dir' \in [Names -> Entries]
           /\ \A n \in Names :
                 \/ dir'[n] = dir[n]
                 \/ Current(r).op \in Making /\ n = Source(r)
                    /\ dir'[n] \in {None, Directory, File(r, at[r])}
                 \/ n = soft_link /\ dir'[n] = Symlink(example)
                 \/ n = link_name /\ \E p \in Paths : dir'[n] = Symlink(p)
                 \/ n = hard_link /\ dir'[n] = dir[example]
                 \/ n = old_file /\ dir'[n] = None
                 \/ n = new_file /\ dir'[n] = dir[old_file]
           /\ \/ spoilt' = spoilt
              \/ Current(r).op \in Making /\ spoilt' = spoilt \cup {dir[Source(r)]}
<1> DEFINE op == Current(r).op
           a == Source(r)
           b == Target(r)
           new == File(r, at[r])
<1>1. /\ r \in Procs /\ CallFacts(main[r], Current(r), at[r]) /\ a \in Names /\ b \in Names
      /\ a = (IF Current(r).a = templ THEN r ELSE Current(r).a)
      /\ b = (IF Current(r).b = templ THEN r ELSE Current(r).b)
  BY RunCalls
<1>2. op \in {"create", "create_222", "truncate"} => Follow(a) = a
  <2>1. op \in {"create", "create_222", "truncate"} => a \notin {soft_link, link_name}
    BY <1>1 DEF CallFacts
  <2> QED BY <1>1, <2>1, NoFollow
<1>3. new \in Entries /\ Directory \in Entries /\ None \in Entries
  BY <1>1, EntryKinds DEF TypeOK, Names
<1>4. CASE /\ op \in {"create", "create_222"} /\ Put(Follow(a), new) /\ UNCHANGED spoilt
  BY <1>1, <1>2, <1>3, <1>4 DEF Put, TypeOK, Making
<1>5. CASE /\ op \in {"create", "create_222", "truncate"}
           /\ spoilt' = spoilt \cup {dir[Follow(a)]} /\ UNCHANGED <<dir, readonly>>
  BY <1>2, <1>5 DEF TypeOK, Making
<1>6. CASE UNCHANGED <<dir, spoilt>>
  BY <1>6 DEF TypeOK
<1>7. CASE op \in {"mkdir", "mkstemp", "shm_open", "unlink", "rmdir"} /\ UNCHANGED spoilt
           /\ \E e \in {None, Directory, new, dir[a]} : Put(a, e)
  BY <1>1, <1>3, <1>7 DEF Put, TypeOK, Making
<1>8. CASE op = "link" /\ Put(b, dir[a]) /\ UNCHANGED spoilt
  <2>1. a = example /\ b = hard_link
    BY <1>1, <1>8 DEF CallFacts
  <2> QED BY <1>1, <1>8, <2>1 DEF Put, TypeOK
<1>9. CASE op = "symlink" /\ Put(b, Symlink(a)) /\ UNCHANGED spoilt
  <2>1. (b = soft_link /\ a = example) \/ (b = link_name /\ a \in Paths)
    BY <1>1, <1>9 DEF CallFacts, Paths
  <2> QED BY <1>1, <1>9, <2>1, EntryKinds DEF Put, TypeOK
<1>10. CASE op = "rename" /\ dir' = [dir EXCEPT ![b] = dir[a], ![a] = None] /\ UNCHANGED spoilt
  <2>1. a = old_file /\ b = new_file
    BY <1>1, <1>10 DEF CallFacts
  <2> QED BY <1>1, <1>3, <1>10, <2>1 DEF TypeOK
<1> QED
  BY <1>4, <1>5, <1>6, <1>7, <1>8, <1>9, <1>10 DEF Effect, fileVars

-------------------------------------------------------------------------------
(* What a step does to the other state                                     *)

\* The run goes to call k, or is over; a call that fails for a reason outside the
\* directory is remembered.
Moves(r, k, st) ==
    /\ k \in Nat \ {0} /\ at' = [at EXCEPT ![r] = k]
    /\ st \in {"running", "success", "failure"} /\ status' = [status EXCEPT ![r] = st]
    /\ st = "running" => k \in 1..Len(main[r])
    /\ failed' \in [Procs -> BOOLEAN] /\ \A q \in Procs \ {r} : failed'[q] = failed[q]

LEMMA GotoMoves ==
    ASSUME TypeOK, Places, NEW r \in Running, NEW k \in Nat \ {0}, Goto(r, k),
           failed' \in [Procs -> BOOLEAN], \A q \in Procs \ {r} : failed'[q] = failed[q]
    PROVE  \E st : /\ Moves(r, k, st)
                   /\ st = IF k <= Len(main[r]) THEN "running"
                           ELSE IF failed'[r] THEN "failure" ELSE "success"
<1>1. r \in Procs /\ status[r] = "running" /\ Len(main[r]) \in Nat
  BY MainsLengths DEF Running, Places
<1>2. CASE k <= Len(main[r])
  <2>1. status' = [status EXCEPT ![r] = "running"]
    BY <1>1, <1>2 DEF Goto, TypeOK
  <2>2. Moves(r, k, "running")
    BY <1>1, <1>2, <2>1 DEF Goto, Moves
  <2> QED BY <1>2, <2>2
<1>3. CASE ~(k <= Len(main[r])) /\ failed'[r]
  <2>1. status' = [status EXCEPT ![r] = "failure"]
    BY <1>3, Zenon DEF Goto
  <2>2. Moves(r, k, "failure")
    BY <2>1 DEF Goto, Moves
  <2> QED BY <1>3, <2>2, Zenon
<1>4. CASE ~(k <= Len(main[r])) /\ ~failed'[r]
  <2>1. status' = [status EXCEPT ![r] = "success"]
    BY <1>4, Zenon DEF Goto
  <2>2. Moves(r, k, "success")
    BY <2>1 DEF Goto, Moves
  <2> QED BY <1>4, <2>2, Zenon
<1> QED BY <1>2, <1>3, <1>4

\* What Otherwise makes of the local failed.
LEMMA OtherwiseFailed ==
    ASSUME TypeOK, NEW r \in Procs, Otherwise(r)
    PROVE  /\ failed' \in [Procs -> BOOLEAN] /\ \A q \in Procs \ {r} : failed'[q] = failed[q]
           /\ failed'[r] <=> \/ failed[r] \/ Current(r).otherwise = "cleanup"
                             \/ Current(r).otherwise = "note" /\ Works(r)
<1> DEFINE x == failed[r] \/ Current(r).otherwise = "cleanup"
                \/ (Current(r).otherwise = "note" /\ Works(r))
<1>1. failed' = [failed EXCEPT ![r] = x]
  BY Zenon DEF Otherwise
<1>2. x \in BOOLEAN
  BY Zenon
<1> HIDE DEF x
<1>3. failed' \in [Procs -> BOOLEAN] /\ failed'[r] = x /\ \A q \in Procs \ {r} : failed'[q] = failed[q]
  BY <1>1, <1>2 DEF TypeOK
<1> QED BY <1>3, Zenon DEF x

LEMMA OtherwiseMoves ==
    ASSUME TypeOK, Places, NEW r \in Running, Otherwise(r)
    PROVE  \E k, st : Moves(r, k, st)
<1>1. r \in Procs /\ at[r] \in Nat \ {0} /\ at[r] + 1 \in Nat \ {0} /\ cleanup \in Nat \ {0}
  BY DEF Running, TypeOK, cleanup
<1>2. failed' \in [Procs -> BOOLEAN] /\ \A q \in Procs \ {r} : failed'[q] = failed[q]
  BY <1>1, OtherwiseFailed
<1>3. CASE Current(r).otherwise = "exit"
  <2>1. status' = [status EXCEPT ![r] = "failure"] /\ UNCHANGED at
    BY <1>3 DEF Otherwise
  <2>2. Moves(r, at[r], "failure")
    BY <1>1, <1>2, <2>1 DEF Moves, TypeOK
  <2> QED BY <2>2
<1>4. CASE Current(r).otherwise = "cleanup"
  <2>1. Goto(r, cleanup)
    BY <1>4 DEF Otherwise
  <2> QED BY <1>1, <1>2, <2>1, GotoMoves
<1>5. CASE Current(r).otherwise \notin {"exit", "cleanup"}
  <2>1. Goto(r, at[r] + 1)
    BY <1>5 DEF Otherwise
  <2> QED BY <1>1, <1>2, <2>1, GotoMoves
<1> QED BY <1>3, <1>4, <1>5

LEMMA StepMoves ==
    ASSUME TypeOK, Places, NEW r \in Procs, Step(r)
    PROVE  /\ r \in Running /\ UNCHANGED <<main, saved, raced>>
           /\ \E k, st : Moves(r, k, st)
           /\ Effect(r) \/ UNCHANGED fileVars
           /\ faulty' \in {faulty, faulty \cup {<<r, at[r]>>}}
<1> USE DEF history
<1>1. r \in Running /\ at[r] + 1 \in Nat \ {0}
  BY DEF Step, Running, TypeOK
<1>2. CASE Succeed(r) \/ Skip(r)
  <2>1. UNCHANGED failed /\ Goto(r, at[r] + 1)
    BY <1>2 DEF Succeed, Skip
  <2>2. \E k, st : Moves(r, k, st)
    BY <1>1, <2>1, GotoMoves DEF TypeOK
  <2> QED BY <1>1, <1>2, <2>2 DEF Succeed, Skip
<1>3. CASE Fail(r)
  BY <1>1, <1>3, OtherwiseMoves DEF Fail, Otherwise
<1>4. CASE Fault(r) /\ Current(r).op = "absent"
  <2>1. UNCHANGED failed /\ Goto(r, at[r] + 1)
    BY <1>4 DEF Fault
  <2>2. \E k, st : Moves(r, k, st)
    BY <1>1, <2>1, GotoMoves DEF TypeOK
  <2> QED BY <1>1, <1>4, <2>2 DEF Fault
<1>5. CASE Fault(r) /\ Current(r).op # "absent"
  <2>1. Otherwise(r)
    BY <1>5 DEF Fault
  <2> QED BY <1>1, <1>5, <2>1, OtherwiseMoves DEF Fault, Otherwise
<1> QED BY <1>2, <1>3, <1>4, <1>5 DEF Step

-------------------------------------------------------------------------------
(* The user's file                                                         *)

LEMMA InitFInv == Init => FInv
<1> SUFFICES ASSUME Init PROVE FInv
  OBVIOUS
<1>1. \A n \in Names : dir[n] = IF n \in saved THEN File(n, 0) ELSE None
  BY DEF Init
<1>2. TypeOK
  <2>1. dir \in [Names -> Entries]
    BY <1>1, EntryKinds DEF Init
  <2> QED BY <2>1 DEF Init, TypeOK
<1>3. Places
  BY DEF Init, Places, Running
<1>4. Symlinks
  BY <1>1, EntryKinds DEF Symlinks
<1>5. UserFile
  <2>1. ASSUME NEW n \in Names, dir[n] = File(mine, 0) PROVE n = mine /\ mine \in saved
    BY <1>1, <2>1, EntryKinds
  <2>2. mine \in saved => dir[mine] = File(mine, 0)
    BY <1>1 DEF Names, FixedNames, Paths
  <2>3. spoilt = {} /\ Running = {}
    BY DEF Init, Running
  <2> QED BY <2>1, <2>2, <2>3 DEF UserFile
<1> QED BY <1>2, <1>3, <1>4, <1>5 DEF FInv

\* Blame stays.
LEMMA BlameStays ==
    ASSUME TypeOK, Places, Blame, raced \subseteq raced', faulty \subseteq faulty',
           \A r \in Procs : main'[r] = main[r] \/ status[r] = "new"
    PROVE  Blame'
<1>1. CASE mine \in raced
  BY <1>1 DEF Blame
<1>2. ASSUME NEW r \in Procs, main[r] = unlink_main(mine), <<r, 1>> \in faulty PROVE Blame'
  <2>1. status[r] # "new"
    BY <1>2 DEF Places, unlink_main
  <2> QED BY <1>2, <2>1 DEF Blame
<1> QED BY <1>1, <1>2 DEF Blame

LEMMA StepFInv == ASSUME FInv, NEW r \in Procs, Step(r) PROVE FInv'
<1> USE DEF FInv
<1>1. /\ r \in Running /\ UNCHANGED <<main, saved, raced>>
      /\ Effect(r) \/ UNCHANGED fileVars
      /\ faulty' \in {faulty, faulty \cup {<<r, at[r]>>}} /\ faulty \subseteq faulty'
  BY StepMoves
<1>2. PICK k, st : Moves(r, k, st)
  BY StepMoves
<1>3. /\ dir' \in [Names -> Entries]
      /\ \A n \in Names :
            \/ dir'[n] = dir[n]
            \/ Current(r).op \in Making /\ n = Source(r)
               /\ dir'[n] \in {None, Directory, File(r, at[r])}
            \/ n = soft_link /\ dir'[n] = Symlink(example)
            \/ n = link_name /\ \E p \in Paths : dir'[n] = Symlink(p)
            \/ n = hard_link /\ dir'[n] = dir[example]
            \/ n = old_file /\ dir'[n] = None
            \/ n = new_file /\ dir'[n] = dir[old_file]
      /\ \/ spoilt' = spoilt
         \/ Current(r).op \in Making /\ spoilt' = spoilt \cup {dir[Source(r)]}
  <2>1. CASE Effect(r)
    BY <1>1, <2>1, EffectDir
  <2>2. CASE UNCHANGED fileVars
    BY <2>2 DEF fileVars, TypeOK
  <2> QED BY <1>1, <2>1, <2>2
<1>4. TypeOK'
  BY <1>1, <1>2, <1>3 DEF TypeOK, Moves
<1>5. \A q \in Procs : /\ at'[q] = IF q = r THEN k ELSE at[q]
                       /\ status'[q] = IF q = r THEN st ELSE status[q]
  BY <1>2 DEF TypeOK, Moves
<1>6. Places'
  <2>1. ASSUME NEW q \in Procs, status'[q] = "new" PROVE main'[q] = <<>> /\ at'[q] = 1
    BY <1>1, <1>2, <1>5, <2>1 DEF Places, Moves
  <2>2. ASSUME NEW q \in Running' PROVE main'[q] \in Mains /\ at'[q] \in 1..Len(main'[q])
    BY <1>1, <1>2, <1>5 DEF Places, Moves, Running
  <2> QED BY <2>1, <2>2 DEF Places
<1>7. Symlinks'
  <2>1. dir[example].kind # "symlink" /\ dir[old_file].kind # "symlink"
    BY DEF Symlinks, Names, FixedNames, Paths
  <2>2. example \in Paths
    BY DEF Paths
  <2> QED BY <1>3, <2>1, <2>2, EntryKinds DEF Symlinks
<1>8. Blame => Blame'
  BY <1>1, BlameStays
<1>9. UserFile'
  <2>0. r \in Procs /\ CallFacts(main[r], Current(r), at[r])
        /\ Source(r) = (IF Current(r).a = templ THEN r ELSE Current(r).a)
        /\ Source(r) \in Names
    BY <1>1, RunCalls
  <2>1. Current(r).op \in Making /\ Source(r) = mine => main[r] = unlink_main(mine) /\ at[r] > 1
    BY <2>0 DEF CallFacts, FixedNames, Paths
  <2>2. example # mine /\ old_file # mine /\ {mine, example, old_file} \subseteq Names
    BY DEF Names, FixedNames, Paths
  <2>3. File(mine, 0) \notin {None, Directory, File(r, at[r])}
        /\ \A p : Symlink(p) # File(mine, 0)
    BY <2>0, EntryKinds DEF TypeOK
  <2>4. ASSUME NEW n \in Names, dir'[n] = File(mine, 0)
        PROVE  n = mine /\ mine \in saved
    <3>1. dir[n] = File(mine, 0)
      BY <1>3, <2>2, <2>3, <2>4 DEF UserFile
    <3> QED BY <3>1 DEF UserFile
  <2>5. ASSUME File(mine, 0) \in spoilt' PROVE mine \in saved
    BY <1>3, <2>0, <2>5 DEF UserFile
  <2>6. ASSUME mine \in saved, ~Blame
        PROVE  dir'[mine] = File(mine, 0) /\ File(mine, 0) \notin spoilt'
    <3>1. ~(Current(r).op \in Making /\ Source(r) = mine)
      BY <1>1, <2>1, <2>6 DEF UserFile
    <3>2. dir'[mine] = dir[mine]
      BY <1>3, <2>2, <3>1
    <3>3. Current(r).op \in Making => dir[Source(r)] # File(mine, 0)
      BY <2>0, <3>1 DEF UserFile
    <3> QED BY <1>3, <2>6, <3>2, <3>3 DEF UserFile
  <2>7. ASSUME NEW q \in Running', main[q] = unlink_main(mine), at'[q] > 1, mine \in saved
        PROVE  Blame'
    <3>1. CASE q # r
      BY <1>5, <1>8, <2>7, <3>1 DEF UserFile, Running
    <3>2. CASE q = r /\ at[r] > 1
      BY <1>1, <1>8, <2>7, <3>2 DEF UserFile
    <3>3. CASE q = r /\ ~(at[r] > 1)
      <4>1. at[r] = 1 /\ Current(r) = Do("absent", mine) /\ status'[r] = "running"
        <5>1. at[r] = 1
          BY <3>3 DEF TypeOK
        <5> QED BY <2>7, <3>3, <5>1 DEF Current, unlink_main, Running
      <4>2. Current(r).op = "absent" /\ Current(r).a = mine /\ Current(r).otherwise = "exit"
        BY <4>1 DEF Do, Call
      <4>3. ~Skipped(r)
        BY <4>2 DEF Skipped
      <4>4. CASE Fault(r)
        <5>1. <<r, 1>> \in faulty'
          BY <4>1, <4>4 DEF Fault
        <5> QED BY <1>1, <2>7, <3>3, <5>1 DEF Blame
      <4>5. CASE Fail(r)
        <5>1. status' = [status EXCEPT ![r] = "failure"]
          BY <4>2, <4>5 DEF Fail, Otherwise
        <5> QED BY <4>1, <5>1 DEF TypeOK
      <4>6. CASE Succeed(r)
        <5>1. Works(r)
          BY <4>6 DEF Succeed
        <5>2. Source(r) = mine /\ Follow(mine) = mine
          BY <2>0, <2>2, <4>2, NoFollow
        <5>3. Is(mine, {"none"})
          BY <4>2, <5>1, <5>2 DEF Works
        <5>4. dir[mine] # File(mine, 0)
          BY <5>3, EntryKinds DEF Is
        <5> QED BY <1>8, <2>7, <5>4 DEF UserFile
      <4>7. CASE Skip(r)
        BY <4>3, <4>7 DEF Skip
      <4> QED BY <4>4, <4>5, <4>6, <4>7 DEF Step
    <3> QED BY <3>1, <3>2, <3>3
  <2> QED BY <1>1, <1>8, <2>4, <2>5, <2>6, <2>7 DEF UserFile
<1> QED BY <1>4, <1>6, <1>7, <1>9

LEMMA StartFInv == ASSUME FInv, NEW r \in Procs, start(r) PROVE FInv'
<1> USE DEF FInv
<1>1. PICK m \in Mains : main' = [main EXCEPT ![r] = m]
  BY DEF start
<1>2. /\ status[r] = "new" /\ status' = [status EXCEPT ![r] = "running"]
      /\ UNCHANGED <<at, failed, dir, spoilt, saved, raced, faulty>>
  BY DEF start, fileVars
<1>3. \A q \in Procs : /\ main'[q] = IF q = r THEN m ELSE main[q]
                       /\ status'[q] = IF q = r THEN "running" ELSE status[q]
  BY <1>1, <1>2 DEF TypeOK
<1>4. TypeOK'
  BY <1>1, <1>2 DEF TypeOK
<1>5. Places'
  <2>1. Len(m) \in Nat \ {0} /\ at[r] = 1
    BY <1>2, MainsLengths DEF Places
  <2>2. 1 \in 1..Len(m)
    BY <2>1
  <2> QED BY <1>1, <1>2, <1>3, <2>1, <2>2 DEF Places, Running
<1>6. Symlinks'
  BY <1>2 DEF Symlinks
<1>7. Blame => Blame'
  BY <1>2, <1>3, BlameStays
<1>8. UserFile'
  <2>1. ASSUME NEW q \in Running', main'[q] = unlink_main(mine), at'[q] > 1, mine \in saved'
        PROVE  Blame'
    <3>1. q # r
      BY <1>2, <2>1 DEF Places
    <3>2. q \in Running /\ main[q] = unlink_main(mine) /\ at[q] > 1 /\ mine \in saved
      BY <1>2, <1>3, <2>1, <3>1 DEF Running
    <3> QED BY <1>7, <3>2 DEF UserFile
  <2> QED BY <1>2, <1>7, <2>1 DEF UserFile
<1> QED BY <1>4, <1>5, <1>6, <1>8

LEMMA KillFInv == ASSUME FInv, NEW r \in Procs, Kill(r) PROVE FInv'
<1> USE DEF FInv
<1>1. /\ status[r] = "running" /\ status' = [status EXCEPT ![r] = "killed"]
      /\ UNCHANGED <<main, at, failed, dir, spoilt, saved, raced, faulty>>
  BY DEF Kill, fileVars
<1>2. Running' \subseteq Running /\ \A q \in Procs : status'[q] = "new" => status[q] = "new"
  BY <1>1 DEF Running, TypeOK
<1>3. TypeOK' /\ Symlinks'
  BY <1>1 DEF TypeOK, Symlinks
<1>4. Places'
  BY <1>1, <1>2 DEF Places
<1>5. UserFile'
  BY <1>1, <1>2 DEF UserFile, Blame
<1> QED BY <1>3, <1>4, <1>5

LEMMA UserSavesFInv == ASSUME FInv, NEW n \in Paths, UserSaves(n) PROVE FInv'
<1> USE DEF FInv
<1>1. /\ n \notin saved /\ dir[n].kind = "none" /\ dir' = [dir EXCEPT ![n] = File(n, 0)]
      /\ saved' = saved \cup {n} /\ raced \subseteq raced'
      /\ (\E r \in Running : main[r] = unlink_main(n) /\ at[r] > 1) => n \in raced'
      /\ UNCHANGED <<main, at, status, failed, spoilt, faulty>>
  BY DEF UserSaves, Put, Is, procVars
<1>2. n \in Names /\ Paths \subseteq Names /\ mine \in Paths
  BY DEF Names, FixedNames, Paths
<1>3. \A x \in Names : dir'[x] = IF x = n THEN File(n, 0) ELSE dir[x]
  BY <1>1 DEF TypeOK
<1>4. TypeOK'
  <2>1. File(n, 0) \in Entries
    BY <1>2, EntryKinds
  <2> QED BY <1>1, <2>1 DEF TypeOK
<1>5. Running' = Running /\ Places'
  BY <1>1 DEF Places, Running
<1>6. Symlinks'
  BY <1>3, EntryKinds DEF Symlinks
<1>7. Blame => Blame'
  BY <1>1, BlameStays
<1>8. UserFile'
  <2>1. ASSUME NEW x \in Names, dir'[x] = File(mine, 0) PROVE x = mine /\ mine \in saved'
    <3>1. CASE x = n
      <4>1. File(n, 0) = File(mine, 0)
        BY <1>3, <2>1, <3>1
      <4>2. n = mine
        BY <4>1, EntryKinds
      <4> QED BY <1>1, <3>1, <4>2
    <3>2. CASE x # n
      BY <1>1, <1>3, <2>1, <3>2 DEF UserFile
    <3> QED BY <3>1, <3>2
  <2>2. ASSUME mine \in saved', ~Blame'
        PROVE  dir'[mine] = File(mine, 0) /\ File(mine, 0) \notin spoilt'
    BY <1>1, <1>2, <1>3, <1>7, <2>2 DEF UserFile
  <2>3. ASSUME NEW q \in Running, main[q] = unlink_main(mine), at[q] > 1, mine \in saved'
        PROVE  Blame'
    <3>1. CASE n = mine
      BY <1>1, <2>3, <3>1 DEF Blame
    <3>2. CASE n # mine
      BY <1>1, <1>7, <2>3, <3>2 DEF UserFile
    <3> QED BY <3>1, <3>2
  <2>4. File(mine, 0) \in spoilt' => mine \in saved'
    BY <1>1 DEF UserFile
  <2> QED BY <1>1, <1>5, <2>1, <2>2, <2>3, <2>4 DEF UserFile
<1> QED BY <1>4, <1>5, <1>6, <1>8

LEMMA NextFInv == FInv /\ [Next]_vars => FInv'
<1> SUFFICES ASSUME FInv, [Next]_vars PROVE FInv'
  OBVIOUS
<1>1. CASE UNCHANGED vars
  <2>1. /\ UNCHANGED <<main, at, status, failed, dir, spoilt, saved, raced, faulty>>
        /\ Running' = Running
    BY <1>1 DEF vars, procVars, fileVars, history, Running
  <2> QED BY <2>1 DEF FInv, TypeOK, Places, Symlinks, UserFile, Blame
<1> QED BY <1>1, StepFInv, StartFInv, KillFInv, UserSavesFInv DEF Next

\* A file the user has saved under a name of his own is neither removed nor overwritten,
\* however many runs of these programs there are and wherever they are killed or fail,
\* unless it appeared after a run of unlink had looked for it or its access() failed.
THEOREM TheUsersFileSurvives == Spec => []UserFilesSurvive
<1>1. FInv => UserFilesSurvive
  BY DEF FInv, UserFile, Blame, UserFilesSurvive
<1> QED BY <1>1, InitFInv, NextFInv, PTL DEF Spec

-------------------------------------------------------------------------------
(* The cleanup                                                             *)

\* Only a run itself creates, removes or replaces what is under its temporary name.
LEMMA OwnName ==
    ASSUME FInv, NEW q \in Procs, Step(q), NEW r \in Procs, q # r \/ main[q] \notin Temps
    PROVE  dir'[r] = dir[r]
<1> USE DEF FInv
<1>1. q \in Running /\ (Effect(q) \/ UNCHANGED fileVars)
  BY StepMoves
<1>2. r \in Names /\ r \notin FixedNames \cup {templ}
  BY DEF Names
<1>3. r \notin {soft_link, link_name, hard_link, old_file, new_file}
  BY <1>2 DEF FixedNames
<1>4. Source(q) # r
  <2>1. CallFacts(main[q], Current(q), at[q])
        /\ Source(q) = (IF Current(q).a = templ THEN q ELSE Current(q).a)
    BY <1>1, RunCalls
  <2>2. Current(q).a \in FixedNames \cup {templ}
        /\ (main[q] \notin Temps => Current(q).a # templ)
    BY <2>1 DEF CallFacts
  <2> QED BY <1>2, <2>1, <2>2
<1>5. CASE Effect(q)
  BY <1>1, <1>2, <1>3, <1>4, <1>5, EffectDir
<1>6. CASE UNCHANGED fileVars
  BY <1>6 DEF fileVars
<1> QED BY <1>1, <1>5, <1>6

\* What a step of a run does to the descriptors of another.
LEMMA OwnDescriptors ==
    ASSUME CInv, NEW q \in Procs, Step(q)
    PROVE  /\ DescriptorsOK'
           /\ \A r \in Procs \ {q} : stdout'[r] = stdout[r] /\ open'[r] = open[r]
<1>1. CASE UNCHANGED <<stdout, open>>
  BY <1>1 DEF CInv, DescriptorsOK
<1>2. CASE Descriptors(q)
  <2>1. PICK o, c \in SUBSET {"temp", "saved"} : open' = [open EXCEPT ![q] = (@ \cup o) \ c]
    <3> DEFINE o == CASE Current(q).op = "mkstemp" -> {"temp"}
                      [] Current(q).op = "dup"     -> {"saved"}
                      [] OTHER                     -> {}
               c == CASE Current(q).op = "close"       -> {"temp"}
                      [] Current(q).op = "close_saved" -> {"saved"}
                      [] OTHER                         -> {}
    <3>1. o \in SUBSET {"temp", "saved"} /\ c \in SUBSET {"temp", "saved"}
      OBVIOUS
    <3>2. open' = [open EXCEPT ![q] = (@ \cup o) \ c]
      BY <1>2 DEF Descriptors
    <3> QED BY <3>1, <3>2, Zenon
  <2>2. PICK s \in {"terminal", "file"} : stdout' = [stdout EXCEPT ![q] = s]
    <3> DEFINE s == CASE Current(q).op = "dup2"    -> "file"
                      [] Current(q).op = "restore" -> "terminal"
                      [] OTHER                     -> stdout[q]
    <3>1. s \in {"terminal", "file"}
      BY DEF CInv, DescriptorsOK
    <3>2. stdout' = [stdout EXCEPT ![q] = s]
      BY <1>2 DEF Descriptors
    <3> QED BY <3>1, <3>2, Zenon
  <2> QED BY <2>1, <2>2 DEF CInv, DescriptorsOK
<1> QED BY <1>1, <1>2 DEF Step, Succeed, Skip, Fail, Fault, Otherwise

\* What does not concern a run leaves its cleanup alone.
LEMMA CleanupStays ==
    ASSUME NEW r \in Procs, Cleanup(r),
           main'[r] = main[r], at'[r] = at[r], status'[r] = status[r], dir'[r] = dir[r],
           stdout'[r] = stdout[r], open'[r] = open[r], failed'[r] = failed[r],
           \A k : <<r, k>> \in faulty' <=> <<r, k>> \in faulty
    PROVE  Cleanup(r)'
  BY DEF Cleanup

LEMMA OtherCleanup ==
    ASSUME CInv, NEW q \in Procs, Step(q), NEW r \in Procs \ {q}
    PROVE  Cleanup(r)'
<1> USE DEF CInv, FInv
<1>1. PICK k, st : Moves(q, k, st)
  BY StepMoves
<1>2. at'[r] = at[r] /\ status'[r] = status[r] /\ failed'[r] = failed[r]
  BY <1>1 DEF Moves, TypeOK
<1>3. UNCHANGED main /\ faulty' \in {faulty, faulty \cup {<<q, at[q]>>}}
  BY StepMoves
<1>4. dir'[r] = dir[r]
  BY OwnName
<1>5. stdout'[r] = stdout[r] /\ open'[r] = open[r]
  BY OwnDescriptors
<1> QED BY <1>2, <1>3, <1>4, <1>5, CleanupStays

\* A run without a temporary name never has anything under it.
LEMMA PlainCleanup ==
    ASSUME CInv, NEW r \in Procs, Step(r), main[r] \notin Temps
    PROVE  Cleanup(r)'
<1> USE DEF CInv, FInv
<1>1. r \in Running /\ UNCHANGED main
  BY StepMoves
<1>2. PICK k, st : Moves(r, k, st)
  BY StepMoves
<1>3. status'[r] = st /\ st \in {"running", "success", "failure"}
  BY <1>2 DEF Moves, TypeOK
<1>4. dir'[r] = None
  BY <1>1, OwnName DEF Cleanup, Running
<1>5. main'[r] # dup2_main
  BY <1>1 DEF Temps
<1> QED BY <1>1, <1>3, <1>4, <1>5 DEF Cleanup

\* The last call of mkdtemp, mkstemp, sync and ftruncate removes the name, or the run fails.
LEMMA TempCleanup ==
    ASSUME CInv, NEW r \in Procs, Step(r), main[r] \in Temps \ {dup2_main}
    PROVE  Cleanup(r)'
<1> USE DEF CInv, FInv
<1>1. r \in Running /\ UNCHANGED main /\ at[r] \in Nat \ {0} /\ at[r] \in 1..Len(main[r])
      /\ Len(main[r]) \in Nat \ {0}
  BY StepMoves, MainsLengths DEF Places, TypeOK
<1>2. CallFacts(main[r], Current(r), at[r])
      /\ Source(r) = (IF Current(r).a = templ THEN r ELSE Current(r).a)
  BY <1>1, RunCalls
<1>3. ASSUME Goto(r, at[r] + 1), UNCHANGED failed \/ Otherwise(r)
      PROVE  /\ at'[r] > 1 /\ status'[r] \in {"running", "success", "failure"}
             /\ status'[r] = "success" => at[r] = Len(main[r])
  <2>1. failed' \in [Procs -> BOOLEAN] /\ \A q \in Procs \ {r} : failed'[q] = failed[q]
    BY <1>3, OtherwiseFailed DEF TypeOK
  <2>2. PICK st : /\ Moves(r, at[r] + 1, st)
                  /\ st = IF at[r] + 1 <= Len(main[r]) THEN "running"
                          ELSE IF failed'[r] THEN "failure" ELSE "success"
    BY <1>1, <1>3, <2>1, GotoMoves
  <2>3. at'[r] = at[r] + 1 /\ status'[r] = st /\ st \in {"running", "success", "failure"}
    BY <2>2 DEF Moves, TypeOK
  <2>4. at[r] # Len(main[r]) => st = "running"
    BY <1>1, <2>2
  <2> QED BY <1>1, <2>3, <2>4
<1>4. ASSUME Otherwise(r)
      PROVE  status'[r] \in {"running", "failure"} /\ (status'[r] = "running" => at'[r] > 1)
  <2>1. CASE Current(r).otherwise = "exit"
    <3>1. status' = [status EXCEPT ![r] = "failure"]
      BY <1>4, <2>1 DEF Otherwise
    <3> QED BY <3>1 DEF TypeOK
  <2>2. CASE Current(r).otherwise # "exit"
    <3>1. Current(r).otherwise = "go_on" /\ at[r] # Len(main[r])
      BY <1>2, <2>2 DEF CallFacts
    <3>2. Goto(r, at[r] + 1)
      BY <1>4, <3>1 DEF Otherwise
    <3> QED BY <1>3, <1>4, <3>1, <3>2
  <2> QED BY <2>1, <2>2
<1>5. ASSUME status'[r] \in {"running", "success", "failure"}, status'[r] = "running" => at'[r] > 1,
             status'[r] = "success" => dir'[r] = None
      PROVE  Cleanup(r)'
  <2>1. main'[r] \in Temps /\ main'[r] # dup2_main /\ (status'[r] = "running" => at'[r] # 1)
    BY <1>1, <1>5
  <2> QED BY <1>5, <2>1 DEF Cleanup
<1>6. CASE Succeed(r)
  <2>1. /\ at'[r] > 1 /\ status'[r] \in {"running", "success", "failure"}
        /\ status'[r] = "success" => at[r] = Len(main[r])
    BY <1>3, <1>6 DEF Succeed
  <2>2. ASSUME at[r] = Len(main[r]) PROVE dir'[r] = None
    <3>1. Current(r).op \in {"unlink", "rmdir"} /\ Source(r) = r
      BY <1>2, <2>2 DEF CallFacts
    <3>2. dir' = [dir EXCEPT ![r] = None]
      BY <1>6, <3>1 DEF Succeed, Effect, Put
    <3> QED BY <3>2 DEF TypeOK, Names
  <2> QED BY <1>5, <2>1, <2>2
<1>7. CASE Skip(r) \/ (Fault(r) /\ Current(r).op = "absent")
  <2>1. Goto(r, at[r] + 1) /\ UNCHANGED failed
    BY <1>7 DEF Skip, Fault
  <2>2. at[r] # Len(main[r])
    <3>1. at[r] = Len(main[r]) => Current(r).op \in {"unlink", "rmdir"}
      BY <1>2 DEF CallFacts
    <3> QED BY <1>7, <3>1 DEF Skip, Skipped
  <2> QED BY <1>3, <1>5, <2>1, <2>2
<1>8. CASE Fail(r) \/ (Fault(r) /\ Current(r).op # "absent")
  <2>1. Otherwise(r)
    BY <1>8 DEF Fail, Fault
  <2> QED BY <1>4, <1>5, <2>1
<1>9. Succeed(r) \/ Skip(r) \/ Fail(r) \/ Fault(r)
  BY DEF Step
<1> QED BY <1>6, <1>7, <1>8, <1>9

-------------------------------------------------------------------------------
(* files/dup2                                                              *)

\* Where the calls of files/dup2 stand.
LEMMA Dup2Calls ==
    /\ Len(dup2_main) = 10 /\ dup2_main \in Temps
    /\ \A i \in 1..10 :
          /\ dup2_main[i].a = templ /\ dup2_main[i].op # "absent"
          /\ dup2_main[i].otherwise = IF i <= 6 THEN "cleanup" ELSE "note"
          /\ dup2_main[i].op = "mkstemp" <=> i = 1
          /\ dup2_main[i].op = "unlink" <=> i = 10
          /\ dup2_main[i].op = "dup" <=> i = 3
          /\ dup2_main[i].op = "dup2" <=> i = 4
          /\ dup2_main[i].op = "restore" <=> i = 7
          /\ dup2_main[i].op = "close_saved" <=> i = 8
          /\ dup2_main[i].op = "close" <=> i = 9
          /\ i \in {2, 5, 6} => dup2_main[i].op \in {"fstat", "write"}
  BY DEF dup2_main, Call, Temps

\* The directory stands in the way of the last call only.
LEMMA Dup2Works ==
    ASSUME CInv, NEW r \in Procs, status[r] = "running", main[r] = dup2_main
    PROVE  /\ at[r] \in 1..10 /\ Source(r) = r
           /\ at[r] < 10 => Works(r)
           /\ at[r] = 10 => (Works(r) <=> dir[r].kind \in {"file", "symlink"})
<1> USE DEF CInv, FInv
<1>1. at[r] \in 1..10 /\ Current(r) = dup2_main[at[r]]
  <2>1. at[r] \in 1..Len(main[r])
    BY DEF Places, Running
  <2>2. Len(main[r]) = 10
    BY Dup2Calls
  <2> QED BY <2>1, <2>2 DEF Current
<1>2. Source(r) = r
  BY <1>1, Dup2Calls DEF Source
<1>3. ASSUME at[r] < 10 PROVE Works(r)
  <2>1. CASE at[r] = 1
    <3>1. Current(r).op = "mkstemp"
      BY <1>1, <2>1, Dup2Calls
    <3>2. dir[r] = None
      BY <2>1 DEF Cleanup
    <3>3. Is(r, {"none"})
      BY <3>2, EntryKinds DEF Is
    <3> QED BY <1>2, <3>1, <3>3 DEF Works
  <2>2. CASE at[r] # 1
    <3>1. Current(r).op \in {"fstat", "write", "dup", "dup2", "restore", "close", "close_saved"}
      BY <1>1, <1>3, <2>2, Dup2Calls
    <3> QED BY <3>1 DEF Works
  <2> QED BY <2>1, <2>2
<1>4. ASSUME at[r] = 10 PROVE Works(r) <=> dir[r].kind \in {"file", "symlink"}
  <2>1. Current(r).op = "unlink"
    BY <1>1, <1>4, Dup2Calls
  <2> QED BY <1>2, <2>1 DEF Works, Is
<1> QED BY <1>1, <1>2, <1>3, <1>4

\* A step of files/dup2 that does not fail: the effect of each call.
LEMMA Dup2Goes ==
    ASSUME CInv, NEW r \in Procs, status[r] = "running", main[r] = dup2_main,
           Succeed(r) \/ Skip(r)
    PROVE  /\ UNCHANGED <<main, faulty, failed>>
           /\ at'[r] = at[r] + 1
           /\ status'[r] = IF at[r] < 10 THEN "running"
                           ELSE IF failed[r] THEN "failure" ELSE "success"
           /\ dir'[r] = CASE at[r] = 1 -> File(r, 1) [] at[r] = 10 -> None [] OTHER -> dir[r]
           /\ stdout'[r] = IF at[r] = 4 THEN "file"
                           ELSE IF at[r] = 7 /\ "saved" \in open[r] THEN "terminal"
                           ELSE stdout[r]
           /\ at[r] < 7 => open'[r] = open[r] \cup CASE at[r] = 1 -> {"temp"}
                                                     [] at[r] = 3 -> {"saved"}
                                                     [] OTHER     -> {}
<1> USE DEF CInv, FInv
<1> DEFINE i == at[r]
           op == Current(r).op
<1>1. i \in 1..10 /\ Source(r) = r /\ Current(r) = dup2_main[i] /\ r \in Running
  BY Dup2Works DEF Running, Current
<1>2. UNCHANGED <<main, faulty, failed>> /\ Goto(r, i + 1)
  BY DEF Succeed, Skip, history
<1>3. PICK st : /\ Moves(r, i + 1, st)
                /\ st = IF i + 1 <= Len(main[r]) THEN "running"
                        ELSE IF failed'[r] THEN "failure" ELSE "success"
  BY <1>1, <1>2, GotoMoves DEF TypeOK
<1>4. at'[r] = i + 1 /\ status'[r] = st
  BY <1>3 DEF Moves, TypeOK
<1>5. i < 10 => st = "running"
  BY <1>1, <1>3, Dup2Calls
<1>6. i = 10 => st = IF failed[r] THEN "failure" ELSE "success"
  BY <1>1, <1>2, <1>3, Dup2Calls
<1>7. status'[r] = IF i < 10 THEN "running" ELSE IF failed[r] THEN "failure" ELSE "success"
  BY <1>1, <1>4, <1>5, <1>6
<1>8. CASE Skip(r)
  <2>1. UNCHANGED <<stdout, open, dir>> /\ Skipped(r)
    BY <1>8 DEF Skip, fileVars
  <2>2. i \in {7, 8, 9} /\ (i = 7 => ~(stdout[r] = "file" /\ "saved" \in open[r]))
    BY <1>1, <2>1, Dup2Calls DEF Skipped
  <2>3. i = 7 /\ "saved" \in open[r] => stdout[r] = "terminal"
    BY <2>2 DEF DescriptorsOK
  <2> QED BY <1>2, <1>4, <1>7, <2>1, <2>2, <2>3
<1>9. CASE Succeed(r)
  <2>1. dir'[r] = CASE i = 1 -> File(r, 1) [] i = 10 -> None [] OTHER -> dir[r]
    <3>1. CASE i = 1
      <4>1. op = "mkstemp"
        BY <1>1, <3>1, Dup2Calls
      <4>2. dir' = [dir EXCEPT ![r] = File(r, 1)]
        BY <1>1, <1>9, <3>1, <4>1 DEF Succeed, Effect, Put
      <4> QED BY <3>1, <4>2 DEF TypeOK, Names
    <3>2. CASE i = 10
      <4>1. op = "unlink"
        BY <1>1, <3>2, Dup2Calls
      <4>2. dir' = [dir EXCEPT ![r] = None]
        BY <1>1, <1>9, <4>1 DEF Succeed, Effect, Put
      <4> QED BY <3>2, <4>2 DEF TypeOK, Names
    <3>3. CASE i \in 2..9
      <4>1. op \in {"fstat", "write", "dup", "dup2", "restore", "close", "close_saved"}
        BY <1>1, <3>3, Dup2Calls
      <4>2. dir' = dir
        BY <1>9, <4>1 DEF Succeed, Effect, fileVars
      <4> QED BY <3>3, <4>2
    <3> QED BY <1>1, <3>1, <3>2, <3>3
  <2>2. stdout'[r] = IF i = 4 THEN "file" ELSE IF i = 7 THEN "terminal" ELSE stdout[r]
    <3>1. stdout'[r] = CASE op = "dup2" -> "file" [] op = "restore" -> "terminal"
                         [] OTHER -> stdout[r]
      BY <1>9 DEF Succeed, Descriptors, DescriptorsOK
    <3> QED BY <1>1, <3>1, Dup2Calls
  <2>3. i = 7 => "saved" \in open[r]
    BY <1>1, <1>9, Dup2Calls DEF Succeed, Skipped
  <2>4. open'[r] = (open[r] \cup CASE op = "mkstemp" -> {"temp"} [] op = "dup" -> {"saved"}
                                   [] OTHER -> {})
                   \ CASE op = "close" -> {"temp"} [] op = "close_saved" -> {"saved"}
                       [] OTHER -> {}
    BY <1>9 DEF Succeed, Descriptors, DescriptorsOK
  <2>5. i < 7 => open'[r] = open[r] \cup CASE i = 1 -> {"temp"} [] i = 3 -> {"saved"}
                                           [] OTHER -> {}
    BY <1>1, <2>4, Dup2Calls
  <2> QED BY <1>2, <1>4, <1>7, <2>1, <2>2, <2>3, <2>5
<1> QED BY <1>8, <1>9

\* A step of files/dup2 that fails: it goes on with the cleanup, and remembers that,
\* unless only the name was gone already.
LEMMA Dup2Fails ==
    ASSUME CInv, NEW r \in Procs, status[r] = "running", main[r] = dup2_main,
           Fail(r) \/ Fault(r)
    PROVE  /\ UNCHANGED <<main, dir, stdout, open>>
           /\ \/ Works(r) /\ faulty' = faulty \cup {<<r, at[r]>>}
              \/ ~Works(r) /\ faulty' = faulty
           /\ failed'[r] <=> failed[r] \/ Works(r)
           /\ at'[r] = IF at[r] <= 6 THEN 7 ELSE at[r] + 1
           /\ status'[r] = IF at[r] < 10 THEN "running"
                           ELSE IF failed'[r] THEN "failure" ELSE "success"
<1> USE DEF CInv, FInv
<1> DEFINE i == at[r]
           k == IF i <= 6 THEN 7 ELSE i + 1
<1>1. i \in 1..10 /\ Current(r) = dup2_main[i] /\ r \in Running /\ (i < 10 => Works(r))
  BY Dup2Works DEF Running, Current
<1>2. Current(r).op # "absent" /\ Current(r).otherwise = IF i <= 6 THEN "cleanup" ELSE "note"
  BY <1>1, Dup2Calls
<1>3. /\ Otherwise(r)
      /\ \/ Works(r) /\ faulty' = faulty \cup {<<r, i>>}
         \/ ~Works(r) /\ faulty' = faulty
  BY <1>2 DEF Fail, Fault
<1>4. UNCHANGED <<main, dir, stdout, open>>
  BY <1>3 DEF Otherwise, fileVars
<1>5. /\ failed' \in [Procs -> BOOLEAN] /\ \A q \in Procs \ {r} : failed'[q] = failed[q]
      /\ failed'[r] <=> \/ failed[r] \/ Current(r).otherwise = "cleanup"
                        \/ Current(r).otherwise = "note" /\ Works(r)
  BY <1>3, OtherwiseFailed
<1>6. failed'[r] <=> failed[r] \/ Works(r)
  <2>1. CASE i <= 6
    <3>1. Current(r).otherwise = "cleanup" /\ Works(r)
      BY <1>1, <1>2, <2>1
    <3> QED BY <1>5, <3>1, Zenon
  <2>2. CASE ~(i <= 6)
    <3>1. Current(r).otherwise = "note" /\ "note" # "cleanup"
      BY <1>2, <2>2
    <3>2. Current(r).otherwise # "cleanup"
      BY <3>1
    <3> QED BY <1>5, <3>1, <3>2, Zenon
  <2> QED BY <2>1, <2>2
<1>7. Goto(r, k)
  <2>1. Current(r).otherwise # "exit" /\ (Current(r).otherwise = "cleanup" <=> i <= 6)
    BY <1>2
  <2>2. Goto(r, IF Current(r).otherwise = "cleanup" THEN cleanup ELSE i + 1)
    BY <1>3, <2>1 DEF Otherwise
  <2>3. (IF Current(r).otherwise = "cleanup" THEN cleanup ELSE i + 1) = k
    BY <2>1 DEF cleanup
  <2> QED BY <2>2, <2>3
<1>8. k \in Nat \ {0} /\ (k <= 10 <=> i < 10)
  BY <1>1
<1> HIDE DEF k
<1>9. PICK st : /\ Moves(r, k, st)
                /\ st = IF k <= Len(main[r]) THEN "running"
                        ELSE IF failed'[r] THEN "failure" ELSE "success"
  BY <1>1, <1>5, <1>7, <1>8, GotoMoves
<1>10. at'[r] = k /\ status'[r] = st
  BY <1>9 DEF Moves, TypeOK
<1>11. status'[r] = IF i < 10 THEN "running" ELSE IF failed'[r] THEN "failure" ELSE "success"
  BY <1>8, <1>9, <1>10, Dup2Calls
<1> QED BY <1>3, <1>4, <1>6, <1>10, <1>11 DEF k

LEMMA Dup2Cleanup ==
    ASSUME CInv, NEW r \in Procs, Step(r), main[r] = dup2_main
    PROVE  Cleanup(r)'
<1> USE DEF CInv
<1> DEFINE i == at[r]
           Faults == \E k \in 1..10 : <<r, k>> \in faulty
<1>1. status[r] = "running" /\ i \in 1..10 /\ (i < 10 => Works(r))
      /\ (i = 10 => (Works(r) <=> dir[r].kind \in {"file", "symlink"}))
  BY Dup2Works DEF Step
<1>2. /\ i = 1 => dir[r] = None
      /\ dir[r] = None \/ dir[r].kind = "file"
      /\ i <= 4 => stdout[r] = "terminal"
      /\ i = 4 => "saved" \in open[r]
      /\ i <= 7 /\ stdout[r] = "file" => "saved" \in open[r]
      /\ i > 7 /\ stdout[r] = "file" => <<r, 7>> \in faulty
  BY <1>1 DEF Cleanup
<1>3. failed[r] <=> Faults
  BY <1>1 DEF Cleanup
<1>4. stdout[r] \in {"terminal", "file"}
  BY DEF DescriptorsOK
<1>5. ASSUME status'[r] \in {"success", "failure"}, stdout'[r] = "file" => <<r, 7>> \in faulty',
             dir'[r] # None => <<r, 10>> \in faulty', status'[r] = "failure" <=> Faults'
      PROVE  Cleanup(r)'
  <2>1. status'[r] # "new" /\ status'[r] # "running"
    BY <1>5
  <2>2. dir'[r] # None => status'[r] = "failure"
    <3>1. <<r, 10>> \in faulty' => Faults'
      BY 10 \in 1..10
    <3> QED BY <1>5, <3>1, Zenon
  <2>3. status'[r] = "failure" <=> \E k \in 1..10 : <<r, k>> \in faulty'
    BY <1>5
  <2> HIDE DEF Faults
  <2> QED BY <1>5, <2>1, <2>2, <2>3, Zenon DEF Cleanup
<1>6. ASSUME status'[r] = "running", main'[r] = dup2_main, at'[r] # 1,
             dir'[r] = None \/ dir'[r].kind = "file", failed'[r] <=> Faults',
             at'[r] <= 4 => stdout'[r] = "terminal", at'[r] = 4 => "saved" \in open'[r],
             at'[r] <= 7 /\ stdout'[r] = "file" => "saved" \in open'[r],
             at'[r] > 7 /\ stdout'[r] = "file" => <<r, 7>> \in faulty'
      PROVE  Cleanup(r)'
  <2>1. status'[r] \notin {"new", "success", "failure"} /\ main'[r] \in Temps
    BY <1>6, Dup2Calls
  <2>2. failed'[r] <=> \E k \in 1..10 : <<r, k>> \in faulty'
    BY <1>6
  <2> HIDE DEF Faults
  <2> QED BY <1>6, <2>1, <2>2, Zenon DEF Cleanup
<1>7. CASE Succeed(r) \/ Skip(r)
  <2>1. /\ UNCHANGED <<main, faulty, failed>>
        /\ at'[r] = i + 1
        /\ dir'[r] = CASE i = 1 -> File(r, 1) [] i = 10 -> None [] OTHER -> dir[r]
        /\ stdout'[r] = IF i = 4 THEN "file"
                        ELSE IF i = 7 /\ "saved" \in open[r] THEN "terminal" ELSE stdout[r]
        /\ i < 7 => open'[r] = open[r] \cup CASE i = 1 -> {"temp"} [] i = 3 -> {"saved"}
                                              [] OTHER -> {}
    BY <1>1, <1>7, Dup2Goes
  <2>2. status'[r] = IF i < 10 THEN "running" ELSE IF failed[r] THEN "failure" ELSE "success"
    BY <1>1, <1>7, Dup2Goes
  <2>3. failed'[r] <=> Faults'
    BY <1>3, <2>1, Zenon
  <2>4. CASE i < 10
    <3>1. dir'[r] = None \/ dir'[r].kind = "file"
      BY <1>1, <1>2, <2>1, <2>4, EntryKinds
    <3>2. /\ i + 1 <= 4 => stdout'[r] = "terminal"
          /\ i + 1 = 4 => "saved" \in open'[r]
          /\ i + 1 <= 7 /\ stdout'[r] = "file" => "saved" \in open'[r]
          /\ i + 1 > 7 /\ stdout'[r] = "file" => <<r, 7>> \in faulty'
      BY <1>1, <1>2, <1>4, <2>1
    <3>3. status'[r] = "running" /\ i + 1 # 1
      BY <1>1, <2>2, <2>4
    <3> QED BY <1>6, <2>1, <2>3, <3>1, <3>2, <3>3
  <2>5. CASE i = 10
    <3>1. dir'[r] = None /\ (stdout'[r] = "file" => <<r, 7>> \in faulty')
      BY <1>2, <2>1, <2>5
    <3>2. status'[r] = IF failed[r] THEN "failure" ELSE "success"
      BY <2>2, <2>5
    <3>3. status'[r] \in {"success", "failure"} /\ (status'[r] = "failure" <=> Faults')
      BY <1>3, <2>1, <3>2
    <3> QED BY <1>5, <3>1, <3>3
  <2> QED BY <1>1, <2>4, <2>5
<1>8. CASE Fail(r) \/ Fault(r)
  <2>1. /\ UNCHANGED <<main, dir, stdout, open>>
        /\ \/ Works(r) /\ faulty' = faulty \cup {<<r, i>>}
           \/ ~Works(r) /\ faulty' = faulty
        /\ at'[r] = IF i <= 6 THEN 7 ELSE i + 1
    BY <1>1, <1>8, Dup2Fails
  <2>2. status'[r] = IF i < 10 THEN "running" ELSE IF failed'[r] THEN "failure" ELSE "success"
    BY <1>1, <1>8, Dup2Fails
  <2>3. failed'[r] <=> Faults'
    <3>1. failed'[r] <=> failed[r] \/ Works(r)
      BY <1>1, <1>8, Dup2Fails
    <3>2. Works(r) => (\E k \in 1..10 : <<r, k>> \in faulty')
      BY <1>1, <2>1
    <3>3. ~Works(r) => (Faults' <=> Faults)
      BY <2>1
    <3>4. Faults => Faults'
      BY <2>1
    <3> QED BY <1>3, <3>1, <3>2, <3>3, <3>4, Zenon
  <2>4. CASE i < 10
    <3>1. /\ at'[r] >= 7 /\ at'[r] # 1 /\ status'[r] = "running"
          /\ at'[r] <= 7 /\ stdout[r] = "file" => "saved" \in open[r]
          /\ at'[r] > 7 /\ stdout[r] = "file" => <<r, 7>> \in faulty'
      BY <1>1, <1>2, <2>1, <2>2, <2>4
    <3>2. /\ at'[r] <= 4 => stdout'[r] = "terminal"
          /\ at'[r] = 4 => "saved" \in open'[r]
      BY <1>1, <2>1
    <3> QED BY <1>2, <1>6, <2>1, <2>3, <3>1, <3>2
  <2>5. CASE i = 10
    <3>1. stdout'[r] = "file" => <<r, 7>> \in faulty'
      BY <1>2, <2>1, <2>5
    <3>2. dir'[r] # None => <<r, 10>> \in faulty'
      BY <1>1, <1>2, <2>1, <2>5
    <3>3. status'[r] = IF failed'[r] THEN "failure" ELSE "success"
      BY <2>2, <2>5
    <3>4. status'[r] \in {"success", "failure"} /\ (status'[r] = "failure" <=> Faults')
      BY <2>3, <3>3
    <3> QED BY <1>5, <3>1, <3>2, <3>4
  <2> QED BY <1>1, <2>4, <2>5
<1> QED BY <1>7, <1>8 DEF Step

-------------------------------------------------------------------------------
LEMMA InitCInv == Init => CInv
<1> SUFFICES ASSUME Init PROVE CInv
  OBVIOUS
<1>1. FInv
  BY InitFInv
<1>2. DescriptorsOK
  BY DEF Init, DescriptorsOK
<1>3. ASSUME NEW r \in Procs PROVE Cleanup(r)
  <2>1. r \notin saved /\ r \in Names
    BY DEF Init, Names, FixedNames, Paths
  <2>2. dir[r] = None
    BY <2>1 DEF Init
  <2>3. status[r] = "new" /\ stdout[r] = "terminal" /\ ~failed[r] /\ faulty = {}
    BY DEF Init
  <2> QED BY <2>2, <2>3 DEF Cleanup
<1> QED BY <1>1, <1>2, <1>3 DEF CInv

LEMMA NextCInv == CInv /\ [Next]_vars => CInv'
<1> SUFFICES ASSUME CInv, [Next]_vars PROVE CInv'
  OBVIOUS
<1>1. FInv'
  BY NextFInv DEF CInv
<1>2. CASE UNCHANGED vars
  BY <1>1, <1>2 DEF CInv, DescriptorsOK, Cleanup, vars, procVars, fileVars, history
<1>3. ASSUME NEW q \in Procs, Step(q) PROVE CInv'
  <2>1. ASSUME NEW r \in Procs PROVE Cleanup(r)'
    <3>1. CASE r # q
      BY <1>3, <3>1, OtherCleanup
    <3>2. CASE r = q
      BY <1>3, <3>2, PlainCleanup, TempCleanup, Dup2Cleanup
    <3> QED BY <3>1, <3>2
  <2> QED BY <1>1, <1>3, <2>1, OwnDescriptors DEF CInv
<1>4. ASSUME NEW q \in Procs, start(q) PROVE CInv'
  <2>1. PICK m \in Mains : main' = [main EXCEPT ![q] = m]
    BY <1>4 DEF start
  <2>2. /\ status[q] = "new" /\ status' = [status EXCEPT ![q] = "running"]
        /\ UNCHANGED <<at, stdout, open, failed, dir, faulty>>
    BY <1>4 DEF start, fileVars
  <2>3. ASSUME NEW r \in Procs \ {q} PROVE Cleanup(r)'
    <3>1. main'[r] = main[r] /\ status'[r] = status[r]
      BY <2>1, <2>2 DEF CInv, FInv, TypeOK
    <3> QED BY <2>2, <3>1, CleanupStays DEF CInv
  <2>4. Cleanup(q)'
    <3>1. at[q] = 1 /\ status'[q] = "running"
      BY <2>2 DEF CInv, FInv, Places, TypeOK
    <3>2. /\ dir[q] = None /\ stdout[q] = "terminal" /\ ~failed[q]
          /\ \A k \in Nat : <<q, k>> \notin faulty
      BY <2>2 DEF CInv, Cleanup
    <3>3. ~(\E k \in 1..10 : <<q, k>> \in faulty)
      BY <3>2
    <3> QED BY <2>2, <3>1, <3>2, <3>3 DEF Cleanup
  <2>5. DescriptorsOK'
    BY <2>2 DEF CInv, DescriptorsOK
  <2> QED BY <1>1, <2>3, <2>4, <2>5 DEF CInv
<1>5. ASSUME NEW q \in Procs, Kill(q) PROVE CInv'
  <2>1. /\ status' = [status EXCEPT ![q] = "killed"]
        /\ UNCHANGED <<main, at, stdout, open, failed, dir, faulty>>
    BY <1>5 DEF Kill, fileVars
  <2>2. ASSUME NEW r \in Procs \ {q} PROVE Cleanup(r)'
    <3>1. status'[r] = status[r]
      BY <2>1 DEF CInv, FInv, TypeOK
    <3> QED BY <2>1, <3>1, CleanupStays DEF CInv
  <2>3. Cleanup(q)'
    <3>1. status'[q] = "killed"
      BY <2>1 DEF CInv, FInv, TypeOK
    <3> QED BY <3>1 DEF Cleanup
  <2>4. DescriptorsOK'
    BY <2>1 DEF CInv, DescriptorsOK
  <2> QED BY <1>1, <2>2, <2>3, <2>4 DEF CInv
<1>6. ASSUME NEW n \in Paths, UserSaves(n) PROVE CInv'
  <2>1. /\ dir' = [dir EXCEPT ![n] = File(n, 0)]
        /\ UNCHANGED <<main, at, status, stdout, open, failed, faulty>>
    BY <1>6 DEF UserSaves, Put, procVars
  <2>2. ASSUME NEW r \in Procs PROVE Cleanup(r)'
    <3>1. r # n /\ r \in Names
      BY DEF FixedNames, Names
    <3>2. dir'[r] = dir[r]
      BY <2>1, <3>1 DEF CInv, FInv, TypeOK
    <3> QED BY <2>1, <3>2, CleanupStays DEF CInv
  <2>3. DescriptorsOK'
    BY <2>1 DEF CInv, DescriptorsOK
  <2> QED BY <1>1, <2>2, <2>3 DEF CInv
<1> QED BY <1>2, <1>3, <1>4, <1>5, <1>6 DEF Next

\* Whichever calls of files/dup2 fail, and whatever else runs beside it, it ends with the
\* terminal as its standard output and without its temporary file unless the very call
\* that was to restore or remove it failed, and EXIT_FAILURE says whether any call did;
\* the other programs with a temporary name never leave it behind silently.
THEOREM NothingIsLeftSilently == Spec => []CleanupIsComplete
<1>1. CInv => CleanupIsComplete
  BY DEF CInv, Cleanup, CleanupIsComplete
<1> QED BY <1>1, InitCInv, NextCInv, PTL DEF Spec

-------------------------------------------------------------------------------
(* Undisturbed runs                                                        *)

\* The names under which there are only files.
Plain == FixedNames \ {soft_link, link_name, example_dir}

\* What is used of the calls that make something: file2 is made by the third call of
\* umask, and every other file by the first or second of a program.
MakeFacts(m, c, j) ==
    /\ c.op = "create" => c.a \in Plain \ {file2} /\ j # 3
    /\ c.op = "create_222" => c.a = file2 /\ j = 3
    /\ c.op = "truncate" => c.a \in Plain \ {file2}
    /\ c.op = "chmod" => c.a = file_txt
    /\ c.op = "mkdir" => c.a \in {example_dir, templ}
    /\ c.op = "mkstemp" => c.a = templ /\ j = 1
    /\ c.op = "shm_open" => c.a = shm_name /\ j = 1
    /\ m # dup2_main /\ c.op \notin {"create", "close"} => c.otherwise = "exit"

LEMMA MainsMake == \A m \in Mains : \A j \in 1..Len(m) : MakeFacts(m, m[j], j)
<1> USE DEF MakeFacts, Call, Do, create_sample_file, Plain, FixedNames, Paths
<1> SUFFICES ASSUME NEW m \in Mains, NEW j \in 1..Len(m) PROVE MakeFacts(m, m[j], j)
  OBVIOUS
<1>1. CASE m = chmod_main
  BY <1>1 DEF chmod_main
<1>2. CASE m = link_main
  BY <1>2 DEF link_main
<1>3. CASE m = symlink_main
  BY <1>3 DEF symlink_main
<1>4. CASE m = rename_main
  BY <1>4 DEF rename_main
<1>5. CASE m = truncate_main
  BY <1>5 DEF truncate_main
<1>6. CASE m = umask_main
  BY <1>6 DEF umask_main
<1>7. CASE m = mkdir_main
  BY <1>7 DEF mkdir_main
<1>8. CASE m = mkdtemp_main
  BY <1>8 DEF mkdtemp_main
<1>9. CASE m = mkstemp_main
  BY <1>9 DEF mkstemp_main
<1>10. CASE m = sync_main
  BY <1>10 DEF sync_main
<1>11. CASE m = ftruncate_main
  BY <1>11 DEF ftruncate_main
<1>12. CASE m = shm_main
  BY <1>12 DEF shm_main
<1>13. CASE m = dup2_main
  BY <1>13 DEF dup2_main
<1>14. ASSUME NEW p \in Paths, m = lstat_main(p) PROVE MakeFacts(m, m[j], j)
  BY <1>14 DEF lstat_main
<1>15. ASSUME NEW p \in Paths, m = unlink_main(p) PROVE MakeFacts(m, m[j], j)
  BY <1>15 DEF unlink_main
<1> QED
  BY <1>1, <1>2, <1>3, <1>4, <1>5, <1>6, <1>7, <1>8, <1>9, <1>10, <1>11, <1>12, <1>13, <1>14,
     <1>15 DEF Mains

\* What can be under a name; a file that may not be written is the one that umask makes
\* under file2, and while it is there it stays so.
Kinds ==
    /\ \A n \in Plain : dir[n].kind \in {"none", "file"}
    /\ \A n \in Names : dir[n].kind = "file" => (dir[n].step = 3 <=> n = file2)
    /\ dir[file2] # None => dir[file2] \in readonly
    /\ \A f \in readonly : f.kind = "file" /\ f.step = 3

LEMMA NoneIsNone == ASSUME TypeOK, NEW n \in Names PROVE dir[n].kind = "none" <=> dir[n] = None
<1>1. dir[n] \in Entries
  BY DEF TypeOK
<1>2. CASE dir[n] \in {None, Directory}
  BY <1>2, EntryKinds
<1>3. ASSUME NEW x \in Names, dir[n] = Symlink(x) PROVE dir[n].kind = "none" <=> dir[n] = None
  BY <1>3, EntryKinds
<1>4. ASSUME NEW b \in Names, NEW i \in Nat, dir[n] = File(b, i)
      PROVE  dir[n].kind = "none" <=> dir[n] = None
  BY <1>4, EntryKinds
<1> QED BY <1>1, <1>2, <1>3, <1>4 DEF Entries

LEMMA EffectKinds ==
    ASSUME TypeOK, Places, Symlinks, Kinds, NEW r \in Running, Effect(r)
    PROVE  Kinds'
<1> DEFINE op == Current(r).op
           a == Source(r)
           b == Target(r)
           new == File(r, at[r])
<1>1. /\ r \in Procs /\ CallFacts(main[r], Current(r), at[r]) /\ a \in Names /\ b \in Names
      /\ a = (IF Current(r).a = templ THEN r ELSE Current(r).a)
      /\ b = (IF Current(r).b = templ THEN r ELSE Current(r).b)
  BY RunCalls
<1>2. MakeFacts(main[r], Current(r), at[r])
  BY MainsMake DEF Running, Places, Current
<1>3. /\ Plain \subseteq Names /\ r \notin Plain \cup FixedNames /\ file2 \in Plain
      /\ templ \notin Plain
      /\ {example, old_file, file_txt, shm_name} \subseteq Plain \ {file2}
  BY <1>1 DEF Plain, Names, FixedNames, Paths
<1>4. op \in {"create", "create_222", "truncate"} => Follow(a) = a
  <2>1. op \in {"create", "create_222", "truncate"} => a \notin {soft_link, link_name}
    BY <1>1 DEF CallFacts
  <2> QED BY <1>1, <2>1, NoFollow
<1>5. new.kind = "file" /\ new.step = at[r] /\ None.kind = "none" /\ Directory.kind = "dir"
      /\ \A n : Symlink(n).kind = "symlink"
  BY EntryKinds
<1>6. ASSUME NEW n \in Names, NEW e, dir' = [dir EXCEPT ![n] = e], UNCHANGED readonly,
             n \in Plain => e.kind \in {"none", "file"}, e.kind = "file" => e.step # 3,
             n = file2 => e = None
      PROVE  Kinds'
  <2>1. \A x \in Names : dir'[x] = IF x = n THEN e ELSE dir[x]
    BY <1>6 DEF TypeOK
  <2>2. \A x \in Plain : dir'[x].kind \in {"none", "file"}
    BY <1>3, <1>6, <2>1 DEF Kinds
  <2>3. \A x \in Names : dir'[x].kind = "file" => (dir'[x].step = 3 <=> x = file2)
    BY <1>5, <1>6, <2>1 DEF Kinds
  <2>4. dir'[file2] # None => dir'[file2] \in readonly'
    BY <1>3, <1>6, <2>1 DEF Kinds
  <2> QED BY <1>6, <2>2, <2>3, <2>4 DEF Kinds
<1>7. CASE op = "create" /\ Put(Follow(a), new) /\ UNCHANGED readonly
  <2>1. a # file2 /\ at[r] # 3 /\ a \in Names
    BY <1>1, <1>2, <1>3, <1>7 DEF MakeFacts
  <2> QED BY <1>4, <1>5, <1>6, <1>7, <2>1 DEF Put
<1>8. CASE op = "create_222" /\ Put(Follow(a), new) /\ readonly' = readonly \cup {new}
  <2>1. a = file2 /\ at[r] = 3
    BY <1>1, <1>2, <1>8 DEF MakeFacts
  <2> QED BY <1>3, <1>4, <1>5, <1>8, <2>1 DEF Put, Kinds, TypeOK
<1>9. CASE UNCHANGED <<dir, readonly>>
  BY <1>9 DEF Kinds
<1>10. CASE op = "chmod" /\ readonly' = readonly \ {dir[Follow(a)]} /\ UNCHANGED dir
  <2>1. a = file_txt /\ Follow(a) = file_txt
    BY <1>1, <1>2, <1>3, <1>10, NoFollow DEF MakeFacts
  <2>2. dir[file_txt] # dir[file2] \/ dir[file2] = None
    <3>1. dir[file2] # None => dir[file2].kind = "file" /\ dir[file2].step = 3
      BY DEF Kinds
    <3>2. dir[file_txt].kind = "file" => dir[file_txt].step # 3
      BY <1>3 DEF Kinds
    <3> QED BY <3>1, <3>2
  <2> QED BY <1>10, <2>1, <2>2 DEF Kinds
<1>11. CASE op = "mkdir" /\ Put(a, Directory) /\ UNCHANGED readonly
  <2>1. a \notin Plain
    BY <1>1, <1>2, <1>3, <1>11 DEF MakeFacts, Plain
  <2> QED BY <1>1, <1>3, <1>5, <1>6, <1>11, <2>1 DEF Put
<1>12. CASE op = "mkstemp" /\ Put(a, new) /\ UNCHANGED readonly
  <2>1. a = r /\ at[r] = 1
    BY <1>1, <1>2, <1>12 DEF MakeFacts
  <2>2. r \in Names /\ r \notin Plain /\ r # file2 /\ new.step # 3
    BY <1>1, <1>3, <1>5, <2>1
  <2>3. dir' = [dir EXCEPT ![r] = new] /\ UNCHANGED readonly
    BY <1>12, <2>1 DEF Put
  <2> HIDE DEF new
  <2> QED BY <1>6, <2>2, <2>3
<1>13. CASE op = "shm_open" /\ Put(a, IF Is(a, {"none"}) THEN new ELSE dir[a])
            /\ UNCHANGED readonly
  <2>1. a = shm_name /\ at[r] = 1
    BY <1>1, <1>2, <1>13 DEF MakeFacts
  <2>2. CASE Is(a, {"none"})
    <3>1. shm_name \in Names /\ shm_name # file2 /\ new.kind = "file" /\ new.step # 3
      BY <1>1, <1>5, <2>1
    <3>2. dir' = [dir EXCEPT ![shm_name] = new] /\ UNCHANGED readonly
      BY <1>13, <2>1, <2>2 DEF Put
    <3> HIDE DEF new
    <3> QED BY <1>6, <3>1, <3>2
  <2>3. CASE ~Is(a, {"none"})
    <3>1. dir' = dir
      BY <1>1, <1>13, <2>3 DEF Put, TypeOK
    <3> QED BY <1>9, <1>13, <3>1
  <2> QED BY <2>2, <2>3
<1>14. CASE op = "link" /\ Put(b, dir[a]) /\ UNCHANGED readonly
  <2>1. a = example /\ b = hard_link
    BY <1>1, <1>14 DEF CallFacts
  <2>2. dir[example].kind \in {"none", "file"}
        /\ (dir[example].kind = "file" => dir[example].step # 3)
    BY <1>3 DEF Kinds
  <2> QED BY <1>1, <1>6, <1>14, <2>1, <2>2 DEF Put
<1>15. CASE op = "symlink" /\ Put(b, Symlink(a)) /\ UNCHANGED readonly
  <2>1. b \in {soft_link, link_name} /\ b \notin Plain
    BY <1>1, <1>15 DEF CallFacts, Plain
  <2> QED BY <1>1, <1>5, <1>6, <1>15, <2>1 DEF Put
<1>16. CASE op = "rename" /\ dir' = [dir EXCEPT ![b] = dir[a], ![a] = None] /\ UNCHANGED readonly
  <2>1. a = old_file /\ b = new_file
    BY <1>1, <1>16 DEF CallFacts
  <2>2. dir[old_file].kind \in {"none", "file"}
        /\ (dir[old_file].kind = "file" => dir[old_file].step # 3)
    BY <1>3 DEF Kinds
  <2>3. \A n \in Names : dir'[n] = IF n = old_file THEN None
                                   ELSE IF n = new_file THEN dir[old_file] ELSE dir[n]
    BY <1>1, <1>16, <2>1 DEF TypeOK
  <2>4. \A x \in Plain : dir'[x].kind \in {"none", "file"}
    BY <1>3, <1>5, <2>2, <2>3 DEF Kinds
  <2>5. \A x \in Names : dir'[x].kind = "file" => (dir'[x].step = 3 <=> x = file2)
    BY <1>5, <2>2, <2>3 DEF Kinds
  <2>6. dir'[file2] = dir[file2]
    BY <1>3, <2>3
  <2>7. UNCHANGED readonly
    BY <1>16
  <2> QED BY <2>4, <2>5, <2>6, <2>7 DEF Kinds
<1>17. CASE op \in {"unlink", "rmdir"} /\ Put(a, None) /\ UNCHANGED readonly
  BY <1>1, <1>5, <1>6, <1>17 DEF Put
<1> QED
  BY <1>7, <1>8, <1>9, <1>10, <1>11, <1>12, <1>13, <1>14, <1>15, <1>16, <1>17 DEF Effect, fileVars

\* Only the cleanup of files/dup2 has calls that are skipped for another reason than
\* that the descriptor is closed already.
LEMMA OnlyDup2 ==
    ASSUME NEW m \in Mains, m # dup2_main, NEW j \in 1..Len(m)
    PROVE  m[j].op \notin {"restore", "close_saved"}
<1> USE DEF Call, Do, create_sample_file
<1>1. CASE m \in {chmod_main, link_main, symlink_main}
  BY <1>1 DEF chmod_main, link_main, symlink_main
<1>2. CASE m \in {rename_main, truncate_main, umask_main}
  BY <1>2 DEF rename_main, truncate_main, umask_main
<1>3. CASE m \in {mkdir_main, mkdtemp_main, mkstemp_main}
  BY <1>3 DEF mkdir_main, mkdtemp_main, mkstemp_main
<1>4. CASE m \in {sync_main, ftruncate_main, shm_main}
  BY <1>4 DEF sync_main, ftruncate_main, shm_main
<1>5. ASSUME NEW p \in Paths, m = lstat_main(p) \/ m = unlink_main(p)
      PROVE  m[j].op \notin {"restore", "close_saved"}
  BY <1>5 DEF lstat_main, unlink_main
<1> QED BY <1>1, <1>2, <1>3, <1>4, <1>5 DEF Mains

\* None of its calls has failed for a reason outside the directory.
Faultless(r) == \A k \in 1..Len(main[r]) : <<r, k>> \notin faulty

Succeeds(r) == /\ at'[r] = at[r] + 1
               /\ status'[r] = IF at[r] < Len(main[r]) THEN "running" ELSE "success"
Fails(r) == status'[r] = "failure" /\ dir' = dir

\* How a call ends that only the directory can keep from succeeding.
LEMMA CallEnds ==
    ASSUME CInv, NEW r \in Procs, Step(r), Faultless(r)', ~failed[r], main[r] # dup2_main
    PROVE  /\ r \in Running /\ ~failed'[r]
           /\ Works(r) => Succeeds(r) /\ (Effect(r) \/ (Current(r).op = "close" /\ dir' = dir))
           /\ ~Works(r) /\ Current(r).otherwise = "exit" => Fails(r)
<1> USE DEF CInv, FInv
<1>1. /\ r \in Running /\ UNCHANGED main /\ at[r] \in 1..Len(main[r]) /\ Len(main[r]) \in Nat \ {0}
      /\ at[r] + 1 \in Nat \ {0}
  BY StepMoves, MainsLengths DEF Places
<1>2. ~Fault(r)
  BY <1>1 DEF Faultless, Fault
<1>3. CallFacts(main[r], Current(r), at[r])
  BY <1>1, RunCalls
<1>4. CASE Succeed(r) \/ Skip(r)
  <2>1. UNCHANGED failed /\ Goto(r, at[r] + 1)
    BY <1>4 DEF Succeed, Skip
  <2>2. PICK st : /\ Moves(r, at[r] + 1, st)
                  /\ st = IF at[r] + 1 <= Len(main[r]) THEN "running"
                          ELSE IF failed'[r] THEN "failure" ELSE "success"
    BY <1>1, <2>1, GotoMoves DEF TypeOK
  <2>3. at'[r] = at[r] + 1 /\ status'[r] = st
    BY <2>2 DEF Moves, TypeOK
  <2>4. ~failed'[r]
    BY <2>1
  <2>5. st = IF at[r] < Len(main[r]) THEN "running" ELSE "success"
    BY <1>1, <2>2, <2>4
  <2>6. Works(r) /\ (Effect(r) \/ (Current(r).op = "close" /\ dir' = dir))
    <3>1. CASE Succeed(r)
      BY <3>1 DEF Succeed
    <3>2. CASE Skip(r)
      <4>1. Current(r).op \in {"restore", "close_saved", "close"} /\ dir' = dir
        BY <3>2 DEF Skip, Skipped, fileVars
      <4>2. Current(r).op \notin {"restore", "close_saved"}
        BY <1>1, OnlyDup2 DEF Places, Current
      <4>3. Works(r)
        BY <4>1 DEF Works
      <4> QED BY <4>1, <4>2, <4>3
    <3> QED BY <1>4, <3>1, <3>2
  <2> QED BY <1>1, <2>3, <2>4, <2>5, <2>6 DEF Succeeds
<1>5. CASE Fail(r)
  <2>1. ~Works(r) /\ Otherwise(r)
    BY <1>5 DEF Fail
  <2>2. failed'[r] <=> \/ failed[r] \/ Current(r).otherwise = "cleanup"
                       \/ Current(r).otherwise = "note" /\ Works(r)
    BY <2>1, OtherwiseFailed
  <2>3. Current(r).otherwise # "cleanup"
    BY <1>3 DEF CallFacts
  <2>4. ~failed'[r]
    BY <2>1, <2>2, <2>3, Zenon
  <2>5. Current(r).otherwise = "exit" => Fails(r)
    <3>1. Current(r).otherwise = "exit" => status' = [status EXCEPT ![r] = "failure"]
      BY <2>1 DEF Otherwise
    <3>2. dir' = dir
      BY <2>1 DEF Otherwise, fileVars
    <3> QED BY <3>1, <3>2 DEF Fails, TypeOK
  <2> QED BY <1>1, <2>1, <2>4, <2>5
<1> QED BY <1>2, <1>4, <1>5 DEF Step

\* What the calls do, one by one.
LEMMA CreateDoes ==
    ASSUME CInv, Kinds, NEW r \in Procs, Step(r), Faultless(r)', ~failed[r], main[r] # dup2_main,
           Current(r).op = "create"
    PROVE  /\ Succeeds(r) /\ dir'[Source(r)] # None
           /\ \A n \in Names \ {Source(r)} : dir'[n] = dir[n]
<1> USE DEF CInv, FInv
<1> DEFINE a == Source(r)
<1>1. r \in Running
  BY StepMoves
<1>2. MakeFacts(main[r], Current(r), at[r])
  BY <1>1, MainsMake DEF Running, Places, Current
<1>3. a \in Plain \ {file2} /\ a \in Names /\ Follow(a) = a
  <2>1. Current(r).a \in Plain \ {file2}
    BY <1>2 DEF MakeFacts
  <2>2. Current(r).a # templ /\ Current(r).a \in Names \ {soft_link, link_name}
    BY <2>1 DEF Plain, FixedNames, Names, Paths
  <2> QED BY <2>1, <2>2, NoFollow DEF Source
<1>4. dir[a] = None \/ (dir[a].kind = "file" /\ dir[a] \notin readonly)
  <2>1. dir[a].kind \in {"none", "file"} /\ (dir[a].kind = "file" => dir[a].step # 3)
    BY <1>3 DEF Kinds
  <2> QED BY <1>3, <2>1, NoneIsNone DEF Kinds
<1>5. Works(r)
  BY <1>3, <1>4, EntryKinds DEF Works, Is, Writable
<1>6. Succeeds(r) /\ Effect(r)
  BY <1>5, CallEnds
<1>7. CASE dir[a] = None
  <2>1. dir' = [dir EXCEPT ![a] = File(r, at[r])]
    BY <1>3, <1>6, <1>7, EntryKinds DEF Effect, Put, Is
  <2>2. File(r, at[r]) # None
    BY EntryKinds
  <2> QED BY <1>3, <1>6, <2>1, <2>2 DEF TypeOK
<1>8. CASE dir[a] # None
  <2>1. dir[a].kind # "none"
    BY <1>3, <1>8, NoneIsNone
  <2>2. dir' = dir
    BY <1>3, <1>6, <2>1 DEF Effect, Is
  <2> QED BY <1>6, <1>8, <2>2
<1> QED BY <1>7, <1>8

LEMMA CallDoes ==
    ASSUME CInv, Kinds, NEW r \in Procs, Step(r), Faultless(r)', ~failed[r], main[r] # dup2_main,
           NEW op, op = Current(r).op, NEW a, a = Source(r), NEW b, b = Target(r)
    PROVE  /\ op = "create_222" =>
                IF dir[file2] = None THEN /\ Succeeds(r) /\ dir'[file2] # None
                                          /\ \A n \in Names \ {file2} : dir'[n] = dir[n]
                ELSE Fails(r)
           /\ op \in {"write", "ftruncate", "close"} => Succeeds(r) /\ dir' = dir
           /\ op \in {"stat", "chmod"} =>
                IF dir[Follow(a)].kind = "none" THEN Fails(r) ELSE Succeeds(r) /\ dir' = dir
           /\ op = "absent" =>
                IF dir[Follow(a)].kind = "none" THEN Succeeds(r) /\ dir' = dir ELSE Fails(r)
           /\ op = "lstat" /\ dir[a] # None => Succeeds(r) /\ dir' = dir
           /\ op = "truncate" /\ dir[a] # None => Succeeds(r) /\ dir' = dir
           /\ op = "link" /\ dir[a] # None =>
                IF dir[b] = None THEN Succeeds(r) /\ dir' = [dir EXCEPT ![b] = dir[a]] ELSE Fails(r)
           /\ op = "symlink" =>
                IF dir[b] = None THEN Succeeds(r) /\ dir' = [dir EXCEPT ![b] = Symlink(a)]
                ELSE Fails(r)
           /\ op = "rename" /\ dir[a] # None =>
                Succeeds(r) /\ dir' = [dir EXCEPT ![b] = dir[a], ![a] = None]
           /\ op = "unlink" /\ dir[a].kind \in {"file", "symlink"} =>
                Succeeds(r) /\ dir' = [dir EXCEPT ![a] = None]
           /\ op = "rmdir" /\ dir[a].kind = "dir" =>
                Succeeds(r) /\ dir' = [dir EXCEPT ![a] = None]
           /\ op = "mkdir" =>
                IF dir[a] = None THEN Succeeds(r) /\ dir' = [dir EXCEPT ![a] = Directory]
                ELSE Fails(r)
           /\ op = "mkstemp" /\ dir[a] = None =>
                Succeeds(r) /\ dir' = [dir EXCEPT ![a] = File(r, at[r])]
           /\ op = "shm_open" => /\ Succeeds(r) /\ dir'[a] # None
                                 /\ \A n \in Names \ {a} : dir'[n] = dir[n]
<1> USE DEF CInv, FInv
<1>1. /\ r \in Running
      /\ Works(r) => Succeeds(r) /\ (Effect(r) \/ (op = "close" /\ dir' = dir))
      /\ ~Works(r) /\ Current(r).otherwise = "exit" => Fails(r)
  BY CallEnds
<1>2. MakeFacts(main[r], Current(r), at[r])
  BY <1>1, MainsMake DEF Running, Places, Current
<1>3. a \in Names /\ b \in Names
  BY <1>1, RunCalls
<1>4. op \notin {"create", "close"} => Current(r).otherwise = "exit"
  BY <1>2 DEF MakeFacts
<1>5. \A n \in Names : dir[n].kind = "none" <=> dir[n] = None
  BY NoneIsNone
<1>6. CASE op = "create_222"
  <2>1. a = file2 /\ file2 \in Names \ {soft_link, link_name} /\ file2 \in Plain
    BY <1>2, <1>3, <1>6 DEF MakeFacts, Source, Plain, FixedNames
  <2>2. Follow(file2) = file2
    BY <2>1, NoFollow
  <2>3. CASE dir[file2] = None
    <3>1. Works(r)
      BY <1>6, <2>1, <2>2, <2>3, EntryKinds DEF Works, Is
    <3>2. dir' = [dir EXCEPT ![file2] = File(r, at[r])]
      BY <1>1, <1>6, <2>1, <2>2, <2>3, <3>1, EntryKinds DEF Effect, Put, Is
    <3>3. File(r, at[r]) # None
      BY EntryKinds
    <3>4. dir'[file2] # None /\ \A n \in Names \ {file2} : dir'[n] = dir[n]
      BY <2>1, <3>2, <3>3 DEF TypeOK
    <3> QED BY <1>1, <1>6, <2>3, <3>1, <3>4
  <2>4. CASE dir[file2] # None
    <3>1. dir[file2].kind # "none" /\ dir[file2] \in readonly
      BY <1>5, <2>1, <2>4 DEF Kinds
    <3>2. ~Works(r)
      BY <1>6, <2>1, <2>2, <3>1 DEF Works, Is, Writable
    <3> QED BY <1>1, <1>4, <1>6, <2>4, <3>2
  <2> QED BY <2>3, <2>4, <1>6
<1>7. CASE op \in {"write", "ftruncate", "close"}
  <2>1. Works(r)
    BY <1>7 DEF Works
  <2>2. dir' = dir
    BY <1>1, <1>7, <2>1 DEF Effect, fileVars
  <2> QED BY <1>1, <1>7, <2>1, <2>2
<1>8. CASE op \in {"stat", "chmod"}
  <2>1. Works(r) <=> dir[Follow(a)].kind # "none"
    BY <1>8 DEF Works, Is
  <2>2. Effect(r) => dir' = dir
    BY <1>8 DEF Effect, fileVars
  <2> QED BY <1>1, <1>4, <1>8, <2>1, <2>2
<1>9. CASE op = "absent"
  <2>1. Works(r) <=> dir[Follow(a)].kind = "none"
    BY <1>9 DEF Works, Is
  <2>2. Effect(r) => dir' = dir
    BY <1>9 DEF Effect, fileVars
  <2> QED BY <1>1, <1>4, <1>9, <2>1, <2>2
<1>10. CASE op = "lstat"
  <2>1. dir[a] # None => Works(r)
    BY <1>3, <1>5, <1>10 DEF Works, Is
  <2>2. Effect(r) => dir' = dir
    BY <1>10 DEF Effect, fileVars
  <2> QED BY <1>1, <1>10, <2>1, <2>2
<1>11. CASE op = "truncate"
  <2>1. a \in Plain \ {file2} /\ Follow(a) = a
    <3>1. Current(r).a \in Plain \ {file2}
      BY <1>2, <1>11 DEF MakeFacts
    <3>2. Current(r).a # templ /\ Current(r).a \in Names \ {soft_link, link_name}
      BY <3>1 DEF Plain, FixedNames, Names, Paths
    <3> QED BY <3>1, <3>2, NoFollow DEF Source
  <2>2. dir[a] # None => dir[a].kind = "file" /\ dir[a] \notin readonly
    BY <1>3, <1>5, <2>1 DEF Kinds
  <2>3. dir[a] # None => Works(r)
    BY <1>11, <2>1, <2>2 DEF Works, Is, Writable
  <2>4. Effect(r) => dir' = dir
    BY <1>11 DEF Effect
  <2> QED BY <1>1, <1>11, <2>3, <2>4
<1>12. CASE op = "link"
  <2>1. dir[a] # None => (Works(r) <=> dir[b] = None)
    BY <1>3, <1>5, <1>12 DEF Works, Is
  <2>2. Effect(r) => dir' = [dir EXCEPT ![b] = dir[a]]
    BY <1>12 DEF Effect, Put
  <2> QED BY <1>1, <1>4, <1>12, <2>1, <2>2
<1>13. CASE op = "symlink"
  <2>1. Works(r) <=> dir[b] = None
    BY <1>3, <1>5, <1>13 DEF Works, Is
  <2>2. Effect(r) => dir' = [dir EXCEPT ![b] = Symlink(a)]
    BY <1>13 DEF Effect, Put
  <2> QED BY <1>1, <1>4, <1>13, <2>1, <2>2
<1>14. CASE op = "rename"
  <2>1. dir[a] # None => Works(r)
    BY <1>3, <1>5, <1>14 DEF Works, Is
  <2>2. Effect(r) => dir' = [dir EXCEPT ![b] = dir[a], ![a] = None]
    BY <1>14 DEF Effect
  <2> QED BY <1>1, <1>14, <2>1, <2>2
<1>15. CASE op = "unlink"
  <2>1. dir[a].kind \in {"file", "symlink"} => Works(r)
    BY <1>15 DEF Works, Is
  <2>2. Effect(r) => dir' = [dir EXCEPT ![a] = None]
    BY <1>15 DEF Effect, Put
  <2> QED BY <1>1, <1>15, <2>1, <2>2
<1>16. CASE op = "rmdir"
  <2>1. dir[a].kind = "dir" => Works(r)
    BY <1>16 DEF Works, Is
  <2>2. Effect(r) => dir' = [dir EXCEPT ![a] = None]
    BY <1>16 DEF Effect, Put
  <2> QED BY <1>1, <1>16, <2>1, <2>2
<1>17. CASE op = "mkdir"
  <2>1. Works(r) <=> dir[a] = None
    BY <1>3, <1>5, <1>17 DEF Works, Is
  <2>2. Effect(r) => dir' = [dir EXCEPT ![a] = Directory]
    BY <1>17 DEF Effect, Put
  <2> QED BY <1>1, <1>4, <1>17, <2>1, <2>2
<1>18. CASE op = "mkstemp"
  <2>1. dir[a] = None => Works(r)
    BY <1>3, <1>5, <1>18 DEF Works, Is
  <2>2. Effect(r) => dir' = [dir EXCEPT ![a] = File(r, at[r])]
    BY <1>18 DEF Effect, Put
  <2> QED BY <1>1, <1>18, <2>1, <2>2
<1>19. CASE op = "shm_open"
  <2>1. Works(r)
    BY <1>19 DEF Works
  <2>2. dir' = [dir EXCEPT ![a] = IF Is(a, {"none"}) THEN File(r, at[r]) ELSE dir[a]]
    BY <1>1, <1>19, <2>1 DEF Effect, Put
  <2>3. File(r, at[r]) # None
    BY EntryKinds
  <2>4. dir'[a] # None /\ \A n \in Names \ {a} : dir'[n] = dir[n]
    BY <1>3, <1>5, <2>2, <2>3 DEF TypeOK, Is
  <2> QED BY <1>1, <1>19, <2>1, <2>4
<1> QED
  BY <1>6, <1>7, <1>8, <1>9, <1>10, <1>11, <1>12, <1>13, <1>14, <1>15, <1>16, <1>17, <1>18, <1>19

-------------------------------------------------------------------------------
(* How far an undisturbed run of each program has come: b is the directory *)
(* when it began, d the directory before its k-th call                     *)

ChmodReached(k, d) == k > 1 => d[file_txt] # None
LinkReached(k, b, d) ==
    /\ k \in {2, 3} => d[example] # None
    /\ k = 2 => d[hard_link] = b[hard_link]
    /\ k > 2 => b[hard_link] = None /\ d[hard_link] # None
    /\ k = 4 => d[example] = None
SymlinkReached(k, b, d) ==
    /\ k \in {2, 3} => d[example] # None
    /\ k = 2 => d[soft_link] = b[soft_link]
    /\ k > 2 => b[soft_link] = None /\ d[soft_link] = Symlink(example)
    /\ k = 4 => d[example] = None
LstatReached(p, k, b, d) ==
    /\ k > 1 => b[link_name] = None /\ d[link_name] = Symlink(p)
    /\ k = 4 => b[p] # None
RenameReached(k, d) ==
    /\ k = 2 => d[old_file] # None
    /\ k = 3 => d[old_file] = None /\ d[new_file] # None
TruncateReached(k, d) == k > 1 => d[example] # None
UmaskReached(k, b, d) ==
    /\ k \in 2..5 => d[file1] # None
    /\ k \in 2..3 => d[file2] = b[file2]
    /\ k > 3 => b[file2] = None /\ d[file2] # None
    /\ k = 6 => d[file1] = None
UnlinkReached(p, k, b, d) ==
    /\ k > 1 => b[p] = None
    /\ k = 2 => d[p] = None
    /\ k > 2 => d[p] # None
MkdirReached(k, b, d) == k > 1 => b[example_dir] = None /\ d[example_dir] = Directory
MkdtempReached(k, d, own) == k > 1 => d[own] = Directory
TempFileReached(k, d, own) == k > 1 => d[own].kind = "file"
ShmReached(k, d) == k > 1 => d[shm_name] # None

Reached(m, k, b, d, own) ==
    /\ m = chmod_main => ChmodReached(k, d)
    /\ m = link_main => LinkReached(k, b, d)
    /\ m = symlink_main => SymlinkReached(k, b, d)
    /\ m = rename_main => RenameReached(k, d)
    /\ m = truncate_main => TruncateReached(k, d)
    /\ m = umask_main => UmaskReached(k, b, d)
    /\ m = mkdir_main => MkdirReached(k, b, d)
    /\ m = mkdtemp_main => MkdtempReached(k, d, own)
    /\ m \in {mkstemp_main, sync_main, ftruncate_main} => TempFileReached(k, d, own)
    /\ m = shm_main => ShmReached(k, d)
    /\ \A p \in Paths : /\ m = lstat_main(p) => LstatReached(p, k, b, d)
                        /\ m = unlink_main(p) => UnlinkReached(p, k, b, d)

LEMMA NothingReached == \A m, b, own : Reached(m, 1, b, b, own)
  BY DEF Reached, ChmodReached, LinkReached, SymlinkReached, LstatReached, RenameReached,
         TruncateReached, UmaskReached, UnlinkReached, MkdirReached, MkdtempReached,
         TempFileReached, ShmReached

\* An undisturbed run so far.
Undisturbed(r) ==
    status[r] = "running" /\ Faultless(r) =>
        /\ ~failed[r]
        /\ at[r] = 1 => dir = before[r]
        /\ \A n \in Names \ Made(r) : dir[n] = before[r][n]
        /\ Reached(main[r], at[r], before[r], dir, r)

\* Nobody else runs while a run is undisturbed.
Alone == \A r \in Running \ met : Running = {r}

UInv == /\ CInv /\ Kinds /\ Alone
        /\ before \in [Procs -> [Names -> Entries]]
        /\ \A r \in Procs \ met : Undisturbed(r)

\* What a step of an undisturbed run leads to.
OthersKept(r) == \A n \in Names \ Made(r) : dir'[n] = before[r][n]
AllRemoved(r) == \A n \in Made(r) : dir'[n] = None
Outcome(r) ==
    /\ OthersKept(r)
    /\ status'[r] \in {"running", "success", "failure"}
    /\ status'[r] = "running" => at'[r] # 1 /\ Reached(main[r], at'[r], before[r], dir', r)
    /\ status'[r] = "success" => ~Obstructed(main[r], before[r]) /\ AllRemoved(r)
    /\ status'[r] = "failure" => /\ Obstructed(main[r], before[r])
                                 /\ Obstructed(main[r], dir')

\* The programs are told apart by the first name and the second call.
LEMMA MainsDiffer ==
    /\ chmod_main[1].a = file_txt /\ rename_main[1].a = old_file /\ umask_main[1].a = file1
    /\ mkdir_main[1].a = example_dir /\ shm_main[1].a = shm_name
    /\ link_main[1].a = example /\ link_main[2].op = "link"
    /\ symlink_main[1].a = example /\ symlink_main[2].op = "symlink"
    /\ truncate_main[1].a = example /\ truncate_main[2].op = "truncate"
    /\ mkdtemp_main[1].a = templ /\ mkdtemp_main[2].op = "rmdir"
    /\ mkstemp_main[1].a = templ /\ mkstemp_main[2].op = "close"
    /\ sync_main[1].a = templ /\ sync_main[2].op = "write"
    /\ ftruncate_main[1].a = templ /\ ftruncate_main[2].op = "ftruncate"
    /\ dup2_main[1].a = templ /\ dup2_main[2].op = "fstat"
    /\ \A p \in Paths : /\ lstat_main(p)[1].a = p /\ lstat_main(p)[2].op = "lstat"
                        /\ unlink_main(p)[1].a = p /\ unlink_main(p)[2].op = "create"
<1> USE DEF Call, Do, create_sample_file
<1>1. /\ chmod_main[1].a = file_txt /\ rename_main[1].a = old_file /\ umask_main[1].a = file1
      /\ mkdir_main[1].a = example_dir /\ shm_main[1].a = shm_name
  BY DEF chmod_main, rename_main, umask_main, mkdir_main, shm_main
<1>2. /\ link_main[1].a = example /\ link_main[2].op = "link"
      /\ symlink_main[1].a = example /\ symlink_main[2].op = "symlink"
      /\ truncate_main[1].a = example /\ truncate_main[2].op = "truncate"
  BY DEF link_main, symlink_main, truncate_main
<1>3. /\ mkdtemp_main[1].a = templ /\ mkdtemp_main[2].op = "rmdir"
      /\ mkstemp_main[1].a = templ /\ mkstemp_main[2].op = "close"
      /\ sync_main[1].a = templ /\ sync_main[2].op = "write"
      /\ ftruncate_main[1].a = templ /\ ftruncate_main[2].op = "ftruncate"
      /\ dup2_main[1].a = templ /\ dup2_main[2].op = "fstat"
  BY DEF mkdtemp_main, mkstemp_main, sync_main, ftruncate_main, dup2_main
<1>4. \A p \in Paths : /\ lstat_main(p)[1].a = p /\ lstat_main(p)[2].op = "lstat"
                       /\ unlink_main(p)[1].a = p /\ unlink_main(p)[2].op = "create"
  BY DEF lstat_main, unlink_main
<1> QED BY <1>1, <1>2, <1>3, <1>4

\* What every step of an undisturbed run starts from.
LEMMA RunSoFar ==
    ASSUME UInv, NEW r \in Procs \ met, Step(r), Faultless(r)'
    PROVE  /\ CInv /\ Kinds /\ TypeOK /\ r \in Running /\ r \in Procs /\ ~failed[r]
           /\ at[r] \in 1..Len(main[r])
           /\ at[r] = 1 => dir = before[r]
           /\ \A n \in Names \ Made(r) : dir[n] = before[r][n]
           /\ Reached(main[r], at[r], before[r], dir, r)
           /\ \A n \in Names : dir[n].kind = "none" <=> dir[n] = None
           /\ \A n \in Plain : dir[n] # None => dir[n].kind = "file"
           /\ FixedNames \subseteq Names /\ r \in Names /\ r \notin FixedNames
<1> USE DEF UInv, CInv, FInv
<1>1. r \in Running /\ UNCHANGED main /\ faulty \subseteq faulty' /\ at[r] \in 1..Len(main[r])
  BY StepMoves DEF Places
<1>2. Faultless(r) /\ status[r] = "running"
  BY <1>1 DEF Faultless, Running
<1>3. Undisturbed(r)
  OBVIOUS
<1>4. /\ ~failed[r]
      /\ at[r] = 1 => dir = before[r]
      /\ \A n \in Names \ Made(r) : dir[n] = before[r][n]
      /\ Reached(main[r], at[r], before[r], dir, r)
  BY <1>2, <1>3 DEF Undisturbed
<1>5. \A n \in Names : dir[n].kind = "none" <=> dir[n] = None
  BY NoneIsNone
<1>6. FixedNames \subseteq Names /\ r \in Names /\ r \notin FixedNames /\ Plain \subseteq Names
  BY DEF Names, Plain
<1>7. \A n \in Plain : dir[n] # None => dir[n].kind = "file"
  BY <1>5, <1>6 DEF Kinds
<1> QED BY <1>1, <1>4, <1>5, <1>6, <1>7

\* The three ways a step can end.
LEMMA GoesOn ==
    ASSUME NEW r, NEW k \in Nat \ {0}, at[r] = k, k < Len(main[r]), Succeeds(r),
           OthersKept(r), Reached(main[r], k + 1, before[r], dir', r)
    PROVE  Outcome(r)
<1>1. at'[r] = k + 1 /\ status'[r] = "running" /\ k + 1 # 1
  BY DEF Succeeds
<1> QED BY <1>1 DEF Outcome

LEMMA Completes ==
    ASSUME NEW r, NEW k \in Nat \ {0}, at[r] = k, k = Len(main[r]), Succeeds(r),
           OthersKept(r), ~Obstructed(main[r], before[r]), AllRemoved(r)
    PROVE  Outcome(r)
<1>1. status'[r] = "success"
  BY DEF Succeeds
<1> QED BY <1>1 DEF Outcome

LEMMA GivesUp ==
    ASSUME NEW r, Fails(r), \A n \in Names \ Made(r) : dir[n] = before[r][n],
           Obstructed(main[r], before[r]), Obstructed(main[r], dir)
    PROVE  Outcome(r)
  BY DEF Outcome, Fails, OthersKept

-------------------------------------------------------------------------------
(* The programs, one by one                                                *)

LEMMA ChmodRuns ==
    ASSUME UInv, NEW r \in Procs \ met, Step(r), Faultless(r)', main[r] = chmod_main
    PROVE  Outcome(r)
<1> DEFINE b == before[r]
<1>1. /\ \A k, e, d : Reached(chmod_main, k, e, d, r) <=> ChmodReached(k, d)
      /\ \A d : ~Obstructed(chmod_main, d)
      /\ chmod_main # dup2_main
  BY MainsDiffer DEF Reached, Obstructed, Paths
<1>2. Made(r) = {file_txt} /\ Len(chmod_main) = 5
  BY DEF Made, Range, chmod_main, Do, Call
<1>3. /\ CInv /\ Kinds /\ TypeOK /\ r \in Procs /\ ~failed[r] /\ at[r] \in 1..5
      /\ ChmodReached(at[r], dir)
      /\ \A n \in Names \ {file_txt} : dir[n] = b[n]
      /\ at[r] = 1 => dir = b
      /\ file_txt \in Names \ {soft_link, link_name}
      /\ (dir[file_txt] # None => dir[file_txt].kind = "file")
  <2>1. file_txt \in Plain /\ file_txt \in FixedNames
    BY DEF Plain, FixedNames
  <2> QED BY <1>1, <1>2, <2>1, RunSoFar
<1>4. CASE at[r] = 1
  <2>1. Current(r).op = "create" /\ Source(r) = file_txt
    BY <1>3, <1>4 DEF Current, Source, chmod_main, Do, Call
  <2>2. Succeeds(r) /\ dir'[file_txt] # None /\ (\A n \in Names \ {file_txt} : dir'[n] = dir[n])
    BY <1>1, <1>3, <2>1, CreateDoes
  <2>3. OthersKept(r)
    BY <1>2, <1>3, <2>2 DEF OthersKept
  <2>4. ChmodReached(2, dir')
    BY <1>3, <1>4, <2>2 DEF ChmodReached
  <2>5. Reached(chmod_main, 1 + 1, b, dir', r) /\ 1 < Len(chmod_main)
    BY <1>1, <1>2, <2>4
  <2> QED BY <1>4, <2>2, <2>3, <2>5, GoesOn
<1>5. CASE at[r] = 2
  <2>1. Current(r).op = "stat" /\ Source(r) = file_txt
    BY <1>3, <1>5 DEF Current, Source, chmod_main, Do, Call
  <2>2. Follow(file_txt) = file_txt /\ dir[file_txt].kind = "file"
    BY <1>3, <1>5, NoFollow DEF ChmodReached, CInv, FInv
  <2>3. Succeeds(r) /\ dir' = dir
    BY <1>1, <1>3, <2>1, <2>2, CallDoes
  <2>4. OthersKept(r)
    BY <1>2, <1>3, <2>2, <2>3 DEF OthersKept
  <2>5. ChmodReached(3, dir')
    BY <1>3, <1>5, <2>2, <2>3 DEF ChmodReached
  <2>6. Reached(chmod_main, 2 + 1, b, dir', r) /\ 2 < Len(chmod_main)
    BY <1>1, <1>2, <2>5
  <2> QED BY <1>5, <2>3, <2>4, <2>6, GoesOn
<1>6. CASE at[r] = 3
  <2>1. Current(r).op = "chmod" /\ Source(r) = file_txt
    BY <1>3, <1>6 DEF Current, Source, chmod_main, Do, Call
  <2>2. Follow(file_txt) = file_txt /\ dir[file_txt].kind = "file"
    BY <1>3, <1>6, NoFollow DEF ChmodReached, CInv, FInv
  <2>3. Succeeds(r) /\ dir' = dir
    BY <1>1, <1>3, <2>1, <2>2, CallDoes
  <2>4. OthersKept(r)
    BY <1>2, <1>3, <2>2, <2>3 DEF OthersKept
  <2>5. ChmodReached(4, dir')
    BY <1>3, <1>6, <2>2, <2>3 DEF ChmodReached
  <2>6. Reached(chmod_main, 3 + 1, b, dir', r) /\ 3 < Len(chmod_main)
    BY <1>1, <1>2, <2>5
  <2> QED BY <1>6, <2>3, <2>4, <2>6, GoesOn
<1>7. CASE at[r] = 4
  <2>1. Current(r).op = "stat" /\ Source(r) = file_txt
    BY <1>3, <1>7 DEF Current, Source, chmod_main, Do, Call
  <2>2. Follow(file_txt) = file_txt /\ dir[file_txt].kind = "file"
    BY <1>3, <1>7, NoFollow DEF ChmodReached, CInv, FInv
  <2>3. Succeeds(r) /\ dir' = dir
    BY <1>1, <1>3, <2>1, <2>2, CallDoes
  <2>4. OthersKept(r)
    BY <1>2, <1>3, <2>2, <2>3 DEF OthersKept
  <2>5. ChmodReached(5, dir')
    BY <1>3, <1>7, <2>2, <2>3 DEF ChmodReached
  <2>6. Reached(chmod_main, 4 + 1, b, dir', r) /\ 4 < Len(chmod_main)
    BY <1>1, <1>2, <2>5
  <2> QED BY <1>7, <2>3, <2>4, <2>6, GoesOn
<1>8. CASE at[r] = 5
  <2>1. Current(r).op = "unlink" /\ Source(r) = file_txt
    BY <1>3, <1>8 DEF Current, Source, chmod_main, Do, Call
  <2>2. dir[file_txt].kind = "file"
    BY <1>3, <1>8 DEF ChmodReached
  <2>3. Succeeds(r) /\ dir' = [dir EXCEPT ![file_txt] = None]
    BY <1>1, <1>3, <2>1, <2>2, CallDoes
  <2>4. Succeeds(r) /\ dir'[file_txt] = None /\ (\A n \in Names \ {file_txt} : dir'[n] = dir[n])
    BY <1>3, <2>2, <2>3 DEF TypeOK
  <2>5. OthersKept(r)
    BY <1>2, <1>3, <2>2, <2>3, <2>4 DEF OthersKept
  <2>6. ~Obstructed(main[r], b) /\ AllRemoved(r)
    BY <1>1, <1>2, <1>3, <1>8, <2>2, <2>3, <2>4 DEF ChmodReached, AllRemoved
  <2>7. 5 = Len(main[r]) /\ 5 \in Nat \ {0}
    BY <1>2
  <2> QED BY <1>8, <2>4, <2>5, <2>6, <2>7, Completes, Zenon
<1> QED BY <1>3, <1>4, <1>5, <1>6, <1>7, <1>8

LEMMA LinkRuns ==
    ASSUME UInv, NEW r \in Procs \ met, Step(r), Faultless(r)', main[r] = link_main
    PROVE  Outcome(r)
<1> DEFINE b == before[r]
<1>1. /\ \A k, e, d : Reached(link_main, k, e, d, r) <=> LinkReached(k, e, d)
      /\ \A d : Obstructed(link_main, d) <=> d[hard_link] # None
      /\ link_main # dup2_main
  BY MainsDiffer DEF Reached, Obstructed, Paths
<1>2. Made(r) = {example, hard_link} /\ Len(link_main) = 4
  BY DEF Made, Range, link_main, create_sample_file, Do, Call
<1>3. /\ CInv /\ Kinds /\ TypeOK /\ r \in Procs /\ ~failed[r] /\ at[r] \in 1..4
      /\ LinkReached(at[r], b, dir)
      /\ \A n \in Names \ {example, hard_link} : dir[n] = b[n]
      /\ at[r] = 1 => dir = b
      /\ \A n \in {example, hard_link} : n \in Names /\ (dir[n] # None => dir[n].kind = "file")
  <2>1. {example, hard_link} \subseteq Plain /\ {example, hard_link} \subseteq FixedNames
    BY DEF Plain, FixedNames, Paths
  <2> QED BY <1>1, <1>2, <2>1, RunSoFar
<1>4. CASE at[r] = 1
  <2>1. Current(r).op = "create" /\ Source(r) = example
    BY <1>3, <1>4 DEF Current, Source, link_main, create_sample_file, Do, Call
  <2>2. Succeeds(r) /\ dir'[example] # None /\ (\A n \in Names \ {example} : dir'[n] = dir[n])
    BY <1>1, <1>3, <2>1, CreateDoes
  <2>3. OthersKept(r)
    BY <1>2, <1>3, <2>2 DEF OthersKept
  <2>4. LinkReached(2, b, dir')
    BY <1>3, <1>4, <2>2 DEF LinkReached
  <2>5. Reached(link_main, 1 + 1, b, dir', r) /\ 1 < Len(link_main)
    BY <1>1, <1>2, <2>4
  <2> QED BY <1>4, <2>2, <2>3, <2>5, GoesOn
<1>5. CASE at[r] = 2
  <2>1. Current(r).op = "link" /\ Source(r) = example /\ Target(r) = hard_link
    BY <1>3, <1>5 DEF Current, Source, Target, link_main, create_sample_file, Do, Call
  <2>2. dir[example] # None /\ dir[hard_link] = b[hard_link]
    BY <1>3, <1>5 DEF LinkReached
  <2>3. IF dir[hard_link] = None
        THEN Succeeds(r) /\ dir' = [dir EXCEPT ![hard_link] = dir[example]] ELSE Fails(r)
    BY <1>1, <1>3, <2>1, <2>2, CallDoes
  <2>4. CASE dir[hard_link] = None
    <3>1. Succeeds(r) /\ dir'[hard_link] # None
          /\ (\A n \in Names \ {hard_link} : dir'[n] = dir[n])
      BY <1>3, <2>2, <2>3, <2>4 DEF TypeOK
    <3>2. OthersKept(r)
      BY <1>2, <1>3, <2>2, <2>3, <2>4, <3>1 DEF OthersKept
    <3>3. LinkReached(3, b, dir')
      BY <1>3, <1>5, <2>2, <2>3, <2>4, <3>1 DEF LinkReached
    <3>4. Reached(link_main, 2 + 1, b, dir', r) /\ 2 < Len(link_main)
      BY <1>1, <1>2, <3>3
    <3> QED BY <1>5, <3>1, <3>2, <3>4, GoesOn
  <2>5. CASE ~(dir[hard_link] = None)
    <3>1. Obstructed(link_main, b) /\ Obstructed(link_main, dir)
      BY <1>1, <1>3, <1>5, <2>2, <2>5
    <3> QED BY <1>2, <1>3, <2>3, <2>5, <3>1, GivesUp
  <2> QED BY <2>4, <2>5
<1>6. CASE at[r] = 3
  <2>1. Current(r).op = "unlink" /\ Source(r) = example
    BY <1>3, <1>6 DEF Current, Source, link_main, create_sample_file, Do, Call
  <2>2. dir[example].kind = "file"
    BY <1>3, <1>6 DEF LinkReached
  <2>3. Succeeds(r) /\ dir' = [dir EXCEPT ![example] = None]
    BY <1>1, <1>3, <2>1, <2>2, CallDoes
  <2>4. Succeeds(r) /\ dir'[example] = None /\ (\A n \in Names \ {example} : dir'[n] = dir[n])
    BY <1>3, <2>2, <2>3 DEF TypeOK
  <2>5. OthersKept(r)
    BY <1>2, <1>3, <2>2, <2>3, <2>4 DEF OthersKept
  <2>6. LinkReached(4, b, dir')
    BY <1>3, <1>6, <2>2, <2>3, <2>4 DEF LinkReached
  <2>7. Reached(link_main, 3 + 1, b, dir', r) /\ 3 < Len(link_main)
    BY <1>1, <1>2, <2>6
  <2> QED BY <1>6, <2>4, <2>5, <2>7, GoesOn
<1>7. CASE at[r] = 4
  <2>1. Current(r).op = "unlink" /\ Source(r) = hard_link
    BY <1>3, <1>7 DEF Current, Source, link_main, create_sample_file, Do, Call
  <2>2. dir[hard_link].kind = "file"
    BY <1>3, <1>7 DEF LinkReached
  <2>3. Succeeds(r) /\ dir' = [dir EXCEPT ![hard_link] = None]
    BY <1>1, <1>3, <2>1, <2>2, CallDoes
  <2>4. Succeeds(r) /\ dir'[hard_link] = None
        /\ (\A n \in Names \ {hard_link} : dir'[n] = dir[n])
    BY <1>3, <2>2, <2>3 DEF TypeOK
  <2>5. OthersKept(r)
    BY <1>2, <1>3, <2>2, <2>3, <2>4 DEF OthersKept
  <2>6. ~Obstructed(main[r], b) /\ AllRemoved(r)
    BY <1>1, <1>2, <1>3, <1>7, <2>2, <2>3, <2>4 DEF LinkReached, AllRemoved
  <2>7. 4 = Len(main[r]) /\ 4 \in Nat \ {0}
    BY <1>2
  <2> QED BY <1>7, <2>4, <2>5, <2>6, <2>7, Completes, Zenon
<1> QED BY <1>3, <1>4, <1>5, <1>6, <1>7

LEMMA SymlinkRuns ==
    ASSUME UInv, NEW r \in Procs \ met, Step(r), Faultless(r)', main[r] = symlink_main
    PROVE  Outcome(r)
<1> DEFINE b == before[r]
<1>1. /\ \A k, e, d : Reached(symlink_main, k, e, d, r) <=> SymlinkReached(k, e, d)
      /\ \A d : Obstructed(symlink_main, d) <=> d[soft_link] # None
      /\ symlink_main # dup2_main
  BY MainsDiffer DEF Reached, Obstructed, Paths
<1>2. Made(r) = {example, soft_link} /\ Len(symlink_main) = 4
  BY DEF Made, Range, symlink_main, Do, Call
<1>3. /\ CInv /\ Kinds /\ TypeOK /\ r \in Procs /\ ~failed[r] /\ at[r] \in 1..4
      /\ SymlinkReached(at[r], b, dir)
      /\ \A n \in Names \ {example, soft_link} : dir[n] = b[n]
      /\ at[r] = 1 => dir = b
      /\ example \in Names /\ soft_link \in Names
      /\ (dir[example] # None => dir[example].kind = "file")
  <2>1. example \in Plain /\ {example, soft_link} \subseteq FixedNames
    BY DEF Plain, FixedNames, Paths
  <2> QED BY <1>1, <1>2, <2>1, RunSoFar
<1>4. CASE at[r] = 1
  <2>1. Current(r).op = "create" /\ Source(r) = example
    BY <1>3, <1>4 DEF Current, Source, symlink_main, Do, Call
  <2>2. Succeeds(r) /\ dir'[example] # None /\ (\A n \in Names \ {example} : dir'[n] = dir[n])
    BY <1>1, <1>3, <2>1, CreateDoes
  <2>3. OthersKept(r)
    BY <1>2, <1>3, <2>2 DEF OthersKept
  <2>4. SymlinkReached(2, b, dir')
    BY <1>3, <1>4, <2>2 DEF SymlinkReached
  <2>5. Reached(symlink_main, 1 + 1, b, dir', r) /\ 1 < Len(symlink_main)
    BY <1>1, <1>2, <2>4
  <2> QED BY <1>4, <2>2, <2>3, <2>5, GoesOn
<1>5. CASE at[r] = 2
  <2>1. Current(r).op = "symlink" /\ Source(r) = example /\ Target(r) = soft_link
    BY <1>3, <1>5 DEF Current, Source, Target, symlink_main, Do, Call
  <2>2. dir[example] # None /\ dir[soft_link] = b[soft_link]
    BY <1>3, <1>5 DEF SymlinkReached
  <2>3. IF dir[soft_link] = None
        THEN Succeeds(r) /\ dir' = [dir EXCEPT ![soft_link] = Symlink(example)] ELSE Fails(r)
    BY <1>1, <1>3, <2>1, <2>2, CallDoes
  <2>4. CASE dir[soft_link] = None
    <3>1. Succeeds(r) /\ dir'[soft_link] = Symlink(example)
          /\ (\A n \in Names \ {soft_link} : dir'[n] = dir[n])
      BY <1>3, <2>2, <2>3, <2>4 DEF TypeOK
    <3>2. OthersKept(r)
      BY <1>2, <1>3, <2>2, <2>3, <2>4, <3>1 DEF OthersKept
    <3>3. SymlinkReached(3, b, dir')
      BY <1>3, <1>5, <2>2, <2>3, <2>4, <3>1 DEF SymlinkReached
    <3>4. Reached(symlink_main, 2 + 1, b, dir', r) /\ 2 < Len(symlink_main)
      BY <1>1, <1>2, <3>3
    <3> QED BY <1>5, <3>1, <3>2, <3>4, GoesOn
  <2>5. CASE ~(dir[soft_link] = None)
    <3>1. Obstructed(symlink_main, b) /\ Obstructed(symlink_main, dir)
      BY <1>1, <1>3, <1>5, <2>2, <2>5
    <3> QED BY <1>2, <1>3, <2>3, <2>5, <3>1, GivesUp
  <2> QED BY <2>4, <2>5
<1>6. CASE at[r] = 3
  <2>1. Current(r).op = "unlink" /\ Source(r) = example
    BY <1>3, <1>6 DEF Current, Source, symlink_main, Do, Call
  <2>2. dir[example].kind = "file"
    BY <1>3, <1>6 DEF SymlinkReached
  <2>3. Succeeds(r) /\ dir' = [dir EXCEPT ![example] = None]
    BY <1>1, <1>3, <2>1, <2>2, CallDoes
  <2>4. Succeeds(r) /\ dir'[example] = None /\ (\A n \in Names \ {example} : dir'[n] = dir[n])
    BY <1>3, <2>2, <2>3 DEF TypeOK
  <2>5. OthersKept(r)
    BY <1>2, <1>3, <2>2, <2>3, <2>4 DEF OthersKept
  <2>6. SymlinkReached(4, b, dir')
    BY <1>3, <1>6, <2>2, <2>3, <2>4 DEF SymlinkReached
  <2>7. Reached(symlink_main, 3 + 1, b, dir', r) /\ 3 < Len(symlink_main)
    BY <1>1, <1>2, <2>6
  <2> QED BY <1>6, <2>4, <2>5, <2>7, GoesOn
<1>7. CASE at[r] = 4
  <2>1. Current(r).op = "unlink" /\ Source(r) = soft_link
    BY <1>3, <1>7 DEF Current, Source, symlink_main, Do, Call
  <2>2. dir[soft_link].kind = "symlink"
    BY <1>3, <1>7, EntryKinds DEF SymlinkReached
  <2>3. Succeeds(r) /\ dir' = [dir EXCEPT ![soft_link] = None]
    BY <1>1, <1>3, <2>1, <2>2, CallDoes
  <2>4. Succeeds(r) /\ dir'[soft_link] = None
        /\ (\A n \in Names \ {soft_link} : dir'[n] = dir[n])
    BY <1>3, <2>2, <2>3 DEF TypeOK
  <2>5. OthersKept(r)
    BY <1>2, <1>3, <2>2, <2>3, <2>4 DEF OthersKept
  <2>6. ~Obstructed(main[r], b) /\ AllRemoved(r)
    BY <1>1, <1>2, <1>3, <1>7, <2>2, <2>3, <2>4 DEF SymlinkReached, AllRemoved
  <2>7. 4 = Len(main[r]) /\ 4 \in Nat \ {0}
    BY <1>2
  <2> QED BY <1>7, <2>4, <2>5, <2>6, <2>7, Completes, Zenon
<1> QED BY <1>3, <1>4, <1>5, <1>6, <1>7

LEMMA LstatRuns ==
    ASSUME UInv, NEW r \in Procs \ met, Step(r), Faultless(r)', NEW p \in Paths,
           main[r] = lstat_main(p)
    PROVE  Outcome(r)
<1> DEFINE b == before[r]
           m == lstat_main(p)
<1>1. /\ \A k, e, d : Reached(m, k, e, d, r) <=> LstatReached(p, k, e, d)
      /\ \A d : Obstructed(m, d) <=> d[link_name] # None \/ d[p] = None
      /\ m # dup2_main
  <2> HIDE DEF m
  <2>1. m = lstat_main(p) /\ \A q \in Paths : m = lstat_main(q) => q = p
    BY MainsDiffer DEF m
  <2>2. /\ m # dup2_main /\ \A q \in Paths : m # unlink_main(q)
        /\ m \notin {chmod_main, link_main, symlink_main, rename_main, truncate_main, umask_main,
                     mkdir_main, mkdtemp_main, mkstemp_main, sync_main, ftruncate_main, shm_main}
    BY MainsDiffer DEF Paths, m
  <2> QED BY <2>1, <2>2 DEF Reached, Obstructed
<1>2. Made(r) = {link_name} /\ Len(m) = 4
  BY DEF Made, Range, lstat_main, Do, Call, Paths
<1>3. /\ CInv /\ Kinds /\ TypeOK /\ r \in Procs /\ ~failed[r] /\ at[r] \in 1..4
      /\ LstatReached(p, at[r], b, dir)
      /\ \A n \in Names \ {link_name} : dir[n] = b[n]
      /\ at[r] = 1 => dir = b
      /\ link_name \in Names /\ p \in Names \ {link_name}
      /\ dir[p].kind = "none" <=> dir[p] = None
  <2>1. link_name \in FixedNames /\ p \in FixedNames /\ p # link_name
    BY DEF FixedNames, Paths
  <2>2. /\ CInv /\ Kinds /\ TypeOK /\ r \in Procs /\ ~failed[r] /\ at[r] \in 1..Len(main[r])
        /\ at[r] = 1 => dir = b
        /\ Reached(main[r], at[r], b, dir, r)
    BY RunSoFar
  <2>3. (\A n \in Names \ Made(r) : dir[n] = b[n]) /\ FixedNames \subseteq Names
    BY RunSoFar
  <2>4. dir[p].kind = "none" <=> dir[p] = None
    BY <2>1, RunSoFar
  <2>5. LstatReached(p, at[r], b, dir)
    BY <1>1, <2>2
  <2> QED BY <1>2, <2>1, <2>2, <2>3, <2>4, <2>5
<1>4. CASE at[r] = 1
  <2>1. Current(r).op = "symlink" /\ Source(r) = p /\ Target(r) = link_name
    BY <1>3, <1>4 DEF Current, Source, Target, lstat_main, Do, Call, Paths
  <2>2. IF dir[link_name] = None
        THEN Succeeds(r) /\ dir' = [dir EXCEPT ![link_name] = Symlink(p)] ELSE Fails(r)
    BY <1>1, <1>3, <2>1, CallDoes
  <2>3. CASE dir[link_name] = None
    <3>1. Succeeds(r) /\ dir'[link_name] = Symlink(p)
          /\ (\A n \in Names \ {link_name} : dir'[n] = dir[n])
      BY <1>3, <2>2, <2>3 DEF TypeOK
    <3>2. OthersKept(r)
      BY <1>2, <1>3, <2>2, <2>3, <3>1 DEF OthersKept
    <3>3. LstatReached(p, 2, b, dir')
      BY <1>3, <1>4, <2>2, <2>3, <3>1 DEF LstatReached
    <3>4. Reached(m, 1 + 1, b, dir', r) /\ 1 < Len(m)
      BY <1>1, <1>2, <3>3
    <3> QED BY <1>4, <3>1, <3>2, <3>4, GoesOn
  <2>4. CASE ~(dir[link_name] = None)
    <3>1. Obstructed(m, b) /\ Obstructed(m, dir)
      BY <1>1, <1>3, <1>4, <2>4
    <3> QED BY <1>2, <1>3, <2>2, <2>4, <3>1, GivesUp
  <2> QED BY <2>3, <2>4
<1>5. CASE at[r] = 2
  <2>1. Current(r).op = "lstat" /\ Source(r) = link_name
    BY <1>3, <1>5 DEF Current, Source, lstat_main, Do, Call, Paths
  <2>2. dir[link_name] = Symlink(p) /\ dir[link_name] # None
    BY <1>3, <1>5, EntryKinds DEF LstatReached
  <2>3. Succeeds(r) /\ dir' = dir
    BY <1>1, <1>3, <2>1, <2>2, CallDoes
  <2>4. OthersKept(r)
    BY <1>2, <1>3, <2>2, <2>3 DEF OthersKept
  <2>5. LstatReached(p, 3, b, dir')
    BY <1>3, <1>5, <2>2, <2>3 DEF LstatReached
  <2>6. Reached(m, 2 + 1, b, dir', r) /\ 2 < Len(m)
    BY <1>1, <1>2, <2>5
  <2> QED BY <1>5, <2>3, <2>4, <2>6, GoesOn
<1>6. CASE at[r] = 3
  <2>1. Current(r).op = "stat" /\ Source(r) = link_name
    BY <1>3, <1>6 DEF Current, Source, lstat_main, Do, Call, Paths
  <2>2. dir[link_name] # None /\ dir[Follow(link_name)] = dir[p] /\ dir[p] = b[p]
    BY <1>3, <1>6, EntryKinds DEF LstatReached, Follow, Is
  <2>3. IF dir[p].kind # "none"
        THEN Succeeds(r) /\ dir' = dir ELSE Fails(r)
    BY <1>1, <1>3, <2>1, <2>2, CallDoes
  <2>4. CASE dir[p].kind # "none"
    <3>1. OthersKept(r)
      BY <1>2, <1>3, <2>2, <2>3, <2>4 DEF OthersKept
    <3>2. LstatReached(p, 4, b, dir')
      BY <1>3, <1>6, <2>2, <2>3, <2>4 DEF LstatReached
    <3>3. Reached(m, 3 + 1, b, dir', r) /\ 3 < Len(m)
      BY <1>1, <1>2, <3>2
    <3> QED BY <1>6, <2>3, <2>4, <3>1, <3>3, GoesOn
  <2>5. CASE ~(dir[p].kind # "none")
    <3>1. Obstructed(m, b) /\ Obstructed(m, dir)
      BY <1>1, <1>3, <1>6, <2>2, <2>5
    <3> QED BY <1>2, <1>3, <2>3, <2>5, <3>1, GivesUp
  <2> QED BY <2>4, <2>5
<1>7. CASE at[r] = 4
  <2>1. Current(r).op = "unlink" /\ Source(r) = link_name
    BY <1>3, <1>7 DEF Current, Source, lstat_main, Do, Call, Paths
  <2>2. dir[link_name].kind = "symlink" /\ dir[p] # None
    BY <1>3, <1>7, EntryKinds DEF LstatReached
  <2>3. Succeeds(r) /\ dir' = [dir EXCEPT ![link_name] = None]
    BY <1>1, <1>3, <2>1, <2>2, CallDoes
  <2>4. Succeeds(r) /\ dir'[link_name] = None
        /\ (\A n \in Names \ {link_name} : dir'[n] = dir[n])
    BY <1>3, <2>2, <2>3 DEF TypeOK
  <2>5. OthersKept(r)
    BY <1>2, <1>3, <2>2, <2>3, <2>4 DEF OthersKept
  <2>6. ~Obstructed(main[r], b) /\ AllRemoved(r)
    BY <1>1, <1>2, <1>3, <1>7, <2>2, <2>3, <2>4 DEF LstatReached, AllRemoved
  <2>7. 4 = Len(main[r]) /\ 4 \in Nat \ {0}
    BY <1>2
  <2> QED BY <1>7, <2>4, <2>5, <2>6, <2>7, Completes, Zenon
<1> QED BY <1>3, <1>4, <1>5, <1>6, <1>7

LEMMA RenameRuns ==
    ASSUME UInv, NEW r \in Procs \ met, Step(r), Faultless(r)', main[r] = rename_main
    PROVE  Outcome(r)
<1> DEFINE b == before[r]
<1>1. /\ \A k, e, d : Reached(rename_main, k, e, d, r) <=> RenameReached(k, d)
      /\ \A d : ~Obstructed(rename_main, d)
      /\ rename_main # dup2_main
  BY MainsDiffer DEF Reached, Obstructed, Paths
<1>2. Made(r) = {old_file, new_file} /\ Len(rename_main) = 3
  BY DEF Made, Range, rename_main, create_sample_file, Do, Call
<1>3. /\ CInv /\ Kinds /\ TypeOK /\ r \in Procs /\ ~failed[r] /\ at[r] \in 1..3
      /\ RenameReached(at[r], dir)
      /\ \A n \in Names \ {old_file, new_file} : dir[n] = b[n]
      /\ at[r] = 1 => dir = b
      /\ \A n \in {old_file, new_file} : n \in Names /\ (dir[n] # None => dir[n].kind = "file")
  <2>1. {old_file, new_file} \subseteq Plain /\ {old_file, new_file} \subseteq FixedNames
    BY DEF Plain, FixedNames, Paths
  <2> QED BY <1>1, <1>2, <2>1, RunSoFar
<1>4. CASE at[r] = 1
  <2>1. Current(r).op = "create" /\ Source(r) = old_file
    BY <1>3, <1>4 DEF Current, Source, rename_main, create_sample_file, Do, Call
  <2>2. Succeeds(r) /\ dir'[old_file] # None /\ (\A n \in Names \ {old_file} : dir'[n] = dir[n])
    BY <1>1, <1>3, <2>1, CreateDoes
  <2>3. OthersKept(r)
    BY <1>2, <1>3, <2>2 DEF OthersKept
  <2>4. RenameReached(2, dir')
    BY <1>3, <1>4, <2>2 DEF RenameReached
  <2>5. Reached(rename_main, 1 + 1, b, dir', r) /\ 1 < Len(rename_main)
    BY <1>1, <1>2, <2>4
  <2> QED BY <1>4, <2>2, <2>3, <2>5, GoesOn
<1>5. CASE at[r] = 2
  <2>1. Current(r).op = "rename" /\ Source(r) = old_file /\ Target(r) = new_file
    BY <1>3, <1>5 DEF Current, Source, Target, rename_main, create_sample_file, Do, Call
  <2>2. dir[old_file] # None
    BY <1>3, <1>5 DEF RenameReached
  <2>3. Succeeds(r) /\ dir' = [dir EXCEPT ![new_file] = dir[old_file], ![old_file] = None]
    BY <1>1, <1>3, <2>1, <2>2, CallDoes
  <2>4. Succeeds(r) /\ dir'[old_file] = None /\ dir'[new_file] # None
        /\ (\A n \in Names \ {old_file, new_file} : dir'[n] = dir[n])
    BY <1>3, <2>2, <2>3 DEF TypeOK
  <2>5. OthersKept(r)
    BY <1>2, <1>3, <2>2, <2>3, <2>4 DEF OthersKept
  <2>6. RenameReached(3, dir')
    BY <1>3, <1>5, <2>2, <2>3, <2>4 DEF RenameReached
  <2>7. Reached(rename_main, 2 + 1, b, dir', r) /\ 2 < Len(rename_main)
    BY <1>1, <1>2, <2>6
  <2> QED BY <1>5, <2>4, <2>5, <2>7, GoesOn
<1>6. CASE at[r] = 3
  <2>1. Current(r).op = "unlink" /\ Source(r) = new_file
    BY <1>3, <1>6 DEF Current, Source, rename_main, create_sample_file, Do, Call
  <2>2. dir[new_file].kind = "file" /\ dir[old_file] = None
    BY <1>3, <1>6 DEF RenameReached
  <2>3. Succeeds(r) /\ dir' = [dir EXCEPT ![new_file] = None]
    BY <1>1, <1>3, <2>1, <2>2, CallDoes
  <2>4. Succeeds(r) /\ dir'[new_file] = None /\ (\A n \in Names \ {new_file} : dir'[n] = dir[n])
    BY <1>3, <2>2, <2>3 DEF TypeOK
  <2>5. OthersKept(r)
    BY <1>2, <1>3, <2>2, <2>3, <2>4 DEF OthersKept
  <2>6. ~Obstructed(main[r], b) /\ AllRemoved(r)
    BY <1>1, <1>2, <1>3, <1>6, <2>2, <2>3, <2>4 DEF RenameReached, AllRemoved
  <2>7. 3 = Len(main[r]) /\ 3 \in Nat \ {0}
    BY <1>2
  <2> QED BY <1>6, <2>4, <2>5, <2>6, <2>7, Completes, Zenon
<1> QED BY <1>3, <1>4, <1>5, <1>6

LEMMA TruncateRuns ==
    ASSUME UInv, NEW r \in Procs \ met, Step(r), Faultless(r)', main[r] = truncate_main
    PROVE  Outcome(r)
<1> DEFINE b == before[r]
<1>1. /\ \A k, e, d : Reached(truncate_main, k, e, d, r) <=> TruncateReached(k, d)
      /\ \A d : ~Obstructed(truncate_main, d)
      /\ truncate_main # dup2_main
  BY MainsDiffer DEF Reached, Obstructed, Paths
<1>2. Made(r) = {example} /\ Len(truncate_main) = 3
  BY DEF Made, Range, truncate_main, create_sample_file, Do, Call
<1>3. /\ CInv /\ Kinds /\ TypeOK /\ r \in Procs /\ ~failed[r] /\ at[r] \in 1..3
      /\ TruncateReached(at[r], dir)
      /\ \A n \in Names \ {example} : dir[n] = b[n]
      /\ at[r] = 1 => dir = b
      /\ \A n \in {example} : n \in Names /\ (dir[n] # None => dir[n].kind = "file")
  <2>1. {example} \subseteq Plain /\ {example} \subseteq FixedNames
    BY DEF Plain, FixedNames, Paths
  <2> QED BY <1>1, <1>2, <2>1, RunSoFar
<1>4. CASE at[r] = 1
  <2>1. Current(r).op = "create" /\ Source(r) = example
    BY <1>3, <1>4 DEF Current, Source, truncate_main, create_sample_file, Do, Call
  <2>2. Succeeds(r) /\ dir'[example] # None /\ (\A n \in Names \ {example} : dir'[n] = dir[n])
    BY <1>1, <1>3, <2>1, CreateDoes
  <2>3. OthersKept(r)
    BY <1>2, <1>3, <2>2 DEF OthersKept
  <2>4. TruncateReached(2, dir')
    BY <1>3, <1>4, <2>2 DEF TruncateReached
  <2>5. Reached(truncate_main, 1 + 1, b, dir', r) /\ 1 < Len(truncate_main)
    BY <1>1, <1>2, <2>4
  <2> QED BY <1>4, <2>2, <2>3, <2>5, GoesOn
<1>5. CASE at[r] = 2
  <2>1. Current(r).op = "truncate" /\ Source(r) = example
    BY <1>3, <1>5 DEF Current, Source, truncate_main, create_sample_file, Do, Call
  <2>2. dir[example] # None
    BY <1>3, <1>5 DEF TruncateReached
  <2>3. Succeeds(r) /\ dir' = dir
    BY <1>1, <1>3, <2>1, <2>2, CallDoes
  <2>4. OthersKept(r)
    BY <1>2, <1>3, <2>2, <2>3 DEF OthersKept
  <2>5. TruncateReached(3, dir')
    BY <1>3, <1>5, <2>2, <2>3 DEF TruncateReached
  <2>6. Reached(truncate_main, 2 + 1, b, dir', r) /\ 2 < Len(truncate_main)
    BY <1>1, <1>2, <2>5
  <2> QED BY <1>5, <2>3, <2>4, <2>6, GoesOn
<1>6. CASE at[r] = 3
  <2>1. Current(r).op = "unlink" /\ Source(r) = example
    BY <1>3, <1>6 DEF Current, Source, truncate_main, create_sample_file, Do, Call
  <2>2. dir[example].kind = "file"
    BY <1>3, <1>6 DEF TruncateReached
  <2>3. Succeeds(r) /\ dir' = [dir EXCEPT ![example] = None]
    BY <1>1, <1>3, <2>1, <2>2, CallDoes
  <2>4. Succeeds(r) /\ dir'[example] = None /\ (\A n \in Names \ {example} : dir'[n] = dir[n])
    BY <1>3, <2>2, <2>3 DEF TypeOK
  <2>5. OthersKept(r)
    BY <1>2, <1>3, <2>2, <2>3, <2>4 DEF OthersKept
  <2>6. ~Obstructed(main[r], b) /\ AllRemoved(r)
    BY <1>1, <1>2, <1>3, <1>6, <2>2, <2>3, <2>4 DEF TruncateReached, AllRemoved
  <2>7. 3 = Len(main[r]) /\ 3 \in Nat \ {0}
    BY <1>2
  <2> QED BY <1>6, <2>4, <2>5, <2>6, <2>7, Completes, Zenon
<1> QED BY <1>3, <1>4, <1>5, <1>6

LEMMA UmaskRuns ==
    ASSUME UInv, NEW r \in Procs \ met, Step(r), Faultless(r)', main[r] = umask_main
    PROVE  Outcome(r)
<1> DEFINE b == before[r]
<1>1. /\ \A k, e, d : Reached(umask_main, k, e, d, r) <=> UmaskReached(k, e, d)
      /\ \A d : Obstructed(umask_main, d) <=> d[file2] # None
      /\ umask_main # dup2_main
  BY MainsDiffer DEF Reached, Obstructed, Paths
<1>2. Made(r) = {file1, file2} /\ Len(umask_main) = 6
  BY DEF Made, Range, umask_main, Do, Call
<1>3. /\ CInv /\ Kinds /\ TypeOK /\ r \in Procs /\ ~failed[r] /\ at[r] \in 1..6
      /\ UmaskReached(at[r], b, dir)
      /\ \A n \in Names \ {file1, file2} : dir[n] = b[n]
      /\ at[r] = 1 => dir = b
      /\ \A n \in {file1, file2} : n \in Names /\ (dir[n] # None => dir[n].kind = "file")
  <2>1. {file1, file2} \subseteq Plain /\ {file1, file2} \subseteq FixedNames
    BY DEF Plain, FixedNames, Paths
  <2> QED BY <1>1, <1>2, <2>1, RunSoFar
<1>4. CASE at[r] = 1
  <2>1. Current(r).op = "create" /\ Source(r) = file1
    BY <1>3, <1>4 DEF Current, Source, umask_main, Do, Call
  <2>2. Succeeds(r) /\ dir'[file1] # None /\ (\A n \in Names \ {file1} : dir'[n] = dir[n])
    BY <1>1, <1>3, <2>1, CreateDoes
  <2>3. OthersKept(r)
    BY <1>2, <1>3, <2>2 DEF OthersKept
  <2>4. UmaskReached(2, b, dir')
    BY <1>3, <1>4, <2>2 DEF UmaskReached
  <2>5. Reached(umask_main, 1 + 1, b, dir', r) /\ 1 < Len(umask_main)
    BY <1>1, <1>2, <2>4
  <2> QED BY <1>4, <2>2, <2>3, <2>5, GoesOn
<1>5. CASE at[r] = 2
  <2>1. Current(r).op = "write" /\ Source(r) = file1
    BY <1>3, <1>5 DEF Current, Source, umask_main, Do, Call
  <2>2. Succeeds(r) /\ dir' = dir
    BY <1>1, <1>3, <2>1, CallDoes
  <2>3. OthersKept(r)
    BY <1>2, <1>3, <2>2 DEF OthersKept
  <2>4. UmaskReached(3, b, dir')
    BY <1>3, <1>5, <2>2 DEF UmaskReached
  <2>5. Reached(umask_main, 2 + 1, b, dir', r) /\ 2 < Len(umask_main)
    BY <1>1, <1>2, <2>4
  <2> QED BY <1>5, <2>2, <2>3, <2>5, GoesOn
<1>6. CASE at[r] = 3
  <2>1. Current(r).op = "create_222" /\ Source(r) = file2
    BY <1>3, <1>6 DEF Current, Source, umask_main, Do, Call
  <2>2. dir[file1] # None /\ dir[file2] = b[file2]
    BY <1>3, <1>6 DEF UmaskReached
  <2>3. IF dir[file2] = None
        THEN Succeeds(r) /\ dir'[file2] # None
             /\ (\A n \in Names \ {file2} : dir'[n] = dir[n]) ELSE Fails(r)
    BY <1>1, <1>3, <2>1, <2>2, CallDoes
  <2>4. CASE dir[file2] = None
    <3>1. OthersKept(r)
      BY <1>2, <1>3, <2>2, <2>3, <2>4 DEF OthersKept
    <3>2. UmaskReached(4, b, dir')
      BY <1>3, <1>6, <2>2, <2>3, <2>4 DEF UmaskReached
    <3>3. Reached(umask_main, 3 + 1, b, dir', r) /\ 3 < Len(umask_main)
      BY <1>1, <1>2, <3>2
    <3> QED BY <1>6, <2>3, <2>4, <3>1, <3>3, GoesOn
  <2>5. CASE ~(dir[file2] = None)
    <3>1. Obstructed(umask_main, b) /\ Obstructed(umask_main, dir)
      BY <1>1, <1>3, <1>6, <2>2, <2>5
    <3> QED BY <1>2, <1>3, <2>3, <2>5, <3>1, GivesUp
  <2> QED BY <2>4, <2>5
<1>7. CASE at[r] = 4
  <2>1. Current(r).op = "write" /\ Source(r) = file2
    BY <1>3, <1>7 DEF Current, Source, umask_main, Do, Call
  <2>2. Succeeds(r) /\ dir' = dir
    BY <1>1, <1>3, <2>1, CallDoes
  <2>3. OthersKept(r)
    BY <1>2, <1>3, <2>2 DEF OthersKept
  <2>4. UmaskReached(5, b, dir')
    BY <1>3, <1>7, <2>2 DEF UmaskReached
  <2>5. Reached(umask_main, 4 + 1, b, dir', r) /\ 4 < Len(umask_main)
    BY <1>1, <1>2, <2>4
  <2> QED BY <1>7, <2>2, <2>3, <2>5, GoesOn
<1>8. CASE at[r] = 5
  <2>1. Current(r).op = "unlink" /\ Source(r) = file1
    BY <1>3, <1>8 DEF Current, Source, umask_main, Do, Call
  <2>2. dir[file1].kind = "file"
    BY <1>3, <1>8 DEF UmaskReached
  <2>3. Succeeds(r) /\ dir' = [dir EXCEPT ![file1] = None]
    BY <1>1, <1>3, <2>1, <2>2, CallDoes
  <2>4. Succeeds(r) /\ dir'[file1] = None /\ (\A n \in Names \ {file1} : dir'[n] = dir[n])
    BY <1>3, <2>2, <2>3 DEF TypeOK
  <2>5. OthersKept(r)
    BY <1>2, <1>3, <2>2, <2>3, <2>4 DEF OthersKept
  <2>6. UmaskReached(6, b, dir')
    BY <1>3, <1>8, <2>2, <2>3, <2>4 DEF UmaskReached
  <2>7. Reached(umask_main, 5 + 1, b, dir', r) /\ 5 < Len(umask_main)
    BY <1>1, <1>2, <2>6
  <2> QED BY <1>8, <2>4, <2>5, <2>7, GoesOn
<1>9. CASE at[r] = 6
  <2>1. Current(r).op = "unlink" /\ Source(r) = file2
    BY <1>3, <1>9 DEF Current, Source, umask_main, Do, Call
  <2>2. dir[file2].kind = "file" /\ dir[file1] = None
    BY <1>3, <1>9 DEF UmaskReached
  <2>3. Succeeds(r) /\ dir' = [dir EXCEPT ![file2] = None]
    BY <1>1, <1>3, <2>1, <2>2, CallDoes
  <2>4. Succeeds(r) /\ dir'[file2] = None /\ (\A n \in Names \ {file2} : dir'[n] = dir[n])
    BY <1>3, <2>2, <2>3 DEF TypeOK
  <2>5. OthersKept(r)
    BY <1>2, <1>3, <2>2, <2>3, <2>4 DEF OthersKept
  <2>6. ~Obstructed(main[r], b) /\ AllRemoved(r)
    BY <1>1, <1>2, <1>3, <1>9, <2>2, <2>3, <2>4 DEF UmaskReached, AllRemoved
  <2>7. 6 = Len(main[r]) /\ 6 \in Nat \ {0}
    BY <1>2
  <2> QED BY <1>9, <2>4, <2>5, <2>6, <2>7, Completes, Zenon
<1> QED BY <1>3, <1>4, <1>5, <1>6, <1>7, <1>8, <1>9

LEMMA UnlinkRuns ==
    ASSUME UInv, NEW r \in Procs \ met, Step(r), Faultless(r)', NEW p \in Paths,
           main[r] = unlink_main(p)
    PROVE  Outcome(r)
<1> DEFINE b == before[r]
           m == unlink_main(p)
<1>1. /\ \A k, e, d : Reached(m, k, e, d, r) <=> UnlinkReached(p, k, e, d)
      /\ \A d : Obstructed(m, d) <=> d[p] # None
      /\ m # dup2_main
  <2> HIDE DEF m
  <2>1. m = unlink_main(p) /\ \A q \in Paths : m = unlink_main(q) => q = p
    BY MainsDiffer DEF m
  <2>2. /\ m # dup2_main /\ \A q \in Paths : m # lstat_main(q)
        /\ m \notin {chmod_main, link_main, symlink_main, rename_main, truncate_main, umask_main,
                     mkdir_main, mkdtemp_main, mkstemp_main, sync_main, ftruncate_main, shm_main}
    BY MainsDiffer DEF Paths, m
  <2> QED BY <2>1, <2>2 DEF Reached, Obstructed
<1>2. Made(r) = {p} /\ Len(m) = 4
  BY DEF Made, Range, unlink_main, Do, Call, Paths
<1>3. /\ CInv /\ Kinds /\ TypeOK /\ r \in Procs /\ ~failed[r] /\ at[r] \in 1..4
      /\ UnlinkReached(p, at[r], b, dir)
      /\ \A n \in Names \ {p} : dir[n] = b[n]
      /\ at[r] = 1 => dir = b
      /\ p \in Names \ {soft_link, link_name}
      /\ dir[p].kind = "none" <=> dir[p] = None
      /\ dir[p] # None => dir[p].kind = "file"
  <2>1. p \in FixedNames \ {soft_link, link_name} /\ p \in Plain
    BY DEF FixedNames, Paths, Plain
  <2>2. /\ CInv /\ Kinds /\ TypeOK /\ r \in Procs /\ ~failed[r] /\ at[r] \in 1..Len(main[r])
        /\ at[r] = 1 => dir = b
        /\ Reached(main[r], at[r], b, dir, r)
    BY RunSoFar
  <2>3. (\A n \in Names \ Made(r) : dir[n] = b[n]) /\ FixedNames \subseteq Names
    BY RunSoFar
  <2>4. (dir[p].kind = "none" <=> dir[p] = None) /\ (dir[p] # None => dir[p].kind = "file")
    BY <2>1, RunSoFar
  <2>5. UnlinkReached(p, at[r], b, dir)
    BY <1>1, <2>2
  <2> QED BY <1>2, <2>1, <2>2, <2>3, <2>4, <2>5
<1>4. CASE at[r] = 1
  <2>1. Current(r).op = "absent" /\ Source(r) = p
    BY <1>3, <1>4 DEF Current, Source, unlink_main, Do, Call, Paths
  <2>2. Follow(p) = p
    BY <1>3, <1>4, NoFollow DEF UnlinkReached, CInv, FInv
  <2>3. IF dir[p].kind = "none"
        THEN Succeeds(r) /\ dir' = dir ELSE Fails(r)
    BY <1>1, <1>3, <2>1, <2>2, CallDoes
  <2>4. CASE dir[p].kind = "none"
    <3>1. OthersKept(r)
      BY <1>2, <1>3, <2>2, <2>3, <2>4 DEF OthersKept
    <3>2. UnlinkReached(p, 2, b, dir')
      BY <1>3, <1>4, <2>2, <2>3, <2>4 DEF UnlinkReached
    <3>3. Reached(m, 1 + 1, b, dir', r) /\ 1 < Len(m)
      BY <1>1, <1>2, <3>2
    <3> QED BY <1>4, <2>3, <2>4, <3>1, <3>3, GoesOn
  <2>5. CASE ~(dir[p].kind = "none")
    <3>1. Obstructed(m, b) /\ Obstructed(m, dir)
      BY <1>1, <1>3, <1>4, <2>2, <2>5
    <3> QED BY <1>2, <1>3, <2>3, <2>5, <3>1, GivesUp
  <2> QED BY <2>4, <2>5
<1>5. CASE at[r] = 2
  <2>1. Current(r).op = "create" /\ Source(r) = p
    BY <1>3, <1>5 DEF Current, Source, unlink_main, Do, Call, Paths
  <2>2. Succeeds(r) /\ dir'[p] # None /\ (\A n \in Names \ {p} : dir'[n] = dir[n])
    BY <1>1, <1>3, <2>1, CreateDoes
  <2>3. OthersKept(r)
    BY <1>2, <1>3, <2>2 DEF OthersKept
  <2>4. UnlinkReached(p, 3, b, dir')
    BY <1>3, <1>5, <2>2 DEF UnlinkReached
  <2>5. Reached(m, 2 + 1, b, dir', r) /\ 2 < Len(m)
    BY <1>1, <1>2, <2>4
  <2> QED BY <1>5, <2>2, <2>3, <2>5, GoesOn
<1>6. CASE at[r] = 3
  <2>1. Current(r).op = "stat" /\ Source(r) = p
    BY <1>3, <1>6 DEF Current, Source, unlink_main, Do, Call, Paths
  <2>2. Follow(p) = p /\ dir[p].kind # "none"
    BY <1>3, <1>6, NoFollow DEF UnlinkReached, CInv, FInv
  <2>3. Succeeds(r) /\ dir' = dir
    BY <1>1, <1>3, <2>1, <2>2, CallDoes
  <2>4. OthersKept(r)
    BY <1>2, <1>3, <2>2, <2>3 DEF OthersKept
  <2>5. UnlinkReached(p, 4, b, dir')
    BY <1>3, <1>6, <2>2, <2>3 DEF UnlinkReached
  <2>6. Reached(m, 3 + 1, b, dir', r) /\ 3 < Len(m)
    BY <1>1, <1>2, <2>5
  <2> QED BY <1>6, <2>3, <2>4, <2>6, GoesOn
<1>7. CASE at[r] = 4
  <2>1. Current(r).op = "unlink" /\ Source(r) = p
    BY <1>3, <1>7 DEF Current, Source, unlink_main, Do, Call, Paths
  <2>2. dir[p].kind = "file"
    BY <1>3, <1>7 DEF UnlinkReached
  <2>3. Succeeds(r) /\ dir' = [dir EXCEPT ![p] = None]
    BY <1>1, <1>3, <2>1, <2>2, CallDoes
  <2>4. Succeeds(r) /\ dir'[p] = None /\ (\A n \in Names \ {p} : dir'[n] = dir[n])
    BY <1>3, <2>2, <2>3 DEF TypeOK
  <2>5. OthersKept(r)
    BY <1>2, <1>3, <2>2, <2>3, <2>4 DEF OthersKept
  <2>6. ~Obstructed(main[r], b) /\ AllRemoved(r)
    BY <1>1, <1>2, <1>3, <1>7, <2>2, <2>3, <2>4 DEF UnlinkReached, AllRemoved
  <2>7. 4 = Len(main[r]) /\ 4 \in Nat \ {0}
    BY <1>2
  <2> QED BY <1>7, <2>4, <2>5, <2>6, <2>7, Completes, Zenon
<1> QED BY <1>3, <1>4, <1>5, <1>6, <1>7

LEMMA MkdirRuns ==
    ASSUME UInv, NEW r \in Procs \ met, Step(r), Faultless(r)', main[r] = mkdir_main
    PROVE  Outcome(r)
<1> DEFINE b == before[r]
<1>1. /\ \A k, e, d : Reached(mkdir_main, k, e, d, r) <=> MkdirReached(k, e, d)
      /\ \A d : Obstructed(mkdir_main, d) <=> d[example_dir] # None
      /\ mkdir_main # dup2_main
  BY MainsDiffer DEF Reached, Obstructed, Paths
<1>2. Made(r) = {example_dir} /\ Len(mkdir_main) = 2
  BY DEF Made, Range, mkdir_main, Do, Call
<1>3. /\ CInv /\ Kinds /\ TypeOK /\ r \in Procs /\ ~failed[r] /\ at[r] \in 1..2
      /\ MkdirReached(at[r], b, dir)
      /\ \A n \in Names \ {example_dir} : dir[n] = b[n]
      /\ at[r] = 1 => dir = b
      /\ example_dir \in Names
  <2>1. example_dir \in FixedNames
    BY DEF FixedNames
  <2> QED BY <1>1, <1>2, <2>1, RunSoFar
<1>4. CASE at[r] = 1
  <2>1. Current(r).op = "mkdir" /\ Source(r) = example_dir
    BY <1>3, <1>4 DEF Current, Source, mkdir_main, Do, Call
  <2>2. IF dir[example_dir] = None
        THEN Succeeds(r) /\ dir' = [dir EXCEPT ![example_dir] = Directory] ELSE Fails(r)
    BY <1>1, <1>3, <2>1, CallDoes
  <2>3. CASE dir[example_dir] = None
    <3>1. Succeeds(r) /\ dir'[example_dir] = Directory
          /\ (\A n \in Names \ {example_dir} : dir'[n] = dir[n])
      BY <1>3, <2>2, <2>3 DEF TypeOK
    <3>2. OthersKept(r)
      BY <1>2, <1>3, <2>2, <2>3, <3>1 DEF OthersKept
    <3>3. MkdirReached(2, b, dir')
      BY <1>3, <1>4, <2>2, <2>3, <3>1 DEF MkdirReached
    <3>4. Reached(mkdir_main, 1 + 1, b, dir', r) /\ 1 < Len(mkdir_main)
      BY <1>1, <1>2, <3>3
    <3> QED BY <1>4, <3>1, <3>2, <3>4, GoesOn
  <2>4. CASE ~(dir[example_dir] = None)
    <3>1. Obstructed(mkdir_main, b) /\ Obstructed(mkdir_main, dir)
      BY <1>1, <1>3, <1>4, <2>4
    <3> QED BY <1>2, <1>3, <2>2, <2>4, <3>1, GivesUp
  <2> QED BY <2>3, <2>4
<1>5. CASE at[r] = 2
  <2>1. Current(r).op = "rmdir" /\ Source(r) = example_dir
    BY <1>3, <1>5 DEF Current, Source, mkdir_main, Do, Call
  <2>2. dir[example_dir].kind = "dir"
    BY <1>3, <1>5, EntryKinds DEF MkdirReached
  <2>3. Succeeds(r) /\ dir' = [dir EXCEPT ![example_dir] = None]
    BY <1>1, <1>3, <2>1, <2>2, CallDoes
  <2>4. Succeeds(r) /\ dir'[example_dir] = None
        /\ (\A n \in Names \ {example_dir} : dir'[n] = dir[n])
    BY <1>3, <2>2, <2>3 DEF TypeOK
  <2>5. OthersKept(r)
    BY <1>2, <1>3, <2>2, <2>3, <2>4 DEF OthersKept
  <2>6. ~Obstructed(main[r], b) /\ AllRemoved(r)
    BY <1>1, <1>2, <1>3, <1>5, <2>2, <2>3, <2>4 DEF MkdirReached, AllRemoved
  <2>7. 2 = Len(main[r]) /\ 2 \in Nat \ {0}
    BY <1>2
  <2> QED BY <1>5, <2>4, <2>5, <2>6, <2>7, Completes, Zenon
<1> QED BY <1>3, <1>4, <1>5

LEMMA MkdtempRuns ==
    ASSUME UInv, NEW r \in Procs \ met, Step(r), Faultless(r)', main[r] = mkdtemp_main
    PROVE  Outcome(r)
<1> DEFINE b == before[r]
<1>1. /\ \A k, e, d : Reached(mkdtemp_main, k, e, d, r) <=> MkdtempReached(k, d, r)
      /\ \A d : ~Obstructed(mkdtemp_main, d)
      /\ mkdtemp_main # dup2_main
  BY MainsDiffer DEF Reached, Obstructed, Paths
<1>2. Made(r) = {r} /\ Len(mkdtemp_main) = 2
  BY DEF Made, Range, mkdtemp_main, Do, Call
<1>3. /\ CInv /\ Kinds /\ TypeOK /\ r \in Procs /\ ~failed[r] /\ at[r] \in 1..2
      /\ MkdtempReached(at[r], dir, r)
      /\ \A n \in Names \ {r} : dir[n] = b[n]
      /\ at[r] = 1 => dir = b
      /\ r \in Names /\ (at[r] = 1 => dir[r] = None)
  <2>1. CInv /\ r \in Running
    BY RunSoFar
  <2>2. at[r] = 1 => dir[r] = None
    BY <2>1 DEF CInv, Cleanup, Running
  <2> QED BY <1>1, <1>2, <2>2, RunSoFar
<1>4. CASE at[r] = 1
  <2>1. Current(r).op = "mkdir" /\ Source(r) = r
    BY <1>3, <1>4 DEF Current, Source, mkdtemp_main, Do, Call
  <2>2. dir[r] = None
    BY <1>3, <1>4 DEF MkdtempReached
  <2>3. Succeeds(r) /\ dir' = [dir EXCEPT ![r] = Directory]
    BY <1>1, <1>3, <2>1, <2>2, CallDoes
  <2>4. Succeeds(r) /\ dir'[r] = Directory /\ (\A n \in Names \ {r} : dir'[n] = dir[n])
    BY <1>3, <2>2, <2>3 DEF TypeOK
  <2>5. OthersKept(r)
    BY <1>2, <1>3, <2>2, <2>3, <2>4 DEF OthersKept
  <2>6. MkdtempReached(2, dir', r)
    BY <1>3, <1>4, <2>2, <2>3, <2>4 DEF MkdtempReached
  <2>7. Reached(mkdtemp_main, 1 + 1, b, dir', r) /\ 1 < Len(mkdtemp_main)
    BY <1>1, <1>2, <2>6
  <2> QED BY <1>4, <2>4, <2>5, <2>7, GoesOn
<1>5. CASE at[r] = 2
  <2>1. Current(r).op = "rmdir" /\ Source(r) = r
    BY <1>3, <1>5 DEF Current, Source, mkdtemp_main, Do, Call
  <2>2. dir[r].kind = "dir"
    BY <1>3, <1>5, EntryKinds DEF MkdtempReached
  <2>3. Succeeds(r) /\ dir' = [dir EXCEPT ![r] = None]
    BY <1>1, <1>3, <2>1, <2>2, CallDoes
  <2>4. Succeeds(r) /\ dir'[r] = None /\ (\A n \in Names \ {r} : dir'[n] = dir[n])
    BY <1>3, <2>2, <2>3 DEF TypeOK
  <2>5. OthersKept(r)
    BY <1>2, <1>3, <2>2, <2>3, <2>4 DEF OthersKept
  <2>6. ~Obstructed(main[r], b) /\ AllRemoved(r)
    BY <1>1, <1>2, <1>3, <1>5, <2>2, <2>3, <2>4 DEF MkdtempReached, AllRemoved
  <2>7. 2 = Len(main[r]) /\ 2 \in Nat \ {0}
    BY <1>2
  <2> QED BY <1>5, <2>4, <2>5, <2>6, <2>7, Completes, Zenon
<1> QED BY <1>3, <1>4, <1>5

LEMMA MkstempRuns ==
    ASSUME UInv, NEW r \in Procs \ met, Step(r), Faultless(r)', main[r] = mkstemp_main
    PROVE  Outcome(r)
<1> DEFINE b == before[r]
<1>1. /\ \A k, e, d : Reached(mkstemp_main, k, e, d, r) <=> TempFileReached(k, d, r)
      /\ \A d : ~Obstructed(mkstemp_main, d)
      /\ mkstemp_main # dup2_main
  BY MainsDiffer DEF Reached, Obstructed, Paths
<1>2. Made(r) = {r} /\ Len(mkstemp_main) = 3
  BY DEF Made, Range, mkstemp_main, Do, Call
<1>3. /\ CInv /\ Kinds /\ TypeOK /\ r \in Procs /\ ~failed[r] /\ at[r] \in 1..3
      /\ TempFileReached(at[r], dir, r)
      /\ \A n \in Names \ {r} : dir[n] = b[n]
      /\ at[r] = 1 => dir = b
      /\ r \in Names /\ (at[r] = 1 => dir[r] = None)
  <2>1. CInv /\ r \in Running
    BY RunSoFar
  <2>2. at[r] = 1 => dir[r] = None
    BY <2>1 DEF CInv, Cleanup, Running
  <2> QED BY <1>1, <1>2, <2>2, RunSoFar
<1>4. CASE at[r] = 1
  <2>1. Current(r).op = "mkstemp" /\ Source(r) = r
    BY <1>3, <1>4 DEF Current, Source, mkstemp_main, Do, Call
  <2>2. dir[r] = None /\ File(r, at[r]).kind = "file"
    BY <1>3, <1>4, EntryKinds DEF TempFileReached
  <2>3. Succeeds(r) /\ dir' = [dir EXCEPT ![r] = File(r, at[r])]
    BY <1>1, <1>3, <2>1, <2>2, CallDoes
  <2>4. Succeeds(r) /\ dir'[r] = File(r, at[r]) /\ (\A n \in Names \ {r} : dir'[n] = dir[n])
    BY <1>3, <2>2, <2>3 DEF TypeOK
  <2>5. OthersKept(r)
    BY <1>2, <1>3, <2>2, <2>3, <2>4 DEF OthersKept
  <2>6. TempFileReached(2, dir', r)
    BY <1>3, <1>4, <2>2, <2>3, <2>4 DEF TempFileReached
  <2>7. Reached(mkstemp_main, 1 + 1, b, dir', r) /\ 1 < Len(mkstemp_main)
    BY <1>1, <1>2, <2>6
  <2> QED BY <1>4, <2>4, <2>5, <2>7, GoesOn
<1>5. CASE at[r] = 2
  <2>1. Current(r).op = "close" /\ Source(r) = r
    BY <1>3, <1>5 DEF Current, Source, mkstemp_main, Do, Call
  <2>2. Succeeds(r) /\ dir' = dir
    BY <1>1, <1>3, <2>1, CallDoes
  <2>3. OthersKept(r)
    BY <1>2, <1>3, <2>2 DEF OthersKept
  <2>4. TempFileReached(3, dir', r)
    BY <1>3, <1>5, <2>2 DEF TempFileReached
  <2>5. Reached(mkstemp_main, 2 + 1, b, dir', r) /\ 2 < Len(mkstemp_main)
    BY <1>1, <1>2, <2>4
  <2> QED BY <1>5, <2>2, <2>3, <2>5, GoesOn
<1>6. CASE at[r] = 3
  <2>1. Current(r).op = "unlink" /\ Source(r) = r
    BY <1>3, <1>6 DEF Current, Source, mkstemp_main, Do, Call
  <2>2. dir[r].kind = "file"
    BY <1>3, <1>6 DEF TempFileReached
  <2>3. Succeeds(r) /\ dir' = [dir EXCEPT ![r] = None]
    BY <1>1, <1>3, <2>1, <2>2, CallDoes
  <2>4. Succeeds(r) /\ dir'[r] = None /\ (\A n \in Names \ {r} : dir'[n] = dir[n])
    BY <1>3, <2>2, <2>3 DEF TypeOK
  <2>5. OthersKept(r)
    BY <1>2, <1>3, <2>2, <2>3, <2>4 DEF OthersKept
  <2>6. ~Obstructed(main[r], b) /\ AllRemoved(r)
    BY <1>1, <1>2, <1>3, <1>6, <2>2, <2>3, <2>4 DEF TempFileReached, AllRemoved
  <2>7. 3 = Len(main[r]) /\ 3 \in Nat \ {0}
    BY <1>2
  <2> QED BY <1>6, <2>4, <2>5, <2>6, <2>7, Completes, Zenon
<1> QED BY <1>3, <1>4, <1>5, <1>6

LEMMA SyncRuns ==
    ASSUME UInv, NEW r \in Procs \ met, Step(r), Faultless(r)', main[r] = sync_main
    PROVE  Outcome(r)
<1> DEFINE b == before[r]
<1>1. /\ \A k, e, d : Reached(sync_main, k, e, d, r) <=> TempFileReached(k, d, r)
      /\ \A d : ~Obstructed(sync_main, d)
      /\ sync_main # dup2_main
  BY MainsDiffer DEF Reached, Obstructed, Paths
<1>2. Made(r) = {r} /\ Len(sync_main) = 4
  BY DEF Made, Range, sync_main, Do, Call
<1>3. /\ CInv /\ Kinds /\ TypeOK /\ r \in Procs /\ ~failed[r] /\ at[r] \in 1..4
      /\ TempFileReached(at[r], dir, r)
      /\ \A n \in Names \ {r} : dir[n] = b[n]
      /\ at[r] = 1 => dir = b
      /\ r \in Names /\ (at[r] = 1 => dir[r] = None)
  <2>1. CInv /\ r \in Running
    BY RunSoFar
  <2>2. at[r] = 1 => dir[r] = None
    BY <2>1 DEF CInv, Cleanup, Running
  <2> QED BY <1>1, <1>2, <2>2, RunSoFar
<1>4. CASE at[r] = 1
  <2>1. Current(r).op = "mkstemp" /\ Source(r) = r
    BY <1>3, <1>4 DEF Current, Source, sync_main, Do, Call
  <2>2. dir[r] = None /\ File(r, at[r]).kind = "file"
    BY <1>3, <1>4, EntryKinds DEF TempFileReached
  <2>3. Succeeds(r) /\ dir' = [dir EXCEPT ![r] = File(r, at[r])]
    BY <1>1, <1>3, <2>1, <2>2, CallDoes
  <2>4. Succeeds(r) /\ dir'[r] = File(r, at[r]) /\ (\A n \in Names \ {r} : dir'[n] = dir[n])
    BY <1>3, <2>2, <2>3 DEF TypeOK
  <2>5. OthersKept(r)
    BY <1>2, <1>3, <2>2, <2>3, <2>4 DEF OthersKept
  <2>6. TempFileReached(2, dir', r)
    BY <1>3, <1>4, <2>2, <2>3, <2>4 DEF TempFileReached
  <2>7. Reached(sync_main, 1 + 1, b, dir', r) /\ 1 < Len(sync_main)
    BY <1>1, <1>2, <2>6
  <2> QED BY <1>4, <2>4, <2>5, <2>7, GoesOn
<1>5. CASE at[r] = 2
  <2>1. Current(r).op = "write" /\ Source(r) = r
    BY <1>3, <1>5 DEF Current, Source, sync_main, Do, Call
  <2>2. Succeeds(r) /\ dir' = dir
    BY <1>1, <1>3, <2>1, CallDoes
  <2>3. OthersKept(r)
    BY <1>2, <1>3, <2>2 DEF OthersKept
  <2>4. TempFileReached(3, dir', r)
    BY <1>3, <1>5, <2>2 DEF TempFileReached
  <2>5. Reached(sync_main, 2 + 1, b, dir', r) /\ 2 < Len(sync_main)
    BY <1>1, <1>2, <2>4
  <2> QED BY <1>5, <2>2, <2>3, <2>5, GoesOn
<1>6. CASE at[r] = 3
  <2>1. Current(r).op = "close" /\ Source(r) = r
    BY <1>3, <1>6 DEF Current, Source, sync_main, Do, Call
  <2>2. Succeeds(r) /\ dir' = dir
    BY <1>1, <1>3, <2>1, CallDoes
  <2>3. OthersKept(r)
    BY <1>2, <1>3, <2>2 DEF OthersKept
  <2>4. TempFileReached(4, dir', r)
    BY <1>3, <1>6, <2>2 DEF TempFileReached
  <2>5. Reached(sync_main, 3 + 1, b, dir', r) /\ 3 < Len(sync_main)
    BY <1>1, <1>2, <2>4
  <2> QED BY <1>6, <2>2, <2>3, <2>5, GoesOn
<1>7. CASE at[r] = 4
  <2>1. Current(r).op = "unlink" /\ Source(r) = r
    BY <1>3, <1>7 DEF Current, Source, sync_main, Do, Call
  <2>2. dir[r].kind = "file"
    BY <1>3, <1>7 DEF TempFileReached
  <2>3. Succeeds(r) /\ dir' = [dir EXCEPT ![r] = None]
    BY <1>1, <1>3, <2>1, <2>2, CallDoes
  <2>4. Succeeds(r) /\ dir'[r] = None /\ (\A n \in Names \ {r} : dir'[n] = dir[n])
    BY <1>3, <2>2, <2>3 DEF TypeOK
  <2>5. OthersKept(r)
    BY <1>2, <1>3, <2>2, <2>3, <2>4 DEF OthersKept
  <2>6. ~Obstructed(main[r], b) /\ AllRemoved(r)
    BY <1>1, <1>2, <1>3, <1>7, <2>2, <2>3, <2>4 DEF TempFileReached, AllRemoved
  <2>7. 4 = Len(main[r]) /\ 4 \in Nat \ {0}
    BY <1>2
  <2> QED BY <1>7, <2>4, <2>5, <2>6, <2>7, Completes, Zenon
<1> QED BY <1>3, <1>4, <1>5, <1>6, <1>7

LEMMA FtruncateRuns ==
    ASSUME UInv, NEW r \in Procs \ met, Step(r), Faultless(r)', main[r] = ftruncate_main
    PROVE  Outcome(r)
<1> DEFINE b == before[r]
<1>1. /\ \A k, e, d : Reached(ftruncate_main, k, e, d, r) <=> TempFileReached(k, d, r)
      /\ \A d : ~Obstructed(ftruncate_main, d)
      /\ ftruncate_main # dup2_main
  BY MainsDiffer DEF Reached, Obstructed, Paths
<1>2. Made(r) = {r} /\ Len(ftruncate_main) = 4
  BY DEF Made, Range, ftruncate_main, Do, Call
<1>3. /\ CInv /\ Kinds /\ TypeOK /\ r \in Procs /\ ~failed[r] /\ at[r] \in 1..4
      /\ TempFileReached(at[r], dir, r)
      /\ \A n \in Names \ {r} : dir[n] = b[n]
      /\ at[r] = 1 => dir = b
      /\ r \in Names /\ (at[r] = 1 => dir[r] = None)
  <2>1. CInv /\ r \in Running
    BY RunSoFar
  <2>2. at[r] = 1 => dir[r] = None
    BY <2>1 DEF CInv, Cleanup, Running
  <2> QED BY <1>1, <1>2, <2>2, RunSoFar
<1>4. CASE at[r] = 1
  <2>1. Current(r).op = "mkstemp" /\ Source(r) = r
    BY <1>3, <1>4 DEF Current, Source, ftruncate_main, Do, Call
  <2>2. dir[r] = None /\ File(r, at[r]).kind = "file"
    BY <1>3, <1>4, EntryKinds DEF TempFileReached
  <2>3. Succeeds(r) /\ dir' = [dir EXCEPT ![r] = File(r, at[r])]
    BY <1>1, <1>3, <2>1, <2>2, CallDoes
  <2>4. Succeeds(r) /\ dir'[r] = File(r, at[r]) /\ (\A n \in Names \ {r} : dir'[n] = dir[n])
    BY <1>3, <2>2, <2>3 DEF TypeOK
  <2>5. OthersKept(r)
    BY <1>2, <1>3, <2>2, <2>3, <2>4 DEF OthersKept
  <2>6. TempFileReached(2, dir', r)
    BY <1>3, <1>4, <2>2, <2>3, <2>4 DEF TempFileReached
  <2>7. Reached(ftruncate_main, 1 + 1, b, dir', r) /\ 1 < Len(ftruncate_main)
    BY <1>1, <1>2, <2>6
  <2> QED BY <1>4, <2>4, <2>5, <2>7, GoesOn
<1>5. CASE at[r] = 2
  <2>1. Current(r).op = "ftruncate" /\ Source(r) = r
    BY <1>3, <1>5 DEF Current, Source, ftruncate_main, Do, Call
  <2>2. Succeeds(r) /\ dir' = dir
    BY <1>1, <1>3, <2>1, CallDoes
  <2>3. OthersKept(r)
    BY <1>2, <1>3, <2>2 DEF OthersKept
  <2>4. TempFileReached(3, dir', r)
    BY <1>3, <1>5, <2>2 DEF TempFileReached
  <2>5. Reached(ftruncate_main, 2 + 1, b, dir', r) /\ 2 < Len(ftruncate_main)
    BY <1>1, <1>2, <2>4
  <2> QED BY <1>5, <2>2, <2>3, <2>5, GoesOn
<1>6. CASE at[r] = 3
  <2>1. Current(r).op = "close" /\ Source(r) = r
    BY <1>3, <1>6 DEF Current, Source, ftruncate_main, Do, Call
  <2>2. Succeeds(r) /\ dir' = dir
    BY <1>1, <1>3, <2>1, CallDoes
  <2>3. OthersKept(r)
    BY <1>2, <1>3, <2>2 DEF OthersKept
  <2>4. TempFileReached(4, dir', r)
    BY <1>3, <1>6, <2>2 DEF TempFileReached
  <2>5. Reached(ftruncate_main, 3 + 1, b, dir', r) /\ 3 < Len(ftruncate_main)
    BY <1>1, <1>2, <2>4
  <2> QED BY <1>6, <2>2, <2>3, <2>5, GoesOn
<1>7. CASE at[r] = 4
  <2>1. Current(r).op = "unlink" /\ Source(r) = r
    BY <1>3, <1>7 DEF Current, Source, ftruncate_main, Do, Call
  <2>2. dir[r].kind = "file"
    BY <1>3, <1>7 DEF TempFileReached
  <2>3. Succeeds(r) /\ dir' = [dir EXCEPT ![r] = None]
    BY <1>1, <1>3, <2>1, <2>2, CallDoes
  <2>4. Succeeds(r) /\ dir'[r] = None /\ (\A n \in Names \ {r} : dir'[n] = dir[n])
    BY <1>3, <2>2, <2>3 DEF TypeOK
  <2>5. OthersKept(r)
    BY <1>2, <1>3, <2>2, <2>3, <2>4 DEF OthersKept
  <2>6. ~Obstructed(main[r], b) /\ AllRemoved(r)
    BY <1>1, <1>2, <1>3, <1>7, <2>2, <2>3, <2>4 DEF TempFileReached, AllRemoved
  <2>7. 4 = Len(main[r]) /\ 4 \in Nat \ {0}
    BY <1>2
  <2> QED BY <1>7, <2>4, <2>5, <2>6, <2>7, Completes, Zenon
<1> QED BY <1>3, <1>4, <1>5, <1>6, <1>7

LEMMA ShmRuns ==
    ASSUME UInv, NEW r \in Procs \ met, Step(r), Faultless(r)', main[r] = shm_main
    PROVE  Outcome(r)
<1> DEFINE b == before[r]
<1>1. /\ \A k, e, d : Reached(shm_main, k, e, d, r) <=> ShmReached(k, d)
      /\ \A d : ~Obstructed(shm_main, d)
      /\ shm_main # dup2_main
  BY MainsDiffer DEF Reached, Obstructed, Paths
<1>2. Made(r) = {shm_name} /\ Len(shm_main) = 2
  BY DEF Made, Range, shm_main, Do, Call
<1>3. /\ CInv /\ Kinds /\ TypeOK /\ r \in Procs /\ ~failed[r] /\ at[r] \in 1..2
      /\ ShmReached(at[r], dir)
      /\ \A n \in Names \ {shm_name} : dir[n] = b[n]
      /\ at[r] = 1 => dir = b
      /\ \A n \in {shm_name} : n \in Names /\ (dir[n] # None => dir[n].kind = "file")
  <2>1. {shm_name} \subseteq Plain /\ {shm_name} \subseteq FixedNames
    BY DEF Plain, FixedNames, Paths
  <2> QED BY <1>1, <1>2, <2>1, RunSoFar
<1>4. CASE at[r] = 1
  <2>1. Current(r).op = "shm_open" /\ Source(r) = shm_name
    BY <1>3, <1>4 DEF Current, Source, shm_main, Do, Call
  <2>2. Succeeds(r) /\ dir'[shm_name] # None /\ (\A n \in Names \ {shm_name} : dir'[n] = dir[n])
    BY <1>1, <1>3, <2>1, CallDoes
  <2>3. OthersKept(r)
    BY <1>2, <1>3, <2>2 DEF OthersKept
  <2>4. ShmReached(2, dir')
    BY <1>3, <1>4, <2>2 DEF ShmReached
  <2>5. Reached(shm_main, 1 + 1, b, dir', r) /\ 1 < Len(shm_main)
    BY <1>1, <1>2, <2>4
  <2> QED BY <1>4, <2>2, <2>3, <2>5, GoesOn
<1>5. CASE at[r] = 2
  <2>1. Current(r).op = "unlink" /\ Source(r) = shm_name
    BY <1>3, <1>5 DEF Current, Source, shm_main, Do, Call
  <2>2. dir[shm_name].kind = "file"
    BY <1>3, <1>5 DEF ShmReached
  <2>3. Succeeds(r) /\ dir' = [dir EXCEPT ![shm_name] = None]
    BY <1>1, <1>3, <2>1, <2>2, CallDoes
  <2>4. Succeeds(r) /\ dir'[shm_name] = None /\ (\A n \in Names \ {shm_name} : dir'[n] = dir[n])
    BY <1>3, <2>2, <2>3 DEF TypeOK
  <2>5. OthersKept(r)
    BY <1>2, <1>3, <2>2, <2>3, <2>4 DEF OthersKept
  <2>6. ~Obstructed(main[r], b) /\ AllRemoved(r)
    BY <1>1, <1>2, <1>3, <1>5, <2>2, <2>3, <2>4 DEF ShmReached, AllRemoved
  <2>7. 2 = Len(main[r]) /\ 2 \in Nat \ {0}
    BY <1>2
  <2> QED BY <1>5, <2>4, <2>5, <2>6, <2>7, Completes, Zenon
<1> QED BY <1>3, <1>4, <1>5

\* files/dup2 goes on through its cleanup, so that it needs no account of how far it is.
LEMMA Dup2Runs ==
    ASSUME UInv, NEW r \in Procs \ met, Step(r), Faultless(r)', main[r] = dup2_main
    PROVE  Outcome(r) /\ ~failed'[r]
<1> DEFINE b == before[r]
<1>1. /\ \A k, e, d : Reached(dup2_main, k, e, d, r)
      /\ \A d : ~Obstructed(dup2_main, d)
  BY MainsDiffer DEF Reached, Obstructed, Paths
<1>2. Made(r) = {r} /\ Len(dup2_main) = 10
  BY DEF Made, Range, dup2_main, Call
<1>3. /\ CInv /\ TypeOK /\ r \in Procs /\ status[r] = "running" /\ ~failed[r] /\ r \in Names
      /\ \A n \in Names \ {r} : dir[n] = b[n]
  BY <1>2, RunSoFar DEF Running
<1>4. /\ at[r] \in 1..10 /\ Source(r) = r /\ Current(r) = dup2_main[at[r]]
      /\ at[r] < 10 => Works(r)
      /\ at[r] = 10 => (Works(r) <=> dir[r].kind \in {"file", "symlink"})
  BY <1>3, Dup2Works DEF Current
<1>5. UNCHANGED main /\ ~Fault(r)
  <2>1. UNCHANGED main
    BY <1>3, StepMoves DEF CInv, FInv
  <2>2. Fault(r) => <<r, at[r]>> \in faulty'
    BY DEF Fault
  <2> QED BY <1>2, <1>4, <2>1, <2>2 DEF Faultless
<1>6. ASSUME OthersKept(r), ~failed'[r], dir'[r] = None \/ at[r] < 10,
             at'[r] # 1, status'[r] = IF at[r] < 10 THEN "running" ELSE "success"
      PROVE  Outcome(r) /\ ~failed'[r]
  <2>1. Reached(main[r], at'[r], b, dir', r)
    BY <1>1
  <2>2. CASE at[r] < 10
    <3>1. status'[r] = "running"
      BY <1>6, <2>2
    <3> QED BY <1>6, <2>1, <3>1 DEF Outcome
  <2>3. CASE ~(at[r] < 10)
    <3>1. status'[r] = "success" /\ AllRemoved(r)
      BY <1>2, <1>6, <2>3 DEF AllRemoved
    <3>2. ~Obstructed(main[r], b)
      BY <1>1
    <3>3. status'[r] # "running" /\ status'[r] # "failure"
          /\ status'[r] \in {"running", "success", "failure"}
      BY <3>1
    <3> QED BY <1>6, <3>1, <3>2, <3>3, Zenon DEF Outcome
  <2> QED BY <2>2, <2>3
<1>7. CASE Succeed(r) \/ Skip(r)
  <2>1. /\ UNCHANGED failed /\ at'[r] = at[r] + 1
        /\ dir'[r] = CASE at[r] = 1 -> File(r, 1) [] at[r] = 10 -> None [] OTHER -> dir[r]
    BY <1>3, <1>7, Dup2Goes
  <2>2. status'[r] = IF at[r] < 10 THEN "running" ELSE IF failed[r] THEN "failure" ELSE "success"
    BY <1>3, <1>7, Dup2Goes
  <2>3. OthersKept(r)
    <3>1. CASE Skip(r)
      <4>1. dir' = dir
        BY <3>1 DEF Skip, fileVars
      <4> QED BY <1>2, <1>3, <4>1 DEF OthersKept
    <3>2. CASE Succeed(r)
      <4>1. Current(r).op \in {"mkstemp", "unlink", "fstat", "write", "dup", "dup2", "restore",
                               "close", "close_saved"}
        <5>1. at[r] \in {1, 2, 3, 4, 5, 6, 7, 8, 9, 10}
          BY <1>4
        <5> QED BY <1>4, <5>1, Dup2Calls
      <4>2. \/ dir' = dir
            \/ dir' = [dir EXCEPT ![r] = File(r, at[r])]
            \/ dir' = [dir EXCEPT ![r] = None]
        BY <1>4, <3>2, <4>1 DEF Succeed, Effect, Put, fileVars
      <4>3. \A n \in Names \ {r} : dir'[n] = dir[n]
        BY <1>3, <4>2 DEF TypeOK
      <4> QED BY <1>2, <1>3, <4>3 DEF OthersKept
    <3> QED BY <1>7, <3>1, <3>2
  <2>4. ~failed'[r]
    BY <1>3, <2>1
  <2>5. status'[r] = IF at[r] < 10 THEN "running" ELSE "success"
    BY <1>3, <2>2
  <2>6. at'[r] # 1 /\ (dir'[r] = None \/ at[r] < 10)
    BY <1>4, <2>1
  <2> QED BY <1>6, <2>3, <2>4, <2>5, <2>6
<1>8. CASE Fail(r)
  <2>1. ~Works(r) /\ at[r] = 10
    BY <1>4, <1>8 DEF Fail
  <2>2. /\ dir' = dir /\ at'[r] = 11
        /\ status'[r] = IF failed'[r] THEN "failure" ELSE "success"
    BY <1>3, <1>8, <2>1, Dup2Fails
  <2>3. failed'[r] <=> failed[r] \/ Works(r)
    BY <1>3, <1>8, Dup2Fails
  <2>4. ~failed'[r]
    BY <1>3, <2>1, <2>3, Zenon
  <2>5. dir[r] = None
    <3>1. dir[r] = None \/ dir[r].kind = "file"
      BY <1>3 DEF CInv, Cleanup
    <3> QED BY <1>4, <2>1, <3>1
  <2>6. OthersKept(r)
    BY <1>2, <1>3, <2>2 DEF OthersKept
  <2>7. at'[r] # 1 /\ dir'[r] = None /\ status'[r] = IF at[r] < 10 THEN "running" ELSE "success"
    BY <2>1, <2>2, <2>4, <2>5
  <2> QED BY <1>6, <2>4, <2>6, <2>7
<1> QED BY <1>5, <1>7, <1>8 DEF Step

LEMMA EveryMainRuns ==
    ASSUME UInv, NEW r \in Procs \ met, Step(r), Faultless(r)'
    PROVE  Outcome(r) /\ ~failed'[r]
<1>1. main[r] \in Mains /\ CInv /\ ~failed[r] /\ r \in Procs
  BY RunSoFar DEF CInv, FInv, Places
<1>2. main[r] # dup2_main => ~failed'[r]
  BY <1>1, CallEnds
<1>3. ASSUME NEW p \in Paths, main[r] = lstat_main(p) \/ main[r] = unlink_main(p) PROVE Outcome(r)
  BY <1>3, LstatRuns, UnlinkRuns
<1> QED
  BY <1>1, <1>2, <1>3, ChmodRuns, LinkRuns, SymlinkRuns, RenameRuns, TruncateRuns, UmaskRuns,
     MkdirRuns, MkdtempRuns, MkstempRuns, SyncRuns, FtruncateRuns, ShmRuns, Dup2Runs DEF Mains

-------------------------------------------------------------------------------
LEMMA InitUInv == Init => UInv
<1> SUFFICES ASSUME Init PROVE UInv
  OBVIOUS
<1>1. CInv
  BY InitCInv
<1>2. \A n \in Names : dir[n] = IF n \in saved THEN File(n, 0) ELSE None
  BY DEF Init
<1>3. Kinds
  <2>1. \A n \in Names : /\ dir[n].kind \in {"none", "file"}
                         /\ dir[n].kind = "file" => dir[n].step = 0 /\ n \in saved
    BY <1>2, EntryKinds
  <2>2. file2 \notin saved /\ file2 \in Names /\ Plain \subseteq Names /\ readonly = {}
    BY DEF Init, Paths, Names, FixedNames, Plain
  <2>3. dir[file2] = None
    BY <1>2, <2>2
  <2> QED BY <2>1, <2>2, <2>3 DEF Kinds
<1>4. Running = {}
  BY DEF Init, Running
<1>5. before \in [Procs -> [Names -> Entries]]
  <2>1. dir \in [Names -> Entries] /\ before = [r \in Procs |-> dir]
    BY <1>1 DEF Init, CInv, FInv, TypeOK
  <2> QED BY <2>1
<1>6. \A r \in Procs : Undisturbed(r)
  BY <1>4 DEF Undisturbed, Running
<1> QED BY <1>1, <1>3, <1>4, <1>5, <1>6 DEF UInv, Alone

\* What a run has reached stays while nothing of it changes.
LEMMA UndisturbedStays ==
    ASSUME NEW r \in Procs, Undisturbed(r), UNCHANGED <<dir, faulty>>, main'[r] = main[r],
           at'[r] = at[r], status'[r] = status[r], failed'[r] = failed[r], before'[r] = before[r]
    PROVE  Undisturbed(r)'
<1>1. Made(r)' = Made(r)
  BY DEF Made
<1> QED BY <1>1 DEF Undisturbed, Faultless

LEMMA NextUInv == UInv /\ [Next]_vars => UInv'
<1> SUFFICES ASSUME UInv, [Next]_vars PROVE UInv'
  OBVIOUS
<1> USE DEF UInv
<1>1. CInv'
  BY NextCInv
<1>2. FInv /\ TypeOK
  BY DEF CInv, FInv
<1>3. CASE UNCHANGED vars
  <2>1. UNCHANGED <<main, at, status, dir, readonly, failed, met, faulty, before>>
    BY <1>3 DEF vars, procVars, fileVars, history
  <2>2. Kinds' /\ Alone'
    BY <2>1 DEF Kinds, Alone, Running
  <2>3. ASSUME NEW r \in Procs \ met PROVE Undisturbed(r)'
    BY <2>1, UndisturbedStays
  <2> QED BY <1>1, <2>1, <2>2, <2>3
<1>4. ASSUME NEW q \in Procs, Step(q) PROVE UInv'
  <2>1. q \in Running /\ UNCHANGED main /\ (Effect(q) \/ UNCHANGED fileVars)
    BY <1>2, <1>4, StepMoves DEF FInv
  <2>2. UNCHANGED <<met, before>>
    BY <1>4 DEF Step, Succeed, Skip, Fail, Fault, Otherwise, history
  <2>3. Kinds'
    <3>1. CASE Effect(q)
      BY <1>2, <2>1, <3>1, EffectKinds DEF FInv
    <3>2. CASE UNCHANGED fileVars
      BY <3>2 DEF fileVars, Kinds
    <3> QED BY <2>1, <3>1, <3>2
  <2>4. PICK k, st : Moves(q, k, st)
    BY <1>2, <1>4, StepMoves DEF FInv
  <2>5. \A r \in Procs \ {q} : status'[r] = status[r]
    BY <1>2, <2>4 DEF Moves, TypeOK
  <2>6. Running' \subseteq Running
    BY <2>1, <2>5 DEF Running
  <2>7. Alone'
    BY <2>2, <2>6 DEF Alone
  <2>8. ASSUME NEW r \in Procs \ met PROVE Undisturbed(r)'
    <3>1. CASE r # q
      <4>1. r \notin Running
        BY <2>1, <3>1 DEF Alone
      <4> QED BY <2>6, <4>1 DEF Undisturbed, Running
    <3>2. CASE r = q
      <4>1. SUFFICES ASSUME status'[r] = "running", Faultless(r)'
                     PROVE  /\ ~failed'[r]
                            /\ at'[r] = 1 => dir' = before'[r]
                            /\ \A n \in Names \ Made(r)' : dir'[n] = before'[r][n]
                            /\ Reached(main'[r], at'[r], before'[r], dir', r)
        BY DEF Undisturbed
      <4>2. Outcome(r) /\ ~failed'[r]
        BY <1>4, <3>2, <4>1, EveryMainRuns
      <4>3. Made(r)' = Made(r)
        BY <2>1 DEF Made
      <4> QED BY <2>1, <2>2, <4>1, <4>2, <4>3 DEF Outcome, OthersKept
    <3> QED BY <3>1, <3>2
  <2> QED BY <1>1, <2>2, <2>3, <2>7, <2>8
<1>5. ASSUME NEW q \in Procs, start(q) PROVE UInv'
  <2>1. PICK m \in Mains : main' = [main EXCEPT ![q] = m]
    BY <1>5 DEF start
  <2>2. /\ status[q] = "new" /\ status' = [status EXCEPT ![q] = "running"]
        /\ before' = [before EXCEPT ![q] = dir]
        /\ met' = met \cup (IF Running = {} THEN {} ELSE Running \cup {q})
        /\ UNCHANGED <<at, failed, dir, readonly, faulty>>
    BY <1>5 DEF start, fileVars
  <2>3. Kinds'
    BY <2>2 DEF Kinds
  <2>4. Running' = Running \cup {q}
    BY <1>2, <2>2 DEF Running, TypeOK
  <2>5. Alone'
    BY <2>2, <2>4 DEF Alone
  <2>6. before' \in [Procs -> [Names -> Entries]] /\ before'[q] = dir
    BY <1>2, <2>2 DEF TypeOK
  <2>7. ASSUME NEW r \in Procs \ met' PROVE Undisturbed(r)'
    <3>1. CASE r # q
      <4>1. r \notin Running'
        BY <2>2, <2>4, <2>7, <3>1
      <4> QED BY <4>1 DEF Undisturbed, Running
    <3>2. CASE r = q
      <4>1. at'[q] = 1 /\ ~failed'[q]
        BY <2>2 DEF CInv, FInv, Places, Cleanup
      <4>2. Reached(main'[q], 1, dir, dir, q)
        BY NothingReached
      <4> QED BY <2>2, <2>6, <3>2, <4>1, <4>2 DEF Undisturbed
    <3> QED BY <3>1, <3>2
  <2> QED BY <1>1, <2>3, <2>5, <2>6, <2>7
<1>6. ASSUME NEW q \in Procs, Kill(q) PROVE UInv'
  <2>1. /\ status' = [status EXCEPT ![q] = "killed"]
        /\ UNCHANGED <<main, at, failed, dir, readonly, met, faulty, before>>
    BY <1>6 DEF Kill, fileVars
  <2>2. Running' \subseteq Running
    BY <1>2, <2>1 DEF Running, TypeOK
  <2>3. Kinds' /\ Alone'
    BY <2>1, <2>2 DEF Kinds, Alone
  <2>4. ASSUME NEW r \in Procs \ met PROVE Undisturbed(r)'
    <3>1. CASE r # q
      <4>1. status'[r] = status[r]
        BY <1>2, <2>1, <3>1 DEF TypeOK
      <4> QED BY <2>1, <4>1, UndisturbedStays
    <3>2. CASE r = q
      <4>1. status'[r] = "killed"
        BY <1>2, <2>1, <3>2 DEF TypeOK
      <4> QED BY <4>1 DEF Undisturbed
    <3> QED BY <3>1, <3>2
  <2> QED BY <1>1, <2>1, <2>3, <2>4
<1>7. ASSUME NEW n \in Paths, UserSaves(n) PROVE UInv'
  <2>1. /\ dir' = [dir EXCEPT ![n] = File(n, 0)] /\ met' = met \cup Running
        /\ UNCHANGED <<status, before, readonly>>
    BY <1>7 DEF UserSaves, Put, procVars
  <2>2. Running' = Running
    BY <2>1 DEF Running
  <2>3. Kinds'
    <3>1. n \in Names /\ n # file2 /\ n \in Plain /\ Plain \subseteq Names /\ file2 \in Names
      BY DEF Names, FixedNames, Paths, Plain
    <3>2. \A x \in Names : dir'[x] = IF x = n THEN File(n, 0) ELSE dir[x]
      BY <1>2, <2>1, <3>1 DEF TypeOK
    <3>3. \A x \in Plain : dir'[x].kind \in {"none", "file"}
      BY <3>1, <3>2, EntryKinds DEF Kinds
    <3>4. \A x \in Names : dir'[x].kind = "file" => (dir'[x].step = 3 <=> x = file2)
      BY <3>1, <3>2, EntryKinds DEF Kinds
    <3>5. dir'[file2] = dir[file2]
      BY <3>1, <3>2
    <3>6. UNCHANGED readonly
      BY <2>1
    <3> QED BY <3>3, <3>4, <3>5, <3>6 DEF Kinds
  <2>4. Alone'
    BY <2>1, <2>2 DEF Alone
  <2>5. ASSUME NEW r \in Procs \ met' PROVE Undisturbed(r)'
    <3>1. r \notin Running'
      BY <2>1, <2>2, <2>5
    <3> QED BY <3>1 DEF Undisturbed, Running
  <2> QED BY <1>1, <2>1, <2>3, <2>4, <2>5
<1> QED BY <1>3, <1>4, <1>5, <1>6, <1>7 DEF Next

\* A run that nothing disturbs succeeds exactly when nothing was in its way when it
\* began, then removes whatever it made, and never touches another name; when it fails,
\* what was in its way still is.  It holds for each of the fifteen programs and in
\* every directory that any number of runs, kills, faults and files of the user leave.
THEOREM UndisturbedRunsKeepTheDirectory == Spec => UndisturbedRun
<1> DEFINE Ends(r) ==
             status[r] = "running" /\ status'[r] \in {"success", "failure"}
             /\ ~(\E k \in 1..Len(main[r]) : <<r, k>> \in faulty') =>
               /\ status'[r] = "success" <=> ~Obstructed(main[r], before[r])
               /\ \A n \in Names \ Made(r) : dir'[n] = before[r][n]
               /\ IF status'[r] = "success" THEN \A n \in Made(r) : dir'[n] = None
                  ELSE Obstructed(main[r], dir')
<1>1. ASSUME UInv, [Next]_vars PROVE [\A r \in Procs \ met : Ends(r)]_vars
  <2>1. ASSUME Next, NEW r \in Procs \ met, status[r] = "running",
               status'[r] \in {"success", "failure"},
               ~(\E k \in 1..Len(main[r]) : <<r, k>> \in faulty')
        PROVE  /\ status'[r] = "success" <=> ~Obstructed(main[r], before[r])
               /\ \A n \in Names \ Made(r) : dir'[n] = before[r][n]
               /\ IF status'[r] = "success" THEN \A n \in Made(r) : dir'[n] = None
                  ELSE Obstructed(main[r], dir')
    <3>1. TypeOK /\ Places
      BY <1>1 DEF UInv, CInv, FInv
    <3>2. Step(r)
      <4>1. ASSUME NEW q \in Procs, start(q) PROVE FALSE
        <5>1. status[q] = "new" /\ status' = [status EXCEPT ![q] = "running"]
          BY <4>1 DEF start
        <5> QED BY <2>1, <3>1, <5>1 DEF TypeOK
      <4>2. ASSUME NEW q \in Procs, Kill(q) PROVE FALSE
        <5>1. status' = [status EXCEPT ![q] = "killed"]
          BY <4>2 DEF Kill
        <5> QED BY <2>1, <3>1, <5>1 DEF TypeOK
      <4>3. ASSUME NEW n \in Paths, UserSaves(n) PROVE FALSE
        <5>1. status' = status
          BY <4>3 DEF UserSaves, procVars
        <5> QED BY <2>1, <5>1
      <4>4. ASSUME NEW q \in Procs, Step(q) PROVE q = r
        <5>1. PICK k, st : Moves(q, k, st)
          BY <3>1, <4>4, StepMoves
        <5>2. q # r => status'[r] = status[r]
          BY <3>1, <5>1 DEF Moves, TypeOK
        <5> QED BY <2>1, <5>2
      <4> QED BY <2>1, <4>1, <4>2, <4>3, <4>4 DEF Next
    <3>3. Faultless(r)'
      <4>1. UNCHANGED main
        BY <3>1, <3>2, StepMoves
      <4> QED BY <2>1, <4>1 DEF Faultless
    <3>4. Outcome(r)
      BY <1>1, <3>2, <3>3, EveryMainRuns
    <3>5. CASE status'[r] = "success"
      <4>1. status'[r] # "failure"
        BY <3>5
      <4> QED BY <3>4, <3>5, <4>1, Zenon DEF Outcome, OthersKept, AllRemoved
    <3>6. CASE status'[r] = "failure"
      <4>1. status'[r] # "success"
        BY <3>6
      <4> QED BY <3>4, <3>6, <4>1, Zenon DEF Outcome, OthersKept
    <3> QED BY <2>1, <3>5, <3>6
  <2> QED BY <1>1, <2>1, Zenon
<1>2. UInv /\ [Next]_vars => [\A r \in Procs \ met : Ends(r)]_vars
  BY <1>1
<1> QED BY <1>2, InitUInv, NextUInv, PTL DEF Spec, UndisturbedRun
===============================================================================
