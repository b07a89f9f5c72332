---------------------------- MODULE MCWordHandoff ----------------------------
(* Instances of WordHandoff for TLC, and what is checked only there. *)
EXTENDS WordHandoff

\* The process always ends: the end marker is never missed and no wakeup is lost.
Ends == <>(hpc["main"] = "exited")

\* "Parent: received word: %s": the words printed are those of the file, each
\* once and in file order.
PrintsWordsInOrder == \A n \in DOMAIN lines : lines[n] = n
===============================================================================
