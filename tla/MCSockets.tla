------------------------------- MODULE MCSockets -------------------------------
(* The socket programs for TLC. *)
EXTENDS AcceptServers

CONSTANTS c1, c2

\* Two words, and a word that is too long.
MCFiles == {(c1 :> <<<<1, 2>>, <<1>>>>) @@ (c2 :> <<<<1, 1, 1>>>>)}
===============================================================================
