------------------------------ MODULE MCOpenFile ------------------------------
(* Two names, three directory inodes (the root, 12 and 13), blocks of     *)
(* three record units holding up to two live records, paths of up to two  *)
(* components.                                                             *)
EXTENDS OpenFile

CONSTANTS n1, n2, empty

MCNames == {n1, n2}
MCInos == {2, 12, 13}

=============================================================================
