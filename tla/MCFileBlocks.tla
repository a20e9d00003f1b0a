---------------------------- MODULE MCFileBlocks ----------------------------
(***************************************************************************)
(* An instance of FileBlocks for TLC: two processes, two files, blocks of  *)
(* two bytes, two direct blocks and a table of two entries.                *)
(***************************************************************************)
EXTENDS FileBlocks

CONSTANTS p, q, f, g
=============================================================================
