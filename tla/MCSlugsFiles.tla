---------------------------- MODULE MCSlugsFiles ----------------------------
(***************************************************************************)
(* Two shells in a directory, whose files all have the name that the        *)
(* command line gives them, on specifications in which different players    *)
(* move first.                                                              *)
(***************************************************************************)
EXTENDS SlugsFiles

MCNames == [shell \in Shells |-> "problem"]

MCPlayers == [shell \in Shells |-> IF shell = "first" THEN "Agent" ELSE "Environment"]
=============================================================================
