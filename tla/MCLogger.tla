------------------------------- MODULE MCLogger -------------------------------
(***************************************************************************)
(* Instance of Logger for TLC: lines of one or two bytes, files that are   *)
(* full at three bytes (so a line may fill one exactly or exceed it), two  *)
(* days, the server and one tool.  Six lines are three rotations, or two   *)
(* and what a fault leaves behind.                                         *)
(***************************************************************************)
EXTENDS Logger

CONSTANTS server, tool

MCTools == {tool}
=============================================================================
