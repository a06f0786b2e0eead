----------------------------- MODULE MCMySqlPool -----------------------------
(***************************************************************************)
(* Instance of MySqlPool for TLC: twice as many clients as connections, so *)
(* that clients wait, are overtaken, and race with Shutdown, and one       *)
(* handle more than connections, so that a pool that opens too many is     *)
(* seen.  std::size_t is 0..9: after a wrap-around total_ is not read.     *)
(***************************************************************************)
EXTENDS MySqlPool

CONSTANTS c1, c2, c3, c4, k1, k2, k3

FourClients == {c1, c2, c3, c4}
ThreeConns == {k1, k2, k3}
=============================================================================
