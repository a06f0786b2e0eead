-------------------------------- MODULE MCWebApp --------------------------------
(***************************************************************************)
(* Instance of WebApp for TLC: a submission whose page is opened, left and *)
(* opened again, in three events; a page polls while a poll of it, or of a *)
(* page before it, is unanswered.                                          *)
(***************************************************************************)
EXTENDS WebApp

MCSubmissions == {"submission"}
=============================================================================
