------------------------------ MODULE MCStorage -------------------------------
(* A small instance of Storage: a short and a longer file, one name for both *)
(* unless they leave it to chance, and two seconds.                          *)
EXTENDS Storage, TLC

CONSTANTS p1, p2

MCSize == (p1 :> 1) @@ (p2 :> 2)
===============================================================================
