------------------------------ MODULE MCSesRules ------------------------------
(* Small instances of SesRules: names, recipients and sets are model values. *)
EXTENDS SesRules
===============================================================================
