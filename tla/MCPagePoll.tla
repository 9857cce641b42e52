------------------------------ MODULE MCPagePoll ------------------------------
(* Small instances of PagePoll: a second is two milliseconds long, or one    *)
(* where milliseconds do not matter.                                         *)
EXTENDS PagePoll
===============================================================================
