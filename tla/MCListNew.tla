------------------------------- MODULE MCListNew -------------------------------
(* A small instance of ListNew: pages shorter than the bucket, a limit that   *)
(* falls into the middle of a page, and one object that is no mail.           *)
EXTENDS ListNew
===============================================================================
