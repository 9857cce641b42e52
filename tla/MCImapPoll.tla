------------------------------ MODULE MCImapPoll ------------------------------
(* Small instances of ImapPoll: the constants are numbers and sets of them.  *)
EXTENDS ImapPoll
===============================================================================
