---------------------------- MODULE MCChatStore ----------------------------
(***************************************************************************)
(* The chat store for TLC.  The configurations give its constants: whose   *)
(* responses the store is given, and how many requests there are.  Four    *)
(* are a question with its approval, twice.                                *)
(***************************************************************************)
EXTENDS ChatStore

=============================================================================
