---------------------------- MODULE MCCommitLock ----------------------------
(* Three goroutines on two volumes: enough for one holder, one waiter that  *)
(* cancels and one that arrives while the entry is being deleted.           *)
EXTENDS CommitLock
=============================================================================
