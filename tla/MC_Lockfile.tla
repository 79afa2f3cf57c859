---------------------------- MODULE MC_Lockfile ----------------------------
(***************************************************************************)
(* Three processes, enough for a holder, one that waits for its file and   *)
(* one that opens the next; whatever they have open, an inode is free for  *)
(* who makes a file.  The calls are those the code makes: recipes and      *)
(* caches that wait, shared or not, and the cache that will not wait.      *)
(***************************************************************************)
EXTENDS Lockfile, Integers
ASSUME EnoughInodes == Cardinality(Inodes) >= Cardinality(Procs)
CodeCalls == {<<"SH", "retry">>, <<"EX", "retry">>, <<"EX", "once">>}
=============================================================================
