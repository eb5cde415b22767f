---------------------------- MODULE MCXstackSock ----------------------------
(***************************************************************************)
(* Small instances of one datagram socket shared by daemon and             *)
(* application.  In the larger one the application sends, or receives, or  *)
(* does both once: the two directions share pids, threads and restarts,    *)
(* but no ring.                                                            *)
(***************************************************************************)
EXTENDS XstackSock

OneDirection == txn = 0 \/ rxn = 0 \/ rxn + txn <= 2
=============================================================================
