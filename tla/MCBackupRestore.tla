-------------------------- MODULE MCBackupRestore --------------------------
(****************************************************************************)
(* Instances of BackupRestore: two documents, one of them in the trash, the *)
(* other one perhaps a symbolic link; a staff request, an account deletion  *)
(* and a run of the command on two workers, one at a time or at once.       *)
(****************************************************************************)
EXTENDS BackupRestore

CONSTANTS d1, d2, m1, a1, c1, w1, w2

AllDocs == {d1, d2}
OldDocs == {d2}
OneManager == {m1}
OneAccount == {a1}
OneCommand == {c1}
OtherWorker == (m1 :> w1) @@ (a1 :> w2)
OneLink == {{}, {d1}}

\* Operations that overlap have one document between them, no link, and where a
\* process is killed no step fails besides.
FewFaults == overlap => /\ backups[1].rows \subseteq {d2} /\ linked = {}
                        /\ died => failures = 0
=============================================================================
