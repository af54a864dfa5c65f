-------------------------- MODULE MCServiceBackup --------------------------
(***************************************************************************)
(* Instances for TLC: TubeArchivist with its Elasticsearch, and a service  *)
(* that has files only.                                                    *)
(***************************************************************************)
EXTENDS ServiceBackup

CONSTANTS tubearchivist, komga, elasticsearch

MCNames == 1..MaxRuns
MCRank == [u \in Units |-> CASE u = komga -> 1 [] u = tubearchivist -> 2 [] OTHER -> 3]
=============================================================================
