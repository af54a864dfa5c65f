-------------------------- MODULE MCCredentialStore --------------------------
(***************************************************************************)
(* Instances for TLC.  Two services: sonarr with its API key, qbittorrent  *)
(* with a password.  One service, with more processes and liveness:        *)
(* qbittorrent with a user name and a password.                            *)
(***************************************************************************)
EXTENDS CredentialStore, TLC

CONSTANTS v1, v2, apiKey, username, password, sonarr, qbittorrent

MCOwner == [f \in Fields |-> IF f = apiKey THEN sonarr ELSE qbittorrent]

\* A new host; older Homepage copies not yet consolidated; a conflict.
MCStart ==
  {Blank}
    \cup {[Blank EXCEPT !.prev = [f \in Fields |-> v]] : v \in Values}
    \cup {[Blank EXCEPT !.prev = [f \in Fields |-> v],
                        !.canon = [f \in Fields |-> w]] : v, w \in Values}

ValueSymmetry == Permutations(Values)
=============================================================================
