---------------------------- MODULE MCReconcileRun ----------------------------
(***************************************************************************)
(* Instances for TLC.  The three qBittorrent relationships hang together   *)
(* when qBittorrent does, and come before the registration in Prowlarr.    *)
(***************************************************************************)
EXTENDS ReconcileRun

TwoAndProwlarr == <<"sonarr", "radarr", "prowlarr">>
AllAndProwlarr == <<"sonarr", "radarr", "lidarr", "prowlarr">>
=============================================================================
