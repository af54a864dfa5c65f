------------------------ MODULE MCCredentialDelivery ------------------------
(***************************************************************************)
(* An instance for TLC: qbittorrent, whose user name and password are two  *)
(* files that it loads one by one, and a further consumer of the password, *)
(* a "prometheus-" unit, which is conditional on the ready file.           *)
(***************************************************************************)
EXTENDS CredentialDelivery

CONSTANTS v1, username, password

LoginOutputs == {"username", "password", "revision"}
LoginShows == [o \in LoginOutputs |->
  CASE o = "username" -> {username} [] o = "password" -> {password} [] OTHER -> {Revision}]
LoginReads == [c \in {"qbittorrent", "exporter"} |->
  IF c = "exporter" THEN {"password"} ELSE {"username", "password"}]
=============================================================================
