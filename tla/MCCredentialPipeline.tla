------------------------ MODULE MCCredentialPipeline ------------------------
(***************************************************************************)
(* One service.  sonarr: an API key in one file that its consumer reads.   *)
(* qbittorrent: a user name and a password, in a file each, and a consumer *)
(* that reads both.                                                        *)
(***************************************************************************)
EXTENDS CredentialPipeline

CONSTANTS v1, v2, apiKey, username, password, service

MCOwner == [f \in Fields |-> service]
MCStart == {Blank}

KeyOutputs == {"native.env", "revision"}
KeyShows == [o \in KeyOutputs |-> IF o = "revision" THEN {Revision} ELSE {apiKey}]
KeyReads == [c \in Consumers |-> {"native.env"}]

LoginOutputs == {"username", "password", "revision"}
LoginShows == [o \in LoginOutputs |->
  CASE o = "username" -> {username} [] o = "password" -> {password} [] OTHER -> {Revision}]
LoginReads == [c \in Consumers |-> {"username", "password"}]
=============================================================================
