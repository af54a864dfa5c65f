--------------------------- MODULE CredentialVault ---------------------------
(***************************************************************************)
(* What the credential commands promise about the host document when they  *)
(* are its only writers: every command that completes takes effect as one  *)
(* atomic transaction on the document as it stands, and nothing else       *)
(* changes it.                                                             *)
(***************************************************************************)
EXTENDS CredentialDocument

VARIABLE doc

Init == doc \in StartDocuments

Transact(c) == doc' # doc /\ Outcome(doc, c, doc')

Next == \E c \in ManualCommands \cup {AutoCommand} : Transact(c)

Spec == Init /\ [][Next]_doc
=============================================================================
