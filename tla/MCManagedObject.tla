--------------------------- MODULE MCManagedObject ---------------------------
(***************************************************************************)
(* Instances for TLC.  Every creation takes an id: one for the object, and *)
(* one each for what an edit, a fault or a late request may add.           *)
(***************************************************************************)
EXTENDS ManagedObject

TwoIds == 1 .. 2
FourIds == 1 .. 4
=============================================================================
