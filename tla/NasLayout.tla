------------------------------ MODULE NasLayout ------------------------------
(***************************************************************************)
(* The NAS section of the setup wizard (setup/features/nas.py): the        *)
(* operator picks disks that lsblk reports, picks parity disks among them, *)
(* and gives every disk a mount point.  A rejected answer starts the whole *)
(* section again, with a new look at the disks, except that a mount point  *)
(* in use asks for the data disk again and skips the parity disk.          *)
(*                                                                         *)
(* SetupWizard decides when the section is entered and left.  A name of a  *)
(* data disk is treated as its mount point is, and is left out; so are     *)
(* file systems and mount options.                                         *)
(***************************************************************************)
EXTENDS Integers, FiniteSets

CONSTANTS
  Disks,      \* whole disks that are not swap
  Unusable,   \* those with partitions, or mounted
  Sightings,  \* what lsblk may report, a set of sets of disks
  Mounts,     \* mount points an operator may type
  Root,       \* the mount point "/"
  None

ASSUME DiskAssumption == Unusable \subseteq Disks /\ Sightings \subseteq SUBSET Disks
ASSUME MountAssumption == None \notin Mounts /\ Sightings # {}

VARIABLES
  prompt,   \* the question that is on the screen
  visible,  \* the candidates of this pass
  chosen,   \* disks selected for the NAS
  parity,   \* those selected for parity
  mount,    \* mount point given to a disk, or None
  left      \* disks still to be asked about

layoutVars == <<visible, chosen, parity, mount, left>>
nasVars == <<prompt, layoutVars>>

NasPrompts == {"noDisks", "disks", "parity", "parityDisks", "pool",
               "dataMount", "parityMount", "save"}

NasTypeOK ==
  /\ visible \in Sightings \cup {{}}
  /\ chosen \in SUBSET Disks
  /\ parity \in SUBSET chosen
  /\ mount \in [Disks -> Mounts \cup {None}]
  /\ left \in SUBSET chosen

Data == chosen \ parity
Placed == {d \in Disks : mount[d] # None}
Taken == {Root} \cup {mount[d] : d \in Placed}

NoMounts == [d \in Disks |-> None]

\* Nothing of a pass is used outside the section.
ForgetLayout ==
  /\ visible' = {} /\ chosen' = {} /\ parity' = {} /\ left' = {}
  /\ mount' = NoMounts

NasInit ==
  /\ visible = {} /\ chosen = {} /\ parity = {} /\ left = {}
  /\ mount = NoMounts

-----------------------------------------------------------------------------
\* Faulty: the parity disks of the pass before are kept.
LookAtDisks_KeepsParity ==
  \E S \in Sightings :
    /\ visible' = S
    /\ prompt' = IF S \subseteq Unusable THEN "noDisks" ELSE "disks"
    /\ chosen' = {} /\ left' = {}
    /\ mount' = NoMounts
    /\ UNCHANGED parity

\* The top of the loop: a fresh look at the disks.
LookAtDisks ==
  \E S \in Sightings :
    /\ visible' = S
    /\ prompt' = IF S \subseteq Unusable THEN "noDisks" ELSE "disks"
    /\ chosen' = {} /\ parity' = {} /\ left' = {}
    /\ mount' = NoMounts

Selectable(S) == S # {} /\ S \cap Unusable = {}

SelectDisks ==
  /\ prompt = "disks"
  /\ \E S \in SUBSET visible :
       \/ /\ Selectable(S)
          /\ chosen' = S
          /\ prompt' = "parity"
          /\ UNCHANGED <<visible, parity, mount, left>>
       \/ ~Selectable(S) /\ LookAtDisks

AskParity ==
  /\ prompt = "parity"
  /\ \/ /\ prompt' = "pool"
        /\ UNCHANGED layoutVars
     \/ /\ Cardinality(chosen) >= 2
        /\ prompt' = "parityDisks"
        /\ UNCHANGED layoutVars
     \/ Cardinality(chosen) < 2 /\ LookAtDisks

LeavesData(P) == P # {} /\ P # chosen

SelectParity ==
  /\ prompt = "parityDisks"
  /\ \E P \in SUBSET chosen :
       \/ /\ LeavesData(P)
          /\ parity' = P
          /\ prompt' = "pool"
          /\ UNCHANGED <<visible, chosen, mount, left>>
       \/ ~LeavesData(P) /\ LookAtDisks

ConfigurePool ==
  /\ prompt = "pool"
  /\ left' = Data
  /\ prompt' = "dataMount"
  /\ UNCHANGED <<visible, chosen, parity, mount>>

\* A mount point in use is asked for again, with no change.
MountData(d) ==
  /\ prompt = "dataMount"
  /\ d \in left
  /\ \E m \in Mounts \ Taken : mount' = [mount EXCEPT ![d] = m]
  /\ left' = IF left = {d} THEN parity ELSE left \ {d}
  /\ prompt' = IF left # {d} THEN "dataMount"
               ELSE IF parity = {} THEN "save" ELSE "parityMount"
  /\ UNCHANGED <<visible, chosen, parity>>

\* Faulty: the mount points of data disks are not remembered.
MountParity_Forgets(d) ==
  /\ prompt = "parityMount"
  /\ d \in left
  /\ \E m \in Mounts :
       mount' = IF m = Root THEN mount ELSE [mount EXCEPT ![d] = m]
  /\ left' = left \ {d}
  /\ prompt' = IF left = {d} THEN "save" ELSE "parityMount"
  /\ UNCHANGED <<visible, chosen, parity>>

\* The loop goes on to the next disk even when the mount point is in use: that
\* parity disk gets none, and no place in the layout.
MountParity(d) ==
  /\ prompt = "parityMount"
  /\ d \in left
  /\ \E m \in Mounts :
       mount' = IF m \in Taken THEN mount ELSE [mount EXCEPT ![d] = m]
  /\ left' = left \ {d}
  /\ prompt' = IF left = {d} THEN "save" ELSE "parityMount"
  /\ UNCHANGED <<visible, chosen, parity>>

\* The layout is not confirmed: everything is asked again.
RejectLayout == prompt = "save" /\ LookAtDisks

NasStep ==
  \/ SelectDisks \/ AskParity \/ SelectParity \/ ConfigurePool \/ RejectLayout
  \/ \E d \in Disks : MountData(d) \/ MountParity(d)

-----------------------------------------------------------------------------
(* Properties *)

\* Whatever was rejected and asked again, the layout offered for confirmation
\* uses only disks that may be used, has a data disk, mounts every data disk,
\* and mounts no two disks, data or parity, at the same place or at the root.
LayoutIsSound ==
  prompt = "save" =>
    /\ chosen \cap Unusable = {}
    /\ Data # {} /\ Data \subseteq Placed
    /\ \A c, d \in Placed : mount[c] = mount[d] => c = d
    /\ \A d \in Placed : d \in chosen /\ mount[d] # Root
=============================================================================
