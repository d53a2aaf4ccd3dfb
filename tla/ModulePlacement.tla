-------------------------- MODULE ModulePlacement --------------------------
(***************************************************************************)
(* What mbi_relocate_modules promises to whoever reads the module list,    *)
(* without searches, blocks, strings and memory: a set of images, each at  *)
(* a place of its own, of which either all are moved or none.  Relocation  *)
(* implements this specification (Relocation!Placement).                   *)
(***************************************************************************)
EXTENDS Integers, Sequences

CONSTANT Places   (* where a module may be moved to *)

VARIABLES
  placed,    (* placed[k] is module k with the place it is at              *)
  image,     (* image[k][o] is byte o of module k, as read through place   *)
  moved,     (* the modules that have been moved                           *)
  ended      (* nothing moves any more                                     *)

placementVars == <<placed, image, moved, ended>>

All == DOMAIN placed

Bytes(p, n) == p .. p + n - 1

(* A byte is named by the address the boot loader had put it at. *)
PlacementInit ==
  /\ placed \in Seq([place: Nat, length: Nat])
  /\ image = [k \in All |-> [o \in 0 .. placed[k].length - 1 |->
                               placed[k].place + o]]
  /\ moved = {}
  /\ ended = FALSE

(* One module moves to a place that no module covers, itself included.     *)
(* Its bytes, and those of all others, are the same as before.             *)
Move(k, p) ==
  /\ ~ended
  /\ k \in All \ moved
  /\ \A j \in All :
       Bytes(p, placed[k].length) \cap Bytes(placed[j].place, placed[j].length)
         = {}
  /\ placed' = [placed EXCEPT ![k] = [place |-> p, length |-> placed[k].length]]
  /\ moved' = moved \cup {k}
  /\ UNCHANGED <<image, ended>>

(* All or none. *)
End ==
  /\ ~ended
  /\ moved \in {{}, All}
  /\ ended' = TRUE
  /\ UNCHANGED <<placed, image, moved>>

PlacementNext == End \/ \E k \in All, p \in Places : Move(k, p)

PlacementSpec == PlacementInit /\ [][PlacementNext]_placementVars

=============================================================================
