----------------------------- MODULE UpdateSlot -----------------------------
(***************************************************************************)
(* What the update slot promises to the bootloader that reads it after a   *)
(* power failure at any moment: it shows nothing, a package whose image    *)
(* passed its sum, or the beginning of such a package whose last write was *)
(* cut; and one package never turns into another without the slot showing  *)
(* nothing in between.  It promises nothing between an announcement        *)
(* without an image and the next one with an image.                        *)
(***************************************************************************)
CONSTANT NoImage

VARIABLES
    slot,       \* what the slot shows: its state, and the image when whole
    candidate   \* the image that has passed its sum and is being shown

Unknown    == [state |-> "unknown", img |-> NoImage]
Blank      == [state |-> "blank", img |-> NoImage]
Torn       == [state |-> "torn",  img |-> NoImage]
Whole(img) == [state |-> "whole", img |-> img]

Init == slot = Blank /\ candidate = NoImage

(* A new package is announced: whatever the slot showed goes first.        *)
Hide == slot' = Blank /\ candidate = NoImage /\ UNCHANGED candidate

(* A package without an image is announced: what is shown may be spoiled.  *)
Lose == slot' = Unknown /\ candidate = NoImage /\ UNCHANGED candidate

(* An image is accepted, while the slot shows nothing.                     *)
Accept == slot = Blank /\ candidate = NoImage /\ candidate' # NoImage /\ UNCHANGED slot

(* The accepted image appears, at once or piece by piece.                  *)
Show ==
    /\ candidate # NoImage /\ UNCHANGED candidate
    /\ \/ slot = Blank /\ slot' \in {Torn, Whole(candidate)}
       \/ slot = Torn  /\ slot' = Whole(candidate)

(* The update is over, or power fails: what is shown stays.                *)
Leave == candidate # NoImage /\ candidate' = NoImage /\ UNCHANGED slot

Next == Hide \/ Lose \/ Accept \/ Show \/ Leave

Spec == Init /\ [][Next]_<<slot, candidate>>
=============================================================================
