---------------------------- MODULE MCOtaUpdate ----------------------------
(***************************************************************************)
(* OtaUpdate on a chip of twenty cells: a protected lower half of one      *)
(* sector, two sectors for the slot, one to overrun into, one behind it.   *)
(***************************************************************************)
EXTENDS OtaUpdate, Sequences, Functions

MCByte == {0, 1, 3}
MCAnd(v, w) == IF v = 3 THEN w ELSE IF w = 3 THEN v ELSE IF v = w THEN v ELSE 0
MCSum(img) == FoldFunction(LAMBDA v, acc : (v + acc) % Word, 0, img)
MCNullBlock == [k \in 0 .. Unit - 1 |-> 1]

Pkg(magic, len, cells, sum) ==
    [magic |-> magic, len |-> len, sum |-> sum, size |-> Len(cells),
     data |-> [k \in 0 .. Len(cells) - 1 |-> cells[k + 1]]]

Five     == Pkg("right", 5, <<1, 0, 3, 1, 0>>, 5)     \* an image with a tail
Four     == Pkg("right", 4, <<0, 1, 1, 3>>, 5)        \* a whole number of units
Seven    == Pkg("right", 7, <<1, 1, 0, 1, 0, 0, 1>>, 4) \* the largest
Trailing == Pkg("right", 4, <<1, 0, 0, 1, 0, 1, 1>>, 2) \* more data than bin_len
Cut      == Pkg("right", 5, <<1, 3, 0>>, 8)           \* less data than bin_len
Corrupt  == Pkg("right", 4, <<1, 1, 1, 1>>, 3)
Small    == Pkg("right", 1, <<1>>, 1)                 \* less than a write unit
Empty    == Pkg("right", 0, <<1, 0, 0, 1, 1>>, 0)     \* no image, and data
BadMagic == Pkg("wrong", 4, <<1, 1, 1, 1>>, 4)
TooLarge == Pkg("right", 8, <<1, 1, 1, 1, 1, 1, 1, 1>>, 8)

MCFiles == {Five, Four, Seven, Trailing, Cut, Corrupt, Small, Empty,
            BadMagic, TooLarge}
SmallFile == {Small}
=============================================================================
