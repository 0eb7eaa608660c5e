----------------------------- MODULE ArrayCells -----------------------------
(***************************************************************************)
(* The cells of an array and what reallocation does to them, shared by the *)
(* abstract memory (ArrayMemory) and the two-copy GPUArray.                *)
(***************************************************************************)
EXTENDS Integers

CONSTANTS Arrays,   \* the GPUArray objects
          Val,      \* values of an element
          Zero,     \* what memclear and memset write
          Junk,     \* contents of memory nobody wrote
          Sizes,    \* element counts asked for with the 1-D interface
          Widths,   \* widths asked for with the 2-D interface
          Heights,  \* heights asked for with the 2-D interface
          Align     \* row alignment in elements: 16 in the code

ASSUME CellAssumption == Zero \in Val /\ Junk \notin Val
ASSUME ShapeAssumption == /\ Sizes \subseteq Nat \ {0}
                          /\ Widths \subseteq Nat \ {0}
                          /\ Heights \subseteq Nat \ {0}
                          /\ Align \in Nat \ {0}

Cell == Val \cup {Junk}

Contents(n) == [0 .. n - 1 -> Cell]

Filled(n, v) == [i \in 0 .. n - 1 |-> v]

\* width + (16 - (width & 15)), with Align for 16
PaddedWidth(width) == width + (Align - (width % Align))

\* A read past the end of a block yields whatever is there.
At(f, i) == IF i \in DOMAIN f THEN f[i] ELSE Junk

Least(m, n) == IF m < n THEN m ELSE n

\* Zeroed block of new cells, with the common prefix of f copied into it.
Prefix(f, old, new) ==
    [i \in 0 .. new - 1 |-> IF i < Least(old, new) THEN At(f, i) ELSE Zero]

\* Zeroed block, with the common part of every common row of f copied.
Rows(f, pitch, newPitch, height, newHeight) ==
    [i \in 0 .. newPitch * newHeight - 1 |->
        LET row == i \div newPitch
            col == i % newPitch
        IN  IF row < Least(height, newHeight) /\ col < Least(pitch, newPitch)
            THEN At(f, row * pitch + col)
            ELSE Zero]
=============================================================================
