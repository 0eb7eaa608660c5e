---------------------------- MODULE ArrayMemory ----------------------------
(***************************************************************************)
(* What a GPUArray promises its clients: each array is ONE flat block of   *)
(* cells, as if the host and the device shared memory.  A client opens an  *)
(* array in a mode, reads and writes its cells, and closes it.  A read     *)
(* returns what was last written, whichever side wrote it; resizing keeps  *)
(* the cells that fit; assignment copies; swap exchanges; opening to read  *)
(* or to read and write changes nothing.  Only a client that opens an array*)
(* to overwrite it gives up its contents: they are unspecified until they  *)
(* are written again.  What is not opened keeps its cells.                 *)
(***************************************************************************)
EXTENDS ArrayCells

VARIABLES block,    \* block[a]: [num, pitch, height, cells] of array a
          access,   \* access[a]: the mode in which a client has opened a, or "none"
          seen      \* what the last read returned

vars == <<block, access, seen>>

Block(n, pitch, height, cells) ==
    [num |-> n, pitch |-> pitch, height |-> height, cells |-> cells]

Null(pitch, height) == Block(0, pitch, height, Filled(0, Zero))

Init == /\ block = [a \in Arrays |-> Null(0, 0)]
        /\ access = [a \in Arrays |-> "none"]
        /\ seen = Zero

Closed(a) == access[a] = "none"

Store(a, b) == /\ block' = [block EXCEPT ![a] = b]
               /\ UNCHANGED <<access, seen>>

\* No client has the array open while its block is replaced.
Put(a, b) == Closed(a) /\ Store(a, b)

\* Construction of array a, or its destruction (a null array is left).
Create(a) ==
    \/ \E n \in Sizes : Put(a, Block(n, n, 1, Filled(n, Zero)))
    \/ \E w \in Widths, h \in Heights :
          LET p == PaddedWidth(w) IN Put(a, Block(p * h, p, h, Filled(p * h, Zero)))
    \/ Put(a, Null(0, 0))
    \/ Put(a, Null(0, 1))

\* The first allocation of a null array by resize does not clear it.
Allocate(a) ==
    /\ block[a].num = 0
    /\ \/ \E n \in Sizes :
             Put(a, Block(n, block[a].pitch, block[a].height, Filled(n, Junk)))
       \/ \E w \in Widths, h \in Heights :
             LET p == PaddedWidth(w) IN Put(a, Block(p * h, p, h, Filled(p * h, Junk)))

Resize(a) ==
    /\ block[a].num # 0
    /\ LET b == block[a] IN
       \/ \E n \in Sizes : Put(a, Block(n, n, b.height, Prefix(b.cells, b.num, n)))
       \/ \E w \in Widths, h \in Heights :
             LET p == PaddedWidth(w)
             IN  Put(a, Block(p * h, p, h, Rows(b.cells, b.pitch, p, b.height, h)))

Copy(a, b) == Put(a, block[b])

Swap(a, b) == /\ Closed(a) /\ Closed(b)
              /\ block' = [block EXCEPT ![a] = block[b], ![b] = block[a]]
              /\ UNCHANGED <<access, seen>>

Grant(a, mode) == Closed(a) /\ access' = [access EXCEPT ![a] = mode]

\* Opening to read, or to read and write, leaves every cell as it is.
Open(a) == /\ \E mode \in {"read", "readwrite"} : Grant(a, mode)
           /\ UNCHANGED <<block, seen>>

\* Opening to overwrite is the only way to lose cells, and only those of a.
Discard(a) == /\ Grant(a, "overwrite")
              /\ \E cells \in Contents(block[a].num) :
                    block' = [block EXCEPT ![a] = [@ EXCEPT !.cells = cells]]
              /\ UNCHANGED seen

Close(a) == /\ ~ Closed(a)
            /\ access' = [access EXCEPT ![a] = "none"]
            /\ UNCHANGED <<block, seen>>

Write(a) == /\ access[a] \in {"readwrite", "overwrite"}
            /\ \E i \in DOMAIN block[a].cells, v \in Val :
                  Store(a, [block[a] EXCEPT !.cells = [@ EXCEPT ![i] = v]])

Read(a) == /\ access[a] \in {"read", "readwrite"}
           /\ \E i \in DOMAIN block[a].cells : seen' = block[a].cells[i]
           /\ UNCHANGED <<block, access>>

Next == \/ \E a \in Arrays : \/ Create(a)
                             \/ Allocate(a)
                             \/ Resize(a)
                             \/ Open(a)
                             \/ Discard(a)
                             \/ Close(a)
                             \/ Write(a)
                             \/ Read(a)
        \/ \E a, b \in Arrays : Copy(a, b) \/ Swap(a, b)

Spec == Init /\ [][Next]_vars
=============================================================================
