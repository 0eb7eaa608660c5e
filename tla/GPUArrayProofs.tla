--------------------------- MODULE GPUArrayProofs ---------------------------
(***************************************************************************)
(* GPUArray keeps its two copies coherent and implements one flat memory   *)
(* (ArrayMemory), for every set of arrays, every size and every value.     *)
(* The inductive invariant says, object by object, that the members are    *)
(* consistent with one another, and that an open handle points at a good   *)
(* copy; without the second part a write through a handle could leave a    *)
(* copy that the location flag calls good behind.                          *)
(***************************************************************************)
EXTENDS GPUArray, TLAPS

Consistent == {o \in Objects : /\ RightSize(o)
                               /\ o.loc = "hostdevice" => o.host = o.device
                               /\ o.loc # "host" => o.alloc /\ o.gpu}

Inv == /\ arr \in [Arrays -> Consistent]
       /\ handle \in [Arrays -> Handle \cup {NoHandle}]
       /\ HandleOnGoodCopy

-----------------------------------------------------------------------------
(* What the constructors, aquire and the reallocations return. *)

LEMMA FilledBlock ==
  ASSUME NEW n \in 0 .. MaxAlloc, NEW v \in Cell
  PROVE  Filled(n, v) \in Contents(n) /\ Filled(n, v) \in Blocks
  BY MaxAllocAssumption DEF Filled, Contents, Blocks

LEMMA ZeroAndJunkAreCells == Zero \in Cell /\ Junk \in Cell
  BY CellAssumption DEF Cell

LEMMA ContentsAreBlocks ==
  ASSUME NEW n \in 0 .. MaxAlloc, NEW f \in Contents(n)
  PROVE  f \in Blocks
  BY DEF Blocks

LEMMA ObjectConsistent ==
  ASSUME NEW n \in 0 .. MaxAlloc, NEW pitch \in Nat, NEW height \in Nat,
         NEW gpu \in BOOLEAN, NEW v \in Cell
  PROVE  Object(n, pitch, height, gpu, v) \in Consistent
<1> DEFINE k == IF gpu THEN n ELSE 0
<1>1. k \in 0 .. MaxAlloc
  BY MaxAllocAssumption
<1>2. /\ Filled(n, v) \in Contents(n) /\ Filled(n, v) \in Blocks
      /\ Filled(k, v) \in Contents(k) /\ Filled(k, v) \in Blocks
  BY <1>1, FilledBlock
<1> DEFINE o == Object(n, pitch, height, gpu, v)
<1>3. o \in Objects
  BY <1>2, MaxAllocAssumption DEF Object, Objects, Loc
<1>4. /\ o.num = n /\ (o.gpu <=> gpu) /\ (o.alloc <=> n > 0) /\ o.loc = "host"
      /\ o.host = Filled(n, v) /\ o.device = Filled(k, v)
  BY <1>2 DEF Object
<1>5. RightSize(o)
  <2>1. CASE n = 0
    BY <2>1, <1>2, <1>4 DEF RightSize
  <2>2. CASE n # 0 /\ gpu
    <3>1. k = n /\ n > 0 /\ n \in 1 .. MaxAlloc
      BY <2>2, MaxAllocAssumption
    <3>2. o.alloc /\ o.gpu /\ o.num = n /\ o.host \in Contents(n) /\ o.device \in Contents(n)
      BY <2>2, <3>1, <1>2, <1>4
    <3> QED
      BY <3>1, <3>2 DEF RightSize
  <2>3. CASE n # 0 /\ ~ gpu
    BY <2>3, <1>2, <1>4, MaxAllocAssumption DEF RightSize
  <2> QED
    BY <2>1, <2>2, <2>3
<1> QED
  BY <1>3, <1>4, <1>5 DEF Consistent

LEMMA NullConsistent == NullObject \in Consistent
<1>1. 0 \in 0 .. MaxAlloc /\ FALSE \in BOOLEAN /\ 0 \in Nat
  BY MaxAllocAssumption
<1> QED
  BY <1>1, ObjectConsistent, ZeroAndJunkAreCells DEF NullObject

LEMMA AcquireConsistent ==
  ASSUME NEW o \in Consistent, NEW side \in Side, NEW mode \in Mode, Reachable(o, side)
  PROVE  Acquire(o, side, mode) \in Consistent
<1>1. CASE ~ o.alloc
  BY <1>1 DEF RightSize, Acquire, Objects, Consistent
<1>2. CASE o.alloc /\ side = "host"
  <2> DEFINE copied == o.loc = "device" /\ mode # "overwrite"
             p == [o EXCEPT !.acquired = TRUE,
                            !.loc = IF o.loc # "host" /\ mode = "read" THEN "hostdevice"
                                    ELSE "host",
                            !.host = IF copied THEN o.device ELSE o.host]
  <2>1. Acquire(o, side, mode) = p
    BY <1>2 DEF Acquire, Other, Objects, Consistent
  <2>2. p \in Objects /\ RightSize(p)
    BY <1>2 DEF RightSize, Objects, Loc, Consistent
  <2>3. p.loc = "hostdevice" => p.host = p.device /\ p.gpu
    BY DEF Objects, Loc, Consistent
  <2> QED
    BY <1>2, <2>1, <2>2, <2>3 DEF Consistent, Objects
<1>3. CASE o.alloc /\ side = "device"
  <2> DEFINE copied == o.loc = "host" /\ mode # "overwrite"
             p == [o EXCEPT !.acquired = TRUE,
                            !.loc = IF o.loc # "device" /\ mode = "read" THEN "hostdevice"
                                    ELSE "device",
                            !.device = IF copied THEN o.host ELSE o.device]
  <2>1. Acquire(o, side, mode) = p
    BY <1>3 DEF Acquire, Other, Objects, Consistent
  <2>2. o.gpu
    BY <1>3 DEF Reachable
  <2>3. p \in Objects /\ RightSize(p)
    BY <1>3, <2>2 DEF RightSize, Objects, Loc, Consistent
  <2>4. p.loc = "hostdevice" => p.host = p.device
    BY DEF Objects, Loc, Consistent
  <2> QED
    BY <1>3, <2>1, <2>2, <2>3, <2>4 DEF Consistent, Objects
<1> QED
  BY <1>1, <1>2, <1>3 DEF Side

\* Acquiring for anything but overwriting leaves the good cells as they are,
\* and the pointer that is returned points at them.
LEMMA AcquirePointsAtGoodCells ==
  ASSUME NEW o \in Consistent, NEW side \in Side, NEW mode \in Mode, Reachable(o, side),
         o.alloc
  PROVE  LET p == Acquire(o, side, mode) IN
         /\ CopyOn(p, side) = Good(p)
         /\ mode # "overwrite" => Good(p) = Good(o)
         /\ p.loc = side \/ (mode = "read" /\ p.loc = "hostdevice")
<1>1. CASE side = "host"
  BY <1>1 DEF RightSize, Objects, Acquire, Side, Mode, Loc, Other, Consistent, Good, CopyOn
<1>2. CASE side = "device"
  BY <1>2 DEF RightSize, Objects, Acquire, Side, Mode, Loc, Other, Reachable, Consistent,
              Good, CopyOn
<1> QED
  BY <1>1, <1>2 DEF Side

LEMMA StoredConsistent ==
  ASSUME NEW o \in Consistent, o.alloc, NEW side \in Side, o.loc = side,
         NEW i \in 0 .. o.num - 1, NEW v \in Val
  PROVE  /\ Stored(o, side, i, v) \in Consistent
         /\ Good(Stored(o, side, i, v)) = [Good(o) EXCEPT ![i] = v]
<1>1. o.num \in 0 .. MaxAlloc /\ o \in Objects /\ RightSize(o) /\ o.host \in Contents(o.num)
  BY DEF Consistent, RightSize, Objects
<1>2. CASE side = "host"
  <2> DEFINE f == [o.host EXCEPT ![i] = v]
             p == [o EXCEPT !.host = f]
  <2>1. f \in Contents(o.num) /\ f \in Blocks
    BY <1>1, CellAssumption, ContentsAreBlocks DEF Contents, Cell
  <2>2. Stored(o, side, i, v) = p /\ Good(p) = f /\ Good(o) = o.host
    BY <1>1, <1>2 DEF Stored, Good, Objects
  <2>3. p \in Consistent
    BY <1>1, <1>2, <2>1 DEF Consistent, RightSize, Objects
  <2> QED
    BY <2>2, <2>3
<1>3. CASE side = "device"
  <2> DEFINE f == [o.device EXCEPT ![i] = v]
             p == [o EXCEPT !.device = f]
  <2>1. o.gpu /\ o.device \in Contents(o.num)
    BY <1>1, <1>3 DEF Consistent, RightSize
  <2>2. f \in Contents(o.num) /\ f \in Blocks
    BY <1>1, <2>1, CellAssumption, ContentsAreBlocks DEF Contents, Cell
  <2>3. Stored(o, side, i, v) = p /\ Good(p) = f /\ Good(o) = o.device
    BY <1>1, <1>3 DEF Stored, Good, Objects
  <2>4. p \in Consistent
    BY <1>1, <1>3, <2>1, <2>2 DEF Consistent, RightSize, Objects
  <2> QED
    BY <2>3, <2>4
<1> QED
  BY <1>2, <1>3 DEF Side

LEMMA PrefixContents ==
  ASSUME NEW n \in Nat, NEW m \in Nat, NEW k \in Nat, NEW f \in Contents(m)
  PROVE  Prefix(f, n, k) \in Contents(k)
  BY CellAssumption DEF Prefix, Contents, At, Cell

LEMMA RowsContents ==
  ASSUME NEW pitch \in Nat, NEW height \in Nat, NEW p \in Nat, NEW h \in Nat,
         NEW m \in Nat, NEW f \in Contents(m)
  PROVE  Rows(f, pitch, p, height, h) \in Contents(p * h)
<1> SUFFICES ASSUME NEW i \in 0 .. p * h - 1
             PROVE  Rows(f, pitch, p, height, h)[i] \in Cell
  BY DEF Rows, Contents
<1>1. \A j : At(f, j) \in Cell
  BY CellAssumption DEF Contents, At, Cell
<1> QED
  BY <1>1, ZeroAndJunkAreCells DEF Rows

LEMMA PaddedWidthPositive ==
  ASSUME NEW w \in Widths, NEW h \in Heights
  PROVE  PaddedWidth(w) \in Nat \ {0} /\ h \in Nat \ {0} /\ PaddedWidth(w) * h \in Nat \ {0}
<1>1. w \in Nat \ {0} /\ h \in Nat \ {0} /\ Align \in Nat \ {0}
  BY ShapeAssumption
<1>2. w % Align \in 0 .. Align - 1
  BY <1>1
<1>3. PaddedWidth(w) \in Nat \ {0}
  BY <1>1, <1>2 DEF PaddedWidth
<1>4. ASSUME NEW x \in Nat \ {0}, NEW y \in Nat \ {0} PROVE x * y \in Nat \ {0}
  OBVIOUS
<1> QED
  BY <1>1, <1>3, <1>4

LEMMA AllocatedConsistent ==
  ASSUME NEW o \in Consistent, ~ o.alloc, NEW n \in 1 .. MaxAlloc
  PROVE  Allocated(o, n) \in Consistent /\ Good(Allocated(o, n)) = Filled(n, Junk)
<1> DEFINE d == Filled(IF o.gpu THEN n ELSE 0, Junk)
           p == [o EXCEPT !.num = n, !.alloc = TRUE, !.host = Filled(n, Junk), !.device = d]
<1>1. o \in Objects /\ o.loc = "host"
  BY DEF Consistent
<1>2. n \in Nat /\ n \in 0 .. MaxAlloc /\ 0 \in 0 .. MaxAlloc
  BY MaxAllocAssumption
<1>3. /\ Filled(n, Junk) \in Contents(n) /\ Filled(n, Junk) \in Blocks
      /\ Filled(0, Junk) \in Contents(0) /\ Filled(0, Junk) \in Blocks
  BY <1>2, FilledBlock, ZeroAndJunkAreCells
<1>4. Allocated(o, n) = p
  BY DEF Allocated
<1>5. p \in Objects /\ p.loc = "host" /\ Good(p) = Filled(n, Junk)
  BY <1>1, <1>2, <1>3 DEF Objects, Good
<1>6. RightSize(p)
  BY <1>1, <1>2, <1>3 DEF RightSize, Objects
<1> QED
  BY <1>4, <1>5, <1>6 DEF Consistent

LEMMA MovedConsistent ==
  ASSUME NEW o \in Consistent, o.alloc, NEW n \in 1 .. MaxAlloc,
         NEW host \in Contents(n), NEW device \in Contents(n),
         o.loc = "hostdevice" => host = device
  PROVE  /\ Moved(o, n, host, device) \in Consistent
         /\ Good(Moved(o, n, host, device)) = IF o.loc = "device" THEN device ELSE host
<1> DEFINE p == [o EXCEPT !.num = n, !.host = host,
                          !.device = IF o.gpu THEN device ELSE o.device]
<1>1. n \in Nat /\ n \in 0 .. MaxAlloc /\ host \in Blocks /\ device \in Blocks
  BY MaxAllocAssumption, ContentsAreBlocks
<1>2. o \in Objects /\ (o.loc # "host" => o.gpu)
  BY DEF Consistent
<1>3. Moved(o, n, host, device) = p
  BY DEF Moved
<1>4. p \in Objects
  BY <1>1, <1>2 DEF Objects
<1>5. RightSize(p)
  BY <1>2 DEF RightSize, Objects, Consistent
<1>6. p.loc = o.loc /\ p.gpu = o.gpu /\ p.alloc = o.alloc /\ p.host = host
      /\ (o.gpu => p.device = device)
  BY <1>2 DEF Objects
<1> QED
  BY <1>2, <1>3, <1>4, <1>5, <1>6 DEF Consistent, Good

\* Relabelling the rows of a consistent object changes nothing else.
\* A consistent object p is o with another pitch and height.
Relabels(o, p, pitch, height) ==
    /\ p \in Consistent /\ Good(p) = Good(o) /\ p.num = o.num /\ (p.alloc <=> o.alloc)
    /\ p.pitch = pitch /\ p.height = height

LEMMA RelabelConsistent ==
  ASSUME NEW o \in Consistent, NEW pitch \in Nat, NEW height \in Nat
  PROVE  Relabels(o, Relabelled(o, pitch, height), pitch, height)
<1> DEFINE p == [o EXCEPT !.pitch = pitch, !.height = height]
<1>1. /\ p \in Objects /\ p.num = o.num /\ p.alloc = o.alloc /\ p.gpu = o.gpu
      /\ p.loc = o.loc /\ p.host = o.host /\ p.device = o.device
      /\ p.pitch = pitch /\ p.height = height
  BY DEF Consistent, Objects
<1>2. RightSize(p)
  BY <1>1 DEF Consistent, RightSize
<1>3. p \in Consistent /\ Good(p) = Good(o)
  BY <1>1, <1>2 DEF Consistent, Good
<1>4. Relabelled(o, pitch, height) = p
  BY DEF Relabelled
<1> HIDE DEF p
<1> QED
  BY <1>1, <1>3, <1>4 DEF Relabels

LEMMA GoodContents ==
  ASSUME NEW o \in Consistent, o.alloc
  PROVE  Good(o) \in Contents(o.num) /\ o.num \in 1 .. MaxAlloc
  BY DEF Consistent, RightSize, Good

LEMMA Resize1DConsistent ==
  ASSUME NEW o \in Consistent, NEW n \in 1 .. MaxAlloc
  PROVE  LET p == Resized1D(o, n) IN
         /\ p \in Consistent /\ p.num = n /\ p.alloc /\ p.height = o.height
         /\ o.alloc => p.pitch = n /\ Good(p) = Prefix(Good(o), o.num, n)
         /\ ~ o.alloc => p.pitch = o.pitch /\ Good(p) = Filled(n, Junk)
<1>0. n \in Nat /\ o \in Objects /\ o.num \in Nat /\ o.height \in Nat
  BY MaxAllocAssumption DEF Consistent, Objects
<1>1. CASE o.alloc
  <2> DEFINE host == Prefix(o.host, o.num, n)
             device == Prefix(o.device, o.num, n)
             m == Moved(o, n, host, device)
             r == Relabelled(m, n, o.height)
  <2>1. host \in Contents(n) /\ device \in Contents(n)
    <3>1. PICK k \in Nat : o.host \in Contents(k)
      BY <1>0, <1>1 DEF Consistent, RightSize
    <3>2. PICK j \in Nat : o.device \in Contents(j)
      BY <1>0, <1>1 DEF Consistent, RightSize
    <3> QED
      BY <1>0, <3>1, <3>2, PrefixContents
  <2>2. o.loc = "hostdevice" => host = device
    BY DEF Consistent
  <2>3. m \in Consistent /\ Good(m) = (IF o.loc = "device" THEN device ELSE host)
    BY <1>1, <2>1, <2>2, MovedConsistent
  <2>4. m.num = n /\ (m.alloc <=> o.alloc)
    BY <1>0 DEF Moved, Objects
  <2>5. Resized1D(o, n) = r
    BY <1>1 DEF Resized1D
  <2>6. Good(m) = Prefix(Good(o), o.num, n)
    BY <2>3 DEF Good
  <2>m. m \in Consistent
    BY <2>3
  <2>h. n \in Nat /\ o.height \in Nat
    BY <1>0
  <2> HIDE DEF m, host, device
  <2>r. r = Relabelled(m, n, o.height)
    OBVIOUS
  <2> HIDE DEF r
  <2>7. Relabels(m, r, n, o.height)
    BY <2>h, <2>m, <2>r, RelabelConsistent
  <2> QED
    BY <1>1, <2>3, <2>4, <2>5, <2>6, <2>7 DEF Relabels
<1>2. CASE ~ o.alloc
  <2>1. Resized1D(o, n) = Allocated(o, n)
    BY <1>2 DEF Resized1D
  <2>2. LET p == Allocated(o, n) IN
        p.num = n /\ p.alloc /\ p.height = o.height /\ p.pitch = o.pitch
    BY <1>0 DEF Allocated, Objects
  <2> QED
    BY <1>2, <2>1, <2>2, AllocatedConsistent
<1> QED
  BY <1>1, <1>2

LEMMA Resize2DConsistent ==
  ASSUME NEW o \in Consistent, NEW p \in Nat, NEW h \in Nat, p * h \in 1 .. MaxAlloc
  PROVE  LET r == Resized2D(o, p, h) IN
         /\ r \in Consistent /\ r.num = p * h /\ r.alloc /\ r.pitch = p /\ r.height = h
         /\ o.alloc => Good(r) = Rows(Good(o), o.pitch, p, o.height, h)
         /\ ~ o.alloc => Good(r) = Filled(p * h, Junk)
<1> DEFINE n == p * h
<1>0. n \in Nat /\ o \in Objects /\ o.num \in Nat /\ o.pitch \in Nat /\ o.height \in Nat
  BY MaxAllocAssumption DEF Consistent, Objects
<1> HIDE DEF n
<1>n. n \in 1 .. MaxAlloc
  BY DEF n
<1>1. CASE o.alloc
  <2> DEFINE host == Rows(o.host, o.pitch, p, o.height, h)
             device == Rows(o.device, o.pitch, p, o.height, h)
             m == Moved(o, n, host, device)
             r == Relabelled(m, p, h)
  <2>1. host \in Contents(n) /\ device \in Contents(n)
    <3>1. PICK k \in Nat : o.host \in Contents(k)
      BY <1>0, <1>1 DEF Consistent, RightSize
    <3>2. PICK j \in Nat : o.device \in Contents(j)
      BY <1>0, <1>1 DEF Consistent, RightSize
    <3> QED
      BY <1>0, <3>1, <3>2, RowsContents DEF n
  <2>2. o.loc = "hostdevice" => host = device
    BY DEF Consistent
  <2>3. m \in Consistent /\ Good(m) = (IF o.loc = "device" THEN device ELSE host)
    BY <1>n, <1>1, <2>1, <2>2, MovedConsistent
  <2>4. m.num = n /\ (m.alloc <=> o.alloc)
    BY <1>0 DEF Moved, Objects
  <2>5. Resized2D(o, p, h) = r
    BY <1>1 DEF Resized2D, n
  <2>6. Good(m) = Rows(Good(o), o.pitch, p, o.height, h)
    BY <2>3 DEF Good
  <2>m. m \in Consistent
    BY <2>3
  <2> HIDE DEF m, host, device
  <2>r. r = Relabelled(m, p, h)
    OBVIOUS
  <2> HIDE DEF r
  <2>7. Relabels(m, r, p, h)
    BY <2>m, <2>r, RelabelConsistent
  <2> QED
    BY <1>1, <2>3, <2>4, <2>5, <2>6, <2>7 DEF n, Relabels
<1>2. CASE ~ o.alloc
  <2> DEFINE m == Allocated(o, n)
             r == Relabelled(m, p, h)
  <2>1. Resized2D(o, p, h) = r
    BY <1>2 DEF Resized2D, n
  <2>2. m.num = n /\ m.alloc
    BY <1>0 DEF Allocated, Objects
  <2>3. m \in Consistent /\ Good(m) = Filled(n, Junk)
    BY <1>n, <1>2, AllocatedConsistent
  <2> HIDE DEF m
  <2>r. r = Relabelled(m, p, h)
    OBVIOUS
  <2> HIDE DEF r
  <2>4. Relabels(m, r, p, h)
    BY <2>3, <2>r, RelabelConsistent
  <2> QED
    BY <1>2, <2>1, <2>2, <2>3, <2>4 DEF n, Relabels
<1> QED
  BY <1>1, <1>2

LEMMA AfterHostReadConsistent ==
  ASSUME NEW o \in Consistent, Sound(o)
  PROVE  LET r == AfterHostRead(o) IN
         /\ r \in Consistent /\ Flat(r) = Flat(o)
         /\ o.alloc => r.host = Good(o)
<1>0. o \in Objects
  BY DEF Consistent
<1>1. CASE o.num = 0
  <2>1. ~ o.alloc
    BY <1>1 DEF Consistent, RightSize
  <2> QED
    BY <1>1, <2>1 DEF AfterHostRead
<1>2. CASE o.num # 0
  <2> DEFINE q == Acquire(o, "host", "read")
             r == [q EXCEPT !.acquired = FALSE]
  <2>1. o.alloc
    BY <1>2 DEF Sound
  <2>2. q \in Consistent
    BY AcquireConsistent DEF Side, Mode, Reachable
  <2>3. q.host = Good(q) /\ Good(q) = Good(o)
    BY <2>1, AcquirePointsAtGoodCells DEF Side, Mode, Reachable, CopyOn
  <2>4. q.num = o.num /\ q.pitch = o.pitch /\ q.height = o.height /\ q.alloc = o.alloc
    BY <1>0 DEF Acquire, Objects
  <2>5. /\ r \in Objects /\ r.num = q.num /\ r.pitch = q.pitch /\ r.height = q.height
        /\ r.alloc = q.alloc /\ r.gpu = q.gpu /\ r.loc = q.loc /\ r.host = q.host
        /\ r.device = q.device
    BY <2>2 DEF Consistent, Objects
  <2>6. r \in Consistent /\ Good(r) = Good(q)
    BY <2>2, <2>5 DEF Consistent, RightSize, Good
  <2>7. AfterHostRead(o) = r
    BY <1>2 DEF AfterHostRead
  <2> QED
    BY <2>1, <2>3, <2>4, <2>5, <2>6, <2>7 DEF Flat
<1> QED
  BY <1>1, <1>2

LEMMA CopyConsistent ==
  ASSUME NEW o \in Consistent, Sound(o), NEW acquired \in BOOLEAN
  PROVE  CopyOf(o, acquired) \in Consistent /\ Flat(CopyOf(o, acquired)) = Flat(o)
<1> DEFINE c == Object(o.num, o.pitch, o.height, o.gpu, Zero)
           f == AfterHostRead(o).host
           p == [c EXCEPT !.host = f, !.acquired = acquired]
<1>0. o \in Objects /\ o.num \in 0 .. MaxAlloc
  <2>1. o \in Objects /\ (o.alloc => o.num \in 1 .. MaxAlloc)
    BY DEF Consistent, RightSize
  <2> QED
    BY <2>1, MaxAllocAssumption DEF Sound
<1>1. c \in Consistent
  BY <1>0, ObjectConsistent, ZeroAndJunkAreCells DEF Objects
<1>2. /\ c.num = o.num /\ c.pitch = o.pitch /\ c.height = o.height /\ (c.gpu <=> o.gpu)
      /\ (c.alloc <=> o.num > 0) /\ c.loc = "host"
  BY DEF Object
<1>3. c.alloc <=> o.alloc
  BY <1>0, <1>2 DEF Sound, Consistent, RightSize
<1>4. f \in Contents(IF o.alloc THEN o.num ELSE 0)
      /\ f \in Blocks /\ f = Good(o)
  <2>1. CASE o.alloc
    BY <2>1, <1>0, AfterHostReadConsistent, GoodContents, ContentsAreBlocks
  <2>2. CASE ~ o.alloc
    BY <2>2, <1>0 DEF AfterHostRead, Sound, Consistent, RightSize, Objects, Good
  <2> QED
    BY <2>1, <2>2
<1>5. /\ p \in Objects /\ p.num = c.num /\ p.pitch = c.pitch /\ p.height = c.height
      /\ p.alloc = c.alloc /\ p.gpu = c.gpu /\ p.loc = c.loc /\ p.host = f
      /\ p.device = c.device
  BY <1>1, <1>4 DEF Consistent, Objects
<1>6. RightSize(p)
  BY <1>1, <1>2, <1>3, <1>4, <1>5 DEF Consistent, RightSize
<1>7. CopyOf(o, acquired) = p
  BY DEF CopyOf
<1>8. p \in Consistent
  BY <1>2, <1>5, <1>6 DEF Consistent
<1>9. Flat(p) = Flat(o)
  BY <1>2, <1>3, <1>4, <1>5 DEF Flat, Good
<1> QED
  BY <1>7, <1>8, <1>9

-----------------------------------------------------------------------------
(* The invariant. *)

LEMMA InitInv == Init => Inv
<1> SUFFICES ASSUME Init PROVE Inv
  OBVIOUS
<1>1. arr \in [Arrays -> Consistent]
  BY NullConsistent DEF Init
<1>2. \A a \in Arrays : handle[a] = NoHandle
  BY DEF Init
<1>3. HandleOnGoodCopy
  BY <1>2 DEF HandleOnGoodCopy, Idle
<1> QED
  BY <1>1, <1>3 DEF Init, Inv

\* A step that only replaces objects nobody has a handle on.
LEMMA IdleStepInv ==
  ASSUME Inv, arr' \in [Arrays -> Consistent], UNCHANGED handle,
         \A a \in Arrays : arr'[a] = arr[a] \/ Idle(a)
  PROVE  Inv'
<1>1. HandleOnGoodCopy'
  BY DEF Inv, HandleOnGoodCopy, Idle
<1> QED
  BY <1>1 DEF Inv

LEMMA BecomeInv ==
  ASSUME Inv, NEW a \in Arrays, NEW o \in Consistent, Idle(a), Become(a, o)
  PROVE  Inv'
<1>1. arr' \in [Arrays -> Consistent]
  BY DEF Inv, Become
<1>2. \A b \in Arrays : arr'[b] = arr[b] \/ Idle(b)
  BY DEF Inv, Become
<1> QED
  BY <1>1, <1>2, IdleStepInv DEF Become

\* Setting or clearing m_acquired keeps an object consistent.
LEMMA AcquiredFlagConsistent ==
  ASSUME NEW o \in Consistent, NEW b \in BOOLEAN
  PROVE  LET p == [o EXCEPT !.acquired = b] IN
         p \in Consistent /\ Flat(p) = Flat(o) /\ p.loc = o.loc /\ p.gpu = o.gpu
         /\ (p.alloc <=> o.alloc)
<1> DEFINE p == [o EXCEPT !.acquired = b]
<1>1. /\ p \in Objects /\ p.num = o.num /\ p.alloc = o.alloc /\ p.gpu = o.gpu
      /\ p.loc = o.loc /\ p.host = o.host /\ p.device = o.device
      /\ p.pitch = o.pitch /\ p.height = o.height
  BY DEF Consistent, Objects
<1>2. RightSize(p)
  BY <1>1 DEF Consistent, RightSize
<1> QED
  BY <1>1, <1>2 DEF Consistent, Flat, Good

\* An object that has recorded a size allocate() refused is still consistent.
LEMMA RefusedConsistent ==
  ASSUME NEW o \in Consistent, ~ o.alloc, NEW n \in Nat
  PROVE  LET p == [o EXCEPT !.num = n] IN p \in Consistent /\ Flat(p) = Flat(o)
<1> DEFINE p == [o EXCEPT !.num = n]
<1>1. /\ p \in Objects /\ p.num = n /\ p.alloc = o.alloc /\ p.gpu = o.gpu
      /\ p.loc = o.loc /\ p.host = o.host /\ p.device = o.device
      /\ p.pitch = o.pitch /\ p.height = o.height
  BY DEF Consistent, Objects
<1>2. RightSize(p)
  BY <1>1 DEF Consistent, RightSize
<1> QED
  BY <1>1, <1>2 DEF Consistent, Flat, Good

LEMMA AssignThrowsConsistent ==
  ASSUME NEW o \in Consistent, NEW s \in Consistent, ~ Sound(s)
  PROVE  LET p == [NullObject EXCEPT !.num = s.num, !.pitch = s.pitch, !.height = s.height,
                                     !.gpu = s.gpu, !.acquired = o.acquired]
         IN  p \in Consistent /\ Flat(p) = Flat(s)
<1> DEFINE p == [NullObject EXCEPT !.num = s.num, !.pitch = s.pitch, !.height = s.height,
                                   !.gpu = s.gpu, !.acquired = o.acquired]
<1>1. NullObject \in Objects /\ RightSize(NullObject) /\ s \in Objects /\ o \in Objects
  BY NullConsistent DEF Consistent
<1>2. ~ NullObject.alloc /\ NullObject.loc = "host" /\ NullObject.host = Filled(0, Zero)
  <2>1. ~ (0 > 0)
    OBVIOUS
  <2>2. (NullObject.alloc <=> 0 > 0) /\ NullObject.num = 0
    BY DEF NullObject, Object
  <2>3. NullObject.loc = "host" /\ NullObject.host = Filled(0, Zero)
    BY DEF NullObject, Object
  <2> QED
    BY <2>1, <2>2, <2>3
<1>3. /\ p \in Objects /\ p.num = s.num /\ p.pitch = s.pitch /\ p.height = s.height
      /\ ~ p.alloc /\ p.loc = "host" /\ p.host = NullObject.host
      /\ p.device = NullObject.device
  BY <1>1, <1>2 DEF Objects
<1>4. RightSize(p)
  BY <1>1, <1>2, <1>3 DEF RightSize
<1>5. ~ s.alloc /\ s.loc = "host" /\ s.host \in Contents(0)
  BY DEF Sound, Consistent, RightSize
<1>6. s.host = Filled(0, Zero)
  <2>1. \A i : i \notin 0 .. 0 - 1
    OBVIOUS
  <2>2. s.host = [i \in 0 .. 0 - 1 |-> s.host[i]]
    BY <1>5 DEF Contents
  <2> QED
    BY <2>1, <2>2 DEF Filled
<1>7. Flat(p) = Flat(s)
  BY <1>2, <1>3, <1>5, <1>6 DEF Flat, Good
<1> QED
  BY <1>3, <1>4, <1>7 DEF Consistent

LEMMA AcquireStepInv ==
  ASSUME Inv, NEW a \in Arrays, NEW side \in Side, NEW mode \in Mode,
         AcquireHandle(a, side, mode)
  PROVE  Inv'
<1> DEFINE p == Acquire(arr[a], side, mode)
           h == [side |-> side, mode |-> mode]
<1>1. arr[a] \in Consistent /\ Reachable(arr[a], side)
  BY DEF Inv, AcquireHandle
<1>2. p \in Consistent
  BY <1>1, AcquireConsistent
<1>3. h \in Handle /\ h.side = side /\ h.mode = mode
  BY DEF Handle
<1>4. (p.gpu <=> arr[a].gpu) /\ (p.alloc <=> arr[a].alloc)
  BY <1>1 DEF Acquire, Consistent, Objects
<1>5. p.alloc => /\ p.loc = side \/ (mode = "read" /\ p.loc = "hostdevice")
                 /\ side = "device" => p.gpu
  <2>1. CASE arr[a].alloc
    <3>1. p.loc = side \/ (mode = "read" /\ p.loc = "hostdevice")
      BY <1>1, <2>1, AcquirePointsAtGoodCells
    <3>2. side = "device" => p.gpu
      BY <1>1, <1>4, <2>1 DEF Reachable
    <3> QED
      BY <3>1, <3>2
  <2>2. CASE ~ arr[a].alloc
    BY <1>4, <2>2
  <2> QED
    BY <2>1, <2>2
<1> HIDE DEF p, h
<1>6. /\ arr' = [arr EXCEPT ![a] = p]
      /\ handle' = [handle EXCEPT ![a] = h]
  BY DEF AcquireHandle, p, h
<1>7. arr' \in [Arrays -> Consistent] /\ handle' \in [Arrays -> Handle \cup {NoHandle}]
  BY <1>2, <1>3, <1>6 DEF Inv
<1>8. ASSUME NEW b \in Arrays, handle'[b] # NoHandle, arr'[b].alloc
      PROVE  /\ \/ arr'[b].loc = handle'[b].side
                \/ handle'[b].mode = "read" /\ arr'[b].loc = "hostdevice"
             /\ handle'[b].side = "device" => arr'[b].gpu
  <2>1. CASE b = a
    BY <2>1, <1>3, <1>5, <1>6, <1>8 DEF Inv
  <2>2. CASE b # a
    BY <2>2, <1>6, <1>8 DEF Inv, HandleOnGoodCopy, Idle
  <2> QED
    BY <2>1, <2>2
<1> QED
  BY <1>7, <1>8 DEF Inv, HandleOnGoodCopy, Idle

LEMMA ReleaseStepInv ==
  ASSUME Inv, NEW a \in Arrays, ReleaseHandle(a)
  PROVE  Inv'
<1> DEFINE p == [arr[a] EXCEPT !.acquired = FALSE]
<1>1. p \in Consistent
  BY AcquiredFlagConsistent DEF Inv
<1>2. arr' = [arr EXCEPT ![a] = p] /\ handle' = [handle EXCEPT ![a] = NoHandle]
  BY DEF ReleaseHandle
<1> HIDE DEF p
<1>3. arr' \in [Arrays -> Consistent] /\ handle' \in [Arrays -> Handle \cup {NoHandle}]
  BY <1>1, <1>2 DEF Inv
<1>4. ASSUME NEW b \in Arrays, handle'[b] # NoHandle
      PROVE  arr'[b] = arr[b] /\ handle'[b] = handle[b]
  BY <1>2, <1>4 DEF Inv
<1> QED
  BY <1>3, <1>4 DEF Inv, HandleOnGoodCopy, Idle

\* Writing needs a handle that is not read-only, and then the flag names its side.
LEMMA WriteStep ==
  ASSUME Inv, NEW a \in Arrays, WriteThroughHandle(a)
  PROVE  \E i \in 0 .. arr[a].num - 1, v \in Val :
            LET p == Stored(arr[a], handle[a].side, i, v) IN
            /\ Become(a, p)
            /\ p \in Consistent
            /\ Good(p) = [Good(arr[a]) EXCEPT ![i] = v]
            /\ p.num = arr[a].num /\ p.pitch = arr[a].pitch /\ p.height = arr[a].height
            /\ p.loc = arr[a].loc /\ (p.alloc <=> arr[a].alloc) /\ p.gpu = arr[a].gpu
<1>1. PICK i \in 0 .. arr[a].num - 1, v \in Val :
         Become(a, Stored(arr[a], handle[a].side, i, v))
  BY DEF WriteThroughHandle
<1> DEFINE o == arr[a]
           side == handle[a].side
           p == Stored(o, side, i, v)
<1>2. o \in Consistent /\ o.alloc /\ handle[a] # NoHandle /\ handle[a].mode # "read"
  BY DEF WriteThroughHandle, Inv, Idle
<1>3. side \in Side
  BY <1>2 DEF Inv, Handle
<1>4. o.loc = side
  BY <1>2 DEF Inv, HandleOnGoodCopy, Idle
<1>5. p \in Consistent /\ Good(p) = [Good(o) EXCEPT ![i] = v]
  BY <1>2, <1>3, <1>4, StoredConsistent
<1>6. /\ p.num = o.num /\ p.pitch = o.pitch /\ p.height = o.height
      /\ p.loc = o.loc /\ (p.alloc <=> o.alloc) /\ p.gpu = o.gpu
  BY <1>2 DEF Stored, Consistent, Objects
<1> HIDE DEF p
<1> QED
  BY <1>1, <1>5, <1>6 DEF p

LEMMA WriteStepInv ==
  ASSUME Inv, NEW a \in Arrays, WriteThroughHandle(a)
  PROVE  Inv'
<1>1. PICK p \in Consistent : /\ Become(a, p) /\ p.loc = arr[a].loc
                              /\ (p.alloc <=> arr[a].alloc) /\ p.gpu = arr[a].gpu
  BY WriteStep
<1>2. arr' = [arr EXCEPT ![a] = p] /\ handle' = handle
  BY <1>1 DEF Become
<1>3. arr' \in [Arrays -> Consistent]
  BY <1>2 DEF Inv
<1>4. \A b \in Arrays : /\ arr'[b].loc = arr[b].loc /\ (arr'[b].alloc <=> arr[b].alloc)
                        /\ arr'[b].gpu = arr[b].gpu
  BY <1>1, <1>2 DEF Inv
<1> QED
  BY <1>2, <1>3, <1>4 DEF Inv, HandleOnGoodCopy, Idle

\* Two objects replaced at once, neither of them with an open handle.
LEMMA PairStepInv ==
  ASSUME Inv, NEW a \in Arrays, NEW b \in Arrays, a # b, Idle(a), Idle(b),
         NEW p \in Consistent, NEW q \in Consistent,
         arr' = [arr EXCEPT ![a] = p, ![b] = q], UNCHANGED handle
  PROVE  Inv'
<1>1. arr' \in [Arrays -> Consistent]
  BY DEF Inv
<1>2. \A c \in Arrays : arr'[c] = arr[c] \/ Idle(c)
  BY DEF Inv
<1> QED
  BY <1>1, <1>2, IdleStepInv

LEMMA NextInv == Inv /\ [Next]_vars => Inv'
<1> SUFFICES ASSUME Inv, [Next]_vars PROVE Inv'
  OBVIOUS
<1>0. \A c \in Arrays : arr[c] \in Consistent
  BY DEF Inv
<1>1. ASSUME NEW a \in Arrays, Construct1D(a) PROVE Inv'
  <2>1. PICK n \in {m \in Sizes : m <= MaxAlloc} \cup {0} :
           Become(a, Object(n, n, 1, CUDA, Zero))
    BY <1>1 DEF Construct1D
  <2>2. n \in 0 .. MaxAlloc /\ n \in Nat /\ 1 \in Nat
    BY ShapeAssumption, MaxAllocAssumption
  <2>3. Object(n, n, 1, CUDA, Zero) \in Consistent
    BY <2>2, ObjectConsistent, ZeroAndJunkAreCells, CUDAAssumption
  <2> QED
    BY <1>1, <2>1, <2>3, BecomeInv DEF Construct1D
<1>2. ASSUME NEW a \in Arrays, Construct2D(a) PROVE Inv'
  <2>1. PICK w \in Widths, h \in Heights :
           /\ PaddedWidth(w) * h <= MaxAlloc
           /\ Become(a, Object(PaddedWidth(w) * h, PaddedWidth(w), h, CUDA, Zero))
    BY <1>2 DEF Construct2D
  <2>2. PaddedWidth(w) * h \in 0 .. MaxAlloc /\ PaddedWidth(w) \in Nat /\ h \in Nat
    BY <2>1, PaddedWidthPositive, MaxAllocAssumption
  <2>3. Object(PaddedWidth(w) * h, PaddedWidth(w), h, CUDA, Zero) \in Consistent
    BY <2>2, ObjectConsistent, ZeroAndJunkAreCells, CUDAAssumption
  <2> QED
    BY <1>2, <2>1, <2>3, BecomeInv DEF Construct2D
<1>3. ASSUME NEW a \in Arrays, Destroy(a) PROVE Inv'
  BY <1>3, NullConsistent, BecomeInv DEF Destroy
<1>4. ASSUME NEW a \in Arrays, NEW side \in Side, NEW mode \in Mode,
             AcquireHandle(a, side, mode)
      PROVE  Inv'
  BY <1>4, AcquireStepInv
<1>5. ASSUME NEW a \in Arrays, AcquireThrows(a) PROVE Inv'
  <2>1. [arr[a] EXCEPT !.acquired = TRUE] \in Consistent
    BY <1>0, AcquiredFlagConsistent
  <2> QED
    BY <1>5, <2>1, BecomeInv DEF AcquireThrows
<1>6. ASSUME NEW a \in Arrays, ReleaseHandle(a) PROVE Inv'
  BY <1>6, ReleaseStepInv
<1>7. ASSUME NEW a \in Arrays, ReadThroughHandle(a) PROVE Inv'
  BY <1>7 DEF ReadThroughHandle, Inv, HandleOnGoodCopy, Idle
<1>8. ASSUME NEW a \in Arrays, WriteThroughHandle(a) PROVE Inv'
  BY <1>8, WriteStepInv
<1>9. ASSUME NEW a \in Arrays, NEW n \in Sizes, Resize1D(a, n) PROVE Inv'
  <2>1. n \in 1 .. MaxAlloc
    BY <1>9, ShapeAssumption, MaxAllocAssumption DEF Resize1D
  <2>2. Resized1D(arr[a], n) \in Consistent
    BY <1>0, <2>1, Resize1DConsistent
  <2> QED
    BY <1>9, <2>2, BecomeInv DEF Resize1D
<1>10. ASSUME NEW a \in Arrays, NEW w \in Widths, NEW h \in Heights, Resize2D(a, w, h)
       PROVE  Inv'
  <2>1. PaddedWidth(w) * h \in 1 .. MaxAlloc /\ PaddedWidth(w) \in Nat /\ h \in Nat
    BY <1>10, PaddedWidthPositive, MaxAllocAssumption DEF Resize2D
  <2>2. Resized2D(arr[a], PaddedWidth(w), h) \in Consistent
    BY <1>0, <2>1, Resize2DConsistent
  <2> QED
    BY <1>10, <2>2, BecomeInv DEF Resize2D
<1>11. ASSUME NEW a \in Arrays, NEW n \in Nat, ResizeThrows(a, n) PROVE Inv'
  <2>1. [arr[a] EXCEPT !.num = n] \in Consistent
    BY <1>0, <1>11, RefusedConsistent DEF ResizeThrows
  <2> QED
    BY <1>11, <2>1, BecomeInv DEF ResizeThrows
<1>12. ASSUME NEW a \in Arrays, NEW b \in Arrays, CopyConstruct(a, b) PROVE Inv'
  <2>1. CopyOf(arr[b], FALSE) \in Consistent /\ AfterHostRead(arr[b]) \in Consistent
    BY <1>0, <1>12, CopyConsistent, AfterHostReadConsistent DEF CopyConstruct
  <2> QED
    BY <1>12, <2>1, PairStepInv DEF CopyConstruct
<1>13. ASSUME NEW a \in Arrays, NEW b \in Arrays, Assign(a, b) PROVE Inv'
  <2>1. arr[a].acquired \in BOOLEAN
    BY <1>0 DEF Consistent, Objects
  <2>2. CopyOf(arr[b], arr[a].acquired) \in Consistent /\ AfterHostRead(arr[b]) \in Consistent
    BY <1>0, <1>13, <2>1, CopyConsistent, AfterHostReadConsistent DEF Assign
  <2> QED
    BY <1>13, <2>2, PairStepInv DEF Assign
<1>14. ASSUME NEW a \in Arrays, NEW b \in Arrays, AssignThrows(a, b) PROVE Inv'
  BY <1>0, <1>14, AssignThrowsConsistent, BecomeInv DEF AssignThrows
<1>15. ASSUME NEW a \in Arrays, NEW b \in Arrays, Swap(a, b) PROVE Inv'
  BY <1>0, <1>15, PairStepInv DEF Swap
<1>16. CASE UNCHANGED vars
  BY <1>16 DEF vars, Inv, HandleOnGoodCopy, Idle
<1>17. \A n \in Sizes : n \in Nat
  BY ShapeAssumption
<1>18. \A w \in Widths, h \in Heights : PaddedWidth(w) * h \in Nat
  BY PaddedWidthPositive
<1> QED
  BY <1>1, <1>2, <1>3, <1>4, <1>5, <1>6, <1>7, <1>8, <1>9, <1>10, <1>11, <1>12, <1>13,
     <1>14, <1>15, <1>16, <1>17, <1>18 DEF Next

\* The inductive invariant holds throughout.
THEOREM Invariance == Spec => []Inv
<1>1. Init => Inv
  BY InitInv
<1>2. Inv /\ [Next]_vars => Inv'
  BY NextInv
<1> QED
  BY <1>1, <1>2, PTL DEF Spec

\* Type correctness (TypeOK): the members keep their types and each copy has
\* m_num_elements cells whenever it is allocated.
THEOREM TypeCorrect == Spec => []TypeOK
<1>1. Inv => TypeOK
  BY DEF Inv, TypeOK, Consistent
<1> QED
  BY <1>1, Invariance, PTL

\* Coherent: m_data_location never names a copy that is absent or out of date,
\* for any number of arrays, any sizes and any interleaving of their clients.
THEOREM CoherentAlways == Spec => []Coherent
<1>1. Inv => Coherent
  BY DEF Inv, Coherent, Consistent
<1> QED
  BY <1>1, Invariance, PTL

\* HandleOnGoodCopy: an open handle always points at an up-to-date copy.
THEOREM HandlesPointAtGoodCopies == Spec => []HandleOnGoodCopy
<1>1. Inv => HandleOnGoodCopy
  BY DEF Inv
<1> QED
  BY <1>1, Invariance, PTL

-----------------------------------------------------------------------------
(* Refinement of the flat memory. *)

LEMMA SameOperators ==
  /\ \A w : Memory!PaddedWidth(w) = PaddedWidth(w)
  /\ \A n, v : Memory!Filled(n, v) = Filled(n, v)
  /\ \A n : Memory!Contents(n) = Contents(n)
  /\ \A f, m, n : Memory!Prefix(f, m, n) = Prefix(f, m, n)
  /\ \A f, p, q, g, h : Memory!Rows(f, p, q, g, h) = Rows(f, p, q, g, h)
<1>1. \A w : Memory!PaddedWidth(w) = PaddedWidth(w)
  BY DEF Memory!PaddedWidth, PaddedWidth
<1>2. \A n, v : Memory!Filled(n, v) = Filled(n, v)
  BY DEF Memory!Filled, Filled
<1>3. \A n : Memory!Contents(n) = Contents(n)
  BY DEF Memory!Contents, Contents, Memory!Cell, Cell
<1>4. \A f, m, n : Memory!Prefix(f, m, n) = Prefix(f, m, n)
  BY DEF Memory!Prefix, Prefix, Memory!At, At, Memory!Least, Least
<1>5. \A f, p, q, g, h : Memory!Rows(f, p, q, g, h) = Rows(f, p, q, g, h)
  BY DEF Memory!Rows, Rows, Memory!At, At, Memory!Least, Least
<1> QED
  BY <1>1, <1>2, <1>3, <1>4, <1>5

\* A closed array of the memory is one on which no handle is open.
LEMMA AccessIsMode ==
  ASSUME Inv, NEW a \in Arrays
  PROVE  /\ [c \in Arrays |-> handle[c].mode][a] = handle[a].mode
         /\ Memory!Closed(a) <=> Idle(a)
<1>1. handle[a] \in Handle \cup {NoHandle}
  BY DEF Inv
<1>2. handle[a].mode = "none" <=> handle[a] = NoHandle
  BY <1>1 DEF Handle, Mode, NoHandle
<1> QED
  BY <1>2 DEF Memory!Closed, Idle

\* Replacing object a by o stores the flat block of o in a's place, and puts it
\* there if no handle is open.
LEMMA BecomeStores ==
  ASSUME Inv, NEW a \in Arrays, NEW o, Become(a, o)
  PROVE  Memory!Store(a, Flat(o))
<1>1. arr' = [arr EXCEPT ![a] = o] /\ seen' = seen /\ arr \in [Arrays -> Consistent]
      /\ handle' = handle
  BY DEF Become, Inv
<1>2. [c \in Arrays |-> Flat(arr'[c])]
        = [[c \in Arrays |-> Flat(arr[c])] EXCEPT ![a] = Flat(o)]
  BY <1>1
<1> QED
  BY <1>1, <1>2 DEF Memory!Store

LEMMA BecomePuts ==
  ASSUME Inv, NEW a \in Arrays, NEW o, Become(a, o), Idle(a)
  PROVE  Memory!Put(a, Flat(o))
  BY BecomeStores, AccessIsMode DEF Memory!Put

LEMMA FlatObject ==
  ASSUME NEW n \in Nat, NEW pitch, NEW height, NEW gpu
  PROVE  Flat(Object(n, pitch, height, gpu, Zero))
           = Memory!Block(n, pitch, height, Memory!Filled(n, Zero))
<1> DEFINE o == Object(n, pitch, height, gpu, Zero)
<1>1. /\ o.num = n /\ o.pitch = pitch /\ o.height = height /\ (o.alloc <=> n > 0)
      /\ o.loc = "host" /\ o.host = Filled(n, Zero)
  BY DEF Object
<1> HIDE DEF o
<1>2. (IF o.alloc THEN o.num ELSE 0) = n
  BY <1>1
<1>3. Good(o) = Memory!Filled(n, Zero)
  BY <1>1, SameOperators DEF Good
<1> QED
  BY <1>1, <1>2, <1>3 DEF Flat, Memory!Block, o

LEMMA InitRefines == Init => Memory!Init
<1> SUFFICES ASSUME Init PROVE Memory!Init
  OBVIOUS
<1>1. Flat(NullObject) = Memory!Null(0, 0)
  BY FlatObject DEF NullObject, Memory!Null
<1>2. NoHandle.mode = "none"
  BY DEF NoHandle
<1> QED
  BY <1>1, <1>2 DEF Init, Memory!Init

LEMMA ConstructRefines ==
  ASSUME Inv, NEW a \in Arrays, Construct1D(a) \/ Construct2D(a) \/ Destroy(a)
  PROVE  Memory!Create(a)
<1>1. CASE Construct1D(a)
  <2>1. PICK n \in {m \in Sizes : m <= MaxAlloc} \cup {0} :
           Become(a, Object(n, n, 1, CUDA, Zero))
    BY <1>1 DEF Construct1D
  <2>2. n \in Nat
    BY ShapeAssumption
  <2>3. Memory!Put(a, Memory!Block(n, n, 1, Memory!Filled(n, Zero)))
    BY <1>1, <2>1, <2>2, BecomePuts, FlatObject DEF Construct1D
  <2>4. CASE n \in Sizes
    BY <2>3, <2>4 DEF Memory!Create
  <2>5. CASE n = 0
    BY <2>3, <2>5 DEF Memory!Create, Memory!Null
  <2> QED
    BY <2>4, <2>5
<1>2. CASE Construct2D(a)
  <2>1. PICK w \in Widths, h \in Heights :
           Become(a, Object(PaddedWidth(w) * h, PaddedWidth(w), h, CUDA, Zero))
    BY <1>2 DEF Construct2D
  <2> DEFINE p == PaddedWidth(w)
  <2>2. p * h \in Nat
    BY PaddedWidthPositive
  <2>3. Memory!Put(a, Memory!Block(p * h, p, h, Memory!Filled(p * h, Zero)))
    BY <1>2, <2>1, <2>2, BecomePuts, FlatObject DEF Construct2D
  <2>4. p = Memory!PaddedWidth(w)
    BY SameOperators
  <2> QED
    BY <2>3, <2>4 DEF Memory!Create
<1>3. CASE Destroy(a)
  <2>1. Memory!Put(a, Flat(NullObject))
    BY <1>3, BecomePuts DEF Destroy
  <2>2. Flat(NullObject) = Memory!Null(0, 0)
    BY FlatObject DEF NullObject, Memory!Null
  <2> QED
    BY <2>1, <2>2 DEF Memory!Create
<1> QED
  BY <1>1, <1>2, <1>3

LEMMA ResizeRefines ==
  ASSUME Inv, NEW a \in Arrays,
         \/ \E n \in Sizes : Resize1D(a, n)
         \/ \E w \in Widths, h \in Heights : Resize2D(a, w, h)
  PROVE  Memory!Allocate(a) \/ Memory!Resize(a)
<1> DEFINE o == arr[a]
           block == [c \in Arrays |-> Flat(arr[c])]
<1>0. o \in Consistent /\ block[a] = Flat(o)
  BY DEF Inv
<1>1. /\ Flat(o).num = (IF o.alloc THEN o.num ELSE 0) /\ Flat(o).pitch = o.pitch
      /\ Flat(o).height = o.height /\ Flat(o).cells = Good(o)
  BY DEF Flat
<1>2. Flat(o).num = 0 <=> ~ o.alloc
  BY <1>0, <1>1 DEF Consistent, RightSize
<1>3. ASSUME NEW n \in Sizes, Resize1D(a, n)
      PROVE  Memory!Allocate(a) \/ Memory!Resize(a)
  <2> DEFINE p == Resized1D(o, n)
  <2>1. n \in 1 .. MaxAlloc
    BY <1>3, ShapeAssumption, MaxAllocAssumption DEF Resize1D
  <2>2. Memory!Put(a, Flat(p))
    BY <1>3, BecomePuts DEF Resize1D
  <2>3. /\ p.num = n /\ p.alloc /\ p.height = o.height
        /\ o.alloc => p.pitch = n /\ Good(p) = Prefix(Good(o), o.num, n)
        /\ ~ o.alloc => p.pitch = o.pitch /\ Good(p) = Filled(n, Junk)
    BY <1>0, <2>1, Resize1DConsistent
  <2> HIDE DEF p
  <2>4. CASE o.alloc
    <3>1. Flat(p) = Memory!Block(n, n, Flat(o).height,
                                 Memory!Prefix(Flat(o).cells, Flat(o).num, n))
      BY <1>1, <2>3, <2>4, SameOperators DEF Flat, Memory!Block
    <3> QED
      BY <1>0, <1>2, <2>2, <2>4, <3>1 DEF Memory!Resize
  <2>5. CASE ~ o.alloc
    <3>1. Flat(p) = Memory!Block(n, Flat(o).pitch, Flat(o).height, Memory!Filled(n, Junk))
      BY <1>1, <2>3, <2>5, SameOperators DEF Flat, Memory!Block
    <3> QED
      BY <1>0, <1>2, <2>2, <2>5, <3>1 DEF Memory!Allocate
  <2> QED
    BY <2>4, <2>5
<1>4. ASSUME NEW w \in Widths, NEW h \in Heights, Resize2D(a, w, h)
      PROVE  Memory!Allocate(a) \/ Memory!Resize(a)
  <2> DEFINE q == PaddedWidth(w)
             n == q * h
             p == Resized2D(o, q, h)
  <2>1. n \in 1 .. MaxAlloc /\ q \in Nat /\ h \in Nat
    BY <1>4, PaddedWidthPositive, MaxAllocAssumption DEF Resize2D
  <2>2. Memory!Put(a, Flat(p))
    BY <1>4, BecomePuts DEF Resize2D
  <2>3. /\ p.num = n /\ p.alloc /\ p.pitch = q /\ p.height = h
        /\ o.alloc => Good(p) = Rows(Good(o), o.pitch, q, o.height, h)
        /\ ~ o.alloc => Good(p) = Filled(n, Junk)
    BY <1>0, <2>1, Resize2DConsistent
  <2>4. q = Memory!PaddedWidth(w)
    BY SameOperators
  <2> HIDE DEF p, q
  <2>5. CASE o.alloc
    <3>1. Flat(p) = Memory!Block(n, q, h,
                       Memory!Rows(Flat(o).cells, Flat(o).pitch, q, Flat(o).height, h))
      BY <1>1, <2>3, <2>5, SameOperators DEF Flat, Memory!Block
    <3> QED
      BY <1>0, <1>2, <2>2, <2>4, <2>5, <3>1 DEF Memory!Resize
  <2>6. CASE ~ o.alloc
    <3>1. Flat(p) = Memory!Block(n, q, h, Memory!Filled(n, Junk))
      BY <1>1, <2>3, <2>6, SameOperators DEF Flat, Memory!Block
    <3> QED
      BY <1>0, <1>2, <2>2, <2>4, <2>6, <3>1 DEF Memory!Allocate
  <2> QED
    BY <2>5, <2>6
<1> QED
  BY <1>3, <1>4

\* Acquiring a handle to read, or to read and write, changes no cell; acquiring
\* it to overwrite changes those of its own array at most.
LEMMA AcquireRefines ==
  ASSUME Inv, NEW a \in Arrays, NEW side \in Side, NEW mode \in Mode,
         AcquireHandle(a, side, mode)
  PROVE  Memory!Open(a) \/ Memory!Discard(a)
<1> DEFINE o == arr[a]
           p == Acquire(o, side, mode)
           block == [c \in Arrays |-> Flat(arr[c])]
           access == [c \in Arrays |-> handle[c].mode]
<1>1. o \in Consistent /\ Reachable(o, side)
  BY DEF Inv, AcquireHandle
<1>2. p \in Consistent
  BY <1>1, AcquireConsistent
<1>3. p.num = o.num /\ p.pitch = o.pitch /\ p.height = o.height /\ (p.alloc <=> o.alloc)
  BY <1>1 DEF Acquire, Consistent, Objects
<1>4. Good(p) \in Contents(Flat(o).num)
  <2>1. CASE o.alloc
    BY <1>2, <1>3, <2>1, GoodContents DEF Flat
  <2>2. CASE ~ o.alloc
    BY <1>2, <1>3, <2>2 DEF Consistent, RightSize, Good, Flat
  <2> QED
    BY <2>1, <2>2
<1>5. mode # "overwrite" => Good(p) = Good(o)
  <2>1. CASE o.alloc
    BY <1>1, <2>1, AcquirePointsAtGoodCells
  <2>2. CASE ~ o.alloc
    BY <1>1, <2>2 DEF Acquire, Good, Consistent, Objects
  <2> QED
    BY <2>1, <2>2
<1> HIDE DEF p
<1>6. Flat(p) = [Flat(o) EXCEPT !.cells = Good(p)]
  BY <1>3 DEF Flat
<1>7. /\ arr' = [arr EXCEPT ![a] = p] /\ seen' = seen /\ arr \in [Arrays -> Consistent]
      /\ handle' = [handle EXCEPT ![a] = [side |-> side, mode |-> mode]]
      /\ handle \in [Arrays -> Handle \cup {NoHandle}] /\ Idle(a)
  BY DEF AcquireHandle, Inv, p
<1>8. [c \in Arrays |-> Flat(arr'[c])] = [block EXCEPT ![a] = Flat(p)]
  BY <1>7
<1>9. block[a] = Flat(o)
  OBVIOUS
<1>10. [c \in Arrays |-> handle'[c].mode] = [access EXCEPT ![a] = mode]
  BY <1>7
<1>11. Memory!Grant(a, mode)
  BY <1>7, <1>10, AccessIsMode DEF Memory!Grant
<1>12. CASE mode = "overwrite"
  <2> DEFINE cells == Good(p)
  <2>1. cells \in Memory!Contents(block[a].num)
    BY <1>4, <1>9, SameOperators
  <2>2. [c \in Arrays |-> Flat(arr'[c])]
          = [block EXCEPT ![a] = [block[a] EXCEPT !.cells = cells]]
    BY <1>6, <1>8, <1>9
  <2> QED
    BY <1>7, <1>11, <1>12, <2>1, <2>2 DEF Memory!Discard
<1>13. CASE mode # "overwrite"
  <2>1. Flat(p) = Flat(o)
    BY <1>3, <1>5, <1>13 DEF Flat
  <2>2. [c \in Arrays |-> Flat(arr'[c])] = block
    BY <1>7, <1>8, <1>9, <2>1
  <2>3. mode \in {"read", "readwrite"}
    BY <1>13 DEF Mode
  <2> QED
    BY <1>7, <1>11, <2>2, <2>3 DEF Memory!Open
<1> QED
  BY <1>12, <1>13

LEMMA ReleaseRefines ==
  ASSUME Inv, NEW a \in Arrays, ReleaseHandle(a)
  PROVE  Memory!Close(a)
<1> DEFINE block == [c \in Arrays |-> Flat(arr[c])]
           access == [c \in Arrays |-> handle[c].mode]
<1>1. /\ arr' = [arr EXCEPT ![a].acquired = FALSE] /\ seen' = seen
      /\ handle' = [handle EXCEPT ![a] = NoHandle]
      /\ arr \in [Arrays -> Consistent] /\ handle \in [Arrays -> Handle \cup {NoHandle}]
  BY DEF ReleaseHandle, Inv
<1>2. \A c \in Arrays : Flat(arr'[c]) = Flat(arr[c])
  BY <1>1, AcquiredFlagConsistent
<1>3. [c \in Arrays |-> Flat(arr'[c])] = block
  BY <1>2
<1>4. [c \in Arrays |-> handle'[c].mode] = [access EXCEPT ![a] = "none"]
  BY <1>1 DEF NoHandle
<1>5. ~ Memory!Closed(a)
  BY AccessIsMode DEF ReleaseHandle
<1> QED
  BY <1>1, <1>3, <1>4, <1>5 DEF Memory!Close

LEMMA WriteRefines ==
  ASSUME Inv, NEW a \in Arrays, WriteThroughHandle(a)
  PROVE  Memory!Write(a)
<1> DEFINE o == arr[a]
           block == [c \in Arrays |-> Flat(arr[c])]
<1>1. o \in Consistent /\ o.alloc /\ block[a] = Flat(o)
  BY DEF Inv, WriteThroughHandle
<1>2. PICK i \in 0 .. o.num - 1, v \in Val :
         /\ Become(a, Stored(o, handle[a].side, i, v))
         /\ Good(Stored(o, handle[a].side, i, v)) = [Good(o) EXCEPT ![i] = v]
         /\ Stored(o, handle[a].side, i, v).num = o.num
         /\ Stored(o, handle[a].side, i, v).pitch = o.pitch
         /\ Stored(o, handle[a].side, i, v).height = o.height
         /\ Stored(o, handle[a].side, i, v).alloc <=> o.alloc
  BY WriteStep
<1> DEFINE p == Stored(o, handle[a].side, i, v)
<1>3. Memory!Store(a, Flat(p))
  BY <1>2, BecomeStores
<1>4. i \in DOMAIN Flat(o).cells
  BY <1>1, GoodContents DEF Flat, Contents
<1>5. Flat(p) = [Flat(o) EXCEPT !.cells = [Flat(o).cells EXCEPT ![i] = v]]
  BY <1>2 DEF Flat
<1> HIDE DEF p
<1>6. handle[a].mode \in {"readwrite", "overwrite"}
  BY DEF Inv, WriteThroughHandle, Idle, Handle, Mode
<1>7. Memory!Store(a, [block[a] EXCEPT !.cells = [block[a].cells EXCEPT ![i] = v]])
  BY <1>1, <1>3, <1>5
<1>8. i \in DOMAIN block[a].cells /\ v \in Val
  BY <1>1, <1>4
<1>9. [c \in Arrays |-> handle[c].mode][a] \in {"readwrite", "overwrite"}
  BY <1>6
<1> HIDE DEF block
<1> QED
  BY <1>7, <1>8, <1>9 DEF Memory!Write, block

LEMMA ReadRefines ==
  ASSUME Inv, NEW a \in Arrays, ReadThroughHandle(a)
  PROVE  Memory!Read(a)
<1> DEFINE o == arr[a]
           block == [c \in Arrays |-> Flat(arr[c])]
<1>1. o \in Consistent /\ o.alloc /\ handle[a] # NoHandle /\ handle[a] \in Handle
  BY DEF Inv, ReadThroughHandle, Idle
<1>2. o.loc = handle[a].side \/ o.loc = "hostdevice"
  BY <1>1 DEF Inv, HandleOnGoodCopy, Idle
<1>3. CopyOn(o, handle[a].side) = Good(o)
  BY <1>1, <1>2 DEF CopyOn, Good, Handle, Side, Consistent
<1>4. Flat(o).cells = Good(o) /\ DOMAIN Good(o) = 0 .. o.num - 1
  BY <1>1, GoodContents DEF Flat, Contents
<1>5. block[a] = Flat(o)
  OBVIOUS
<1>6. \E i \in DOMAIN block[a].cells : seen' = block[a].cells[i]
  BY <1>3, <1>4, <1>5 DEF ReadThroughHandle
<1>7. [c \in Arrays |-> Flat(arr'[c])] = block /\ handle' = handle
  BY DEF ReadThroughHandle
<1>8. handle[a].mode \in {"read", "readwrite"}
  BY <1>1 DEF ReadThroughHandle, Handle, Mode
<1> QED
  BY <1>6, <1>7, <1>8, AccessIsMode DEF Memory!Read

LEMMA CopyRefines ==
  ASSUME Inv, NEW a \in Arrays, NEW b \in Arrays,
         CopyConstruct(a, b) \/ Assign(a, b) \/ AssignThrows(a, b)
  PROVE  Memory!Copy(a, b)
<1> DEFINE block == [c \in Arrays |-> Flat(arr[c])]
<1>1. arr[a] \in Consistent /\ arr[b] \in Consistent /\ arr[a].acquired \in BOOLEAN
  BY DEF Inv, Consistent, Objects
<1>2. CASE CopyConstruct(a, b) \/ Assign(a, b)
  <2>1. PICK acquired \in BOOLEAN :
           arr' = [arr EXCEPT ![a] = CopyOf(arr[b], acquired), ![b] = AfterHostRead(arr[b])]
    BY <1>1, <1>2 DEF CopyConstruct, Assign
  <2>2. a # b /\ Sound(arr[b]) /\ seen' = seen /\ handle' = handle /\ Idle(a)
    BY <1>2 DEF CopyConstruct, Assign
  <2> DEFINE p == CopyOf(arr[b], acquired)
             q == AfterHostRead(arr[b])
  <2>3. Flat(p) = Flat(arr[b]) /\ Flat(q) = Flat(arr[b])
    BY <1>1, <2>2, CopyConsistent, AfterHostReadConsistent
  <2> HIDE DEF p, q
  <2>4. arr' = [arr EXCEPT ![a] = p, ![b] = q] /\ arr \in [Arrays -> Consistent]
    BY <2>1 DEF p, q, Inv
  <2>5. [c \in Arrays |-> Flat(arr'[c])] = [block EXCEPT ![a] = Flat(arr[b])]
    BY <2>2, <2>3, <2>4
  <2> QED
    BY <2>2, <2>5, AccessIsMode DEF Memory!Copy, Memory!Put, Memory!Store
<1>3. CASE AssignThrows(a, b)
  <2> DEFINE p == [NullObject EXCEPT !.num = arr[b].num, !.pitch = arr[b].pitch,
                                     !.height = arr[b].height, !.gpu = arr[b].gpu,
                                     !.acquired = arr[a].acquired]
  <2>1. Become(a, p) /\ ~ Sound(arr[b]) /\ Idle(a)
    BY <1>3 DEF AssignThrows
  <2>2. Flat(p) = Flat(arr[b])
    BY <1>1, <2>1, AssignThrowsConsistent
  <2> HIDE DEF p
  <2>3. Memory!Put(a, Flat(arr[b]))
    BY <2>1, <2>2, BecomePuts
  <2> QED
    BY <2>3 DEF Memory!Copy
<1> QED
  BY <1>2, <1>3

LEMMA SwapRefines ==
  ASSUME Inv, NEW a \in Arrays, NEW b \in Arrays, Swap(a, b)
  PROVE  Memory!Swap(a, b)
<1> DEFINE block == [c \in Arrays |-> Flat(arr[c])]
<1>1. arr' = [arr EXCEPT ![a] = arr[b], ![b] = arr[a]] /\ seen' = seen
      /\ arr \in [Arrays -> Consistent] /\ handle' = handle /\ Idle(a) /\ Idle(b)
  BY DEF Swap, Inv
<1>2. [c \in Arrays |-> Flat(arr'[c])]
        = [block EXCEPT ![a] = block[b], ![b] = block[a]]
  BY <1>1
<1> QED
  BY <1>1, <1>2, AccessIsMode DEF Memory!Swap

\* An acquisition that throws and a resize that throws leave every flat block alone.
LEMMA OthersStutter ==
  ASSUME Inv, NEW a \in Arrays,
         AcquireThrows(a) \/ \E n \in Nat : ResizeThrows(a, n)
  PROVE  UNCHANGED Memory!vars
<1>1. PICK o : arr' = [arr EXCEPT ![a] = o] /\ Flat(o) = Flat(arr[a])
  <2>0. arr[a] \in Consistent
    BY DEF Inv
  <2>2. CASE AcquireThrows(a)
    BY <2>0, <2>2, AcquiredFlagConsistent DEF AcquireThrows, Become
  <2>3. CASE \E n \in Nat : ResizeThrows(a, n)
    BY <2>0, <2>3, RefusedConsistent DEF ResizeThrows, Become
  <2> QED
    BY <2>2, <2>3
<1>2. \A c \in Arrays : Flat(arr'[c]) = Flat(arr[c])
  BY <1>1 DEF Inv
<1>3. seen' = seen /\ handle' = handle
  BY DEF AcquireThrows, ResizeThrows, Become
<1> QED
  BY <1>2, <1>3 DEF Memory!vars

LEMMA NextRefines == Inv /\ [Next]_vars => [Memory!Next]_(Memory!vars)
<1> SUFFICES ASSUME Inv, [Next]_vars PROVE [Memory!Next]_(Memory!vars)
  OBVIOUS
<1>1. ASSUME NEW a \in Arrays, Construct1D(a) \/ Construct2D(a) \/ Destroy(a)
      PROVE  Memory!Next
  BY <1>1, ConstructRefines DEF Memory!Next
<1>2. ASSUME NEW a \in Arrays, NEW side \in Side, NEW mode \in Mode,
             AcquireHandle(a, side, mode)
      PROVE  Memory!Next
  BY <1>2, AcquireRefines DEF Memory!Next
<1>3. ASSUME NEW a \in Arrays,
             AcquireThrows(a) \/ \E n \in Nat : ResizeThrows(a, n)
      PROVE  UNCHANGED Memory!vars
  BY <1>3, OthersStutter
<1>4. ASSUME NEW a \in Arrays, ReadThroughHandle(a) PROVE Memory!Next
  BY <1>4, ReadRefines DEF Memory!Next
<1>5. ASSUME NEW a \in Arrays, WriteThroughHandle(a) PROVE Memory!Next
  BY <1>5, WriteRefines DEF Memory!Next
<1>6. ASSUME NEW a \in Arrays,
             \/ \E n \in Sizes : Resize1D(a, n)
             \/ \E w \in Widths, h \in Heights : Resize2D(a, w, h)
      PROVE  Memory!Next
  BY <1>6, ResizeRefines DEF Memory!Next
<1>7. ASSUME NEW a \in Arrays, NEW b \in Arrays,
             CopyConstruct(a, b) \/ Assign(a, b) \/ AssignThrows(a, b)
      PROVE  Memory!Next
  BY <1>7, CopyRefines DEF Memory!Next
<1>8. ASSUME NEW a \in Arrays, NEW b \in Arrays, Swap(a, b) PROVE Memory!Next
  BY <1>8, SwapRefines DEF Memory!Next
<1>9. CASE UNCHANGED vars
  BY <1>9 DEF vars, Memory!vars
<1>10. ASSUME NEW a \in Arrays, ReleaseHandle(a) PROVE Memory!Next
  BY <1>10, ReleaseRefines DEF Memory!Next
<1>11. \A n \in Sizes : n \in Nat
  BY ShapeAssumption
<1>12. \A w \in Widths, h \in Heights : PaddedWidth(w) * h \in Nat
  BY PaddedWidthPositive
<1> QED
  BY <1>1, <1>2, <1>3, <1>4, <1>5, <1>6, <1>7, <1>8, <1>9, <1>10, <1>11, <1>12 DEF Next

\* GPUArray implements the single flat memory (ImplementsMemory): every client
\* reads what was last written, on whichever side it was written, and cells are
\* lost only by the client that acquires a handle to overwrite them.
THEOREM MemoryRefinement == Spec => ImplementsMemory
<1>1. Init => Memory!Init
  BY InitRefines
<1>2. Inv /\ [Next]_vars => [Memory!Next]_(Memory!vars)
  BY NextRefines
<1>3. Spec => Memory!Spec
  BY <1>1, <1>2, Invariance, PTL DEF Spec, Memory!Spec
<1> QED
  BY <1>3 DEF ImplementsMemory
=============================================================================
