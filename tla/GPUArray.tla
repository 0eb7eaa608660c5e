------------------------------ MODULE GPUArray ------------------------------
(***************************************************************************)
(* GPUArray<T> (data_structures/GPUArray.h): an array kept twice, in host  *)
(* memory and in device memory, with a flag that says which copy is good.  *)
(* Clients reach the cells only through an ArrayHandle, which names a side *)
(* and an access mode; acquiring the handle copies the array across when   *)
(* the good copy is on the other side.  arr[a] holds the members of the    *)
(* C++ object; handle[a] is the ArrayHandle a client has open on it.       *)
(* The device works synchronously: asynchronous handles and mapped arrays  *)
(* are left out.                                                           *)
(***************************************************************************)
EXTENDS ArrayCells

CONSTANTS CUDA,       \* m_exec_conf->isCUDAEnabled()
          MaxAlloc    \* MAXALLOCBYTES / sizeof(T)

ASSUME CUDAAssumption == CUDA \in BOOLEAN
ASSUME MaxAllocAssumption == MaxAlloc \in Nat \ {0}

VARIABLES arr,      \* arr[a]: the members of GPUArray a
          handle,   \* handle[a]: the ArrayHandle open on a, or NoHandle
          seen      \* what the last read through a handle returned

vars == <<arr, handle, seen>>

Side == {"host", "device"}
Mode == {"read", "readwrite", "overwrite"}
NoHandle == [side |-> "none", mode |-> "none"]
Handle == [side : Side, mode : Mode]

Other(side) == IF side = "host" THEN "device" ELSE "host"

\* A freshly constructed object: everything allocated holds v, on both sides.
Object(n, pitch, height, gpu, v) ==
    [num |-> n, pitch |-> pitch, height |-> height, acquired |-> FALSE,
     loc |-> "host", gpu |-> gpu, alloc |-> n > 0,
     host |-> Filled(n, v), device |-> Filled(IF gpu THEN n ELSE 0, v)]

\* GPUArray(): no execution configuration, hence no device.
NullObject == Object(0, 0, 0, FALSE, Zero)

Init == /\ arr = [a \in Arrays |-> NullObject]
        /\ handle = [a \in Arrays |-> NoHandle]
        /\ seen = Zero

Idle(a) == handle[a] = NoHandle

Become(a, o) == /\ arr' = [arr EXCEPT ![a] = o]
                /\ UNCHANGED <<handle, seen>>

-----------------------------------------------------------------------------
(* Construction and destruction.  Destroy leaves the null object that the  *)
(* storage of a member array is before its next construction.              *)

Construct1D(a) ==
    /\ Idle(a) /\ arr[a] = NullObject
    /\ \E n \in {m \in Sizes : m <= MaxAlloc} \cup {0} : Become(a, Object(n, n, 1, CUDA, Zero))

Construct2D(a) ==
    /\ Idle(a) /\ arr[a] = NullObject
    /\ \E w \in Widths, h \in Heights :
          LET p == PaddedWidth(w)
          IN  p * h <= MaxAlloc /\ Become(a, Object(p * h, p, h, CUDA, Zero))

\* Freeing an object that counts elements but has none aborts the program.
Sound(o) == o.num = 0 \/ o.alloc

Destroy(a) == Idle(a) /\ Sound(arr[a]) /\ Become(a, NullObject)

-----------------------------------------------------------------------------
(* Handles. *)

\* Faulty aquire(): shared data stays flagged as shared whatever the mode.
AcquireStaysShared(o, side, mode) ==
    LET transfer == o.loc = Other(side) /\ mode # "overwrite" IN
    IF ~ o.alloc THEN [o EXCEPT !.acquired = TRUE]
    ELSE [o EXCEPT
            !.acquired = TRUE,
            !.loc = IF o.loc = "hostdevice" \/ (o.loc # side /\ mode = "read")
                    THEN "hostdevice" ELSE side,
            !.host = IF side = "host" /\ transfer THEN o.device ELSE @,
            !.device = IF side = "device" /\ transfer THEN o.host ELSE @]

\* Faulty aquire(): access for reading and writing does not copy the data across.
AcquireWithoutTransfer(o, side, mode) ==
    LET transfer == o.loc = Other(side) /\ mode = "read" IN
    IF ~ o.alloc THEN [o EXCEPT !.acquired = TRUE]
    ELSE [o EXCEPT
            !.acquired = TRUE,
            !.loc = IF o.loc # side /\ mode = "read" THEN "hostdevice" ELSE side,
            !.host = IF side = "host" /\ transfer THEN o.device ELSE @,
            !.device = IF side = "device" /\ transfer THEN o.host ELSE @]

\* aquire(): where the good copy is afterwards, and the transfer it makes.
Acquire(o, side, mode) ==
    LET transfer == o.loc = Other(side) /\ mode # "overwrite" IN
    IF ~ o.alloc THEN [o EXCEPT !.acquired = TRUE]
    ELSE [o EXCEPT
            !.acquired = TRUE,
            !.loc = IF o.loc # side /\ mode = "read" THEN "hostdevice" ELSE side,
            !.host = IF side = "host" /\ transfer THEN o.device ELSE @,
            !.device = IF side = "device" /\ transfer THEN o.host ELSE @]

CopyOn(o, side) == IF side = "host" THEN o.host ELSE o.device

Stored(o, side, i, v) == IF side = "host" THEN [o EXCEPT !.host = [@ EXCEPT ![i] = v]]
                                          ELSE [o EXCEPT !.device = [@ EXCEPT ![i] = v]]

\* Only a device access of allocated memory looks for a device.
Reachable(o, side) == side = "device" /\ o.alloc => o.gpu

AcquireHandle(a, side, mode) ==
    /\ Idle(a) /\ Reachable(arr[a], side)
    /\ arr' = [arr EXCEPT ![a] = Acquire(arr[a], side, mode)]
    /\ handle' = [handle EXCEPT ![a] = [side |-> side, mode |-> mode]]
    /\ UNCHANGED seen

\* No device: aquire() throws after it has set m_acquired.
AcquireThrows(a) ==
    /\ Idle(a) /\ ~ Reachable(arr[a], "device")
    /\ Become(a, [arr[a] EXCEPT !.acquired = TRUE])

ReleaseHandle(a) ==
    /\ ~ Idle(a)
    /\ arr' = [arr EXCEPT ![a].acquired = FALSE]
    /\ handle' = [handle EXCEPT ![a] = NoHandle]
    /\ UNCHANGED seen

ReadThroughHandle(a) ==
    /\ ~ Idle(a) /\ arr[a].alloc /\ handle[a].mode # "overwrite"
    /\ \E i \in 0 .. arr[a].num - 1 : seen' = CopyOn(arr[a], handle[a].side)[i]
    /\ UNCHANGED <<arr, handle>>

WriteThroughHandle(a) ==
    /\ ~ Idle(a) /\ arr[a].alloc /\ handle[a].mode # "read"
    /\ \E i \in 0 .. arr[a].num - 1, v \in Val : Become(a, Stored(arr[a], handle[a].side, i, v))

-----------------------------------------------------------------------------
(* Copying: the source is acquired on the host, in read mode, meanwhile.   *)

AfterHostRead(o) == IF o.num = 0 THEN o
                    ELSE [Acquire(o, "host", "read") EXCEPT !.acquired = FALSE]

\* Faulty copy: the location flag of the source is copied with the rest.
CopyOfKeepsLocation(o, acquired) ==
    [Object(o.num, o.pitch, o.height, o.gpu, Zero) EXCEPT
        !.host = AfterHostRead(o).host, !.acquired = acquired, !.loc = AfterHostRead(o).loc]

\* A host copy of o's cells; memclear has zeroed the device side.
CopyOf(o, acquired) ==
    [Object(o.num, o.pitch, o.height, o.gpu, Zero) EXCEPT
        !.host = AfterHostRead(o).host, !.acquired = acquired]

CopyConstruct(a, b) ==
    /\ a # b /\ Idle(a) /\ Idle(b) /\ arr[a] = NullObject /\ Sound(arr[b])
    /\ arr' = [arr EXCEPT ![a] = CopyOf(arr[b], FALSE), ![b] = AfterHostRead(arr[b])]
    /\ UNCHANGED <<handle, seen>>

Assign(a, b) ==
    /\ a # b /\ Idle(a) /\ Idle(b) /\ Sound(arr[a]) /\ Sound(arr[b])
    /\ arr' = [arr EXCEPT ![a] = CopyOf(arr[b], arr[a].acquired),
                          ![b] = AfterHostRead(arr[b])]
    /\ UNCHANGED <<handle, seen>>

\* allocate() throws for an oversized source, after the old storage is gone.
AssignThrows(a, b) ==
    /\ a # b /\ Idle(a) /\ Idle(b) /\ Sound(arr[a]) /\ ~ Sound(arr[b])
    /\ Become(a, [NullObject EXCEPT !.num = arr[b].num, !.pitch = arr[b].pitch,
                                    !.height = arr[b].height, !.gpu = arr[b].gpu,
                                    !.acquired = arr[a].acquired])

Swap(a, b) ==
    /\ a # b /\ Idle(a) /\ Idle(b)
    /\ arr' = [arr EXCEPT ![a] = arr[b], ![b] = arr[a]]
    /\ UNCHANGED <<handle, seen>>

-----------------------------------------------------------------------------
(* Reallocation. *)

\* allocate() of a null object: neither side is cleared.
Allocated(o, n) == [o EXCEPT !.num = n, !.alloc = TRUE, !.host = Filled(n, Junk),
                             !.device = Filled(IF o.gpu THEN n ELSE 0, Junk)]

\* Faulty move: only the host copy is resized.
MovedHostOnly(o, n, host, device) == [o EXCEPT !.num = n, !.host = host]

\* Both copies are moved to storage of the new size.
Moved(o, n, host, device) ==
    [o EXCEPT !.num = n, !.host = host, !.device = IF o.gpu THEN device ELSE @]

Relabelled(o, pitch, height) == [o EXCEPT !.pitch = pitch, !.height = height]

Resized1D(o, n) ==
    IF o.alloc
    THEN Relabelled(Moved(o, n, Prefix(o.host, o.num, n), Prefix(o.device, o.num, n)),
                    n, o.height)
    ELSE Allocated(o, n)

Resized2D(o, p, h) ==
    Relabelled(IF o.alloc THEN Moved(o, p * h, Rows(o.host, o.pitch, p, o.height, h),
                                               Rows(o.device, o.pitch, p, o.height, h))
               ELSE Allocated(o, p * h), p, h)

Resize1D(a, n) == Idle(a) /\ n <= MaxAlloc /\ Become(a, Resized1D(arr[a], n))

Resize2D(a, w, h) ==
    /\ Idle(a) /\ PaddedWidth(w) * h <= MaxAlloc
    /\ Become(a, Resized2D(arr[a], PaddedWidth(w), h))

\* A null object records the new size before allocate() refuses it.
ResizeThrows(a, n) ==
    /\ Idle(a) /\ ~ arr[a].alloc /\ n > MaxAlloc
    /\ Become(a, [arr[a] EXCEPT !.num = n])

-----------------------------------------------------------------------------
Next ==
    \/ \E a \in Arrays :
          \/ Construct1D(a)
          \/ Construct2D(a)
          \/ Destroy(a)
          \/ \E side \in Side, mode \in Mode : AcquireHandle(a, side, mode)
          \/ AcquireThrows(a)
          \/ ReleaseHandle(a)
          \/ ReadThroughHandle(a)
          \/ WriteThroughHandle(a)
          \/ \E n \in Sizes : Resize1D(a, n) \/ ResizeThrows(a, n)
          \/ \E w \in Widths, h \in Heights :
                Resize2D(a, w, h) \/ ResizeThrows(a, PaddedWidth(w) * h)
    \/ \E a, b \in Arrays :
          \/ CopyConstruct(a, b)
          \/ Assign(a, b)
          \/ AssignThrows(a, b)
          \/ Swap(a, b)

Spec == Init /\ [][Next]_vars

-----------------------------------------------------------------------------
(* Properties. *)

Loc == {"host", "device", "hostdevice"}

Blocks == UNION {Contents(n) : n \in 0 .. MaxAlloc}

Objects == [num : Nat, pitch : Nat, height : Nat, acquired : BOOLEAN, loc : Loc,
            gpu : BOOLEAN, alloc : BOOLEAN, host : Blocks, device : Blocks]

\* How many cells the two copies of an object have.
RightSize(o) == /\ o.alloc => o.num \in 1 .. MaxAlloc
                /\ o.host \in Contents(IF o.alloc THEN o.num ELSE 0)
                /\ o.device \in Contents(IF o.alloc /\ o.gpu THEN o.num ELSE 0)

\* The members keep their types, and a copy has as many cells as m_num_elements
\* says whenever it exists at all (GPUArray.h 353-372).
TypeOK == /\ arr \in [Arrays -> Objects]
          /\ \A a \in Arrays : RightSize(arr[a])
          /\ handle \in [Arrays -> Handle \cup {NoHandle}]

\* The location flag never lies: it names only copies that exist, and when it
\* says the data is up to date on both sides the two copies are equal, whatever
\* sequence of accesses, resizes, copies and swaps led there
\* (data_location, GPUArray.h 94-104).
Coherent == \A a \in Arrays :
                /\ arr[a].loc = "hostdevice" => arr[a].host = arr[a].device
                /\ arr[a].loc # "host" => arr[a].alloc /\ arr[a].gpu

\* An open handle points at a copy that is good: the side it was acquired on
\* holds the data, alone if the client may write to it (aquire, 847-1013).
HandleOnGoodCopy ==
    \A a \in Arrays : ~ Idle(a) /\ arr[a].alloc =>
        /\ arr[a].loc = handle[a].side \/ (handle[a].mode = "read" /\ arr[a].loc = "hostdevice")
        /\ handle[a].side = "device" => arr[a].gpu

\* Memory seen as one block: the cells of the copy the flag calls good.
Good(o) == IF o.loc = "device" THEN o.device ELSE o.host

Flat(o) == [num |-> IF o.alloc THEN o.num ELSE 0, pitch |-> o.pitch, height |-> o.height,
            cells |-> Good(o)]

Memory == INSTANCE ArrayMemory WITH
    block <- [a \in Arrays |-> Flat(arr[a])],
    access <- [a \in Arrays |-> handle[a].mode]

\* GPUArray implements the single-copy memory: a read through a handle returns
\* the value last written through any handle, on either side; acquiring a handle
\* loses cells only in overwrite mode, those of its own array (aquire, 899-911,
\* 958-970); no other operation changes cells except as ArrayMemory allows.
ImplementsMemory == Memory!Spec
=============================================================================
