# HOOMD-blue in TLA+

This directory holds TLA+ specifications of HOOMD-blue's core data structures and
control loops, the TLC configurations that check them on small instances, and
proofs that TLAPS checks for every value of the parameters. All paths are relative
to the root of the repository; `libhoomd/` stands for `src/libhoomd/`, and a bare file name for
the file of that name in it.

HOOMD-blue is a molecular dynamics code: a Python script (`hoomd_script`) builds a
system of particles, adds forces, an integrator, analyzers and updaters, and calls
`run()`. Under MPI each rank runs the same script on its own spatial domain. Most of
the code is floating-point arithmetic; what the specifications are about is the
bookkeeping around it: which copy of the data is current, who owns a particle, what
an index refers to, what is computed at which time step.

## 1. Inventory

### Modelled

**GPUArray** (`libhoomd/data_structures/GPUArray.h`).
State: element count, pitch, height, host and device storage, a location flag
(`host`, `device`, `hostdevice`), an acquired flag.
Operations: construction, copy, assignment, swap, 1-D and 2-D `resize`, acquiring and
releasing an `ArrayHandle` for one side and one access mode.
Interaction: every other component stores its data in one and reaches it through handles.
Hard: the two copies and the flag have to agree after any sequence of accesses and
reallocations; allocation and acquisition may throw halfway.
Correct when: a read returns what was last written, whichever side wrote it.

**System** (`libhoomd/system/System.{h,cc}`, with `Compute`, `IntegratorTwoStep::prepRun`
and `update`, and the SIGINT handler) and **IMDInterface** (`libhoomd/analyzers/`).
State: time step, lists of analyzers and updaters with their periods and next steps,
the quantities requested for the next step (`PDataFlags`), when forces were last computed;
the viewer's connection, its command, the pause.
Operations: `run()`, adding and removing items, changing periods (fixed or by a function);
the viewer connects and sends commands.
Interaction: calls Python callbacks and period functions, the items and the integrator;
the flags travel through `ParticleData` to the forces; the analyzer of a viewer holds the loop while paused.
Hard: items are compared with the time step for equality, callbacks edit the lists
inside the loop, an interrupt or an exception leaves the loop in the middle of a step,
two loops consume the same interrupt flag.
Correct when: no item is silenced, each finds the quantities it asked for, no time step
is skipped, every run ends, and an interrupt ends it.

**Particle migration** (`Communicator::migrateParticles()` and that of `CommunicatorGPU`,
`DomainDecomposition`, `BondData::unpackRemoveBonds()` and its GPU kernels).
State, per rank: local particles and ghosts, the reverse lookup `m_rtag`, the local bonds
with theirs, send buffers (one per face, edge and corner on a GPU); between ranks: MPI messages.
Operations: for each communicating direction select particles and bonds, send, receive, wrap,
append, unpack. On a GPU particles are sorted once, buffers are forwarded by a routing table, and the arrays are
filled at the end.
Interaction: ranks meet in non-blocking sends and receives; neighbours on the two sides
are the same rank when a dimension has two domains.
Hard: ranks are at different directions at the same time, particles cross edges and
corners in several hops and the periodic boundary in between, a bond may be sent, kept,
removed and received in one exchange, threads write in any order.
Correct when: each particle has one owner at any time and is inside its owner's domain
afterwards, the lookups agree with the arrays, the bonds follow their members, nobody waits forever.

**Ghosts** (`exchangeGhosts()` and `updateGhosts()` of `Communicator` and `CommunicatorGPU`).
State, per rank: ghosts behind the local particles, plans, the copy lists (by tag on the CPU, by index on a GPU),
the numbers received per direction or buffer.
Operations: an exchange decides what is sent where and forwards it over edges and corners; updates
send positions alone, by the lists of the last exchange.
Hard: an update carries neither tags nor sizes; particles leave their domain and are sorted between exchange and update; ghosts
cross the periodic boundary; both ranks of a broken bond must decide alike.
Correct when: every rank has what is near its domain and the other members of its bonds, once, where the owner has it.

**NeighborList** (`libhoomd/computes/NeighborList.{h,cc}`: when lists are built).
State, per rank: pairs, positions at the last build, exclusions by tag and by index, the force flag, the
answer cached in a time step.
Operations: `needsUpdating`, `distanceCheck`, builds, exclusions, parameters; it asks for migrations through the communicator.
Hard: a list is reused while particles move; sorts, restores and exchanges change the indices it holds; all ranks must come to the same answer.
Correct when: a list in use has every pair within the cutoff that is not excluded, and no excluded one; the ranks agree.

**ParticleData, ParticleGroup, SFCPackUpdater, AngleData, SystemDefinition.**
State: particle arrays of every rank behind the reverse lookup, index lists of groups, angles with tags and a
table by particle index, snapshots.
Operations: getters and setters by tag, sorts, migrations, adding and removing angles, snapshots of chosen parts and their restore.
Interaction: whatever reorders the arrays signals it to groups, angles and neighbour lists.
Hard: each of these keeps indices of its own.
Correct when: a script sees one system: particles and angles under their tags, a snapshot brings back what it has.

**BondData** in a single process (`libhoomd/data_structures/BondData.{h,cc}`).
State: bonds, their tags, the reverse lookup, a stack of deleted tags, a count.
Operations: `addBond`, `removeBond`, `getBondByTag`, `getBondTag`, `takeSnapshot`,
`initializeFromSnapshot`.
Hard: removals move the last bond into the hole, tags are recycled, restores throw halfway.
Correct when: a bond is found under its tag until it is removed.

### Not modelled

| component | state and operations | why, and what would make it correct |
|---|---|---|
| GPUVector | a GPUArray with a size | growth; to behave as a sequence (plan 1) |
| CellList, the binned and GPU neighbour lists | bins with overflow flag | the retries until they are large enough (plan 2); what is in a bin is geometry |
| System on several ranks | `run()` with collective calls | SIGINT is seen by ranks at different steps (plan 3) |
| GPUFlags, GPUBufferMapped | mapped memory | one flag each; the orders of kernels and reads are given by synchronisation calls |
| RigidData, IntegratorData | per-body data | mostly numerical; the re-indexing on sorts is that of the groups |
| forces and potentials, ComputeThermo, PPPM, integration methods, FIRE, their GPU kernels | per-particle results | floating-point; their caching by time step is in `SystemRun` |
| other updaters | temperatures, momenta, the box | floating-point; the sort is an action of several modules |
| initializers, dump writers, Logger, MSD | files | formats, before a system exists or without a change of it |
| ExecutionConfiguration, Messenger, Profiler, Variant, clocks | | utilities |
| hoomd_script | Python wrappers | the callers of the operations; they appear as the inputs |
| `libhoomd/extern` | | vendored |

Of the modelled components these parts are missing: mapped memory and asynchronous handles of `GPUArray`; profiling and statistics of
`run()`; the choice of the grid in `DomainDecomposition`; the capacities of the buffers of `CommunicatorGPU` and its
transfers with MPI 3; changes of the box, origin, type names and inertia tensors; selectors and set operations of
groups; dihedrals, which have the code of angles; walls, bodies and integrator variables in snapshots; full storage of neighbour
lists, their filters by body and diameter, their exclusions derived from bonds and angles; the coordinates, rates and forces of the IMD interface.

## 2. Modules

| module | models | uses |
|---|---|---|
| `ArrayCells` | contents of an array, what a reallocation keeps, row padding | |
| `ArrayMemory` | abstract: an array is one flat memory that clients open in a mode and close | `ArrayCells` |
| `GPUArray` | the two-copy array | `ArrayCells`, refines `ArrayMemory` |
| `GPUArrayProofs` | theorems | `GPUArray` |
| `IMDInterface` | the viewer's connection and commands | |
| `SystemRun` | the items and the loop of `System::run()` | `IMDInterface` |
| `PickedLists` | what a stable partition, a removal by a mask or a sort into buffers leaves of a list | |
| `PickedListsProofs` | theorems | `PickedLists` |
| `DomainGrid` | `DomainDecomposition` and the wrapping of positions | |
| `Routing` | plans, and the routing table of the GPU communicator | `DomainGrid` |
| `BondTable` | local bonds of a rank, `unpackRemoveBonds()` | `PickedLists` |
| `Migration` | `Communicator::migrateParticles()` | `DomainGrid`, `BondTable` |
| `MigrationGPU` | `CommunicatorGPU::migrateParticles()` | `Migration`, `Routing` |
| `ParticleMigration` | migrations and what happens between them; the properties | `MigrationGPU` |
| `GridProofs` | theorems: the grid of ranks, cells and periods along an axis, the routing table, messages in the order of the route | `Routing`, `PickedListsProofs` |
| `MigrationProofs` | theorems: where particles are, who owns them, types, bond tables, bonds | `ParticleMigration`, `GridProofs` |
| `Ghosts` | `Communicator::exchangeGhosts()`, `updateGhosts()` | `DomainGrid`, `PickedLists` |
| `GhostsGPU` | those of `CommunicatorGPU` | `Ghosts`, `Routing` |
| `GhostLayer` | rounds of communication while particles move; the properties | `GhostsGPU` |
| `NeighborList` | when lists are built, on all ranks | `Ghosts` |
| `GhostProofs` | theorems: rounds, copy lists and buffers, what the ghosts are | `GhostLayer`, `GridProofs` |
| `NeighborListProofs` | theorems: the ghost layer is complete; the decisions of the neighbour lists | `NeighborList`, `GhostProofs` |
| `BondMap` | abstract: bonds behind stable tags | |
| `BondData` | `BondData` in one process | refines `BondMap` |
| `BondDataProofs` | theorems | `BondData` |
| `SystemState` | abstract: the system a script sees | |
| `ParticleData` | particle arrays of all ranks, sorts, a group, snapshots | |
| `AngleData` | angles and their table by index | |
| `SystemDefinition` | both, with snapshots of parts | `ParticleData`, `AngleData`, refines `SystemState` |
| `SystemProofs` | theorems: the run loop; the system a script sees | `SystemRun`, `SystemDefinition`, `PickedListsProofs` |
| `MC*` | small sets for TLC | |

Definitions whose name begins with `Faulty`, and the few described by a comment as leaving something out, are plausible
mistakes in the definition that follows them. Nothing uses them; exchanging one for the
definition shows which property notices.

### Correspondence

`GPUArray`. `arr[a]` is a C++ object, one record field per member; `handle[a]` is the one
`ArrayHandle` that can be open on it (the `m_acquired` assertion forbids a second).
`Acquire` is `aquire()`: the location flag decides on a transfer and becomes the side of the
access, or `hostdevice` for a read of the other side. `CopyOf` and `Assign` read the source
through a host handle as the code does, so a copy changes the location of its source.
Operations that throw have actions of their own, which keep what the code has written before. Cells hold abstract
values; memory that has been allocated and not cleared holds `Junk`.
In `ArrayMemory` the mode of an open handle is state (`access`), so that what may become of the cells is tied to it: to open in `read` or `readwrite`
leaves them, only opening to `overwrite` gives up those of that array, and a client reads and writes as its mode says. A transfer missing from `aquire()` is not a step of it.

`SystemRun`. `phase` says where `run()` is; loops over the items are one step per item, because a
callback, a signal or an exception can come between. `EditItems` is every script
function that changes the lists. `Integrate` is the look-ahead of the flags, the
integrator's `update()` and the test of `g_sigint_recvd`, in this order. The item named by `Imd` is the IMD interface: when it is due
the loop is in the phase `"imd"`, one step per command, until `EndAnalyzeImd`.
`integrated` and `late` are history variables that only properties read.

`Migration`, `MigrationGPU`. A particle is a tag and a position, counted in domains; so the domain in which a particle is,
and every comparison the code makes with the faces of a domain, is exact, and coordinates inside it are left
out. `StartStage` is the first half of the loop body for one direction, up to the send;
`ReceiveParticles` and `ReceiveBonds` are the two receives and what follows each. A channel is the
order-preserving sequence of messages from one rank to another, with the size and the data of a message together.
On a GPU a buffer is a set per plan, since threads fill it in any order; a plan is the set of the directions it names.
`ParticleMigration!Integrate` stands for everything between two migrations, where the ranks meet in an `Allreduce`:
particles move by up to one domain, and each rank ends with the ghosts of a narrow or of a wide ghost layer.

`Routing`. `Table(dir, plan)` gives the buffers of the neighbour into which `setupRoutingTable()` routes a buffer, `Local` being the
receive buffer. `Destination` is what `communicateStepTwo()` makes of it when a destination is unique.

`Ghosts`, `GhostsGPU`, `GhostLayer`. Positions are cells, `L` to a domain; a particle is at the centre of its cell. `SendGhosts` and
`SendPositions` are the first half of the loop body of a direction, shared by the action that begins and those that receive.
On a GPU the buffers of a rank are one list of elements with their plans; `ByBuffer` takes some of them buffer by buffer: `Forwarded` in the order of the sends, and `Unpacked`
collects the ghosts in the order of the kernel: receive buffer, faces, edges. The GPU's exchange picks any order of the local particles, as its threads do, and remembers it in
`ghostIdx`. Migration is one step here (`Migrated`).

`NeighborList`. `at` says where a rank is in `communicate()` and `compute()`. The counters of time steps
are kept relative to the current one (`age`, `checkedNow`). `Ask` is `needsUpdating()` up to the `MPI_Allreduce`, `Reduce` the reduction.

`ParticleData`, `SystemDefinition`. The fields of a particle that move together stand as its place, the part of the box in which its position is; part `p` belongs to the domain `p % size`.
Accessors and snapshots are collective, so one step of all ranks. `Numbered`, `IndexList` and `TableOf` are the three indexings that have to follow the arrays.
`Scatter` is all of `initializeFromSnapshot()`, with the `allocate()` it calls: always in a single process, else when the particles of a rank need more room than the
capacity `maxN`. `allocate()` clears the tags and signals the groups before the new tags are entered, and each rebuilds its list from zeros (`Cleared`). What is in the list is corrected by the signal at the end; what has been
written beyond it is not, and is recorded in `overrun`. The model stops there, as the program does at the assertion (`ParticleGroup.cc` 586). In `Communicate` arrays grow as well, but keep
their tags, so that the rebuild of the groups does no harm.

`BondData`, `AngleData`. Variables are the members of the same meaning. Types are part of the bond.
`InitializeFromSnapshot` adds the bonds of the snapshot until one is refused, which is where the exception leaves it.

## 3. Runs

| run | shows | instance |
|---|---|---|
| `gpuarray` | location flag and handles always point at good copies; contents behave as flat memory; copy, assignment, swap, reallocations and those that throw | two arrays, sizes within and beyond the allocation limit |
| `system` | no item left behind, flags asked for, no step skipped, every run ends, an interrupt ends it | an analyzer that is an IMD interface, an updater, a period and a period function, 3 time steps, a callback in every second step, two interruptions |
| `system_stale_forces` | **violated**, see below | the same, periods 1 and 2, no callback, one interruption |
| `migration` | owners, lookups, bond tables, matching messages, bonds follow particles | two bonded particles on 2 x 2 ranks, on CPUs or on GPUs |
| `migration_grid` | particles reach their domain, migrations end | one particle on 2 x 3 ranks, on CPUs or on GPUs; it stays, crosses a face of the axis with three domains or an edge, either way |
| `ghosts` | ghosts are complete, single, current and near; updates fit the lists; incomplete bonds; rounds end | two bonded particles on 2 x 2 ranks with 4 x 4 cells each, on CPUs or on GPUs |
| `ghosts_thick_layer` | **violated** | two ranks, a ghost layer of 2 of 5 cells |
| `neighbors` | lists are complete, exclusions hold, ranks agree, the distance check compares a particle with itself, steps end | two particles about the periodic boundary of two ranks, two cutoffs, two check periods |
| `neighbors_exclusions` | **violated** | the same, exclusions that are cleared and set again |
| `snapshots` | refinement of `SystemState`; groups and the table of angles follow every reordering | three particles on one rank with angles, or on two; a group without particle 0 |
| `bonddata` | lookup, deleted tags, room in snapshots, refinement of `BondMap` | up to 3 bonds, a count of up to 6 |
| `bonddata_count` | **violated** | the same |

Why the bounds are enough to see the cases that matter:

- *GPUArray.* Two arrays show every interaction, since no operation has three operands; with a limit of 2 the size 3 is the
  one that is refused; one row. What is not run is proved: any sizes, rows and values.
- *SystemRun.* `MaxStep` (the last time step) is 3, so an item executes, is silenced by a period function in the past unless the code
  prevents it, and executes again; `MaxInterruptions` of 2 puts a signal, an exception and acts of the viewer
  in any two places. The clock's limit is tested in every second step.
- *Migration.* Two domains along an axis make both neighbours the same rank, which is where messages
  could be confused; three give a row of domains between the boundaries. Two axes give edges, where particles take two hops.
  `Motions`: the first particle moves anywhere, the other stays, crosses a face or an edge, so the two take every combination of stay and leave.
  Corners of a three-dimensional grid are not run (2 x 2 x 2 is too large); `GridProofs` covers their routes.
- *Ghosts.* Four cells and a layer of one leave an interior; the bond reaches as far as the shifted box allows (`MaxBond` + moves is
  at most 2 * `LayerWidth`). `Anchors` keeps one of the two particles at a corner, a face or beside a face of the first domain when they migrate; the other is anywhere:
  a translation by domains maps the remaining positions to these, up to the boundary of the box, which every domain of a 2 x 2 grid touches.
  `MaxMoves` of 1 is one update, with moves in both senses. The thick layer has neither bonds nor moves.
- *NeighborList.* Thirteen cells keep the ghost layer below a third of a domain, where the finding below does not bite. `Places` is about the
  boundary, as the lists elsewhere are those of one rank. Steps since the last build are counted to `MaxPeriod`.
- *SystemDefinition.* Three particles for one angle; two angles suffice to remove the one in the middle of nothing, the last or the
  first, and to recycle a tag. With angles one particle has two places, on two ranks all have; two places (`NPlaces`) are one for each of two domains.
  The group has two of the three particles, and not particle 0: with it the first restore on one rank overruns its list (see below). `MostRoom` bounds the capacity of arrays that grow by an eighth.
- *BondData.* Three bonds suffice to remove the first, a middle and the last, and to recycle tags in another
  order; `MaxCount` bounds the count, which grows with each restore.

No run disables the deadlock check: in `migration`, `ghosts` and `neighbors` this means that no rank waits for a
message or a reduction that does not come. `GhostLayer!Rest` only stands for a script that ends at a bound.

**Fairness.** `SystemRun` assumes weak fairness of the loop of `run()`: a thread that has entered it
keeps executing, and callbacks return; the viewer's pause keeps the loop turning, so `RunEnds` allows a run that stays paused. Nothing is assumed of the script, signals,
exceptions or the viewer.
`ParticleMigration`, `GhostLayer` and `NeighborList` assume weak fairness of the ranks together: as long as some rank can take a step, one does. It follows from each process
being scheduled and MPI delivering messages. What the script and the integration do need not happen.

### Disagreements found

- `system_stale_forces`: SIGINT returns from `run()` after the integrator has moved the particles and before the
  step is counted (`System.cc` 544). The next run repeats the step, and `shouldCompute()` takes the forces for
  current that belong to the old positions.
- `ghosts_thick_layer`: `getShiftedBox()` shifts the global box by twice the ghost width (`Communicator.cc` 1205). With two domains along an axis and a layer of more than a
  third of a domain, the rank at the upper boundary wraps ghosts of its lower neighbour away to the other end of the box, although
  `setGhostLayerWidth()` allows layers of up to half a domain.
- `neighbors_exclusions`: `clearExclusions()` resets the counts of as many tags as the rank has local particles (`NeighborList.cc` 392). On several ranks others keep theirs; when such a pair is
  excluded again `addExclusion()` returns early and one member of the pair goes without.
- `bonddata_count`: a restore in a single process does not reset the count of bonds (`BondData.cc` 703); later snapshots
  contain bonds of particle 0 with itself, which cannot be restored.

Seen while reading, without a run of their own.

*GPUArray, GPUVector.* `resize()` of a null array stores the new size before `allocate()` may
throw (`GPUArray.h` 1267). `aquire()` leaves `m_acquired` set when it throws; a null array that is resized in 1-D keeps height 0; the
padding of rows adds a block when the width is already a multiple of 16. `GPUVector::operator=` assigns to a temporary.

*System, IMD.* `m_n` is reset by `setPeriod` and not by `setVariablePeriod`
(`System.h` 312, 317); items are due at their creation step plus multiples of the period, where a comment has
multiples of the period (`System.cc` 105); an item the callback schedules for the current step runs without its flag. `prepRun()` computes forces on the first run only, while `run()` sets
the flags of the current step every time (`IntegratorTwoStep.cc` 306, against `ParticleData.h` 303): an item added between two runs finds its flag set and its quantity never computed.
The forces a viewer sets are reset to zero by `ConstForceCompute::rearrangeForces()` after every sort; `force_scale` is documented (`analyze.py` 302) and not passed on (325); an
exception in `analyze()` on the root rank leaves the others in a broadcast.

*Communication.* Particles that move by more
than one domain are not home after a migration (`Communicator.h` 348 says they are). The test for the room of received bonds looks at the particle buffer and enlarges it
(`CommunicatorGPU.cc` 1137), so the buffer of the bonds keeps its size; `allocateBuffers()` assigns one maximum three times.
On a GPU an update reads the positions at the indices of the last exchange. A sort between the two makes every ghost wrong, unless a neighbour list
turns the update into an exchange, as it does when one is used (`NeighborList.cc` 1309 is the only migrate request); against `Communicator.h` 336, "The ghost positions on the neighboring
processors are current". `GhostLayer!SortAndUpdate` is for that reason an action on the CPU, where the lists hold tags: with it on GPUs `GhostsAreCurrent` is violated.

*NeighborList.* With `dist_check` off and a period of one step the distance is checked (`NeighborList.cc` 928, against `NeighborList.h` 128). Forces computed before `communicate()` consume the forced update. Full storage on the CPU
never clears the counts of ghosts. `setPosition()` forces no update. Exclusions of 1-3 and 1-4 neighbours use the local number of bonds (581, 657). `distanceCheck()` may throw on one rank before the reduction
the others enter (815).

*ParticleGroup.* In a single process every restore of particles calls `allocate()` (`ParticleData.cc` 750), which clears the tags and signals the groups (425). `rebuildIndexList()` then finds particle 0 under
every index and writes as many entries as there are particles into the list of a group that has particle 0, beyond its end unless all are members; the assertion in `ParticleGroup.cc` 586 ("m_num_local_members <= m_member_tags.getNumElements()") fails. On several ranks it is the same
when a rank gets more particles than it has had room for, and than the group has members. `RestoreOverruns` proves it for one process; with `Group = {0, 2}` in `SystemDefinition.cfg` TLC violates `GroupsFollow` in two steps, a snapshot that is taken and its restore.
Of what follows an overrun no property says anything, as the model stops there.

*Snapshots.* Inertia tensors are in no snapshot (`data.py` 451 says "complete simulation state"). The table of angles keeps old entries after an empty restore without particles (`AngleData.cc` 529). Tables of angles and the flags of groups
keep their size when a snapshot with more particles is restored, and one with fewer particles than are local is refused. A snapshot with another number of integrators throws after everything else was restored
(`SystemDefinition.cc` 303). The iteration over bonds in `data.py` 888 assumes that the tags are 0 to N-1.

## 4. Proofs

`GPUArrayProofs`, for every set of arrays, sizes, values and allocation limit. Assumptions: a positive allocation
limit, `Junk` not being a value, and those of `ArrayCells`. The inductive invariant `Inv` says of each object that its members are consistent:
the copies have the size the count says, they are equal when the flag is `hostdevice`, and a flag other than `host` needs device memory; of each
open handle, that it points at a good copy. The second part is what makes a write keep the first: a client writes where its handle
points, and only there. Proved: `TypeCorrect`, `CoherentAlways`, `HandlesPointAtGoodCopies` and
`MemoryRefinement` (every step is a step of `ArrayMemory` or a stutter). What the flat memory has is the copy the flag names; so an access to read or to read and write has to be shown to leave it (`AcquireRefines`), with the transfer
when the flag names the other side, which is where `Coherent` is needed.

`BondDataProofs`, for any number of particles, types and bonds. Assumption: `BOND_NOT_LOCAL` is not an index. The inductive invariant has the properties of
the run (types, the lookup as the inverse of the tags, the deleted tags as the free ones once each, room in snapshots) and `SnapshotShape`:
a snapshot consists of bonds `addBond()` accepts and ends or has a refused one after at most `MaxBonds`. Without it nothing
bounds what a restore adds. The delicate step is `RemoveBond`: `RemovedLookup` computes the lookup after the
move of the last bond, with the case that the removed bond is the last one. Proved: `TypeCorrect`, `LookupAlwaysConsistent`, `DeletedTagsAlwaysFree`,
`SnapshotAlwaysHasRoom` and `MapRefinement` (removals move bonds in the arrays and never under another tag; a restore
brings back the bonds of the snapshot).

`SystemProofs` has two parts. The run loop, for any items, periods, results of period functions, bounds and interruptions, an IMD interface or none. The inductive invariant adds three things to the types.
At every place of the loop it says which items have had their turn (`TurnsTaken`): these are due later, the others not earlier than now. Only so the equality that `shouldExecute()` tests
is enough, and `peekExecute()` of the next step finds the rest. The flags name everything that is due in the step, whether the loop has come to it or not (`DueIsRequested`), but what this step's callback has scheduled. The time step is the one integrated
last or the next (`StepsInOrder`). Proved: `RunTypeCorrect`, `NeverLeftBehind`, `AlwaysRequested`, `NeverSkipped`.

`PickedListsProofs`, without assumptions: the lists that `std::stable_partition`, `std::remove_if` and a test per element leave have exactly the elements at the chosen positions, each once and in order.
`Picked` says this with the numbers of the positions in place of the recursive `SelectSeq`, about which the provers know nothing. `ListOfSet` is the same for `SetToSeq`, which stands for an order that is not known.

`GridProofs`, for every grid `NX * NY * NZ` with two domains or more along some axis (`SeveralRanks`: there is no communicator otherwise, `init.py` 812). It begins with the routing table, for all plans and directions: `GhostRoute`, that the loops of `setupRoutingTable()` come to "take the direction off and keep the later ones", and `ParticleRoute`, that a
unique destination means the first direction only. The argument is by the kind of the plan; what it rests on is that a plan never names both faces of an axis (`OneFaceOfAnAxis`), so that the face that is not to be sent back to is never in question, and
that a corner leads to an edge through its first face alone (`CornerEdges`). Then what migrations, exchanges and updates have in common. Every rank has a clock, the direction and the kind of the message it has sent last; between two ranks are exactly the messages from the clock of the receiver
to that of the sender, in the order of the route (`AllInOrder`). With two domains along an axis both neighbours are one rank, and only the clocks tell their messages apart.

`MigrationProofs` holds for every grid, every set of particles and bonds, both communicators, and all motions of at most one domain. Assumptions: the sets of particles and bonds are finite, each bond has two members, which are particles;
`NOT_LOCAL` is not an index. Each invariant takes those before it as given: `Ordered`, `Located`, `Owned`, `Indexed`, `Bonded`.

- `Ordered` says of the clocks what is said above, with two kinds of messages, particles and bonds. `Located` says where particles are relative to the rank that has them (`Near`): along the axes that are done in the domain,
  along the axis at work no longer beyond the first face, along the others at most one domain away; a message holds what is beyond the face it crosses. For a GPU it says of each buffer and each entry of a message that its particles are where the plan leads, up to the period of the box (`Heading`); the last rank's wrap then
  puts them into its domain. Here `ParticleRoute` is what shows that the routing table keeps this true. `Owned` says of the set of tags each rank has, in its arrays and its buffers still to be sent, and of those each message carries, that all are disjoint and make up the whole. A step takes one message and makes
  another, and what the rank has then, with what it sends, is what it had with what it received. `OneOwner` counts places, and `Owned` makes the sum 1. `Indexed`: the reverse lookup of a rank follows the arrays through partition, removal, append and the
  filling of gaps by threads. Proved: `OnlyAwaited`, `AlwaysHome`, `NeverLost`, `LookupAlwaysConsistent`.
- `Bonded` is `Followed` on CPUs and `Homed` on GPUs. On the CPU the bonds of a message are those of the particles in the message before it (`Belong`), so what the receiver keeps with what comes are the bonds of its particles (`FollowsAt`).
  On a GPU the bonds are sent when the particles have all arrived. There is a home of each particle, the domain where it goes, that neither the particle nor its bonds change on the way; a copy of a bond travels for each member that has left, by the plan of the member,
  and for each member some copy is on its way or the bond is kept at its home. A bond may come twice, or be there already: `UnpackedGPU` keeps one, and a bond whose members have all left is removed also if a copy comes. Proved: `TypeCorrect`, `TablesAlwaysConsistent`, `BondsAlwaysFollow`.

The other part of `SystemProofs`, the system that a script sees, for any numbers of particles, parts of the box, ranks and angles, and with ghosts. Assumptions: there is a particle, a rank and a place, the special values are no numbers, angles have three members.
The invariant has four parts. `Stored`: every particle is on exactly one rank, and the lookup of each rank is the inverse of its array followed by its ghosts (`IsLookup`); this is what tells a particle from its ghosts elsewhere and makes `Owners` one rank. Every rearrangement is
shown to keep it from two facts, that the entries of the lookup are written for all that the rank then has (`NumberedIs`) and that each rank gets the particles of its domain (`Distributed`); migration and restore reset the lookup before, a sort need not, because the tags stay (`SortedLookup`).
`AnglesInv` is the argument of `BondDataProofs` for angles. `SnapshotStored` types the snapshot. `TableCurrent` is inductive with `Stored`: a rebuild uses a lookup in which the only rank finds every particle, and whatever changes it or the angles marks the table, but for the restore that leaves no angles.
For the refinement, what `Get` returns is the place of the one particle of a tag in the set `Particles` of all ranks (`PlaceOfIs`); sorts and migrations leave this set as it is, a restore makes it that of the snapshot (`ScatterPlaceOf`), and `takeSnapshot()` gathers it (`GatheredIs`) and lists the angles in some order of their tags (`ListingIs`).
A second invariant, `RoomHeld`, has the capacity of the arrays. `GroupsAlwaysFollow` is for groups of all particles or without particle 0 (`Spared`), whose lists fit when they are rebuilt from cleared tags (`SparedFits`), and `RestoreOverruns` shows that in a single process no other group is spared.
The other theorems hold for every group, up to the first overrun. Proved: `TypeCorrect`, `GroupsAlwaysFollow`, `RestoreOverruns`, `TableAlwaysCurrent`, `StateRefinement`.

`GhostProofs`, for every grid, every finite set of particles, any bonds, any layer narrower than half a domain (`setGhostLayerWidth()`), any displacements, both communicators; nothing is assumed of where the particles are: they may leave their domains
between two updates, be sorted, and be ghosts of a rank that is their own neighbour on both sides.

- `RoundOrder`: all ranks are in the same round, an exchange or an update, and their messages are in the order of the route (`AllInOrder` with one kind).
- On CPUs `CopyInv`. `CopyLists`: the ghosts a rank has from a direction are those its neighbour's copy list names, in its order, and begin where those of the directions before it end (`FromList`); the list names only what its rank had when it was made (`ToList`), so a ghost is forwarded with the position that has come before.
  `CopyPlaces`: a plan names one direction of an axis (`OneWay`, as the layer does not reach the middle of a domain), so a rank that differs from the owner along an axis can have the particle only after the direction of that axis (`Reached`), and what comes in a direction was not there before it (`Arrivals`).
  Every position is that of the owner up to the box, in a message, and in the arrays as far as the update has come (`CurrentGhosts`).
- On GPUs `BuffersInUse`: there is a history, what each rank had in its buffers after each direction of the exchange, as tags and plans (`BufferInv(H)`). It is fixed when the exchange is done: `numGhosts` are the sizes in it, and an update fills the buffers with the positions of the same tags at the same places, without sending a tag.
  The ghosts are the part of it that `Unpacked` collects (`GhostPlaces`). The threads' order is an arbitrary choice at the beginning of it, and the routing table (`GhostRoute`) is what makes the elements of a buffer those with the later directions of their plan to go.
- Proved from these: `GhostRounds`, `CopiesKept`, `BuffersKept`, `GhostsKept` (both together), and the properties of the run: `EachOnce`, `GhostsFollow`, `SizesFit`, `LayerTypes`.

`NeighborListProofs` goes on with what the neighbour lists need.

- `LayerHolds` is `LayerComplete`, under two hypotheses on the constants. `ShortSteps`: a step is at most one cell along each axis, the unit in which the property narrows the layer. `ThinLayer`: with two domains along an axis the layer is at most a third of a domain; the run `ghosts_thick_layer` shows that without it the property fails.
  An image of a particle within the layer around a domain is in it or one domain away along each axis (`WhichDomain`), and where it is away the plan of the particle has the direction that leads there (`NearIsTarget`), which is where the nearer of the two faces and the width of the layer come together. So what has to come is a matter of ranks and plans (`Target`), and comes:
  a rank that a plan leads to in the k-th direction is either reached already or has as neighbour one that is (`TargetNext`), and by induction over the route all of them are (`Delivered`), on CPUs because a list names everything the rank had with the direction in its plan (`ListsAll`), on GPUs because everything with a plan is in the buffers from the start (`AllBound`),
  is forwarded with the later directions (`HoldsSent`), and what is left of a plan is never a corner, so there is a place it is collected from (`NoCornerLeft`).
  Between exchanges two more invariants: a particle is as many cells outside its owner's domain as there were steps (`OwnNear`), and all that is within the narrowed layer is still there (`PresentNear`), because an image that is near now was near before the step. At last, it is the image that is near the domain: a ghost is in the shifted box of its rank (`Mirrors`),
  so is every image in the layer if the layer is thin (`NearInShiftedBox`), and two places in one box that are apart by periods are the same (`OnePlace`).
- The neighbour lists, for any ranks, particles, cutoffs and periods, and whatever migrations and restores do to the arrays; no assumption is needed. The ranks go through `communicate()` and `compute()` at their own pace, in `prepRun()` one may be a whole communication ahead,
  and nothing makes them decide alike but that they would answer alike. The invariant states what is settled for all of them although some do not know it yet (`SameView`): whether they take the distance check (`Asks`), whether they migrate (`Migrates`; of a rank that has migrated already
  the forced rebuild tells), the age of the lists after that (`AgeAfter`) and, where they ask or migrate, the communications to go (`Left`). A step of one rank keeps its own view (`KeepsView`), so only the collective steps compare two of them; when the last rank is done the views make the lists alike (`RestedAlike`).
  `PlacedAt` says what a rank has been told where it is, and that its last positions are of the particles at those indices unless a rebuild is forced (`SameAsBuilt`). It also says that `compute()` never has to take the distance check itself: `communicate()` has asked in the same time step. Proved: `AlwaysAgree`, `AlwaysSameParticles`.

Only model-checked: `BondsComplete`, which adds to `LayerComplete` that a particle of an incomplete bond goes to all ranks on its nearer sides; the types, `ListComplete` and `ExcludedNeverListed` of `NeighborList`, which rest on the ghosts. Liveness is beyond the prover: so are
`RunEnds`, `SigintEnds`, `MigrationCompletes`, `RoundCompletes` and `StepCompletes`. That `MigrationCompletes` and `RoundCompletes` need nothing but the messages of `Ordered` and `RoundOrder` is the informal argument behind them: the rank that is furthest behind has been sent what it waits for.

## 5. Plan

Models: 1. `GPUVector` over `ArrayMemory`, refining a sequence. 2. The overflow and retry of `CellList` and of the
GPU communicator's buffers. 3. `SystemRun` on two ranks with the collective calls inside a step, and SIGINT on one of them. 4. Full storage of neighbour lists.

Proofs: `BondsComplete`; `ListComplete` of `NeighborList` from it and `LayerHolds`.
