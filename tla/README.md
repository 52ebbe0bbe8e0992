# RayJoin in TLA+

TLA+ models of RayJoin, a spatial join program for GPUs: TLC configurations that check
them on small instances, and TLAPS proofs for every instance.  Paths are those of the
repository; the implementation is in its `src/`, so `rt/primitive.h` is
`src/rt/primitive.h` there.

    tlc -config MCBlockGrouping.cfg MCBlockGrouping      # one run; see "Runs"
    tlapm BlockGroupingProofs.tla                        # the proofs of one module; see "Proofs"

## The system

RayJoin joins two planar maps: it finds the pairs of edges that cross (LSI), the polygon
of the other map each vertex is in (PIP), and from both the overlay of the maps.  There
are CUDA/OptiX programs (`app/01_overlay`, `app/02_query`, `app/04_overlay_native`) and a
Vulkan one (`app/03_overlay_vk_ns`) with the same phases.

| Part | State | Operations | What makes it correct |
|---|---|---|---|
| Graph loading, `map/planar_graph.h`, `vk/map/planar_graph.h` | the parsed map, a cached binary copy on disk | look up, parse, write, read | the graph is the map's, whatever other programs do to the copy |
| Maps, `map/map.h` | scaled points, edges with equation `ax+by+c=0`, `b>=0` | load, equation | the sign of `a` and `b` is what the queries assume |
| Grouping, `rt/primitive.h` | boxes and the range of edges behind each | merge in blocks (`FillPrimitivesGroupNew`), in windows (`FillPrimitivesGroup`), not at all | every edge is behind exactly one box that encloses it |
| Queue, `util/queue.h` | an array and an atomic counter | append one, append by warp, clear, size | no slot is used twice; the size is the number of appends |
| LSI, `core/lsi_*.h`, `shader/rt_lsi_custom.cu`, `vk/shader/rt_ns/lsi_rt_ns.slang` | the queue of crossings | query, finalize | each crossing once, eids in the right columns |
| PIP, `core/pip_*.h`, `shader/rt_pip_custom*.cu`, `vk/shader/rt_ns/pip_rt_ns.slang` | the closest edge per point | query | the first edge above the shifted point, whatever the traversal order |
| Grid, `grid/uniform_grid.h` | cells with the edges of both maps | count, fill | an edge is in every cell it meets; a crossing is reported by one cell |
| Overlay, `core/map_overlay_*.h`, `core/run_*.cu`, `vk/core/` | the buffers of all phases | `Init`, `BuildIndex`, `IntersectEdge`, `LocateVerticesInOtherMap`, `ComputeOutputPolygons`, `WriteResult` | each phase reads what an earlier one wrote for the same map |
| Engines, `rt/rt_engine.*`, `vk/engine/` | pipelines, launch parameters, structures, command buffers | set up, build and compact a structure, render or run a pass, destroy | nothing is reused or given back while the device may still need it; nothing leaks |
| Queries, `core/run_query.cu` | one index, the queries, their answers | read or generate, index, query repeatedly, check | every repetition has the answer of the same question |
| Device algorithms, `vk/algo/` | scratch buffers | scan, radix sort, unique, index, midpoints | the result of the sequential algorithm |
| Output, `core/output_chain.h` | chains, faces by pair of ids | split, renumber, write | the chains are cut at the crossings; equal faces and places have equal numbers |

The host calls the phases in order.  What it launches goes to a stream, which the host
waits for where it needs a result (CUDA), or is waited for at once by a fence (Vulkan).
Inside a kernel thousands of threads share arrays and counters; the rays of
a query share the queue.  Between programs the only shared state is the cached copy.

Hard to test, and therefore modelled first: threads that draw slots from shared counters
in any order and meet at barriers; the order in which hardware visits boxes, how often,
and which it leaves out; queues at their limit and used again; a copy on disk that is
read while it is written, or that a killed program left behind; buffers that several
phases and both maps use in turn, while the device is behind the host.  `PROJECT.json` lists
each hazard with its line and the properties about it.

## Modules

| Module | Models | State and actions |
|---|---|---|
| `EdgeCover` | nothing by itself: what every grouping kernel promises | ranges published, `Publish`, `Seal` |
| `BlockGrouping` | `FillPrimitivesGroupNew` | each variable is a shared or global array, tail or the place of a thread between two barriers; `Load`, `Draw` (the `atomicAdd`), `Store`, `EndRound` (barrier, swap, exit test, sort, reset), `Reserve`, `Write`, `Collect` (the host) |
| `CrossingQueue` | the LSI query and the queue: `rt`, `lbvh`, Vulkan | rays with the boxes they still meet and the crossings left in the current loop; `Clear`, `Launch`, `Enter`, `Draw`, `Store`, `ReadSize`, `Finalize` |
| `PointLocation` | the PIP query for one point (not the grid's): `rt`, `lbvh`, native, Vulkan | payload or global best, committed hit, range of the running call; `Enter`, `Test` (one iteration), `Leave` (merge and report), `Finish` |
| `GraphCache` | `load_from` in both programs | the map at the path, words of the copy, per process its place and variables; `Lookup`, `Parse`, `Write`, `Read`, `Crash`, and `Replace` (the map at the path) |
| `DeviceScan` | `ExclusiveScanUInt32` and its two kernels | the host's call stack, and per block its shared memory and its place between two barriers; `CallScan`, `LoadCells`, `SweepThread`, `Barrier`, `SaveTotal`, `StoreCells`, `Recurse`, `LaunchAdd`, `AddOffsets`, `ReturnScan` |
| `WindowGrouping` | `BuildIndex` of the overlay and query programs with `FillPrimitives`, `FillPrimitivesGroup` and the Vulkan count, prefix and emit passes; extends `DeviceScan` | the arrays of both maps, the kernel that runs, per window the place of its thread; `StartEach`, `FillEdge`, `StartCount`, `CountWindow`, `InclusiveScan`, `BeginScan`, `FinalizeWindow`, `StartEmit`, `EmitGroup`, `BuildAccel`, `Throw` |
| `PowersOfTwo` | the loops that double and halve an offset | one function, for `DeviceScan` and `XsectPipeline` |
| `EdgeGeometry` | segments and their line equations, `map/map.h` | operators only, for the next two |
| `UniformGrid` | `AddMapsToGrid`, `AddMapToGrid` and the two queries of the grid | cells, offsets and slots, per edge the place of its thread; `CountEdge` and `FillEdge` (one atomic add each), `NextMap`, `Scan`, `Restore`, `IntersectEdge`, `LocateVertices` |
| `RadixSort` | `RadixSortXsectsByQueryEid` and its five kernels | ping and pong keys and indices, histograms per pass and per partition, per group its shared memory and the place of each wave; `Extract`, `Upsweep` (a group's atomic adds), `Spine`, `Load` to `WriteValues` (a wave of downsweep between two barriers), `EndPass` (the ends of a pass swap ping and pong), `Gather` |
| `XsectPipeline` | `ComputeOutputPolygons` of all programs | the arrays it passes on, per edge the place of its thread and the stack of the quicksort; `SortByEdge`, `Dedup`, `BuildIndex`, `FindRange`, `SortAndStore`, `SortAndLocate`, `Pop`, `PartitionRange`, `StoreMids`, `QueryMids`, `Assign`, `FinishMap` |
| `OutputChain` | `WriteOutputChain`, its native twin and the Vulkan `WriteResult` | place of the walk, the fragment being collected, output chains, face table, point ids; `WalkPoint` (a point and the crossings on its edge), `EndChain`, `EndMap`, `Number` (faces and ends of one fragment) |
| `StreamOps` | stream, `SharedValue`, `Queue` as operations of host and device | operators: `Host`, `Launch`, `Sync`, `Free`, `SetOn`, ... |
| `OverlayState` | the context, `MapOverlay`, `LSI`, `PIP`, the steps the CUDA overlays share | operators: one per function, a sequence of operations |
| `OptixEngine` | `RTEngine` and what queries it | operators, as above |
| `CudaOverlays` | `MapOverlayRT`, `MapOverlayNativeRT`, `MapOverlayLBVH`, `MapOverlayGrid`, phase by phase | operators, as above |
| `VulkanEngine` | context, buffers, submissions, passes, `AccelStructScene` | operators, as above; making and destroying every handle |
| `VulkanOverlay` | the Vulkan maps and `MapOverlayRTNS` | operators, as above |
| `Queries` | `RunLSIQuery`, `RunPIPQuery`, `CheckPIPResult` | operators, as above |
| `OverlayPhases` | nothing by itself: what every overlay promises | the products made so far; a product after those it is made from |
| `Overlay` | the five programs as host thread, stream and device | `input`, the buffers with what is in them, the stream, the host's place; `HostOp`, `HostLaunch`, `HostWait`, `DeviceStep` |
| `*Proofs` | theorems about the module in their name; see "Proofs" | |
| `SharedLemmas` | what several of these need | |
| `MC*` | instances for TLC | |

What is abstracted, and why it is sound:

- *BlockGrouping.* A box is the set of edges it encloses, so merging is union; whether two
  boxes merge depends on floating-point areas and is a free choice, which includes every
  outcome.  `__syncthreads()` is a guard over the threads of the block.  An atomic draw
  and the plain stores after it are separate steps.
- *WindowGrouping.* The first and the second pass compare the same areas, so which edges
  do not fit the group before them is an input, and every set of such edges is tried.
  Calls that only wait are part of the step that needs their result.  `ag = 1` of the
  CUDA programs is `BlockGrouping`; values of `ag` that no script uses and a window of
  zero edges are left out.
- *DeviceScan.* A block scans `2^LogBlock` cells instead of 256.  The four times too many
  groups that are started store zeros behind the array of sums, where no kernel reads;
  they are left out.  Sums stay far below `2^32`.
- *RadixSort.* Digits are of base `Radix` and a wave has `LaneCount` lanes; the layout of
  shared memory follows from them as in the code, under the same conditions
  (`LayoutAssumption`).  Lanes of a wave run in step, as the ballots need; waves do not.
  Groups of upsweep only add, and those of spine have a column each, so a group is one
  step.  New buffers hold anything (`junk`).  In one group of spine only the first
  `RADIX` of 512 threads reach the last two barriers; the shading language does not define
  that, and the model takes it, as the code does, that the other threads, which have
  nothing left to do, do not hold them up.
- *XsectPipeline.* A crossing is its pair of edges and its place on an edge a rank; the
  polygon that a query finds for a midpoint is named after the two crossings and the map,
  so an answer assigned to the wrong piece is seen.  `thrust::sort` may leave equal
  elements in any order, the Vulkan sort is the stable one of `RadixSort`.  A thread sorts
  only the slots of its own edge, so a sort is one step; the grid's threads do look at the
  whole array meanwhile, and what they look for does not change when an edge's crossings
  do.  In `lbvh` and `grid` crossings at one place of an edge keep no particular order
  (`OrderReproducible` is about the other programs only).
- *CrossingQueue.* Which edges cross is a free relation.  Boxes without a crossing edge
  change nothing and are not entered; the thread-local loop appears only where it
  appends.  The two CUDA back ends differ in how they draw; in `lbvh` any set of rays
  that are about to append may be coalesced.  Asserts are not part of the actions: a
  release build has none.  The traversal is taken to call for a box once; the flags the
  acceleration structure is built with do not promise that.
- *PointLocation.* One ray is one thread, so rays do not interact; the interleaving is
  with the traversal.  It may call for any box, even one it could leave out, up to
  `MaxCalls` times, and may end when every box that begins below the reported hit was
  called for.  Arithmetic is exact; float rounding of boxes and of the reported height
  is left out, and so is the face the edge is mapped to.
- *UniformGrid.* Drawing a slot and storing to it are one step: the slot is the thread's
  own and nobody reads it before the kernel ends.  The threads of the queries read what
  does not change, so a query is one step; appending is in `CrossingQueue`.  Cells are
  computed exactly, with the factor 0.999 of the code; the rounding of `double` next to
  the border of a cell is left out.  `best_y_max` is read uninitialized when a cell has
  no edge over the point; the result is no edge either way, and that is what `Answer` says.
- *OutputChain.* A chain is given as a walk on the ground, with the polygon of the other map
  for each stretch between two crossings; row index, edge numbers, the sorted crossings
  and the two arrays of polygons are computed from it, and the walk of the code reads only
  those.  Coordinates are only compared.  That the arrays are right is `XsectPipeline` and
  `PointLocation`.  A point of a chain and the crossings on the edge behind it are one step;
  the host does this alone.
- *Overlay and its modules.* A kernel or copy is one operation, with the buffers it reads
  and writes; what is in a buffer is abstracted to which data it is (the boxes of map 1,
  the answers for the midpoints of map 0).  What a kernel computes is in the other
  modules.  `thrust` with `par.on(stream)` is a launch (`unique` also waits for its
  result); a plain copy, `device_vector` assignment or `resize` is done by the host at
  once and waits for nothing, since the stream does not synchronise with the default one;
  giving memory back (`cudaFree`) waits for the device.  The five programs are straight-line
  code once their input is known, so a program is a sequence computed from the input, and
  the interleaving is that of the host with the device.  The result is always written, dumps
  are off, queries are repeated twice, builds are release builds.  Freeing at the end of the CUDA programs is left out; of
  Vulkan it is all there.  Vulkan's counter of crossings is only allocated; `RightData`
  reads it as such, and what that means is in `CrossingQueue`.
- *GraphCache.* Each count, array and coordinate is one word of the file.  Reading past
  the end leaves the variable as it was, as `STREAM_READ_VAR` does.  Counts that were
  never read may fail to allocate, or not: both are possible.
  The map may be replaced between loads, not while a program is parsing or copying it, so that
  no copy mixes two maps.

## Runs

| Run | Bounds | Shows |
|---|---|---|
| `block_grouping` | 7 edges, blocks of 4, 3 rounds: a full and a partial block, an odd number of inputs, the limit of rounds reached and not reached | `SlotsDisjoint`, `CoverExact`; the kernel implements `EdgeCover` (`CoverSpec`); it ends (`Termination`) |
| `crossing_queue` | 2 x 2 edges, all 16 relations, 3 slots (one too few for all), 2 queries, initial Vulkan counter 0 or 1 | `ResultExact`, `SlotsPrivate`, and at and beyond the limit of the queue `LimitKept` |
| `point_location` | all planar triples of 14 edges around the point (1,1), at most 2 wide and high (`Reach`), heights in halves (`Width`): ends, vertices and interiors on the vertical line at, above and below it; both query maps; every grouping; two calls per box | `ClosestExact` against a reference computed from the shifted point, `LowestId` |
| `graph_cache` | 2 processes, 2 loads each, both programs, 1 crash, the map replaced once | `QuietWhole`, `LoadExact` (what an undisturbed load returns is one whole map, and for all processes the one that was copied first) |
| `window_grouping` | maps of 9 and 3 edges, windows of 2, blocks of 4: five windows need two levels of the scan, the second map has a partial window; all cuts, all programs | `ScanExact`, `IndexExact` (a box of either map's structure encloses the range with its number, after both maps are built with shared arrays); both maps implement `EdgeCover` (`CoverSpec`) |
| `radix_sort` | 2 digits of base 8, 2 waves of 4 lanes, 2 keys per thread: partitions of 16; 0, 1, 16 and 19 keys (a second partition with padding), equal keys, and the key that stands for padding | `DestinationsExact` (where the histograms send each key), `StableSort` (each pass sorts by the digits so far, stably, and so does the whole) |
| `xsect_pipeline` | 4 crossings of 2 edges and 3 found in every order; 5 and 7 of one edge in the worst orders for the stack; 1; none; along the edges, against them, all at one place | `PiecesExact`, `OrderReproducible`, `StackBounded` (a bound that 64 ranges satisfy for any count of 32 bits), `Termination` |
| `uniform_grid` | 3 x 3 cells; three maps with an edge over several cells, three edges at a vertex, and a diagonal of nine cells, each against 38 pairs of edges that touch, cover or cross them; both maps or one in the grid | `LayoutExact` for every order of the atomic adds; `CrossingsOnce` and `ClosestFound`, against references computed from shifted maps, for both query maps |
| `overlay` | the programs with every engine and grouping; whether there are crossings, and on which map midpoints; boxes given back or not; checked or not; queries read or generated; each missing part and refused choice once | `RightData` (every operation finds the data it needs), `HostWaits` (the host does not touch what is in use on the device), `AllReleased` (Vulkan destroys all it made, in an order that is allowed), the programs implement `OverlayPhases` (`OverlaySpec`), `OverlayEnds` (a run ends, with a result exactly when it was asked for what the program does) |
| `output_chain` | a chain of up to 5 items, with crossings in every place, at points and at each other, every polygon 0 to 2 beside and under it; pairs of chains of both maps with polygons 0 to 3 | `FragmentsExact` (the fragments are the stretches inside of the other map, in order), `NumbersStable` (equal sides get equal faces, equal places equal points) |
| `cache_checked` (violation) | 2 processes of either program, no crash | the final check sum test passes on a copy that is still being written, because a failed read leaves the first check sum in the variable; for the same reason it passes when the Vulkan reader, which names `min_y` twice, has misread a whole copy |
| `face_pairs` (violation) | as `output_chain` | a face id does not stand for one pair of polygons, as a comment says: pairs are sorted by value and not by map, and sides are numbered twice |

Two blocks are enough to see blocks interfere, as the only thing they share is the global
tail; four threads are the least with two merging pairs.  Two rays and two base edges give
every pattern of draws and stores of two appenders; a third ray would repeat them.  Three
edges are enough for a tie and a competitor.  Two processes give every overlap of a
writer with a reader and of two writers.

In `overlay` an instance is a program and its input; there is nothing to scale, since the
two maps are fixed by the code and what the phases do does not depend on sizes, except for the
cases the inputs distinguish.  In `output_chain` five items give two crossings at one
place between two points, and two chains per map give every pair of sides that can share a
pair of polygons; a third chain would repeat them.

`LimitKept` says what happens at the limit of the queue: CUDA stores behind the array,
Vulkan drops the crossing, and both report the full count.  (The README of the
repository gives the capacity as a product of the two numbers of edges; the code uses their
sum.)  `ResultExact` needs the Vulkan counter to be zero at first (`FromZero`): nothing in
`vk/core/map_overlay_rt_ns.h` sets it, while the older `map_overlay_rt.h:126` does.
`LowestId` says how native and Vulkan decide a tie, by edge id, and `ClosestExact` how the
others do, by slope as a comment of `shader/pip.h` wants it.

Fairness.  `BlockGrouping`: weak fairness of each block and of the host; a block that is
resident advances, and the host blocks in `stream.Sync()`.  `Termination` then says that
no barrier is left waiting.  `XsectPipeline`: weak fairness of the whole step, because all that is
needed is that kernels end and the host goes on.  `Overlay`: weak fairness of the host's
step and of the device's, for the same reason.  The other modules state no liveness
property: their runs check for deadlock, and `Idle` is enabled only when everything has come to
its end, so a barrier that is not reached or a ray that waits is still found; the loops are
bounded by the counts, the boxes, the words and the cells.

## Proofs

For every value of the constants, from the assumptions that the modules state
about their constants and no others:

| Module | Theorems | Extra hypothesis |
|---|---|---|
| `BlockGroupingProofs` | `TypeCorrect` (`TypeOK`), `SlotsNeverShared` (`SlotsDisjoint`), `PairsTouch` (`PairsAdjacent`, which no run checks), `CoverIsExact` (`CoverExact`), `Refinement` (`CoverSpec`) | |
| `CrossingQueueProofs` | `TypeCorrect`, `SlotsNeverShared` (`SlotsPrivate`), `LimitIsKept` (`LimitKept`), `ResultIsExact` (`ResultExact`) | |
| `GraphCacheProofs` | `TypeCorrect`, `QuietIsWhole` (`QuietWhole`), `LoadIsExact` (`LoadExact`) | |
| `PointLocationProofs` | `TypeCorrect`, `ReturnsLowest` (no run checks it), `ReturnsLowestId` (`LowestId`), `ReturnsClosest` (`ClosestExact`) | |
| `WindowGroupingProofs` | `TypeCorrect`, `ScanIsExact` (`ScanExact`), `IndexIsExact` (`IndexExact`), `Refinement` (`CoverSpec`) | |
| `UniformGridProofs` | `TypeCorrect`, `CrossingsReportedOnce` (`CrossingsOnce`), `ClosestIsFound` (`ClosestFound`) | |
| | `LayoutIsExact` (`LayoutExact`) | a row has not more cells than coordinates |
| `XsectPipelineProofs` | `TypeCorrect`, `PiecesAreExact` (`PiecesExact`), `OrderIsReproducible` (`OrderReproducible`), `StackIsBounded` (`StackBounded`) | |
| `SharedLemmas` | lemmas only: least elements, products and quotients, sums, powers of two, values of recursive functions; edges of planar maps, their equations, and points that are moved | |

Each of them follows from `Invariance` (`Spec => []Inv`), and three of them from one
conjunct more, which is inductive with `Inv`: `Scanned`, `Once` and `StackOK`.  No property
is inductive but `ClosestFound`, with `Inv`; every `Inv` and each of the three was checked with TLC, on
the instance of the module's run, before it was proved.  There is one lemma per action.

*BlockGrouping.* `Inv` adds, for each block and phase, what its buffers mean: while
merging, the inputs are an ordered partition of the block's range of edges; the slots
drawn by the threads partition `0 .. tailOut-1`; the slots stored to hold the merged or
copied inputs.  After the sort the outputs must again be an ordered partition, which is
the core of the argument (`RoundPartition`, `SortedPartition`, `OrderedApart`): the
draws are a permutation of consecutive pieces, so their results cover the range without
overlap, and intervals that partition a range and are sorted by their first edge are
adjacent.  Globally, the slots reserved by the blocks partition `0 .. gTail-1`, and
`gTail` is the sum of what they reserved, bounded by `NE` because ranges of different
blocks hold different edges.  `Refinement` needs one fact more, that a global slot
which nobody has written is blank: then a write publishes a range that is new.

*CrossingQueue.* Since the counter was cleared, each appended crossing has drawn one
number: there is a bijection from the pairs drawn to `fresh .. counter-1` (`Numbered`).
The coalesced draw of several rays extends it by as many numbers at once.  From it
follow that no slot is shared, that the counter never exceeds the number of crossings, and that
at the end the records are the crossings, once each, as far as the array reaches.

*GraphCache.* While a copy exists, all programs that write it have parsed one map; each
of its words is that map's, or some writer has still to write it, unless a writer was
killed; and what a reader has read of a copy that nobody disturbed are that map's words
(`Shared`).  Programs that overwrite each other write the same words, which is why the
copy is whole when the last of them is done.

*PointLocation.* Every candidate edge that the intersection program was shown is covered
by what was found: it is not lower, and at the same height it does not come before by the
rule of the back end for ties, by id or by slope (`NotAfter`, `Tested`).  The traversal may
leave out a box only if it
begins above the reported hit, so at the end every edge that meets the ray is covered.

`ReturnsClosest` compares with a point moved by `(1/F, 1/F^2)`, `F = 2 * Reach^2 + 1` and
`Reach` the extent of the largest edge.  Heights and slopes are whole multiples of `1 / Width`, so no
division rounds (`HeightsAreExact`).  The value of a line equation at the point is then an integer,
and the coefficients are at most `Reach`: the move decides only where the
value is zero, and there as the sign of `a`, then of `b`, which is the rule of the code (`SideMoved`,
`CandidatesAreOver`).  Of two edges over the moved point that one is lower which has the smaller height
at the point: times both denominators the difference of the heights is an integer, and the move
changes it by less than one.  Where they are equal the slopes decide (`LowerIsUnder`), as in the
`rt` and `lbvh` programs.  Both are never equal, because edges of a planar map do not lie on one
another (`NoOverlap`); so an edge that covers all others is lower than all (`CoveredIsHigher`).

*WindowGrouping.* The number of a group is the number of groups that start before it
(`Rank`).  A window's count is the number of groups that start in it; the sums that the
scan returns are then the ranks of the first edges of the windows; each emitted group is
under its rank, so that two windows never store to one place; and a structure that was
built is complete, whatever becomes of the arrays it was built from.

That the scan returns prefix sums is `Scanned`, which says of every call on the host's
stack what its arrays hold.  Within a block the cells are the leaves of a binary tree, and
cell `(u + 1) * 2^j - 1` is the place of the `u`-th node of level `j`.  On the way up
such a cell holds the sum of the leaves of its node once its level is done (`Rising`); the total
is then taken out and the root cleared; on the way down it holds the sum of the leaves
before its node (`Falling`).  A thread touches the two cells of its own pair of nodes, no
cell of another's, so the order of the threads does not matter (`NodeCellAlone`).  A call
is complete when each block holds the sums within it and the inner call has returned those of
the blocks, which is induction over the stack, carried by the invariant.

*UniformGrid.* The invariant is about the cells that each thread has been to.
`Visited(m, c)` are the edges of map `m` whose threads have been to cell `c`; the count of
a cell is the number of them, in either kernel, and its part of the array holds
exactly them, each under a number of its own.  The parts of two cells do not meet,
because the offsets are running sums of the counts.  When the threads have ended, the edges
that have been to a cell are those whose rectangle of cells contains it.  That these
are the edges with a point of their box in the cell is geometry: `CellOf` is
monotone, a walk over the rectangle comes to each of its cells once, and no cell between two
others is passed over.  The last fact needs a row of not more cells than coordinates
(`GSize <= Span`): with more cells some have no point at all, and an edge would be listed
in them.  The program has 2048 or 15000 cells in a row, and `2^31` or `2^47` coordinates.

`CrossingsReportedOnce` needs no such bound.  Its reference moves map 1 by `(1/F, 1/F^2)` with
`F = 2 * Span^2 + 1`.  The value of a line equation is an integer and its coefficients are at
most `Span`, so the shift decides on which side a point is only where that value is
zero, and there as the sign of `a`, then of `b`: that is the rule of the code
(`SideMoved`, `CrossesAsMoved`).  Where two edges cross, the point is a mean of the ends
of each of them, weighted with what the other's equation has there (`MeetingIsMean`).  So it
is in both boxes, nothing is clamped, its cell is in both rectangles (`CellOfQuotient`), and
by `Inv` each edge has one slot there (`SlotOfEdge`): one pair of slots reports it.

`ClosestIsFound` moves the query map in the same way, with the argument of `ReturnsClosest`
for what is over the moved point and what is lower there (`CandidateIsOver`,
`ReplacesIsUnder`).  So the edges over a
point are in a total order (`OneIsLower`, `LowerOfLower`), and a cell leaves the lowest of its own
(`BestIsLowest`).  An edge is filled into the cell in which it passes over the point
(`RowOfOver`), and a lower edge does so in no higher row (`RowOfLower`).  So that cell answers, whatever it
leaves (`RowAnswers`); and what the first cell with an answer leaves is lower than all edges, those
of cells above included (`WalkIsLowest`).

*XsectPipeline.* The sorted crossings lie in consecutive ranges, one for each edge that is
crossed, and the index has these ranges, whether it was made from counts and sums, or a
thread of the grid searched for them while others were sorting.  A thread moves crossings
within the range of its edge only (`Rearranged`), so no other thread's range changes.  As
each range has one midpoint less than it has slots, the numbers that the threads give
to their midpoints meet nowhere and leave no gap (`PiecesNumbered`): none is overwritten
and none is queried blank.  Of the quicksort it is enough to know that its open ranges do
not overlap, and that two crossings in the wrong order are both in one of them (`Quick`);
`PartitionParts` says what one partition does, by going through the values of its loop.  When
nothing is open, nothing is in the wrong order.  For the depth of the stack, each range that
was put off has a room: all that is put off after it, and what is being sorted, is no
longer than it is (`StackOK`).  So from the top down the ranges at least double, and a
stack of 64 would need `2^65 - 1` crossings of one edge.

Only model-checked:

- `RadixSort`: that its downsweep sends keys to places of their own rests on the layout of
  shared memory and on ballots within a wave, for which there is no inductive invariant yet;
- `Overlay` and its modules, where an instance is a program and there is nothing more general to state;
- `OutputChain` so far;
- liveness, and the refinement of `OverlayPhases`.

## Not modelled

`ComputeOutputPolygonsHost`, `vk/algo/sort.h`, the kernels of an earlier radix sort, the shader
`pip_rt_ns_slope.slang`, `vk/core/map_overlay_rt.h` and structures of triangles are
called, compiled or built by no program.  Third-party code (OptiX, Vulkan, the LBVH tree, cub,
thrust) appears as what the source relies on.  Exact and floating-point arithmetic
(`util/int128.h`, `util/rational.h`, `util/vec_math.h`) has no state and is as wide as its
types; a model would only sample it.  The text parser, dumps, profiles, logging and the
parsing of flags are left out.  So are launches of size zero, a structure of no boxes, and
groupings other than 0, 1, 2 in the CUDA programs, for which `MapOverlayRT` builds its
structure from whatever is in the boxes; flags that only change profiles (in `RunPIPQuery` the
configuration of the grid is assigned to itself, `core/run_query.cu:358-361`).

The barrier in `spine` that only part of a group reaches has no property: what it does is
undefined.

## Plan

In order:

1. Proofs: `RadixSort` (`DestinationsExact`), `OutputChain` (`TypeOK`, `FragmentsExact`).
2. What a result means across modules: the pieces of `XsectPipeline` as the input of
   `OutputChain`.
