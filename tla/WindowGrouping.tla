--------------------------- MODULE WindowGrouping ---------------------------
(***************************************************************************)
(* BuildIndex of the overlay and query programs, without the merge kernel  *)
(* of BlockGrouping: for each map in turn the boxes are filled and the     *)
(* acceleration structure is built from them.  With ag = 0 each edge gets  *)
(* its box.  With ag = 2 the edges are cut into windows of WinSize, and    *)
(* one thread per window runs a greedy grouping twice: to count the groups *)
(* and, after a prefix sum over the counts, to store them.  The CUDA       *)
(* programs resize their arrays to the number of boxes, the Vulkan program *)
(* allocates them for the worst case and one array of boxes serves both    *)
(* maps.  Both passes evaluate merged_area / area < area_enlarge on the    *)
(* same values: the edges that fail it are an input; a box is the set of   *)
(* edges it encloses.  RunComputePass and stream.Sync() wait for a kernel. *)
(***************************************************************************)
EXTENDS DeviceScan, FiniteSets

CONSTANTS
  NE,       \* edges of map 0 and of map 1
  WinSize   \* edges per window

ASSUME NEAssumption == NE \in [{0, 1} -> Nat \ {0}]
ASSUME WinSizeAssumption == WinSize \in Nat \ {0}

VARIABLES
  program,  \* "overlay" and "query" (CUDA), "vk"
  fau,      \* free the boxes after use (CUDA overlay)
  ag,       \* adaptive grouping
  cuts,     \* per map: edges that do not fit the group before them
  todo,     \* the maps whose structure is still to be built
  phase,    \* what runs for the first of them
  done,     \* windows or edges whose thread has ended
  nGrp,     \* n_grp: groups of each window
  psum,     \* psum_n_grp: groups of the windows before each
  at, k,    \* per window: last_eid, n_groups of the thread that emits
  aabbs,    \* the boxes, shared by both maps
  ranges,   \* per map: eid_range
  accel     \* per map: the boxes of its acceleration structure

inputVars == <<program, fau, ag, cuts>>
memVars   == <<nGrp, psum, at, k>>
vars == <<program, fau, ag, cuts, todo, phase, done, nGrp, psum, at, k,
          aabbs, ranges, accel, calls, kernel, blk, offsets>>

Maps == {0, 1}
im == Head(todo)
Edges(m) == 0 .. NE[m] - 1

NWins(m) == (NE[m] + WinSize - 1) \div WinSize
Windows == 0 .. NWins(im) - 1

Smaller(m, n) == IF m < n THEN m ELSE n
EidBegin(w) == Smaller(w * WinSize, NE[im])
EidEnd(w)   == Smaller((w + 1) * WinSize, NE[im])

EdgeRange(lo, hi) == [lo |-> lo, hi |-> hi]
NoRange == EdgeRange(0, 0)
EdgesOf(r) == r.lo .. r.hi - 1

(* thrust's resize keeps what fits; new cells are zero. *)
Resize(a, n, zero) == [i \in 0 .. n - 1 |-> IF i \in DOMAIN a THEN a[i] ELSE zero]

Empty == [i \in {} |-> 0]

TypeOK ==
  /\ todo \in {<<0, 1>>, <<0>>, <<1>>, <<>>}
  /\ phase \in {"start", "each", "count", "scan", "finalize", "emit", "accel", "thrown"}
  /\ todo = <<>> => phase = "start"
  /\ \A w \in DOMAIN nGrp : nGrp[w] \in 0 .. WinSize
  /\ \A w \in DOMAIN psum : psum[w] \in Nat
  /\ \A i \in DOMAIN aabbs : aabbs[i] \subseteq Edges(0) \cup Edges(1)
  /\ \A m \in Maps : \A i \in DOMAIN ranges[m] : EdgesOf(ranges[m][i]) \subseteq Edges(m)
  /\ \A m \in Maps : DOMAIN accel[m] \subseteq Edges(m)

(* Which edges may start a group beside the first one of a window. *)
Inner(m) == {e \in Edges(m) : e % WinSize # 0}

Init ==
  /\ program \in {"overlay", "query", "vk"}
  /\ fau \in (IF program = "overlay" THEN BOOLEAN ELSE {FALSE})
  /\ ag \in (IF program = "vk" THEN {0, 1, 2} ELSE {0, 2})
  /\ cuts \in [Maps -> SUBSET (Inner(0) \cup Inner(1))]
  /\ \A m \in Maps : cuts[m] \subseteq (IF ag = 2 THEN Inner(m) ELSE {})
  /\ todo \in (IF program = "query" THEN {<<0>>, <<1>>} ELSE {<<0, 1>>})
  /\ phase = "start"
  /\ done = {}
  /\ nGrp = Empty /\ psum = Empty /\ at = Empty /\ k = Empty
  /\ IF program = "vk"
     THEN /\ aabbs = [i \in Edges(0) \cup Edges(1) |-> {}]
          /\ ranges = [m \in Maps |-> [i \in Edges(m) |-> NoRange]]
     ELSE aabbs = Empty /\ ranges = [m \in Maps |-> Empty]
  /\ accel = [m \in Maps |-> Empty]
  /\ ScanInit

Go(p) == phase' = p /\ done' = {}

(* The arrays of the CUDA programs get their size, Vulkan's are there. *)
MakeRoom(n) ==
  IF program = "vk" THEN UNCHANGED <<aabbs, ranges>>
  ELSE /\ aabbs' = Resize(aabbs, n, {})
       /\ ranges' = [ranges EXCEPT ![im] = Resize(@, n, NoRange)]

(* The dispatch on ag, and the first kernel. *)
StartEach ==
  /\ todo # <<>> /\ phase = "start" /\ ag = 0
  /\ MakeRoom(NE[im])
  /\ Go("each")
  /\ UNCHANGED <<inputVars, todo, memVars, accel, scanVars>>

StartCount ==
  /\ todo # <<>> /\ phase = "start" /\ ag = 2
  /\ nGrp' = [w \in Windows |-> 0]
  /\ psum' = [w \in 0 .. NWins(im) |-> 0]
  /\ Go("count")
  /\ UNCHANGED <<inputVars, todo, at, k, aabbs, ranges, accel, scanVars>>

(* The Vulkan program does not have the merge kernel. *)
Throw ==
  /\ todo # <<>> /\ phase = "start" /\ ag = 1
  /\ Go("thrown")
  /\ UNCHANGED <<inputVars, todo, memVars, aabbs, ranges, accel, scanVars>>

(* ag = 0: thread e stores its edge's box and range. *)
FillEdge(e) ==
  /\ phase = "each"
  /\ e \notin done
  /\ aabbs' = [aabbs EXCEPT ![e] = {e}]
  /\ ranges' = [ranges EXCEPT ![im][e] = EdgeRange(e, e + 1)]
  /\ done' = done \cup {e}
  /\ UNCHANGED <<inputVars, todo, phase, memVars, accel, scanVars>>

(* ag = 2, first pass: the thread of window w counts its groups. *)
CountWindow(w) ==
  /\ phase = "count"
  /\ w \notin done
  /\ nGrp' = [nGrp EXCEPT ![w] = 1 + Cardinality(cuts[im] \cap (EidBegin(w) + 1 .. EidEnd(w) - 1))]
  /\ done' = done \cup {w}
  /\ UNCHANGED <<inputVars, todo, phase, psum, at, k, aabbs, ranges, accel, scanVars>>

(* thrust::inclusive_scan into psum_n_grp + 1, whose cell 0 is zero. *)
InclusiveScan ==
  /\ phase = "count" /\ program # "vk"
  /\ done = Windows
  /\ psum' = [w \in DOMAIN psum |-> SumBefore(nGrp, w)]
  /\ Go("finalize")
  /\ UNCHANGED <<inputVars, todo, nGrp, at, k, aabbs, ranges, accel, scanVars>>

(* BuildPrimitiveGroupPrefix: scan into a buffer of its own. *)
BeginScan ==
  /\ phase = "count" /\ program = "vk"
  /\ done = Windows
  /\ CallScan(nGrp, NWins(im))
  /\ Go("scan")
  /\ UNCHANGED <<inputVars, todo, memVars, aabbs, ranges, accel>>

Scanning ==
  /\ phase = "scan"
  /\ calls # <<>>
  /\ ScanStep
  /\ UNCHANGED <<inputVars, todo, phase, done, memVars, aabbs, ranges, accel>>

EndScan ==
  /\ phase = "scan" /\ calls = <<>>
  /\ Go("finalize")
  /\ UNCHANGED <<inputVars, todo, memVars, aabbs, ranges, accel, scanVars>>

(* Fault: the sum of the windows before w lands in the cell of the next one. *)
FinalizeShifted(w) ==
  /\ phase = "finalize" /\ program = "vk"
  /\ w \notin done
  /\ psum' = [psum EXCEPT ![w + 1] = offsets[w]]
  /\ done' = done \cup {w}
  /\ UNCHANGED <<inputVars, todo, phase, nGrp, at, k, aabbs, ranges, accel, scanVars>>

(* prefix_finalize: thread w stores the sum up to and with its window. *)
FinalizeWindow(w) ==
  /\ phase = "finalize" /\ program = "vk"
  /\ w \notin done
  /\ psum' = [psum EXCEPT ![w + 1] = offsets[w] + nGrp[w], ![0] = IF w = 0 THEN 0 ELSE @]
  /\ done' = done \cup {w}
  /\ UNCHANGED <<inputVars, todo, phase, nGrp, at, k, aabbs, ranges, accel, scanVars>>

(* The host has read the number of groups and launches the second pass. *)
NGrps == psum[NWins(im)]

StartEmit ==
  /\ phase = "finalize"
  /\ program = "vk" => done = Windows
  /\ MakeRoom(NGrps)
  /\ at' = [w \in Windows |-> EidBegin(w)]
  /\ k' = [w \in Windows |-> 0]
  /\ Go("emit")
  /\ UNCHANGED <<inputVars, todo, nGrp, psum, accel, scanVars>>

(* Fault: the last group of a window is stored as if it ended the map. *)
GroupEndOfMap(w, lo) ==
  LET later == {e \in cuts[im] : e > lo /\ e < EidEnd(w)}
  IN IF later = {} THEN NE[im] ELSE CHOOSE h \in later : \A e \in later : h <= e

(* The end of the group of window w that starts at lo. *)
GroupEnd(w, lo) ==
  CHOOSE h \in lo + 1 .. EidEnd(w) :
    /\ h \in cuts[im] \/ h = EidEnd(w)
    /\ \A e \in lo + 1 .. h - 1 : e \notin cuts[im]

Slot(w) == psum[w] + k[w]

(* The thread of window w stores the group it has gathered. *)
EmitGroup(w) ==
  LET hi == GroupEnd(w, at[w]) IN
  /\ phase = "emit"
  /\ at[w] < EidEnd(w)
  /\ aabbs' = [aabbs EXCEPT ![Slot(w)] = at[w] .. hi - 1]
  /\ ranges' = [ranges EXCEPT ![im][Slot(w)] = EdgeRange(at[w], hi)]
  /\ at' = [at EXCEPT ![w] = hi]
  /\ k' = [k EXCEPT ![w] = @ + 1]
  /\ UNCHANGED <<inputVars, todo, phase, done, nGrp, psum, accel, scanVars>>

Filled ==
  \/ phase = "each" /\ done = Edges(im)
  \/ phase = "emit" /\ \A w \in Windows : at[w] >= EidEnd(w)

(* Fault: every program builds from its whole array of boxes. *)
NPrimsOfArray == Cardinality(DOMAIN aabbs)

(* The CUDA programs take the whole array, the Vulkan one what it counted. *)
NPrims == IF program # "vk" THEN Cardinality(DOMAIN aabbs)
          ELSE IF ag = 0 THEN NE[im] ELSE NGrps

(* BuildAccelCustom copies the boxes; the next map may reuse the array. *)
BuildAccel ==
  /\ todo # <<>> /\ Filled
  /\ accel' = [accel EXCEPT ![im] = [i \in 0 .. NPrims - 1 |-> aabbs[i]]]
  /\ aabbs' = IF fau THEN Empty ELSE aabbs
  /\ todo' = Tail(todo)
  /\ Go("start")
  /\ UNCHANGED <<inputVars, memVars, ranges, scanVars>>

(* The queries follow, or the program has ended. *)
Stopped == (todo = <<>> \/ phase = "thrown") /\ UNCHANGED vars

WindowStep(w) == CountWindow(w) \/ FinalizeWindow(w) \/ EmitGroup(w)

Step ==
  \/ StartEach \/ StartCount \/ Throw
  \/ InclusiveScan \/ BeginScan \/ Scanning \/ EndScan
  \/ StartEmit \/ BuildAccel
  \/ todo # <<>> /\ \E w \in Windows : WindowStep(w)
  \/ todo # <<>> /\ \E e \in Edges(im) : FillEdge(e)

Next == Step \/ Stopped

Spec == Init /\ [][Next]_vars
-----------------------------------------------------------------------------
Built(m) == accel[m] # Empty

(* The device scan computes prefix sums, for one block or several levels. *)
ScanExact == phase = "finalize" /\ program = "vk" => IsExclusiveScan(nGrp, offsets)

(* The intersection programs index eid_range with the number of a box: for
   every map that is built, and whatever was built after it, box i encloses
   the edges of range i, and each edge is in exactly one. *)
IndexExact ==
  \A m \in Maps : Built(m) =>
    /\ DOMAIN accel[m] \subseteq DOMAIN ranges[m]
    /\ \A i \in DOMAIN accel[m] : EdgesOf(ranges[m][i]) \subseteq accel[m][i]
    /\ \A e \in Edges(m) : \E i \in DOMAIN accel[m] :
         /\ e \in EdgesOf(ranges[m][i])
         /\ \A j \in DOMAIN accel[m] : e \in EdgesOf(ranges[m][j]) => j = i

(* For each map the kernels together publish a partition of its edges. *)
Cover(m) == INSTANCE EdgeCover WITH
  NE <- NE[m],
  prims <- {ranges[m][i] : i \in DOMAIN ranges[m]} \ {NoRange},
  ready <- Built(m)

CoverSpec ==
  /\ \A m \in Maps : Cover(m)!Init
  /\ [][\A m \in Maps : Cover(m)!Next \/ UNCHANGED Cover(m)!coverVars]_vars
=============================================================================
