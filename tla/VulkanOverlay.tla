---------------------------- MODULE VulkanOverlay ---------------------------
(***************************************************************************)
(* MapOverlayRTNS, the overlay of Vulkan, with the maps and the context    *)
(* that it works on.                                                       *)
(*                                                                         *)
(* in.ag: how edges are grouped; in.missing: what the machine does not     *)
(* have; in.some: whether anything crosses; in.mids: per map, whether an   *)
(* edge of it has two crossings.                                           *)
(***************************************************************************)
EXTENDS VulkanEngine

(* The maps.  Chains and their row index are kept, but only used here.     *)

Chains(m) == <<"chainsDev_", m>>
RowDev(m) == <<"rowDev_", m>>
PointsDev(m) == <<"pointsDev_", m>>
EdgesDev(m) == <<MapData(m), Ready>>
MapOf(m) == {EdgesDev(m), <<PointsDev(m), Ready>>}

CreateContextNS == Host({<<Graph(0), Ready>>, <<Graph(1), Ready>>}, {})

LoadMapNS(m) ==
  Host({<<Graph(m), Ready>>}, {}) \o BufInit({PointsDev(m), Chains(m), RowDev(m), MapData(m)})
  \o writeToStorageBuffer(PointsDev(m), Ready) \o writeToStorageBuffer(Chains(m), Ready)
  \o writeToStorageBuffer(RowDev(m), Ready)
  \o RunComputePass(Holds(Ready, {PointsDev(m), Chains(m), RowDev(m)}), {EdgesDev(m)})
LoadToDeviceNS == For2(LoadMapNS)

DestroyMaps ==
  LET DestroyMap(m) == BufFree({MapData(m), RowDev(m), Chains(m), PointsDev(m)}) IN For2(DestroyMap)

-----------------------------------------------------------------------------
(* The overlay's own buffers.  The counter of the crossings is allocated   *)
(* and not written: the query counts on from what it finds there, see      *)
(* CrossingQueue for what that may be.                                     *)

O == "overlay"
XsectBuf == Slots(O)
XsectCounter == <<"xsect_counter_buf_">>
ProfCounter == <<"prof_counter_buf_">>
PipDebugCounter(m) == <<"pip_debug_counter_buf_", m>>
BestYsOf(m) == <<"best_ys_buf_", m>>
BoxesOf(m) == <<<<"aabbs_buf_">>, <<"boxes", m>>>>
EidRanges(m) == <<<<"eid_range_buf_", m>>, Ready>>

MapBuffers(m) ==
  {ClosestEids(O, m), PointInPolygon(O, m), EidRanges(m)[1], PipDebugCounter(m), BestYsOf(m)}
OverlayBuffers == {BoxesOf(0)[1], XsectBuf, XsectCounter, ProfCounter}

InitNS ==
  LET InitMap(m) ==
        BufInit(MapBuffers(m)) \o writeToStorageBuffer(ClosestEids(O, m), Zero)
        \o writeToStorageBuffer(BestYsOf(m), Zero)
  IN  For2(InitMap) \o BufInit(OverlayBuffers)

BuildIndexSimple(m) == RunComputePass(MapOf(m), {BoxesOf(m), EidRanges(m)}) \o BuildScene(m, BoxesOf(m))

(* The levels of the scan are in DeviceScan.                               *)
ExclusiveScan(in, out) ==
  BufInit({Local("block_sums")}) \o RunComputePass({in}, {out, <<Local("block_sums"), Ready>>})
  \o BufFree({Local("block_sums")})

BuildPrimitiveGroupPrefix(groups, sums) ==
  LET pos == <<Local("grp_pos_buf"), Ready>>
  IN  BufInit({sums[1]}) \o BufInit({pos[1]}) \o ExclusiveScan(groups, pos)
      \o RunComputePass({groups, pos}, {sums}) \o BufFree({pos[1]})

BuildIndexAG2(m) ==
  LET groups == <<Local("n_grp_buf"), <<"groups", m>>>>
      sums   == <<Local("psum_n_grp_buf"), <<"sums", m>>>>
  IN  BufInit({groups[1]}) \o RunComputePass(MapOf(m), {groups})
      \o BuildPrimitiveGroupPrefix(groups, sums) \o readBackStorageBuffer(sums[1], sums[2])
      \o RunComputePass(MapOf(m) \cup {sums}, {BoxesOf(m), EidRanges(m)})
      \o BuildScene(m, BoxesOf(m)) \o BufFree({sums[1], groups[1]})

BuildIndexNoGroups(in) ==               \* fault: one box per edge is all there is
  LET IndexMap(m) == IF in.ag = 0 THEN BuildIndexSimple(m) ELSE Fail IN For2(IndexMap)
BuildIndexNS(in) ==
  LET IndexMap(m) ==
        CASE in.ag = 0 -> BuildIndexSimple(m)
          [] in.ag = 2 -> BuildIndexAG2(m)
          [] OTHER     -> Fail
  IN  For2(IndexMap)

-----------------------------------------------------------------------------
(* The queries.  The second pass of each reads what the first has left.    *)

Counted == <<XsectCounter, Number(FoundXsects)>>

IntersectEdgeNS(in, q) ==
  LET pairs == <<XsectBuf, <<"pairs", q>>>>
  IN  RunRTPass(in.missing, Tlas(1 - q),
                MapOf(0) \cup MapOf(1) \cup Scene(1 - q) \cup {EidRanges(1 - q), <<XsectCounter, Blank>>},
                {pairs, Counted, <<ProfCounter, Ready>>})
      \o RunComputePass(MapOf(0) \cup MapOf(1) \cup {pairs, Counted}, {<<XsectBuf, FoundXsects>>})

(* The rays store that they have found nothing before they start.          *)
LocatePoints(in, q, points, eids, ys, debug) ==
  RunRTPass(in.missing, Tlas(1 - q),
            MapOf(1 - q) \cup Scene(1 - q) \cup {EidRanges(1 - q), points},
            {<<eids, Closest(q, points)>>, <<ys, Ready>>, <<debug, Ready>>})
FinalizePIP(q, points, eids, polygons) ==
  RunComputePass(MapOf(1 - q) \cup {<<eids, Closest(q, points)>>}, {polygons})

LocateVerticesNS(in, q) ==
  LET points == <<PointsDev(q), Ready>>
  IN  LocatePoints(in, q, points, ClosestEids(O, q), BestYsOf(q), PipDebugCounter(q))
      \o FinalizePIP(q, points, ClosestEids(O, q), <<PointInPolygon(O, q), Ready>>)

-----------------------------------------------------------------------------
(* ComputeOutputPolygons for map m, in buffers that live as long as the    *)
(* map is worked on.                                                       *)

ByEid(m) == <<Local("xsect_edges_sorted_buf"), <<"by edge", m>>>>
EidsOf(m) == <<Local("unique_eids_buf"), <<"eids", m>>>>
EidCount(m) == <<Local("unique_count_buf"), <<"count", m>>>>
IndexOf(m) == <<Local("xsect_index_buf"), <<"index", m>>>>
Reordered == Local("reordered_xsects_buf")
MidsOf(m) == <<Local("mid_points_buf"), <<"mids", m>>>>

(* All passes of the sort are made before the first one runs: those that   *)
(* sweep from one pair of buffers to the other, one for either way.        *)
Pair(way) == {Local("keys_" \o way), Local("indices_" \o way)}
Counts == {Local("element_count"), Local("global_histogram"), Local("partition_histogram")}
SortPasses ==
  <<"extract", "upsweep ping", "upsweep pong", "spine", "downsweep ping", "downsweep pong", "gather ping", "gather pong">>

(* Passes are made one after the other, and destroyed the other way round. *)
MakeSortPasses(m) ==
  LET made[i \in 0 .. Len(SortPasses)] ==
        IF i = 0 THEN <<>>
        ELSE made[i - 1] \o ComputeEngine(SortPasses[i], Pair("ping") \cup Pair("pong") \cup Counts \cup {XsectBuf, ByEid(m)[1]})
  IN  made[Len(SortPasses)]
DestroySortPasses ==
  LET gone[i \in 1 .. Len(SortPasses) + 1] ==
        IF i > Len(SortPasses) THEN <<>> ELSE gone[i + 1] \o DestroyEngine(SortPasses[i])
  IN  gone[1]

(* One submission with three passes; digits: by how many they are sorted.  *)
RadixPass(digits) ==
  LET from == IF digits % 2 = 0 THEN "ping" ELSE "pong"
      to   == IF digits % 2 = 0 THEN "pong" ELSE "ping"
  IN  Submit(Holds(<<"digits", digits>>, Pair(from)) \cup AreThere(Counts) \cup recordDispatch("upsweep " \o from)
               \cup recordDispatch("spine") \cup recordDispatch("downsweep " \o from),
             Holds(<<"digits", digits + 1>>, Pair(to)) \cup Holds(Ready, {Local("partition_histogram")}))

RadixSortXsects(m, some) ==
  LET count  == <<Local("element_count"), <<"count">>>>
      xsects == <<XsectBuf, FoundXsects>>
  IN  When(some,
        BufInit(Pair("ping") \cup Pair("pong") \cup Counts) \o writeToStorageBuffer(count[1], count[2])
        \o BufInit({ByEid(m)[1]}) \o MakeSortPasses(m)
        \o runCompute("extract", {xsects}, Holds(<<"digits", 0>>, Pair("ping")))
        \o zeroDeviceBuffer(Local("global_histogram"))
        \o RadixPass(0) \o RadixPass(1) \o RadixPass(2) \o RadixPass(3)
        \o runCompute("gather ping", {xsects} \cup Holds(<<"digits", 4>>, Pair("ping")), {ByEid(m)})
        \o DestroySortPasses \o BufFree(Pair("ping") \cup Pair("pong") \cup Counts))

DedupSortedXsects(m, some) ==
  LET first == <<Local("is_unique_buf"), Ready>>
      place == <<Local("unique_positions_buf"), Ready>>
  IN  BufInit({EidsOf(m)[1], EidCount(m)[1]})
      \o writeToStorageBuffer(EidCount(m)[1], IF some THEN Zero ELSE EidCount(m)[2])
      \o When(some,
           BufInit({first[1], place[1]}) \o RunComputePass({ByEid(m)}, {first}) \o ExclusiveScan(first, place)
           \o RunComputePass({ByEid(m), first, place}, {EidsOf(m)})
           \o RunComputePass({first, place}, {EidCount(m)}) \o BufFree({first[1], place[1]}))

BuildXsectIndex(m, some) ==
  LET count == <<Local("n_xsects_per_edge_buf"), <<"count", m>>>>
      place == <<Local("unique_positions_buf"), Ready>>
  IN  BufInit({IndexOf(m)[1]})
      \o (IF some
          THEN BufInit({count[1], place[1]}) \o RunComputePass({ByEid(m), EidsOf(m)}, {count})
               \o ExclusiveScan(count, place) \o RunComputePass({count, place}, {IndexOf(m)})
               \o BufFree({place[1], count[1]})
          ELSE writeToStorageBuffer(IndexOf(m)[1], IndexOf(m)[2]))

(* With no midpoint the order along the edges is that of the sort.         *)
ReorderXsects(in, m) ==
  LET along == <<Reordered, <<"along edge", m>>>>
  IN  BufInit({Reordered})
      \o When(in.some, copyDeviceBuffer(ByEid(m)[1], Reordered, ByEid(m)[2]))
      \o When(in.mids[m], RunComputePass({<<Reordered, ByEid(m)[2]>>, IndexOf(m)} \cup MapOf(m), {along}))
      \o BufInit({MidsOf(m)[1]})
      \o When(in.mids[m], RunComputePass({along, IndexOf(m)}, {MidsOf(m)}))

MidEids == Local("mid_closest_eids_buf")
MidYs == Local("mid_best_ys_buf")
MidDebug == Local("mid_debug_counter_buf")
MidPolygons == Local("mid_point_in_polygon_buf")

AssignMidPolygons(m) ==
  RunComputePass({<<Reordered, <<"along edge", m>>>>, IndexOf(m), <<MidPolygons, <<"polygons", m>>>>},
                 {<<Reordered, <<"with polygons", m>>>>})

LocateMidPoints(in, m) ==
  BufInit({MidEids, MidYs, MidDebug}) \o LocatePoints(in, m, MidsOf(m), MidEids, MidYs, MidDebug)
  \o BufInit({MidPolygons}) \o FinalizePIP(m, MidsOf(m), MidEids, <<MidPolygons, <<"polygons", m>>>>)
  \o AssignMidPolygons(m)

(* The crossings of map m, back on the host, with what was done to them.   *)
ReadXsects(in, m) ==
  When(in.some, readBackStorageBuffer(Reordered, IF in.mids[m] THEN <<"with polygons", m>> ELSE ByEid(m)[2]))
  \o Host({}, {WithMids(O, m)})

FreeLocals(in, m) ==
  BufFree({Reordered, IndexOf(m)[1], EidsOf(m)[1], EidCount(m)[1], MidsOf(m)[1]}
            \cup (IF in.some THEN {ByEid(m)[1]} ELSE {})
            \cup (IF in.mids[m] THEN {MidEids, MidYs, MidDebug, MidPolygons} ELSE {}))

ComputeOutputPolygonsNS(in) ==
  LET OfMap(m) ==
        RadixSortXsects(m, in.some) \o DedupSortedXsects(m, in.some)
        \o readBackStorageBuffer(EidCount(m)[1], EidCount(m)[2]) \o BuildXsectIndex(m, in.some)
        \o ReorderXsects(in, m) \o When(in.mids[m], LocateMidPoints(in, m))
        \o ReadXsects(in, m) \o FreeLocals(in, m)
  IN  readBackStorageBuffer(XsectCounter, Counted[2]) \o For2(OfMap)

-----------------------------------------------------------------------------
(* The polygons of the points are read back, and the chains written.       *)
WriteResultNS ==
  readBackStorageBuffer(PointInPolygon(O, 0), Ready) \o readBackStorageBuffer(PointInPolygon(O, 1), Ready)
  \o Host({<<Graph(m), Ready>> : m \in Maps} \cup {WithMids(O, m) : m \in Maps}, {<<Result, Ready>>})

DestroyOverlay ==
  DestroyScene(1) \o DestroyScene(0) \o BufFree(OverlayBuffers \cup MapBuffers(0) \cup MapBuffers(1))
=============================================================================
