---------------------------- MODULE CudaOverlays ----------------------------
(***************************************************************************)
(* The overlays of CUDA: MapOverlayRT, its twin MapOverlayNativeRT on      *)
(* double coordinates, MapOverlayLBVH and MapOverlayGrid.  Each phase is   *)
(* the sequence of operations of one of their functions, in its order.     *)
(*                                                                         *)
(* in.ag: how edges are grouped; in.fau: whether boxes are given back;     *)
(* in.missing: which compiled program is missing; in.mids: per map,        *)
(* whether an edge of it has two crossings.                                *)
(***************************************************************************)
EXTENDS OptixEngine

-----------------------------------------------------------------------------
(* MapOverlayRT                                                            *)

InitRT(in) ==
  GetDefaultRTConfig(in.missing) \o InitEngine(in.missing) \o InitAnswers("overlay")
  \o Resize({Aabbs, EidRange(0), EidRange(1)}) \o InitLSI("overlay") \o InitPIP("overlay")

BuildIndexRT(in) ==
  LET Group(m) == CASE in.ag = 0 -> FillPrimitives(m)
                    [] in.ag = 1 -> FillPrimitivesGroupNew(m)
                    [] in.ag = 2 -> FillPrimitivesGroup(m)
      IndexMap(m) == Group(m) \o Sync \o BuildAccelCustom(m) \o Sync \o FreeBoxes(in.fau)
  IN  For2(IndexMap)

IntersectEdgeRT(q) == SetConfig(LsiConfig, 1 - q) \o LSIRTQuery(q) \o Sync

LocateVerticesRT(q) ==
  SetConfig(PipConfig, 1 - q) \o PIPRTQuery(q, Points(q), TRUE) \o KeepAnswers("overlay", q)

ComputeOutputPolygonsRT(in) ==
  LET o == "overlay"
      OfMap(m) ==
        SortXsects(o, m) \o Dedup(o, m) \o GroupByEdge(o, m) \o FindMidPoints(o, m)
        \o SetConfig(PipConfig, 1 - m) \o PIPRTQuery(m, Mids(m), in.mids[m]) \o Sync
        \o AssignPolygons(o, m, in.mids[m]) \o EndOfMap(o)
  IN  GetXsects(o) \o For2(OfMap)

-----------------------------------------------------------------------------
(* MapOverlayNativeRT: the same phases, with one more wait in sorting and  *)
(* one in finding the edges; an unknown grouping ends the program.         *)

InitNative(in) ==
  GetDefaultRTConfig(in.missing) \o InitEngine(in.missing) \o InitAnswers("overlay")
  \o Resize({EidRange(0), EidRange(1)}) \o Resize({Aabbs}) \o InitLSI("overlay") \o InitPIP("overlay")

BuildIndexNative(in) ==
  LET Group(m) == CASE in.ag = 0 -> FillPrimitivesNative(m)
                    [] in.ag = 1 -> FillPrimitivesGroupNewNative(m)
                    [] in.ag = 2 -> FillPrimitivesGroupNative(m)
                    [] OTHER -> Fail
      IndexMap(m) == Group(m) \o Sync \o BuildAccelCustom(m) \o Sync \o FreeBoxes(in.fau)
  IN  For2(IndexMap)

IntersectEdgeNative(q) == SetConfig(LsiConfig, 1 - q) \o LSIRTNativeQuery(q) \o Sync

LocateVerticesNative(q) ==
  SetConfig(PipConfig, 1 - q) \o PIPRTNativeQuery(q, Points(q), TRUE) \o KeepAnswers("overlay", q)

SortXsectsNative(m) == SortXsects("overlay", m) \o Sync

DedupNative(m) ==
  LET eids == <<"eids", m>>
      o    == "overlay"
  IN  Resize({UniqueEids(o)}) \o Launch({ByEdge(o, m)}, {<<UniqueEids(o), eids>>})
      \o UniqueOn(UniqueEids(o), eids) \o Sync \o Shrink({Distinct(o, m)})

GroupByEdgeNative(m) == GroupByEdge("overlay", m)
FindMidPointsNative(m) == FindMidPoints("overlay", m)
AssignPolygonsNative(m, some) == AssignPolygons("overlay", m, some)

ComputeOutputPolygonsNative(in) ==
  LET OfMap(m) ==
        SortXsectsNative(m) \o DedupNative(m) \o GroupByEdgeNative(m) \o FindMidPointsNative(m)
        \o SetConfig(PipConfig, 1 - m) \o PIPRTNativeQuery(m, Mids(m), in.mids[m]) \o Sync
        \o AssignPolygonsNative(m, in.mids[m]) \o EndOfMap("overlay")
  IN  GetXsects("overlay") \o For2(OfMap)

-----------------------------------------------------------------------------
(* MapOverlayLBVH: one array of segments for both maps, one tree per map.  *)

Primitives == <<"primitives">>
Lbvh(m) == <<"lbvhs_", m>>
Tree(m) == <<Lbvh(m), Ready>>

InitLBVH(in) == InitAnswers("overlay") \o InitLSI("overlay") \o InitPIP("overlay")

FillPrimitivesLBVH(m) ==
  Resize({Primitives}) \o Launch({<<MapData(m), Ready>>}, {<<Primitives, <<"segments", m>>>>})

(* bvh::assign and bvh::construct wait for what they do.                   *)
ConstructTree(m) == Host({<<Primitives, <<"segments", m>>>>}, {Tree(m)})

BuildIndexLBVH(in) ==
  LET IndexMap(m) == FillPrimitivesLBVH(m) \o Sync \o ConstructTree(m)
  IN  For2(IndexMap) \o Free({Primitives})

SetTree(copy, b) ==
  Host({Tree(b)}, {<<Config, <<"base", b>>>>})
  \o Host({<<Config, <<"base", b>>>>}, {<<copy, <<"base", b>>>>})

LSILBVHQuery(q) ==
  Host({<<LsiConfig, <<"base", 1 - q>>>>}, {}) \o Clear(Xsects)
  \o Launch(MapReady \cup {Tree(1 - q), <<Dev(Xsects), Zero>>}, Filled(Xsects, FoundXsects))
  \o Sync \o Sync

(* With no points the kernel is still launched.                            *)
PIPLBVHQuery(q, points) ==
  Host({<<PipConfig, <<"base", 1 - q>>>>}, {<<PipClosest("overlay"), Blank>>})
  \o Launch({points, Tree(1 - q), <<MapData(1 - q), Ready>>}, {<<PipClosest("overlay"), Closest(q, points)>>})
  \o Sync

IntersectEdgeLBVH(q) == SetTree(LsiConfig, 1 - q) \o LSILBVHQuery(q) \o Sync

LocateVerticesLBVH(q) ==
  SetTree(PipConfig, 1 - q) \o PIPLBVHQuery(q, Points(q)) \o KeepAnswers("overlay", q)

SortXsectsLBVH(m) == SortXsects("overlay", m)
DedupLBVH(m) == Dedup("overlay", m)
GroupByEdgeLBVH(m) == GroupByEdge("overlay", m)
FindMidPointsLBVH(m) == FindMidPoints("overlay", m)
AssignPolygonsLBVH(m, some) == AssignPolygons("overlay", m, some)

ComputeOutputPolygonsLBVH(in) ==
  LET OfMap(m) ==
        SortXsectsLBVH(m) \o DedupLBVH(m) \o GroupByEdgeLBVH(m) \o FindMidPointsLBVH(m)
        \o SetTree(PipConfig, 1 - m) \o PIPLBVHQuery(m, Mids(m)) \o Sync
        \o AssignPolygonsLBVH(m, in.mids[m]) \o EndOfMap("overlay")
  IN  GetXsects("overlay") \o For2(OfMap)

-----------------------------------------------------------------------------
(* MapOverlayGrid, the overlay itself or the one that checks another's     *)
(* answers: one grid with the edges of both maps.                          *)

Cells(o) == <<"cells_", o>>
NEdges(o) == <<"n_edges_", o>>
RowIndex(o) == <<"row_index_", o>>
Eids(o) == <<"eids_", o>>
Grid(o, ms) ==
  {<<Cells(o), <<"restored">> \o ms>>, <<RowIndex(o), Ready>>, <<Eids(o), <<"eids", Len(ms)>>>>}

InitGrid(o) == InitAnswers(o) \o InitLSI(o) \o InitPIP(o)

(* The edges of one map after the other are counted, and then stored.      *)
AddToGrid(o, ms) ==
  LET n == Len(ms)
      Counts(j) == {<<Cells(o), IF j = 0 THEN Zero ELSE <<"counts", j>>>>}
      Placed(j) == IF j = 0 THEN Counts(n) ELSE {<<Cells(o), <<"offsets", j>>>>, <<Eids(o), <<"eids", j>>>>}
      CountEdges[j \in 0 .. n] ==
        IF j = 0 THEN <<>>
        ELSE CountEdges[j - 1] \o Launch({<<MapData(ms[j]), Ready>>} \cup Counts(j - 1), Counts(j))
      FillEdges[j \in 0 .. n] ==
        IF j = 0 THEN <<>>
        ELSE FillEdges[j - 1]
             \o Launch({<<MapData(ms[j]), Ready>>, <<RowIndex(o), Ready>>} \cup Placed(j - 1), Placed(j))
  IN  Resize({Cells(o), NEdges(o), RowIndex(o)}) \o Launch({}, Counts(0))
      \o CountEdges[n]
      \o Launch(Counts(n), {<<NEdges(o), Ready>>}) \o Launch({<<NEdges(o), Ready>>}, {<<RowIndex(o), Ready>>})
      \o Sync \o Host({<<RowIndex(o), Ready>>}, {<<Eids(o), Blank>>})
      \o FillEdges[n]
      \o Launch({<<RowIndex(o), Ready>>} \cup Placed(n), Grid(o, ms)) \o Sync

AddMapsToGrid(o) == AddToGrid(o, <<0, 1>>)
AddMapToGrid(o, m) == AddToGrid(o, <<m>>)

BuildIndexGrid(o) == AddMapsToGrid(o)

(* Map 1 is the one that queries, whatever was asked for.                  *)
LSIGridQuery(o, q) ==
  Clear(o) \o Launch(Grid(o, <<0, 1>>) \cup MapReady \cup {<<Dev(o), Zero>>}, Filled(o, FoundXsects)) \o Sync

(* ms: the maps that are in the grid.                                      *)
PIPGridQuery(o, ms, q, points) ==
  Resize({PipClosest(o)})
  \o Launch(Grid(o, ms) \cup {points, <<MapData(1 - q), Ready>>}, {<<PipClosest(o), Closest(q, points)>>}) \o Sync

IntersectEdgeGrid(o, q) == LSIGridQuery(o, q)
LocateVerticesGrid(o, q) == PIPGridQuery(o, <<0, 1>>, q, Points(q)) \o KeepAnswers(o, q)

(* unique_eids is used for both maps; the second time it has room enough   *)
(* and what the first kernel reads of it stays until that has run, since   *)
(* the host writes only behind it.  One kernel sorts along the edges and   *)
(* locates the midpoints.  The only wait is at the end.                    *)
ComputeOutputPolygonsGrid(o) ==
  LET OfMap(m) ==
        LET eids == <<"eids", m>>
        IN  SortXsects(o, m)
            \o When(m = 0, Resize({UniqueEids(o)}))
            \o Launch({ByEdge(o, m)}, {<<UniqueEids(o), eids>>}) \o UniqueOn(UniqueEids(o), eids)
            \o Shrink({Distinct(o, m)})
            \o Launch(Grid(o, <<0, 1>>) \cup MapReady \cup {Distinct(o, m), ByEdge(o, m)}, {WithMids(o, m)})
  IN  GetXsects(o) \o For2(OfMap) \o Sync \o Free({UniqueEids(o)})
=============================================================================
