---------------------------- MODULE OverlayState ----------------------------
(***************************************************************************)
(* What the overlay programs of CUDA have in common: the buffers of the    *)
(* context, of MapOverlay, LSI and PIP, and the steps every overlay takes  *)
(* on them.  o names the overlay object that a buffer belongs to: the grid *)
(* that checks the result has buffers of its own.                          *)
(***************************************************************************)
EXTENDS StreamOps, Integers

Overlays == {"overlay", "check"}

-----------------------------------------------------------------------------
(* The context: the maps as they were read, and on the device.             *)

Graph(m) == <<"planar_graphs_", m>>
MapData(m) == <<"maps_", m>>            \* points and edges
MapReady == {<<MapData(m), Ready>> : m \in Maps}

(* The graph is read, or its copy is, before the host goes on.             *)
LoadFromFile(m) == Host({}, {<<Graph(m), Ready>>})

CreateContext == Host({<<Graph(0), Ready>>, <<Graph(1), Ready>>}, {<<<<"scaling_">>, Ready>>})
CreateContextNative == Host({<<Graph(0), Ready>>, <<Graph(1), Ready>>}, {})

(* The points are scaled, and then edges are made from them.               *)
LoadMap(m) ==
  LET scaled == <<MapData(m), <<"scaled", m>>>>
  IN  Resize({MapData(m)})
      \o Launch({<<Graph(m), Ready>>, <<<<"scaling_">>, Ready>>}, {scaled})
      \o Launch({<<Graph(m), Ready>>, scaled}, {<<MapData(m), Ready>>}) \o Sync

(* The points are copied, and edges are made from them.                    *)
LoadMapNative(m) ==
  LET copied == <<MapData(m), <<"copied", m>>>>
  IN  Host({<<Graph(m), Ready>>}, {copied})
      \o Launch({<<Graph(m), Ready>>, copied}, {<<MapData(m), Ready>>}) \o Sync

LoadToDevice == For2(LoadMap)
LoadToDeviceNative == For2(LoadMapNative)

(* D2H: a copy for the host.                                               *)
D2H(m) == Host({<<MapData(m), Ready>>}, {})

-----------------------------------------------------------------------------
(* The crossings, and the answers for the points of a map.                 *)

FoundXsects == <<"xsects">>
PipClosest(o) == <<"pip closest_eids_", o>>
ClosestEids(o, m) == <<"closest_eids_", o, m>>
PointInPolygon(o, m) == <<"point_in_polygon_", o, m>>
Points(m) == <<MapData(m), Ready>>

(* What pip has in closest_eids_ when it was asked for these points of m.  *)
Closest(m, points) == <<"closest", m>> \o points[2]

InitLSI(o) == QueueInit(o)
InitPIP(o) == Resize({PipClosest(o)})
InitAnswers(o) ==
  LET InitMap(m) == Resize({ClosestEids(o, m), PointInPolygon(o, m)}) IN For2(InitMap)

GetXsects(o) == Size(o, FoundXsects)
GetXsectEdges(o) == CopyTo(o, FoundXsects)
GetClosestEids(o, m) == Host({<<ClosestEids(o, m), <<"closest", m, "ready">>>>}, {})

(* pip's answers for the points of map q are kept, with their polygons.    *)
KeepAnswersNoWait(o, q) ==              \* fault: does not wait for the stream
  LET answers == <<PipClosest(o), Closest(q, Points(q))>>
  IN  Launch({answers}, {<<ClosestEids(o, q), answers[2]>>})
      \o Launch({answers, <<MapData(1 - q), Ready>>}, {<<PointInPolygon(o, q), Ready>>})
KeepAnswers(o, q) ==
  LET answers == <<PipClosest(o), Closest(q, Points(q))>>
  IN  Launch({answers}, {<<ClosestEids(o, q), answers[2]>>})
      \o Launch({answers, <<MapData(1 - q), Ready>>}, {<<PointInPolygon(o, q), Ready>>})
      \o Sync

-----------------------------------------------------------------------------
(* ComputeOutputPolygons for map m: a sorted copy of the crossings, the    *)
(* edges that have some, where those of each edge begin, the midpoints     *)
(* between neighbours, and the polygon of each midpoint.                   *)

Sorted(o, m) == <<"xsect_edges_sorted_", o, m>>
UniqueEids(o) == <<"unique_eids", o>>
XsectsPerEdge == <<"n_xsects_per_edge">>
XsectIndex == <<"xsect_index">>
MidPoints == <<"mid_points">>

ByEdge(o, m) == <<Sorted(o, m), <<"by edge", m>>>>
AlongEdge(o, m) == <<Sorted(o, m), <<"along edge", m>>>>
WithMids(o, m) == <<Sorted(o, m), <<"with polygons", m>>>>
Distinct(o, m) == <<UniqueEids(o), <<"distinct", "eids", m>>>>
Index(m) == <<XsectIndex, <<"index", m>>>>
Mids(m) == <<MidPoints, <<"mids", m>>>>

SortXsects(o, m) ==
  LET copied == <<Sorted(o, m), FoundXsects>>
  IN  Resize({Sorted(o, m)})
      \o Launch({<<Slots(o), FoundXsects>>}, {copied}) \o Launch({copied}, {ByEdge(o, m)})

Dedup(o, m) ==
  LET eids == <<"eids", m>>
  IN  Resize({UniqueEids(o)}) \o Launch({ByEdge(o, m)}, {<<UniqueEids(o), eids>>})
      \o UniqueOn(UniqueEids(o), eids) \o Shrink({Distinct(o, m)})

GroupByEdge(o, m) ==
  LET count == <<XsectsPerEdge, <<"count", m>>>>
  IN  Resize({XsectsPerEdge, XsectIndex})
      \o Launch({Distinct(o, m), ByEdge(o, m)}, {count}) \o Launch({count}, {Index(m)}) \o Sync

FindMidPoints(o, m) ==
  Host({Index(m)}, {<<MidPoints, Blank>>})
  \o Launch({Distinct(o, m), Index(m), ByEdge(o, m), Points(m)}, {AlongEdge(o, m), Mids(m)}) \o Sync

(* some: whether there is a midpoint at all.                               *)
AssignPolygons(o, m, some) ==
  Launch({Distinct(o, m), Index(m), AlongEdge(o, m)}
           \cup (IF some THEN {<<PipClosest(o), Closest(m, Mids(m))>>, <<MapData(1 - m), Ready>>} ELSE {}),
         {WithMids(o, m)})
  \o Sync

EndOfMap(o) == Free({UniqueEids(o), XsectsPerEdge, XsectIndex, MidPoints})

(* WriteOutputChain: everything is copied to the host and written.         *)
Result == <<"result">>
WriteOutputChain(o) ==
  Host({<<Graph(m), Ready>> : m \in Maps} \cup {WithMids(o, m) : m \in Maps}
         \cup {<<PointInPolygon(o, m), Ready>> : m \in Maps},
       {<<Result, Ready>>})
WriteOutputChainNative(o) == WriteOutputChain(o)
=============================================================================
