------------------------------ MODULE Queries ------------------------------
(***************************************************************************)
(* The query program: RunLSIQuery and RunPIPQuery.  One map is indexed,    *)
(* map 0; the other one, or what was generated in its place, is asked for  *)
(* again and again.                                                        *)
(*                                                                         *)
(* in.generated: whether there is no second map.                           *)
(***************************************************************************)
EXTENDS CudaOverlays

Base == 0
Query == 1

QueryPoints == <<"query_points">>
QueryEdges == <<"query edges">>
Asked == <<QueryPoints, Ready>>

-----------------------------------------------------------------------------
(* The maps.  A map that was not read is not loaded either.                *)

CreateContextOfBase == Host({<<Graph(Base), Ready>>}, {<<<<"scaling_">>, Ready>>})

(* The segments are made in pinned memory, and from them map 1.            *)
LoadGenerated ==
  LET scaled == <<MapData(Query), <<"scaled", Query>>>>
      segments == {<<QueryPoints, Ready>>, <<QueryEdges, Ready>>}
  IN  Host(segments, {<<MapData(Query), Blank>>})
      \o Launch({<<QueryPoints, Ready>>, <<<<"scaling_">>, Ready>>}, {scaled})
      \o Launch({scaled}, {<<MapData(Query), Ready>>}) \o Sync

GenerateLSIQueries ==
  Host({<<<<"scaling_">>, Ready>>}, {<<QueryPoints, Ready>>, <<QueryEdges, Ready>>})
  \o LoadGenerated \o Free({QueryPoints, QueryEdges})

GeneratePIPQueries == Host({<<<<"scaling_">>, Ready>>}, {Asked})

-----------------------------------------------------------------------------
(* One program for each index.  The boxes and segments that an index was   *)
(* made from are local; the index of the grid is what the query needs.     *)

CreateEngine(in) ==
  CASE in.mode = "rt"    -> GetDefaultRTConfig(in.missing) \o InitEngine(in.missing)
    [] in.mode = "other" -> Fail
    [] OTHER             -> <<>>

(* RunPIPQuery groups in windows for any other value too.                  *)
GroupBase(in) ==
  CASE in.ag = 0 -> FillPrimitives(Base)
    [] in.ag = 1 -> FillPrimitivesGroupNew(Base)
    [] OTHER     -> FillPrimitivesGroup(Base)

IndexBaseRT(in, copy) ==
  Resize({Aabbs, EidRange(Base)}) \o GroupBase(in) \o Sync
  \o BuildAccelCustom(Base) \o SetConfig(copy, Base) \o Free({Aabbs})

IndexBaseLBVH(copy) ==
  FillPrimitivesLBVH(Base) \o Sync \o ConstructTree(Base) \o SetTree(copy, Base) \o Free({Primitives})

(* Warm-up and repetitions: twice is often enough to see an earlier one.   *)
Repeated(query) == query \o query

LSIQuery(in) ==
  CASE in.mode = "rt"   -> LSIRTQuery(Query)
    [] in.mode = "lbvh" -> LSILBVHQuery(Query)
    [] in.mode = "grid" -> LSIGridQuery("overlay", Query)

RunLSIQuery(in) ==
  LET BuildIndex ==
        CASE in.mode = "rt"   -> IndexBaseRT(in, LsiConfig)
          [] in.mode = "lbvh" -> IndexBaseLBVH(LsiConfig)
          [] in.mode = "grid" -> AddMapsToGrid("overlay")
  IN  LoadFromFile(Base)
      \o (IF in.generated THEN CreateContextOfBase \o GenerateLSIQueries
          ELSE LoadFromFile(Query) \o CreateContext)
      \o CreateEngine(in)
      \o (IF in.generated THEN LoadMap(Base) ELSE LoadToDevice)
      \o (IF in.mode = "other" THEN <<>>
          ELSE InitLSI("overlay") \o BuildIndex \o Repeated(LSIQuery(in))
               \o GetXsects("overlay") \o Host({}, {<<Result, Ready>>})
               \o Free({Slots("overlay"), Dev("overlay"), Pinned("overlay")}) \o Free({MapData(0), MapData(1)}))

PIPQuery(in) ==
  CASE in.mode = "rt"   -> PIPRTQuery(Query, Asked, TRUE)
    [] in.mode = "lbvh" -> PIPLBVHQuery(Query, Asked)
    [] in.mode = "grid" -> PIPGridQuery("overlay", <<Base>>, Query, Asked)

(* A grid of the base map answers the same points.                         *)
CheckPIPResult ==
  LET answers == Closest(Query, Asked)
  IN  AddMapToGrid("check", Base) \o PIPGridQuery("check", <<Base>>, Query, Asked) \o Sync
      \o Host({Asked, <<PipClosest("check"), answers>>, <<PipClosest("overlay"), answers>>}, {}) \o D2H(Base)

RunPIPQuery(in) ==
  LET BuildIndex ==
        CASE in.mode = "rt"   -> IndexBaseRT(in, PipConfig)
          [] in.mode = "lbvh" -> IndexBaseLBVH(PipConfig)
          [] in.mode = "grid" -> AddMapToGrid("overlay", Base)
  IN  LoadFromFile(Base)
      \o (IF in.generated THEN CreateContextOfBase \o GeneratePIPQueries \o LoadMap(Base)
          ELSE LoadFromFile(Query) \o CreateContext \o LoadToDevice
               \o Host({<<MapData(Query), Ready>>}, {Asked}))
      \o CreateEngine(in)
      \o (IF in.mode = "other" THEN <<>>
          ELSE InitPIP("overlay") \o BuildIndex \o Sync \o Repeated(PIPQuery(in)) \o Sync
               \o When(in.check /\ in.mode # "grid", CheckPIPResult)
               \o Host({}, {<<Result, Ready>>}) \o Free({PipClosest("overlay")}))
=============================================================================
