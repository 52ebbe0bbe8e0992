---------------------------- MODULE OptixEngine ----------------------------
(***************************************************************************)
(* RTEngine, what puts boxes into its structures, and the queries that are *)
(* answered by it: the part that the overlays of the rational and of the   *)
(* double coordinates have in common.  One engine serves both maps and     *)
(* both queries: its scratch buffers, its launch parameters and the array  *)
(* of boxes are used again and again.                                      *)
(***************************************************************************)
EXTENDS OverlayState

-----------------------------------------------------------------------------
(* RTEngine::Init.  missing: whether a compiled program is not there, one  *)
(* whose file is looked for (checked) or the one that is not.              *)

Pipeline(part) == <<"pipeline", part>>
TempBuf == <<"temp_buf_">>
OutputBuf == <<"output_buf_">>
HLaunchParams == <<"h_launch_params_">>
LaunchParams == <<"launch_params_">>

Make(part, from) == Host({<<Pipeline(p), Ready>> : p \in from}, {<<Pipeline(part), Ready>>})

GetDefaultRTConfig(missing) == IF missing = "checked" THEN Fail ELSE Make("config", {})
InitOptix == Make("optix", {"config"}) \o Resize({TempBuf, OutputBuf})
CreateOptixContext == Make("context", {"optix"})
CreateModule(missing) == IF missing = "unchecked" THEN Fail ELSE Make("modules", {"config", "context"})
CreateRaygenPrograms == Make("raygen_pgs", {"modules", "context"})
CreateMissPrograms == Make("miss_pgs", {"modules", "context"})
CreateHitgroupPrograms == Make("hitgroup_pgs", {"modules", "context"})
CreatePipeline == Make("pipelines", {"context", "raygen_pgs", "miss_pgs", "hitgroup_pgs"})
BuildSBT == Make("sbts", {"raygen_pgs", "miss_pgs", "hitgroup_pgs"})

InitEngine(missing) ==
  InitOptix \o CreateOptixContext \o CreateModule(missing) \o CreateRaygenPrograms \o CreateMissPrograms
  \o CreateHitgroupPrograms \o CreatePipeline \o BuildSBT

-----------------------------------------------------------------------------
(* The boxes of map m and the range of edges in each: three ways to group. *)

Aabbs == <<"aabbs_">>
EidRange(m) == <<"eid_range_", m>>
Boxes(m) == {<<Aabbs, <<"boxes", m>>>>, <<EidRange(m), <<"ranges", m>>>>}

FillPrimitives(m) ==
  Resize({Aabbs, EidRange(m)}) \o Launch({<<MapData(m), Ready>>}, Boxes(m))

FillPrimitivesGroupNew(m) ==
  LET tail == <<"groups", m>>
  IN  SharedValue("g_tail") \o Resize({Aabbs, EidRange(m)}) \o SetOn("g_tail", Zero)
      \o Launch({<<MapData(m), Ready>>, <<Dev("g_tail"), Zero>>}, Boxes(m) \cup {<<Dev("g_tail"), tail>>})
      \o Sync \o GetOn("g_tail", tail) \o Shrink(Boxes(m))
      \o Free({Dev("g_tail"), Pinned("g_tail")})

FillPrimitivesGroup(m) ==
  LET count == <<<<"n_grp">>, <<"groups", m>>>>
      psum  == <<<<"psum_n_grp">>, <<"sums", m>>>>
  IN  Resize({count[1], psum[1]})
      \o Launch({<<MapData(m), Ready>>}, {count}) \o Launch({count}, {psum}) \o Sync
      \o Host({psum}, {}) \o Resize({Aabbs, EidRange(m)})
      \o Launch({<<MapData(m), Ready>>, psum}, Boxes(m))
      \o Free({count[1], psum[1]})

FillPrimitivesNative(m) == FillPrimitives(m)
FillPrimitivesGroupNewNative(m) == FillPrimitivesGroupNew(m)
FillPrimitivesGroupNative(m) == FillPrimitivesGroup(m)

-----------------------------------------------------------------------------
(* buildAccel: the structure is built in a buffer of the engine and moved  *)
(* to one of its own, of the size that the first build has found.          *)

OneAsBuffer(m) == <<"as_buffer">>       \* fault: a buffer of the engine, not of the map
AsBuffer(m) == <<"as_buffer", m>>
Structure(m) == <<"structure", m>>
Handle(m) == <<"traverse_handles_", m>>

BuildAccel(m) ==
  LET size  == <<"compacted size", m>>
      built == <<OutputBuf, Structure(m)>>
  IN  SharedValue("compacted_size") \o Resize({TempBuf, OutputBuf})
      \o Launch({<<Aabbs, <<"boxes", m>>>>}, {built, <<Dev("compacted_size"), size>>})
      \o GetOn("compacted_size", size) \o Resize({AsBuffer(m)})
      \o Launch({built}, {<<AsBuffer(m), Structure(m)>>}) \o Sync
      \o Host({}, {<<Handle(m), Ready>>})
      \o Free({Dev("compacted_size"), Pinned("compacted_size")})

BuildAccelCustom(m) == BuildAccel(m)

(* free_as_used: the boxes are given back once the structure is built.     *)
FreeBoxes(fau) == When(fau, Free({Aabbs}))

(* The structure of map b, seen from the device.                           *)
Traversable(b) == {<<AsBuffer(b), Structure(b)>>, <<EidRange(b), <<"ranges", b>>>>}

CopyLaunchParams(p) ==
  Host({}, {<<HLaunchParams, p>>, <<LaunchParams, Blank>>})
  \o Launch({<<HLaunchParams, p>>}, {<<LaunchParams, p>>})

Render(p, r, w) ==
  Launch(r \cup {<<LaunchParams, p>>, <<Pipeline("pipelines"), Ready>>, <<Pipeline("sbts"), Ready>>}, w)

-----------------------------------------------------------------------------
(* The queries.  Each object has a configuration of its own, a copy of     *)
(* that of the overlay: the map whose structure is searched.               *)

Xsects == "overlay"                     \* xsect_queue_ of the overlay
Config == <<"config_">>
LsiConfig == <<"lsi config_">>
PipConfig == <<"pip config_">>
BestYs == <<"best_ys_">>

(* The overlay's own configuration is pointed to base map b and copied.    *)
SetConfigNotCopied(copy, b) ==          \* fault: the query keeps the one it had
  Host({<<Handle(b), Ready>>}, {<<Config, <<"base", b>>>>})
SetConfig(copy, b) ==
  Host({<<Handle(b), Ready>>}, {<<Config, <<"base", b>>>>})
  \o Host({<<Config, <<"base", b>>>>}, {<<copy, <<"base", b>>>>})

LSIRTQuery(q) ==
  LET p     == <<"lsi params", q>>
      pairs == <<Slots(Xsects), <<"pairs", q>>>>
  IN  Host({<<LsiConfig, <<"base", 1 - q>>>>}, {})
      \o Clear(Xsects) \o CopyLaunchParams(p)
      \o Render(p, MapReady \cup Traversable(1 - q) \cup {<<Dev(Xsects), Zero>>},
                {pairs, <<Dev(Xsects), Number(FoundXsects)>>})
      \o SizeOn(Xsects, FoundXsects)
      \o Launch(MapReady \cup {pairs}, {<<Slots(Xsects), FoundXsects>>})
      \o Sync \o Size(Xsects, FoundXsects)

LSIRTNativeQuery(q) == LSIRTQuery(q)

(* points: the buffer with the query points, and what they are; some: that *)
(* there is one at all.                                                    *)
PIPRTQuery(q, points, some) ==
  LET p     == <<"pip params", q>>
      unset == {<<PipClosest("overlay"), Zero>>, <<BestYs, Zero>>}
  IN  Resize({PipClosest("overlay"), BestYs})
      \o When(some,
              Host({<<PipConfig, <<"base", 1 - q>>>>}, unset) \o CopyLaunchParams(p)
              \o Render(p, Traversable(1 - q) \cup unset \cup {points, <<MapData(1 - q), Ready>>},
                        {<<PipClosest("overlay"), Closest(q, points)>>, <<BestYs, Ready>>})
              \o Sync)

PIPRTNativeQuery(q, points, some) == PIPRTQuery(q, points, some)
=============================================================================
