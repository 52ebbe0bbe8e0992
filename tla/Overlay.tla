------------------------------ MODULE Overlay ------------------------------
(***************************************************************************)
(* The overlay programs, from reading the maps to the files: RunOverlay    *)
(* with its three engines and its check, RunOverlayNative, and             *)
(* RunOverlayNS under its main.  A run is the sequence of operations of    *)
(* its phases.  The host does its own and goes on; what it launches it     *)
(* puts on the stream, where the device takes it from at any later time.   *)
(*                                                                         *)
(* The properties say that the waits are enough: nothing is read before    *)
(* it is there or after it was replaced, nothing is rewritten or given     *)
(* back while it is in use.                                                *)
(***************************************************************************)
EXTENDS Queries, VulkanOverlay

CONSTANT Inputs

VARIABLES
  input,    \* what the program was called with
  mem,      \* the buffers that are allocated, and what is in them
  queue,    \* the stream: what was launched and is not done
  pc        \* the operation that the host is at

vars == <<input, mem, queue, pc>>

AllInputs ==
  [program: {"cuda", "native", "vk", "lsi", "pip"}, mode: {"rt", "grid", "lbvh", "other"}, ag: Int, fau: BOOLEAN,
   missing: {"none", "checked", "unchecked", "device", "features", "shader"}, some: BOOLEAN,
   mids: [Maps -> BOOLEAN], check: BOOLEAN, generated: BOOLEAN]

(* Without a crossing no edge has two; on CUDA there is one.  RunOverlay   *)
(* knows three ways to group edges, and indexes nothing in any other.      *)
ASSUME InputsAssumption ==
  /\ Inputs \subseteq AllInputs
  /\ \A in \in Inputs :
       /\ in.some \/ (in.program = "vk" /\ \A m \in Maps : ~in.mids[m])
       /\ in.program \in {"cuda", "lsi"} => in.ag \in 0 .. 2

-----------------------------------------------------------------------------
(* RunOverlay.  The check asks a grid of its own, and compares.            *)

OverlayByRT(in) ==
  InitRT(in) \o BuildIndexRT(in) \o IntersectEdgeRT(0) \o For2(LocateVerticesRT) \o ComputeOutputPolygonsRT(in)
OverlayByLBVH(in) ==
  InitLBVH(in) \o BuildIndexLBVH(in) \o IntersectEdgeLBVH(0) \o For2(LocateVerticesLBVH)
  \o ComputeOutputPolygonsLBVH(in)
OverlayByGrid(o) ==
  LET Locate(m) == LocateVerticesGrid(o, m)
  IN  InitGrid(o) \o BuildIndexGrid(o) \o IntersectEdgeGrid(o, 0) \o For2(Locate) \o ComputeOutputPolygonsGrid(o)

CheckResult ==
  LET CheckMap(m) ==
        LocateVerticesGrid("check", m) \o GetClosestEids("check", m) \o GetClosestEids("overlay", m)
        \o D2H(m) \o D2H(1 - m)
  IN  InitGrid("check") \o BuildIndexGrid("check") \o IntersectEdgeGrid("check", 0)
      \o GetXsectEdges("check") \o GetXsectEdges("overlay") \o For2(CheckMap)

RunOverlay(in) ==
  LET Phases(mode) ==
        CASE mode = "rt"    -> OverlayByRT(in)
          [] mode = "lbvh"  -> OverlayByLBVH(in)
          [] mode = "grid"  -> OverlayByGrid("overlay")
          [] mode = "other" -> <<>>
  IN  LoadFromFile(0) \o LoadFromFile(1) \o CreateContext \o When(in.mode = "other", Fail) \o LoadToDevice
      \o Phases(in.mode) \o When(in.check, CheckResult) \o WriteOutputChain("overlay")

(* RunOverlayNative: the check is left out.                                *)
RunOverlayNative(in) ==
  LoadFromFile(0) \o LoadFromFile(1) \o CreateContextNative \o LoadToDeviceNative
  \o When(in.mode # "rt", Fail) \o InitNative(in) \o BuildIndexNative(in) \o IntersectEdgeNative(0)
  \o For2(LocateVerticesNative) \o ComputeOutputPolygonsNative(in)
  \o WriteOutputChainNative("overlay")

(* RunOverlayNS: for grid and lbvh there is no overlay to call.            *)
RunOverlayNS(in) ==
  LET Locate(m) == LocateVerticesNS(in, m)
  IN  LoadFromFile(0) \o LoadFromFile(1) \o CreateContextNS \o LoadToDeviceNS
      \o When(in.mode # "rt", Fail) \o InitNS \o BuildIndexNS(in) \o IntersectEdgeNS(in, 0) \o For2(Locate)
      \o ComputeOutputPolygonsNS(in) \o WriteResultNS
      \o DestroyOverlay \o DestroyMaps

(* main: the runtime is made before the overlay and outlives it.           *)
MainVk(in) == initVkComputeContext(in.missing) \o RunOverlayNS(in) \o DestroyRuntime

Code ==
  [in \in Inputs |-> CASE in.program = "cuda"   -> RunOverlay(in)
                       [] in.program = "native" -> RunOverlayNative(in)
                       [] in.program = "vk"     -> MainVk(in)
                       [] in.program = "lsi"    -> RunLSIQuery(in)
                       [] in.program = "pip"    -> RunPIPQuery(in)]

-----------------------------------------------------------------------------
(* Host and device.                                                        *)

NextOp == Code[input][pc]
HostIsAt == IF pc > Len(Code[input]) THEN "end" ELSE Code[input][pc].by
HostAt(by) == HostIsAt = by
Ended == HostIsAt \in {"end", "fail"}

Names(cells) == {x[1] : x \in cells}

(* mem with what an operation leaves; a buffer given back is not there.    *)
Written(w) ==
  LET gone == {x[1] : x \in {y \in w : y[2] = Gone}}
      kept == {x \in w : x[2] # Gone}
  IN  [b \in (DOMAIN mem \cup Names(kept)) \ gone |->
         IF b \in Names(kept) THEN (CHOOSE x \in kept : x[1] = b)[2] ELSE mem[b]]

Init ==
  /\ input \in Inputs
  /\ mem = [b \in {} |-> Blank]
  /\ queue = <<>>
  /\ pc = 1

HostOp ==
  /\ HostAt("host")
  /\ mem' = Written(NextOp.writes)
  /\ pc' = pc + 1
  /\ UNCHANGED <<input, queue>>

HostLaunch ==
  /\ HostAt("device")
  /\ queue' = Append(queue, NextOp)
  /\ pc' = pc + 1
  /\ UNCHANGED <<input, mem>>

HostWait ==
  /\ HostAt("sync")
  /\ queue = <<>>
  /\ pc' = pc + 1
  /\ UNCHANGED <<input, mem, queue>>

HostStep == HostOp \/ HostLaunch \/ HostWait

(* The device does what it was given, also while the host ends.            *)
DeviceStep ==
  /\ queue # <<>>
  /\ mem' = Written(Head(queue).writes)
  /\ queue' = Tail(queue)
  /\ UNCHANGED <<input, pc>>

Idle == Ended /\ queue = <<>> /\ UNCHANGED vars

Next == HostStep \/ DeviceStep \/ Idle

Spec == Init /\ [][Next]_vars

(* The host thread runs, and kernels end.                                  *)
FairSpec == Spec /\ WF_vars(HostStep) /\ WF_vars(DeviceStep)

-----------------------------------------------------------------------------
(* Properties.                                                             *)

TypeOK ==
  /\ input \in Inputs
  /\ pc \in 1 .. Len(Code[input]) + 1
  /\ \A i \in 1 .. Len(queue) : queue[i].by = "device"
  /\ \A b \in DOMAIN mem : mem[b] # Gone /\ mem[b] # Some

Has(r) == r[1] \in DOMAIN mem /\ r[2] \in {mem[r[1]], Some}
FindsItsData(op) == \A r \in op.reads : Has(r)

(* Whoever is about to act finds what it takes for granted in every buffer *)
(* it reads, and a kernel has the buffers that it writes to: no wait, copy *)
(* or allocation is missing, and buffers that several phases use hold what *)
(* this phase needs, not what another one or the other map left there.     *)
RightData ==
  /\ HostAt("host") => FindsItsData(NextOp)
  /\ queue # <<>> => FindsItsData(Head(queue)) /\ Names(Head(queue).writes) \subseteq DOMAIN mem

(* The host does not touch what a launched kernel will write, and does not *)
(* rewrite or give back what one will read.                                *)
HostWaits ==
  HostAt("host") =>
    \A i \in 1 .. Len(queue) :
      /\ Names(queue[i].writes) \cap Names(NextOp.reads \cup NextOp.writes) = {}
      /\ Names(queue[i].reads) \cap Names(NextOp.writes) = {}

HostData == {Graph(0), Graph(1), Result} \cup {WithMids(O, m)[1] : m \in Maps}

(* Vulkan: nothing is allocated over a handle that is still held, and when *)
(* the device is destroyed nothing made from it is left: what is created   *)
(* in any phase, on any path, is given back, in an order that is allowed.  *)
AllReleased ==
  (input.program = "vk" /\ HostAt("host")) =>
    LET op == NextOp
    IN  /\ \A x \in op.writes : x[2] = Blank => x[1] \notin DOMAIN mem
        /\ <<Device, Gone>> \in op.writes =>
             DOMAIN mem \subseteq HostData \cup Names(op.writes) \cup {Vk("instance")}

(* The products of the run, for OverlayPhases.  They have all been there   *)
(* when the result is, and Vulkan then destroys them.                      *)
IndexOfMap(m) ==
  CASE input.program = "vk" -> {<<Tlas(m), <<"structure", m>>>>}
    [] input.mode = "lbvh"  -> {Tree(m)}
    [] input.mode = "grid"  -> Grid("overlay", IF input.program = "pip" THEN <<0>> ELSE <<0, 1>>)
    [] OTHER                -> {<<Handle(m), Ready>>, <<AsBuffer(m), Structure(m)>>}
CellsOf(p) ==
  CASE p[1] = "map"     -> {<<MapData(p[2]), Ready>>}
    [] p[1] = "index"   -> IndexOfMap(p[2])
    [] p[1] = "xsects"  -> {<<Slots("overlay"), FoundXsects>>}
    [] p[1] = "located" -> {<<ClosestEids("overlay", p[2]), Closest(p[2], Points(p[2]))>>,
                            <<PointInPolygon("overlay", p[2]), Ready>>}
    [] p[1] = "pieces"  -> {WithMids("overlay", p[2])}
    [] p[1] \in {"result", "answers"} -> {<<Result, Ready>>}

Products ==
  IF input.program \in {"lsi", "pip"} THEN {<<"map", 0>>, <<"index", 0>>, <<"answers">>}
  ELSE ({"map", "index", "located", "pieces"} \X Maps) \cup {<<"xsects">>, <<"result">>}
Made ==
  IF Has(<<Result, Ready>>) THEN Products ELSE {p \in Products : \A x \in CellsOf(p) : Has(x)}

Phases == INSTANCE OverlayPhases WITH made <- Made

(* Each product comes into being after what it is computed from, and what  *)
(* a phase has made no later phase spoils: a map's structure when the next *)
(* map's is built, answers when midpoints are located, crossings when they *)
(* are sorted, any of it when the result is checked against the grid.      *)
OverlaySpec == Phases!Spec

(* What the programs are able to do.                                       *)
Accepted ==
  /\ input.missing = "none"
  /\ CASE input.program \in {"cuda", "lsi", "pip"} -> input.mode # "other"
       [] input.program = "native" -> input.mode = "rt" /\ input.ag \in 0 .. 2
       [] input.program = "vk"     -> input.mode = "rt" /\ input.ag \in {0, 2}

(* Every run comes to its end, and has the result exactly when it was      *)
(* asked for something that the program does.                              *)
OverlayEnds == <>[](Ended /\ (Has(<<Result, Ready>>) <=> Accepted))
=============================================================================
