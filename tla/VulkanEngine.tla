---------------------------- MODULE VulkanEngine ----------------------------
(***************************************************************************)
(* The Vulkan runtime under the overlay: context, buffers, command         *)
(* buffers, compute and ray passes, and the structure of a map.  Unlike    *)
(* the stream of CUDA, a submission is waited for at once; but everything  *)
(* that is made has to be destroyed by the program, each thing before what *)
(* it was made from, and not before the device is done with it.            *)
(***************************************************************************)
EXTENDS OverlayState

(* A thing of the context, or of pass n.                                   *)
Vk(part) == <<"vk", part>>
Engine(n, part) == <<"engine", n, part>>

AreThere(bs) == Holds(Some, bs)
Create(bs, from) == Host(AreThere(from), Holds(Blank, bs))
Destroy(bs, from) == Host(AreThere(bs \cup from), Holds(Gone, bs))

Device == Vk("device")
Vma == Vk("vma")
CmdPool == Vk("cmdPool")

-----------------------------------------------------------------------------
(* VkGlobalRuntime.  missing: what the machine does not have.              *)

createInstanceMinimal == Create({Vk("instance")}, {})
findDiscretePhysicalDevice(missing) ==
  IF missing = "device" THEN Fail ELSE Create({Vk("phys")}, {Vk("instance")})
findComputeQueueFamily == Create({Vk("queueFamilyIndex")}, {Vk("phys")})

initVkComputeContext(missing) ==
  createInstanceMinimal \o findDiscretePhysicalDevice(missing) \o findComputeQueueFamily
  \o (IF missing = "features" THEN Fail ELSE Create({Device}, {Vk("phys"), Vk("queueFamilyIndex")}))
  \o Create({Vk("queue")}, {Device}) \o Create({CmdPool}, {Device})
  \o Create({Vma}, {Vk("instance"), Vk("phys"), Device})

destroyVkComputeContext ==
  Sync \o Destroy({Vma}, {Device}) \o Destroy({CmdPool}, {Device})
  \o Destroy({Device, Vk("queue"), Vk("phys"), Vk("queueFamilyIndex")}, {})

DestroyRuntime == destroyVkComputeContext \o Destroy({Vk("instance")}, {})

-----------------------------------------------------------------------------
(* Buffers and one-time command buffers.                                   *)

BufInit(bs) == Create(bs, {Vma})
BufFree(bs) == Destroy(bs, {Vma})
BufMove(from, to, c) == Host({<<from, c>>}, {<<to, c>>, <<from, Gone>>})

beginOneTime == Create({Vk("cmd")}, {Device, CmdPool})
endSubmitWait(r, w) ==
  Create({Vk("fence")}, {Device})
  \o Launch(r \cup AreThere({Vk("cmd"), Vk("fence")}), w) \o Sync
  \o Destroy({Vk("fence")}, {Device}) \o Destroy({Vk("cmd")}, {Device, CmdPool})
Submit(r, w) == beginOneTime \o endSubmitWait(r, w)

Staging == <<"staging">>
Host2Stage(c) == Host({<<Staging, Blank>>}, {<<Staging, c>>})
Stage2Host(c) == Host({<<Staging, c>>}, {})
Stage2Device(b, c) == Submit({<<Staging, c>>}, {<<b, c>>})
Device2Stage(b, c) == Submit({<<b, c>>}, {<<Staging, c>>})

readBackStorageBuffer(b, c) ==
  BufInit({Staging}) \o Device2Stage(b, c) \o Stage2Host(c) \o BufFree({Staging})
writeToStorageBuffer(b, c) ==
  BufInit({Staging}) \o Host2Stage(c) \o Stage2Device(b, c) \o BufFree({Staging})
copyAnything(src, dst, c) == Submit({<<src, Some>>}, {<<dst, Some>>})   \* fault: of any content
copyDeviceBuffer(src, dst, c) == Submit({<<src, c>>}, {<<dst, c>>})
zeroDeviceBuffer(b) == Submit({}, {<<b, Zero>>})

-----------------------------------------------------------------------------
(* Passes.  A pass is bound to the buffers when it is made, and is told    *)
(* nothing when one of them is made again.                                 *)

Layouts(n) == {Engine(n, "setLayout"), Engine(n, "pipeLayout")}
Shader(n) == Engine(n, "shader")
PassPipeline(n) == Engine(n, "pipeline")
DescPool(n) == Engine(n, "descPool")

ComputePipeline(n) ==
  Create(Layouts(n), {Device}) \o Create({Shader(n)}, {Device})
  \o Create({PassPipeline(n)}, {Device, Shader(n)} \cup Layouts(n))
allocateDescriptors(n) == Create({DescPool(n)}, {Device} \cup Layouts(n))
recordDescriptors(n, bs) == Host(AreThere(bs \cup {DescPool(n)}), {})

ComputeEngine(n, bs) == ComputePipeline(n) \o allocateDescriptors(n) \o recordDescriptors(n, bs)
recordDispatch(n) == AreThere({PassPipeline(n), DescPool(n)} \cup Layouts(n))
runCompute(n, r, w) == Submit(recordDispatch(n) \cup r, w)
DestroyEngine(n) ==
  Destroy({PassPipeline(n)}, {Device}) \o Destroy({Shader(n)}, {Device})
  \o Destroy(Layouts(n), {Device}) \o Destroy({DescPool(n)}, {Device})

Buffers(r, w) == {x[1] : x \in r \cup w}
RunComputePass(r, w) ==
  ComputeEngine("pass", Buffers(r, w)) \o runCompute("pass", r, w) \o DestroyEngine("pass")

(* The file of the programs of a ray pass may be missing.                  *)
loadShaderModule(missing) ==
  IF missing = "shader" THEN Fail ELSE Create({Shader("rays")}, {Device})
RTPipeline(missing) ==
  Create(Layouts("rays"), {Device}) \o loadShaderModule(missing)
  \o Create({PassPipeline("rays")}, {Device, Shader("rays")} \cup Layouts("rays"))
RTAllocateDescriptors == allocateDescriptors("rays")
RTRecordDescriptors(bs) == recordDescriptors("rays", bs)

Sbt == Engine("rays", "sbt")
buildSBT ==
  Host(AreThere({PassPipeline("rays")}), {}) \o BufInit({Sbt})
  \o BufInit({Staging}) \o Host2Stage(<<"groups">>) \o Stage2Device(Sbt, <<"groups">>) \o BufFree({Staging})

recordTrace == recordDispatch("rays") \cup {<<Sbt, <<"groups">>>>}
runRT(r, w) == Submit(recordTrace \cup r, w)
DestroyRTEngine ==
  Destroy({Shader("rays")}, {Device}) \o Destroy({PassPipeline("rays")}, {Device})
  \o Destroy(Layouts("rays"), {Device}) \o Destroy({DescPool("rays")}, {Device}) \o BufFree({Sbt})

RunRTPass(missing, scene, r, w) ==
  RTPipeline(missing) \o RTAllocateDescriptors
  \o RTRecordDescriptors({scene} \cup Buffers(r, w)) \o buildSBT
  \o runRT(r, w) \o DestroyRTEngine

-----------------------------------------------------------------------------
(* AccelStructScene of map m: the lower structure is built from the boxes, *)
(* copied to a buffer of its own size, and put under an upper one.  What   *)
(* the structures live in must outlive them.                               *)

Blas(m) == <<"blas_", m>>
Tlas(m) == <<"tlas_", m>>
BlasBuf(m) == <<"blas_buffer_", m>>
TlasBuf(m) == <<"tlas_buffer_", m>>
InstanceBuf(m) == <<"instance_buffer_", m>>
Local(b) == <<"local", b>>

BuildBlas(m, boxes) ==
  BufInit({Local("blasBuffer")}) \o Create({Local("blas")}, {Device, Local("blasBuffer")})
  \o BufInit({Local("scratch")}) \o Create({Local("queryPool")}, {Device})
  \o Submit({boxes} \cup AreThere({Local("scratch"), Local("queryPool")}),
            {<<Local("blas"), <<"structure", m>>>>, <<Local("queryPool"), <<"size", m>>>>})
  \o Host({<<Local("queryPool"), <<"size", m>>>>}, {}) \o Destroy({Local("queryPool")}, {Device})

CompactBlas(m) ==
  BufInit({Local("compactBlasBuffer")}) \o Create({Blas(m)}, {Device, Local("compactBlasBuffer")})
  \o Submit({<<Local("blas"), <<"structure", m>>>>}, {<<Blas(m), <<"structure", m>>>>})
  \o Destroy({Local("blas")}, {Device})

PutInstance(m) ==
  Host(AreThere({Blas(m)}), {}) \o BufInit({Local("instanceBuffer")})
  \o BufInit({Staging}) \o Host2Stage(<<"instance", m>>)
  \o Stage2Device(Local("instanceBuffer"), <<"instance", m>>) \o BufFree({Staging})

BuildTlas(m) ==
  BufInit({Local("tlasBuffer")}) \o Create({Tlas(m)}, {Device, Local("tlasBuffer")})
  \o BufInit({Local("tlasScratch")})
  \o Submit({<<Local("instanceBuffer"), <<"instance", m>>>>, <<Blas(m), <<"structure", m>>>>}
              \cup AreThere({Local("tlasScratch")}),
            {<<Tlas(m), <<"structure", m>>>>})

KeepStructures(m) ==
  BufMove(Local("compactBlasBuffer"), BlasBuf(m), Blank) \o BufMove(Local("tlasBuffer"), TlasBuf(m), Blank)
  \o BufMove(Local("instanceBuffer"), InstanceBuf(m), <<"instance", m>>)
  \o BufFree({Local("tlasScratch"), Local("scratch"), Local("blasBuffer")})

BuildScene(m, boxes) ==
  BuildBlas(m, boxes) \o CompactBlas(m) \o PutInstance(m) \o BuildTlas(m) \o KeepStructures(m)

(* What a ray needs of the structure of map b.                             *)
Scene(b) == {<<Tlas(b), <<"structure", b>>>>, <<Blas(b), <<"structure", b>>>>}
              \cup AreThere({TlasBuf(b), BlasBuf(b), InstanceBuf(b)})

DestroySceneForgets(m) ==               \* fault: the instance is not given back
  Destroy({Tlas(m)}, {Device, TlasBuf(m)}) \o Destroy({Blas(m)}, {Device, BlasBuf(m)})
  \o BufFree({TlasBuf(m), BlasBuf(m)})
DestroyScene(m) ==
  Destroy({Tlas(m)}, {Device, TlasBuf(m)}) \o Destroy({Blas(m)}, {Device, BlasBuf(m)})
  \o BufFree({InstanceBuf(m), TlasBuf(m), BlasBuf(m)})
=============================================================================
