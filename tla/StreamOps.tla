----------------------------- MODULE StreamOps -----------------------------
(***************************************************************************)
(* What the phases of an overlay program are written in.  A phase is a     *)
(* sequence of operations in the order in which the host thread comes to   *)
(* them.  An operation is done by the host at once, or put on the stream   *)
(* for the device, which does what is on the stream in order, at any later *)
(* time; or the host waits for the stream.                                 *)
(*                                                                         *)
(* What is in a buffer is abstracted to what the data is: <<"boxes", 1>>   *)
(* are the finished boxes of map 1.  An operation names the data that it   *)
(* takes for granted in each buffer it reads, and what it leaves in each   *)
(* buffer it writes.  The stream is not synchronised with the default      *)
(* stream (cudaStreamNonBlocking): a plain copy to or from the device is a *)
(* host operation that waits for nothing.                                  *)
(***************************************************************************)
EXTENDS Sequences

Maps == {0, 1}

Blank == <<"blank">>     \* allocated, its data is of no use
Gone  == <<"gone">>      \* not allocated
Ready == <<"ready">>     \* the data of a buffer that only ever has one
Some  == <<"some">>      \* whatever is in it, as long as it is allocated

Holds(c, bs) == {<<b, c>> : b \in bs}

Op(by, r, w) == <<[by |-> by, reads |-> r, writes |-> w]>>
Host(r, w) == Op("host", r, w)

(* ForEach, LaunchKernel and the algorithms that are given the stream.     *)
Launch(r, w) == Op("device", r, w)
Sync == Op("sync", {}, {})

(* LOG(FATAL), or an exception: no program catches one.                    *)
Fail == Op("fail", {}, {})

Resize(bs) == Host({}, Holds(Blank, bs))

(* Less of what is there, in place.                                        *)
Shrink(r) == Host(r, r)

(* cudaFree returns when the device has done what it was given.            *)
Free(bs) == Sync \o Host({}, Holds(Gone, bs))

(* FOR2                                                                    *)
For2(Phase(_)) == Phase(0) \o Phase(1)

When(b, ops) == IF b THEN ops ELSE <<>>

(* SharedValue: a value on the device and a pinned copy on the host.       *)
Dev(v) == <<"on device", v>>
Pinned(v) == <<"pinned", v>>
SharedValue(v) == Resize({Dev(v), Pinned(v)})
Set(v, x) == Host({}, {<<Dev(v), x>>})
SetOn(v, x) == Host({}, {<<Pinned(v), x>>}) \o Launch({<<Pinned(v), x>>}, {<<Dev(v), x>>})
Get(v, x) == Host({<<Dev(v), x>>}, {})
GetOn(v, x) == Launch({<<Dev(v), x>>}, {<<Pinned(v), x>>}) \o Sync \o Host({<<Pinned(v), x>>}, {})

(* thrust::unique returns where the new end is, so it waits for the device.*)
UniqueOn(b, c) == Launch({<<b, c>>}, {<<b, <<"distinct">> \o c>>}) \o Sync

(* Queue: its slots, and a shared value with their number.                 *)
Zero == <<"zero">>
Number(c) == <<"number">> \o c
Slots(q) == <<"slots", q>>
Filled(q, c) == {<<Slots(q), c>>, <<Dev(q), Number(c)>>}
QueueInit(q) == SharedValue(q) \o Resize({Slots(q)}) \o Set(q, Zero)
Clear(q) == SetOn(q, Zero)
Size(q, c) == Get(q, Number(c))
SizeOn(q, c) == GetOn(q, Number(c))
CopyTo(q, c) == Size(q, c) \o Host({<<Slots(q), c>>}, {})

=============================================================================
