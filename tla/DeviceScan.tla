----------------------------- MODULE DeviceScan -----------------------------
(***************************************************************************)
(* ExclusiveScanUInt32 (vk/algo/exclusive_scan.h): prefix sums of an array *)
(* of any length.  A kernel scans blocks of ScanBlock cells in shared      *)
(* memory, up a tree and down again, with a barrier after each level, and  *)
(* leaves every block's total in an array of sums; the host scans that     *)
(* array by calling itself, and a second kernel adds the results.          *)
(*                                                                         *)
(* The state is the host's call stack and, per block of the kernel that    *)
(* runs, its shared memory and its place between two barriers.  The code   *)
(* launches four times the blocks it needs (n/64 groups of 256 threads);   *)
(* the others read nothing and write zero past the array of sums, where    *)
(* no kernel reads: they are left out.  Sums are far below 2^32.           *)
(***************************************************************************)
EXTENDS Integers, Sequences, Functions, PowersOfTwo

CONSTANT LogBlock   \* a block scans 2^LogBlock cells; 8 in the code

ASSUME LogBlockAssumption == LogBlock \in Nat \ {0}

VARIABLES
  calls,   \* the host's active calls, the outermost first
  kernel,  \* what runs on the device: "none", "scan" or "add"
  blk,     \* per block: shared memory, step between barriers, threads done
  offsets  \* what the last call that returned has computed

scanVars == <<calls, kernel, blk, offsets>>

ScanBlock   == Pow2[LogBlock]
Cells       == 0 .. ScanBlock - 1
NumBlocks(n) == (n + ScanBlock - 1) \div ScanBlock

(* Steps of a block: 0 load; 1..LogBlock up; Clear; then down; Stored. *)
Clear  == LogBlock + 1
LastStep == 2 * LogBlock + 2

Top == calls[Len(calls)]

FreshBlock == [s |-> [c \in Cells |-> 0], step |-> 0, done |-> {}]

NewCall(a, n) ==
  [n |-> n, in |-> a, out |-> [i \in 0 .. n - 1 |-> 0],
   sums |-> [b \in 0 .. NumBlocks(n) - 1 |-> 0]]

ScanInit ==
  /\ calls = <<>>
  /\ kernel = "none"
  /\ blk = <<>>
  /\ offsets = <<>>

(* ExclusiveScanUInt32(a, ., n) is called, and launches the block kernel. *)
CallScan(a, n) ==
  /\ calls' = Append(calls, NewCall(a, n))
  /\ kernel' = "scan"
  /\ blk' = [b \in 0 .. NumBlocks(n) - 1 |-> FreshBlock]
  /\ UNCHANGED offsets

(* Each thread copies its cell, zero past the end. *)
LoadCells(b) ==
  /\ kernel = "scan"
  /\ blk[b].step = 0
  /\ blk' = [blk EXCEPT ![b].step = 1,
                        ![b].s = [c \in Cells |->
                           LET i == b * ScanBlock + c
                           IN IF i < Top.n THEN Top.in[i] ELSE 0]]
  /\ UNCHANGED <<calls, kernel, offsets>>

Up(step)   == step \in 1 .. LogBlock
Down(step) == step \in Clear + 1 .. LastStep - 1

Offset(step) == Pow2[IF Up(step) THEN step - 1 ELSE LastStep - 1 - step]

(* The right cell of the pair of thread t, and whether it has a pair. *)
RightCell(t, o) == (t + 1) * o * 2 - 1
HasPair(t, o)   == RightCell(t, o) < ScanBlock

(* sData[idx] += sData[idx - offset] *)
UpSweep(s, t, o) == [s EXCEPT ![RightCell(t, o)] = @ + s[RightCell(t, o) - o]]

(* The left cell takes the right one's sum, the right one both. *)
DownSweep(s, t, o) ==
  LET r == RightCell(t, o) IN [s EXCEPT ![r - o] = s[r], ![r] = @ + s[r - o]]

(* Thread t does its part of a level of the tree. *)
SweepThread(b, t) ==
  LET k == blk[b]
      o == Offset(k.step) IN
  /\ kernel = "scan"
  /\ Up(k.step) \/ Down(k.step)
  /\ HasPair(t, o)
  /\ t \notin k.done
  /\ blk' = [blk EXCEPT ![b].done = @ \cup {t},
                        ![b].s = IF Up(k.step) THEN UpSweep(@, t, o)
                                               ELSE DownSweep(@, t, o)]
  /\ UNCHANGED <<calls, kernel, offsets>>

(* Fault: a thread passes the barrier of its level once some thread is there. *)
SomeThere(b) == blk[b].done # {}

(* GroupMemoryBarrierWithGroupSync; threads without a pair wait from the start. *)
AllThere(b) == \A t \in Cells : HasPair(t, Offset(blk[b].step)) => t \in blk[b].done

Barrier(b) ==
  /\ kernel = "scan"
  /\ Up(blk[b].step) \/ Down(blk[b].step)
  /\ AllThere(b)
  /\ blk' = [blk EXCEPT ![b].step = @ + 1, ![b].done = {}]
  /\ UNCHANGED <<calls, kernel, offsets>>

(* Thread 0 saves the block's total and clears the root. *)
SaveTotal(b) ==
  /\ kernel = "scan"
  /\ blk[b].step = Clear
  /\ calls' = [calls EXCEPT ![Len(calls)].sums[b] = blk[b].s[ScanBlock - 1]]
  /\ blk' = [blk EXCEPT ![b].step = @ + 1, ![b].s[ScanBlock - 1] = 0]
  /\ UNCHANGED <<kernel, offsets>>

OwnCells(b) == {i \in DOMAIN Top.out : i \div ScanBlock = b}

(* Each thread stores its cell, unless it is past the end. *)
StoreCells(b) ==
  /\ kernel = "scan"
  /\ blk[b].step = LastStep
  /\ calls' = [calls EXCEPT ![Len(calls)].out =
                 [i \in DOMAIN @ |-> IF i \in OwnCells(b)
                                     THEN blk[b].s[i % ScanBlock] ELSE @[i]]]
  /\ blk' = [blk EXCEPT ![b].step = @ + 1]
  /\ UNCHANGED <<kernel, offsets>>

(* The kernel has ended: its fence is signalled. *)
KernelDone == \A b \in DOMAIN blk : blk[b].step = LastStep + 1

(* One block was enough, or the offsets are added: the call returns. *)
ReturnScan ==
  /\ \/ kernel = "scan" /\ NumBlocks(Top.n) = 1
     \/ kernel = "add"
  /\ KernelDone
  /\ offsets' = Top.out
  /\ calls' = SubSeq(calls, 1, Len(calls) - 1)
  /\ kernel' = "none"
  /\ blk' = <<>>

(* More than one block: scan the sums. *)
Recurse ==
  /\ kernel = "scan"
  /\ KernelDone
  /\ NumBlocks(Top.n) > 1
  /\ CallScan(Top.sums, NumBlocks(Top.n))

(* The inner call is back: the second kernel starts. *)
LaunchAdd ==
  /\ kernel = "none"
  /\ calls # <<>>
  /\ kernel' = "add"
  /\ blk' = [b \in 0 .. NumBlocks(Top.n) - 1 |-> FreshBlock]
  /\ UNCHANGED <<calls, offsets>>

(* Its threads add the sum of the blocks before theirs to their cell. *)
AddOffsets(b) ==
  /\ kernel = "add"
  /\ blk[b].step = 0
  /\ calls' = [calls EXCEPT ![Len(calls)].out =
                 [i \in DOMAIN @ |-> IF i \in OwnCells(b)
                                     THEN @[i] + offsets[b] ELSE @[i]]]
  /\ blk' = [blk EXCEPT ![b].step = LastStep + 1]
  /\ UNCHANGED <<kernel, offsets>>

ScanStep ==
  \/ \E b \in DOMAIN blk :
       \/ LoadCells(b) \/ Barrier(b) \/ SaveTotal(b) \/ StoreCells(b) \/ AddOffsets(b)
       \/ \E t \in Cells : SweepThread(b, t)
  \/ Recurse \/ LaunchAdd \/ ReturnScan
-----------------------------------------------------------------------------
(* The sum of a[0] .. a[i - 1]. *)
SumBefore(a, i) == SumFunctionOnSet(a, 0 .. i - 1)

IsExclusiveScan(a, out) ==
  \A i \in DOMAIN out : out[i] = SumBefore(a, i)
=============================================================================
