---------------------------- MODULE BlockGrouping ----------------------------
(***************************************************************************)
(* FillPrimitivesGroupNew (rt/primitive.h): thread blocks merge adjacent   *)
(* edge boxes pairwise in shared memory, round after round, and append     *)
(* what is left to the global primitive array.                             *)
(*                                                                         *)
(* One block holds BlockSize consecutive edges.  In a round thread t takes *)
(* the pair of inputs 2t, 2t+1, draws one output slot (merged) or two (not *)
(* merged) from an atomic tail, and stores.  After a barrier the buffers   *)
(* swap; if nothing merged the loop ends, else the outputs, which landed   *)
(* in the order of the draws, are sorted again by their first edge.        *)
(* __syncthreads() is the guard AllArrived; the test merged_area / area <  *)
(* area_enlarge is a free choice; a box is the set of edges it encloses.   *)
(***************************************************************************)
EXTENDS Integers, Functions

CONSTANTS
  NE,          \* number of edges of the map
  BlockSize,   \* threads of a block; 64 in the code
  MaxIter      \* limit on merge rounds (max_iter)

ASSUME NEAssumption == NE \in Nat \ {0}
ASSUME BlockSizeAssumption == BlockSize \in Nat \ {0}
ASSUME MaxIterAssumption == MaxIter \in Nat

VARIABLES
  phase,    \* per block: where its threads are, between two barriers
  arrived,  \* per block and thread: progress inside the phase
  iter,     \* per block: merge rounds done
  in, out,  \* per block: the two shared buffers, after the pointer swaps
  tailIn,   \* per block: *p_tail_in
  tailOut,  \* per block: *p_tail_out
  base,     \* per block and thread: first output slot drawn this round
  cnt,      \* per block and thread: how many slots it drew
  gTail,    \* global tail
  gPrims,   \* global primitive array, d_eid_range with d_aabbs
  nPrims    \* what the host resized the arrays to; 0 before

blockVars == <<phase, arrived, iter, in, out, tailIn, tailOut, base, cnt>>
vars == <<phase, arrived, iter, in, out, tailIn, tailOut, base, cnt,
          gTail, gPrims, nPrims>>

Edges   == 0 .. NE - 1
Blocks  == 0 .. ((NE + BlockSize - 1) \div BlockSize) - 1
Threads == 0 .. BlockSize - 1
Slots   == 0 .. BlockSize - 1

Smaller(m, n)  == IF m < n THEN m ELSE n
EidBegin(b) == Smaller(b * BlockSize, NE)
EidEnd(b)   == Smaller((b + 1) * BlockSize, NE)

Prim == [lo : 0 .. NE, hi : 0 .. NE, box : SUBSET Edges]
EdgesOf(p) == p.lo .. p.hi - 1

(* Memory nothing has been stored to; it holds no edge. *)
Blank == [lo |-> 0, hi |-> 0, box |-> {}]

Single(e) == [lo |-> e, hi |-> e + 1, box |-> {e}]
Merge(p, q) == [lo |-> p.lo, hi |-> q.hi, box |-> p.box \cup q.box]

TypeOK ==
  /\ phase \in [Blocks -> {"load", "merge", "reserve", "write"}]
  /\ arrived \in [Blocks -> [Threads -> {"no", "drawn", "yes"}]]
  /\ iter \in [Blocks -> 0 .. MaxIter]
  /\ in \in [Blocks -> [Slots -> Prim]]
  /\ out \in [Blocks -> [Slots -> Prim]]
  /\ tailIn \in [Blocks -> 0 .. BlockSize]
  /\ tailOut \in [Blocks -> Nat]
  /\ base \in [Blocks -> [Threads -> Slots]]
  /\ cnt \in [Blocks -> [Threads -> 0 .. 2]]
  /\ gTail \in 0 .. NE
  /\ gPrims \in [Edges -> Prim]
  /\ nPrims \in 0 .. NE

Init ==
  /\ phase = [b \in Blocks |-> "load"]
  /\ arrived = [b \in Blocks |-> [t \in Threads |-> "no"]]
  /\ iter = [b \in Blocks |-> 0]
  /\ in = [b \in Blocks |-> [s \in Slots |-> Blank]]
  /\ out = [b \in Blocks |-> [s \in Slots |-> Blank]]
  /\ tailIn = [b \in Blocks |-> 0]
  /\ tailOut = [b \in Blocks |-> 0]
  /\ base = [b \in Blocks |-> [t \in Threads |-> 0]]
  /\ cnt = [b \in Blocks |-> [t \in Threads |-> 0]]
  /\ gTail = 0
  /\ gPrims = [e \in Edges |-> Blank]
  /\ nPrims = 0

(* Up to the first barrier: thread 0 sets the tails, each thread loads its
   own edge.  The slots are private, so the block's loads are one step. *)
Load(b) ==
  /\ phase[b] = "load"
  /\ tailIn' = [tailIn EXCEPT ![b] = EidEnd(b) - EidBegin(b)]
  /\ in' = [in EXCEPT ![b] =
              [s \in Slots |-> IF EidBegin(b) + s < EidEnd(b)
                               THEN Single(EidBegin(b) + s) ELSE Blank]]
  /\ phase' = [phase EXCEPT ![b] = IF MaxIter = 0 THEN "reserve" ELSE "merge"]
  /\ UNCHANGED <<arrived, iter, out, tailOut, base, cnt, gTail, gPrims, nPrims>>

(* Thread t has a pair, or a last single, in a round of n inputs. *)
Busy(t, n) == t < (n + 1) \div 2
Paired(t, n) == 2 * t + 1 < n

(* Fault: the tail advances by one whatever the pair needs. *)
DrawOne(b, t) ==
  /\ phase[b] = "merge"
  /\ Busy(t, tailIn[b])
  /\ arrived[b][t] = "no"
  /\ \E k \in IF Paired(t, tailIn[b]) THEN {1, 2} ELSE {1} : cnt' = [cnt EXCEPT ![b][t] = k]
  /\ tailOut' = [tailOut EXCEPT ![b] = @ + 1]
  /\ base' = [base EXCEPT ![b][t] = tailOut[b]]
  /\ arrived' = [arrived EXCEPT ![b][t] = "drawn"]
  /\ UNCHANGED <<phase, iter, in, out, tailIn, gTail, gPrims, nPrims>>

(* atomicAdd(p_tail_out, 1 or 2): draw the output slots of pair t. *)
Draw(b, t) ==
  /\ phase[b] = "merge"
  /\ Busy(t, tailIn[b])
  /\ arrived[b][t] = "no"
  /\ \E k \in IF Paired(t, tailIn[b]) THEN {1, 2} ELSE {1} :
       /\ cnt' = [cnt EXCEPT ![b][t] = k]
       /\ tailOut' = [tailOut EXCEPT ![b] = @ + k]
  /\ base' = [base EXCEPT ![b][t] = tailOut[b]]
  /\ arrived' = [arrived EXCEPT ![b][t] = "drawn"]
  /\ UNCHANGED <<phase, iter, in, out, tailIn, gTail, gPrims, nPrims>>

(* What thread t stores in the j-th of the slots it drew. *)
Result(b, t, j) ==
  IF cnt[b][t] = 1 /\ Paired(t, tailIn[b])
  THEN Merge(in[b][2 * t], in[b][2 * t + 1])
  ELSE in[b][2 * t + j]

Drawn(b, t) == base[b][t] .. base[b][t] + cnt[b][t] - 1

(* The plain stores to the slots drawn. *)
Store(b, t) ==
  /\ phase[b] = "merge"
  /\ arrived[b][t] = "drawn"
  /\ out' = [out EXCEPT ![b] =
               [s \in Slots |-> IF s \in Drawn(b, t)
                                THEN Result(b, t, s - base[b][t]) ELSE @[s]]]
  /\ arrived' = [arrived EXCEPT ![b][t] = "yes"]
  /\ UNCHANGED <<phase, iter, in, tailIn, tailOut, base, cnt, gTail, gPrims, nPrims>>

(* Fault: a barrier that waits for the draws but not for the stores. *)
AllDrew(b) == \A t \in Threads : Busy(t, tailIn[b]) => arrived[b][t] # "no"

(* Fault: the barrier is inside the branch of the threads that have a pair. *)
AllBusy(b) == \A t \in Threads : arrived[b][t] = "yes"

(* The barrier that ends a round; threads without work wait there from the start. *)
AllArrived(b) == \A t \in Threads : Busy(t, tailIn[b]) => arrived[b][t] = "yes"

(* What cub::BlockMergeSort may return: f with its first n elements, boxes
   along with ranges, in the order of their first edge. *)
Sorted(f, n) ==
  {s \in {[i \in Slots |-> IF i < n THEN f[p[i]] ELSE f[i]] :
            p \in Bijection(0 .. n - 1, 0 .. n - 1)} :
     \A i, j \in 0 .. n - 1 : i < j => s[i].lo <= s[j].lo}

(* Swap; leave the loop if no pair merged, else sort and reset the tail. *)
EndRound(b) ==
  /\ phase[b] = "merge"
  /\ AllArrived(b)
  /\ tailIn' = [tailIn EXCEPT ![b] = tailOut[b]]
  /\ out' = [out EXCEPT ![b] = in[b]]
  /\ arrived' = [arrived EXCEPT ![b] = [t \in Threads |-> "no"]]
  /\ \/ /\ tailOut[b] = tailIn[b]
        /\ in' = [in EXCEPT ![b] = out[b]]
        /\ tailOut' = [tailOut EXCEPT ![b] = tailIn[b]]
        /\ phase' = [phase EXCEPT ![b] = "reserve"]
        /\ UNCHANGED iter
     \/ /\ tailOut[b] # tailIn[b]
        /\ \E s \in Sorted(out[b], tailOut[b]) : in' = [in EXCEPT ![b] = s]
        /\ tailOut' = [tailOut EXCEPT ![b] = 0]
        /\ iter' = [iter EXCEPT ![b] = @ + 1]
        /\ phase' = [phase EXCEPT ![b] =
                       IF iter[b] + 1 = MaxIter THEN "reserve" ELSE "merge"]
  /\ UNCHANGED <<base, cnt, gTail, gPrims, nPrims>>

(* Fault: the block reserves room for all its threads. *)
ReserveBlockSize(b) ==
  /\ phase[b] = "reserve"
  /\ tailOut' = [tailOut EXCEPT ![b] = gTail]
  /\ gTail' = gTail + BlockSize
  /\ phase' = [phase EXCEPT ![b] = "write"]
  /\ UNCHANGED <<arrived, iter, in, out, tailIn, base, cnt, gPrims, nPrims>>

(* Thread 0 reserves global slots for the block: the result of the
   atomicAdd is handed to the other threads through *p_tail_out. *)
Reserve(b) ==
  /\ phase[b] = "reserve"
  /\ tailOut' = [tailOut EXCEPT ![b] = gTail]
  /\ gTail' = gTail + tailIn[b]
  /\ phase' = [phase EXCEPT ![b] = "write"]
  /\ UNCHANGED <<arrived, iter, in, out, tailIn, base, cnt, gPrims, nPrims>>

(* Thread t copies primitive t of the block to global memory. *)
Write(b, t) ==
  /\ phase[b] = "write"
  /\ t < tailIn[b]
  /\ arrived[b][t] = "no"
  /\ gPrims' = [gPrims EXCEPT ![tailOut[b] + t] = in[b][t]]
  /\ arrived' = [arrived EXCEPT ![b][t] = "yes"]
  /\ UNCHANGED <<phase, iter, in, out, tailIn, tailOut, base, cnt, gTail, nPrims>>

(* Fault: the host reads the tail once the blocks have reserved. *)
BlockReserved(b) == phase[b] = "write"

(* All threads of the block have left the kernel. *)
BlockDone(b) ==
  /\ phase[b] = "write"
  /\ \A t \in Threads : t < tailIn[b] => arrived[b][t] = "yes"

(* The host waits for the kernel, reads the tail and cuts the arrays. *)
Collect ==
  /\ nPrims = 0
  /\ \A b \in Blocks : BlockDone(b)
  /\ nPrims' = gTail
  /\ UNCHANGED <<blockVars, gTail, gPrims>>

Collected == nPrims > 0

(* Queries follow; nothing of this component moves any more. *)
Idle == Collected /\ UNCHANGED vars

BlockStep(b) ==
  \/ Load(b)
  \/ \E t \in Threads : Draw(b, t) \/ Store(b, t) \/ Write(b, t)
  \/ EndRound(b)
  \/ Reserve(b)

Next == Collect \/ Idle \/ \E b \in Blocks : BlockStep(b)

Spec == Init /\ [][Next]_vars

(* Resident threads advance and the host blocks in stream.Sync() until they end. *)
FairSpec == Spec /\ WF_vars(Collect) /\ \A b \in Blocks : WF_vars(BlockStep(b))
-----------------------------------------------------------------------------
(* In a round the slots drawn by different threads never overlap and stay in
   the shared arrays (assert(tail < block_size)); the global slots of blocks
   that reserved never overlap and stay in the global array (assert(i < ne)). *)
Reserved(b) == tailOut[b] .. tailOut[b] + tailIn[b] - 1

SlotsDisjoint ==
  \A b \in Blocks :
    /\ phase[b] = "merge" =>
         /\ tailOut[b] <= BlockSize
         /\ \A t, u \in Threads :
              (t # u /\ arrived[b][t] # "no" /\ arrived[b][u] # "no")
                 => Drawn(b, t) \cap Drawn(b, u) = {}
    /\ phase[b] = "write" =>
         /\ tailOut[b] + tailIn[b] <= gTail
         /\ \A c \in Blocks : (c # b /\ phase[c] = "write")
                 => Reserved(b) \cap Reserved(c) = {}

(* The two ranges of a pair always touch: the code's
   assert(range1.y == range2.x), which the sort has to restore every round. *)
PairsAdjacent ==
  \A b \in Blocks : phase[b] = "merge" =>
    \A t \in Threads : Paired(t, tailIn[b]) => in[b][2 * t].hi = in[b][2 * t + 1].lo

(* What the queries need from the arrays the host takes: every edge of the
   map is in the range of exactly one primitive, whose box encloses it. *)
CoverExact ==
  Collected =>
    \A e \in Edges : \E i \in 0 .. nPrims - 1 :
      /\ e \in EdgesOf(gPrims[i]) \cap gPrims[i].box
      /\ \A j \in 0 .. nPrims - 1 : e \in EdgesOf(gPrims[j]) => j = i

(* The kernel and the host together publish a partition of the edges. *)
Cover == INSTANCE EdgeCover WITH
  prims <- {[lo |-> p.lo, hi |-> p.hi] : p \in {gPrims[i] : i \in Edges} \ {Blank}},
  ready <- Collected

CoverSpec == Cover!Spec

(* The merge rounds end and the host gets its primitives: no thread of a
   block is left at a barrier the others have passed. *)
Termination == <>Collected
=============================================================================
