---------------------------- MODULE CrossingQueue ----------------------------
(***************************************************************************)
(* The line segment intersection query: one ray per edge of the query map  *)
(* is traced through the primitives of the base map; the intersection      *)
(* program loops over the edges behind each box the ray enters and appends *)
(* every pair that crosses to a queue all rays share, a fixed array with   *)
(* an atomic counter.  The host clears the counter, launches, reads the    *)
(* counter and has a second kernel compute the points of that many pairs.  *)
(*                                                                         *)
(* Three back ends: "rt" (core/lsi_rt.h, rt_lsi_custom.cu) appends one     *)
(* pair at a time; "lbvh" (core/lsi_lbvh.h) lets the threads of a warp     *)
(* that append together draw their slots at once; "vk" (IntersectEdge of   *)
(* vk/core/map_overlay_rt_ns.h, lsi_rt_ns.slang) stores only below the     *)
(* capacity.  Which edges cross is free; boxes without a crossing edge     *)
(* change nothing and are left out, and so is the point's arithmetic.      *)
(***************************************************************************)
EXTENDS Integers, Functions, FiniteSets

CONSTANTS
  NQ,        \* edges of the query map, one ray each
  NB,        \* edges of the base map
  Capacity,  \* slots of the queue
  Rounds,    \* how often a CUDA query is run: warm-up and repeats
  MaxFresh,  \* bound on what the memory of Vulkan's counter holds at first
  Modes      \* which of "rt", "lbvh", "vk" to consider

ASSUME NQAssumption == NQ \in Nat \ {0}
ASSUME NBAssumption == NB \in Nat \ {0}
ASSUME CapacityAssumption == Capacity \in Nat
ASSUME RoundsAssumption == Rounds \in Nat \ {0}
ASSUME MaxFreshAssumption == MaxFresh \in Nat
ASSUME ModesAssumption == Modes \subseteq {"rt", "lbvh", "vk"}

VARIABLES
  mode,      \* the back end
  qmap,      \* query_map_id
  crosses,   \* the pairs <<query eid, base eid>> intersect_test accepts
  prims,     \* eid_range: the edges behind each primitive
  fresh,     \* the counter once it was allocated
  host,      \* what the host does next
  round,     \* queries completed
  todo,      \* per ray: primitives its traversal has still to call
  left,      \* per ray: crossing edges its loop over eid_range has still to meet
  slot,      \* per ray: slot drawn and not yet stored to, or NoSlot
  counter,   \* *last_pos_, gXsectCounter[0]
  mem,       \* the array, with the memory behind it
  size       \* what the host read from the counter

inputs == <<mode, qmap, crosses, prims, fresh>>
vars == <<inputs, host, round, todo, left, slot, counter, mem, size>>

Rays == 0 .. NQ - 1
BaseEdges == 0 .. NB - 1
Pairs == Rays \X BaseEdges
NoSlot == -1

(* All the pairs there can be bound how far past the array a store may go. *)
Slots == 0 .. MaxFresh + NQ * NB - 1

(* eid[query_map_id] and eid[1 - query_map_id], and whether x, y are set. *)
Xsect == [eid : [{0, 1} -> Nat], point : BOOLEAN]
Garbage == [eid |-> [m \in {0, 1} |-> NQ + NB], point |-> FALSE]
Record(r, e, computed) ==
  [eid |-> [m \in {0, 1} |-> IF m = qmap THEN r ELSE e], point |-> computed]

(* Adjacent ranges that together are the base map: see EdgeCover. *)
Cuts == SUBSET (1 .. NB - 1)
Ranges(C) == {{e \in BaseEdges : lo <= e /\ \A c \in C : (c > lo) => e < c} : lo \in C \cup {0}}

TypeOK ==
  /\ mode \in Modes
  /\ qmap \in {0, 1}
  /\ crosses \subseteq Pairs
  /\ prims \subseteq SUBSET BaseEdges
  /\ fresh \in 0 .. MaxFresh
  /\ host \in {"clear", "launch", "wait", "finalize", "done"}
  /\ round \in 0 .. Rounds
  /\ todo \in [Rays -> SUBSET prims]
  /\ left \in [Rays -> SUBSET BaseEdges]
  /\ slot \in [Rays -> {NoSlot} \cup Slots]
  /\ counter \in 0 .. MaxFresh + NQ * NB
  /\ mem \in [Slots -> Xsect]
  /\ size \in 0 .. MaxFresh + NQ * NB

(* Queue::Init sets the counter to zero; VkDeviceBuf::Init only allocates it,
   and IntersectEdge launches on what it holds. *)
Init ==
  /\ mode \in Modes
  /\ qmap \in {0, 1}
  /\ crosses \in SUBSET Pairs
  /\ \E C \in Cuts : prims = Ranges(C)
  /\ host = IF mode = "vk" THEN "launch" ELSE "clear"
  /\ round = 0
  /\ todo = [r \in Rays |-> {}]
  /\ left = [r \in Rays |-> {}]
  /\ slot = [r \in Rays |-> NoSlot]
  /\ fresh \in IF mode = "vk" THEN 0 .. MaxFresh ELSE {0}
  /\ counter = fresh
  /\ mem = [i \in Slots |-> Garbage]
  /\ size = 0

(* Fault: the queue is not cleared. *)
ClearNothing ==
  /\ host = "clear"
  /\ host' = "launch"
  /\ UNCHANGED <<inputs, round, todo, left, slot, counter, mem, size>>

(* xsects_queue.Clear(stream), ordered before the launch by the stream. *)
Clear ==
  /\ host = "clear"
  /\ counter' = 0
  /\ host' = "launch"
  /\ UNCHANGED <<inputs, round, todo, left, slot, mem, size>>

Crossed(r) == {e \in BaseEdges : <<r, e>> \in crosses}

(* Render / RunRTPass: one ray per query edge. *)
Launch ==
  /\ host = "launch"
  /\ todo' = [r \in Rays |-> {p \in prims : p \cap Crossed(r) # {}}]
  /\ host' = "wait"
  /\ UNCHANGED <<inputs, round, left, slot, counter, mem, size>>

(* The traversal calls the intersection program for one more box. *)
Enter(r) ==
  /\ slot[r] = NoSlot
  /\ left[r] = {}
  /\ \E p \in todo[r] :
       /\ todo' = [todo EXCEPT ![r] = @ \ {p}]
       /\ left' = [left EXCEPT ![r] = p \cap Crossed(r)]
  /\ UNCHANGED <<inputs, host, round, slot, counter, mem, size>>

Appending(r) == slot[r] = NoSlot /\ left[r] # {}

(* Rays that may be coalesced: only AppendWarp draws for more than one. *)
Groups == {G \in SUBSET Rays : /\ G # {}
                               /\ mode # "lbvh" => Cardinality(G) = 1}

(* Fault: the leader adds one for the whole group. *)
DrawLeader(G) ==
  /\ \A r \in G : Appending(r)
  /\ \E rank \in Bijection(G, 0 .. Cardinality(G) - 1) :
       slot' = [r \in Rays |-> IF r \in G THEN counter + rank[r] ELSE slot[r]]
  /\ counter' = counter + 1
  /\ UNCHANGED <<inputs, host, round, todo, left, mem, size>>

(* atomicAdd on the counter, for one ray or for a coalesced group. *)
Draw(G) ==
  /\ \A r \in G : Appending(r)
  /\ \E rank \in Bijection(G, 0 .. Cardinality(G) - 1) :
       slot' = [r \in Rays |-> IF r \in G THEN counter + rank[r] ELSE slot[r]]
  /\ counter' = counter + Cardinality(G)
  /\ UNCHANGED <<inputs, host, round, todo, left, mem, size>>

(* The loop runs upwards: the crossing edge the ray is at. *)
Current(r) == CHOOSE e \in left[r] : \A f \in left[r] : e <= f

(* Fault: an off-by-one in the test of the capacity. *)
StoresPast(i) == mode = "vk" => i <= Capacity

(* Only the Vulkan shader tests the capacity; in CUDA it is an assert. *)
Stores(i) == mode = "vk" => i < Capacity

(* Fault: the eids in the order query, base whatever query_map_id is. *)
StoreQueryFirst(r) ==
  /\ slot[r] # NoSlot
  /\ mem' = IF Stores(slot[r])
            THEN [mem EXCEPT ![slot[r]] =
                    [eid |-> [m \in {0, 1} |-> IF m = 0 THEN r ELSE Current(r)],
                     point |-> mode # "rt"]]
            ELSE mem
  /\ slot' = [slot EXCEPT ![r] = NoSlot]
  /\ left' = [left EXCEPT ![r] = @ \ {Current(r)}]
  /\ UNCHANGED <<inputs, host, round, todo, counter, size>>

(* data_[allocation] = item; the loop goes on with the next edge. *)
Store(r) ==
  /\ slot[r] # NoSlot
  /\ mem' = IF Stores(slot[r])
            THEN [mem EXCEPT ![slot[r]] = Record(r, Current(r), mode # "rt")]
            ELSE mem
  /\ slot' = [slot EXCEPT ![r] = NoSlot]
  /\ left' = [left EXCEPT ![r] = @ \ {Current(r)}]
  /\ UNCHANGED <<inputs, host, round, todo, counter, size>>

(* Every ray has been traced to its end. *)
RaysDone == \A r \in Rays : todo[r] = {} /\ left[r] = {} /\ slot[r] = NoSlot

(* size(stream), or the read-back after the pass that waits for its fence. *)
ReadSize ==
  /\ host = "wait"
  /\ RaysDone
  /\ size' = counter
  /\ host' = "finalize"
  /\ UNCHANGED <<inputs, round, todo, left, slot, counter, mem>>

(* The second kernel computes the points ("lbvh" already has); then the
   CUDA program may run the query again, and Vulkan goes on with the overlay. *)
Finalize ==
  /\ host = "finalize"
  /\ mem' = [i \in Slots |-> IF i < size /\ Stores(i) THEN [mem[i] EXCEPT !.point = TRUE]
                                                     ELSE mem[i]]
  /\ round' = round + 1
  /\ host' = IF mode = "vk" \/ round + 1 = Rounds THEN "done" ELSE "clear"
  /\ UNCHANGED <<inputs, todo, left, slot, counter, size>>

(* The crossings have been handed on. *)
Idle == host = "done" /\ UNCHANGED vars

RayStep(r) == Enter(r) \/ Store(r) \/ \E G \in Groups : r \in G /\ Draw(G)

HostStep == Clear \/ Launch \/ ReadSize \/ Finalize

Next == HostStep \/ Idle \/ \E r \in Rays : RayStep(r)

Spec == Init /\ [][Next]_vars
-----------------------------------------------------------------------------
(* Every pair that crosses has a slot of the array. *)
Fits == Cardinality(crosses) <= Capacity

(* The launch starts from a counter of zero: Vulkan has to find it so. *)
FromZero == fresh = 0

(* The host's result after each query: each crossing once, the query's edge
   in the column of the query map, with its point; whatever order the rays
   ran in and whatever an earlier query left in the array. *)
ResultExact ==
  (host \in {"done", "clear"} /\ round > 0 /\ Fits /\ FromZero) =>
    /\ size = Cardinality(crosses)
    /\ {mem[i] : i \in 0 .. size - 1} = {Record(p[1], p[2], TRUE) : p \in crosses}

(* A slot a ray drew and has not stored to yet is below the counter, so that
   nobody can draw it again, and no other ray holds it: the atomicAdd keeps
   the crossings of different rays from overwriting each other. *)
SlotsPrivate ==
  \A r, s \in Rays : (slot[r] # NoSlot) =>
    /\ slot[r] < counter
    /\ (r # s) => slot[r] # slot[s]

(* A store never leaves the array when the crossings fit, and in Vulkan not
   even when they do not. *)
InBounds ==
  (Fits \/ mode = "vk") => \A i \in Slots : i >= Capacity => mem[i] = Garbage

(* The number the host reads is the number of crossings even when the queue
   was too small: with it the caller could notice the loss. *)
LossVisible == (host = "finalize" /\ FromZero) => size = Cardinality(crosses)

(* At the limit of the queue, and beyond: Vulkan drops what does not fit, CUDA
   stores behind the array, and both report the full number. *)
LimitKept == InBounds /\ LossVisible
=============================================================================
