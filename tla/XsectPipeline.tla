--------------------------- MODULE XsectPipeline ---------------------------
(***************************************************************************)
(* ComputeOutputPolygons: the crossings of the two maps cut their edges    *)
(* into pieces, and each piece between two crossings gets the polygon of   *)
(* the other map that its middle is in.  For each map in turn the          *)
(* crossings are sorted by edge, the edges are indexed, one thread per     *)
(* edge sorts its crossings along the edge and stores the midpoints, a     *)
(* point query locates them, and one thread per edge assigns the answers.  *)
(* Programs: "rt" (also native) and "lbvh", which sort and store in one    *)
(* kernel; "grid", whose threads find their range, sort and locate without *)
(* an index; "vk", which sorts stably (RadixSort) and has a kernel for     *)
(* each step, the sort along the edge being a quicksort with a stack.      *)
(*                                                                         *)
(* A crossing is a pair of edges, its place on an edge is a rank, and the  *)
(* polygon that the query finds in map m for the middle of crossings x, y  *)
(* is <<m, x, y>>: nothing else can stand for it.                          *)
(***************************************************************************)
EXTENDS Integers, FiniteSets, Sequences, SequencesExt, Functions, PowersOfTwo

CONSTANT
  Inputs    \* program; queue: the crossings as they were found;
            \* rank: per map, the place of each along its edge

Maps == {0, 1}

(* Two edges cross at most once, and each crossing is queued once. *)
ASSUME InputsAssumption ==
  \A in \in Inputs :
    /\ in.program \in {"rt", "lbvh", "grid", "vk"}
    /\ in.queue \in Seq(Nat \X Nat) /\ Cardinality(Range(in.queue)) = Len(in.queue)
    /\ \A m \in Maps : \A x \in Range(in.queue) : in.rank[m][x] \in Nat

VARIABLES
  input,    \* one of Inputs: the program, its xsects and where they are
  todo,     \* maps that are still to be done
  phase,    \* for the first of them
  done,     \* groups whose thread has ended its kernel
  xs,       \* xsect_edges_sorted
  uniq,     \* unique_eids
  range,    \* per group: its first slot and the one behind its last
  cur,      \* per group: the range the quicksort is at
  stack,    \* and the ranges it has put off
  mids,     \* mid_points
  polys,    \* polygons of the midpoints
  result    \* xsect_edges_sorted_[im]

sortVars == <<cur, stack>>
vars == <<input, todo, phase, done, xs, uniq, range, sortVars, mids, polys, result>>

DontKnow == <<>>   \* mid_point_polygon_id as the crossing was found with it
Blank == <<>>      \* what is in a midpoint nobody has stored

program == input.program
queue == input.queue
rank == input.rank
n == Len(queue)
im == Head(todo)
Slots == 0 .. n - 1
Groups == DOMAIN uniq

Eid(m, x) == IF m = 0 THEN x[1] ELSE x[2]
EidAt(i) == Eid(im, xs[i].x)

Init ==
  /\ input \in Inputs
  /\ todo = <<0, 1>>
  /\ phase = "sort"
  /\ done = {}
  /\ xs = <<>> /\ uniq = <<>> /\ range = <<>>
  /\ cur = <<>> /\ stack = <<>>
  /\ mids = <<>> /\ polys = <<>>
  /\ result = [m \in Maps |-> <<>>]

Go(p) == phase' = p /\ done' = {}

(* The crossings in an order by edge; thrust::sort need not be stable. *)
QueueEid(k) == Eid(im, queue[k + 1])
ByEdge(f) == \A i, j \in Slots : i < j => QueueEid(f[i]) <= QueueEid(f[j])
Stable(f) == \A i, j \in Slots : i < j /\ QueueEid(f[i]) = QueueEid(f[j]) => f[i] < f[j]

SortByEdge ==
  /\ todo # <<>> /\ phase = "sort"
  /\ \E f \in Bijection(Slots, Slots) :
       /\ ByEdge(f)
       /\ program = "vk" => Stable(f)
       /\ xs' = [i \in Slots |-> [x |-> queue[f[i] + 1], mid |-> DontKnow]]
  /\ Go("unique")
  /\ UNCHANGED <<input, todo, uniq, range, sortVars, mids, polys, result>>

(* thrust::unique, or mark, scan, scatter: the first of each run is kept, at
   the place that the number of runs before it gives. *)
RunStarts == {i \in Slots : i = 0 \/ EidAt(i) # EidAt(i - 1)}
RunStart(g) == CHOOSE i \in RunStarts : Cardinality({j \in RunStarts : j < i}) = g

Dedup ==
  /\ phase = "unique"
  /\ uniq' = [g \in 0 .. Cardinality(RunStarts) - 1 |-> EidAt(RunStart(g))]
  /\ range' = <<>>
  /\ Go(IF program = "grid" THEN "groups" ELSE "index")
  /\ UNCHANGED <<input, todo, xs, sortVars, mids, polys, result>>

(* lower_bound and upper_bound halve an array sorted by edge.  It stays sorted
   by edge while a thread moves the crossings of its own edge. *)
LowerBound(e) == Cardinality({i \in Slots : EidAt(i) < e})
UpperBound(e) == Cardinality({i \in Slots : EidAt(i) <= e})
Counts == [g \in Groups |-> UpperBound(uniq[g]) - LowerBound(uniq[g])]

(* Fault: a midpoint for each crossing. *)
MidOfEach(groups) == n

(* Each edge has one midpoint less than it has crossings. *)
NMidPoints(groups) == n - groups

BuildIndex ==
  /\ phase = "index"
  /\ range' = [g \in Groups |-> <<SumFunctionOnSet(Counts, 0 .. g - 1),
                                  SumFunctionOnSet(Counts, 0 .. g)>>]
  /\ mids' = [k \in 0 .. NMidPoints(Cardinality(Groups)) - 1 |-> Blank]
  /\ Go(IF program = "vk" /\ mids' = <<>> THEN "assigned" ELSE "groups")
  /\ cur' = [g \in Groups |-> <<0, 0>>]
  /\ stack' = [g \in Groups |-> IF Counts[g] > 1
                                THEN <<<<range'[g][1], range'[g][2] - 1>>>> ELSE <<>>]
  /\ UNCHANGED <<input, todo, xs, uniq, polys, result>>

(* "grid" has no index: thread g looks for its range while others sort theirs. *)
FindRange(g) ==
  /\ phase = "groups" /\ program = "grid"
  /\ g \notin DOMAIN range
  /\ range' = [h \in DOMAIN range \cup {g} |->
                 IF h = g THEN <<LowerBound(uniq[g]), UpperBound(uniq[g])>> ELSE range[h]]
  /\ UNCHANGED <<input, todo, phase, done, xs, uniq, sortVars, mids, polys, result>>

NXsect(g) == range[g][2] - range[g][1]
GroupSlots(g) == range[g][1] .. range[g][2] - 1
(* The slots of group g that another of its slots follows. *)
PieceSlots(g) == range[g][1] .. range[g][2] - 2

Distance(r) == rank[im][r.x]

(* Fault: crossings at one place keep the order they have. *)
LessByDistance(r, s) == Distance(r) < Distance(s)

(* The order along an edge.  In "rt", native and "vk" a tie is decided by the
   other edge, in "lbvh" and "grid" it is not. *)
Less(r, s) ==
  \/ Distance(r) < Distance(s)
  \/ /\ program \in {"rt", "vk"}
     /\ Distance(r) = Distance(s)
     /\ Eid(1 - im, r.x) < Eid(1 - im, s.x)

(* What sorting slots s may leave in xs. *)
SortedSlots(s) ==
  {[i \in Slots |-> IF i \in s THEN xs[f[i]] ELSE xs[i]] :
     f \in {f \in Bijection(s, s) : \A i, j \in s : i < j => ~Less(xs[f[j]], xs[f[i]])}}

MidPoint(a, i) == <<a[i].x, a[i + 1].x>>
PolygonOf(p) == <<1 - im>> \o p

(* Fault: the midpoint has the slot of its crossing. *)
SlotOfCrossing(g, i) == i

(* The slot of the midpoint behind crossing i of group g: the groups before it
   have one midpoint less than crossings each. *)
MidSlot(g, i) == i - g

(* mids, with the midpoints of group g of array a stored. *)
WithMids(g, a) ==
  [k \in DOMAIN mids |->
     IF \E i \in PieceSlots(g) : MidSlot(g, i) = k
     THEN MidPoint(a, CHOOSE i \in PieceSlots(g) : MidSlot(g, i) = k) ELSE mids[k]]

(* "rt", "lbvh": thread g sorts its crossings and stores their midpoints. *)
SortAndStore(g) ==
  /\ phase = "groups" /\ program \in {"rt", "lbvh"}
  /\ g \notin done
  /\ xs' \in SortedSlots(GroupSlots(g))
  /\ mids' = WithMids(g, xs')
  /\ done' = done \cup {g}
  /\ UNCHANGED <<input, todo, phase, uniq, range, sortVars, polys, result>>

(* "grid": thread g sorts its crossings and walks up the cells from each midpoint. *)
SortAndLocate(g) ==
  /\ phase = "groups" /\ program = "grid"
  /\ g \in DOMAIN range \ done
  /\ \E a \in SortedSlots(GroupSlots(g)) :
       xs' = [i \in Slots |-> IF i \in PieceSlots(g)
                              THEN [x |-> a[i].x, mid |-> PolygonOf(MidPoint(a, i))] ELSE a[i]]
  /\ done' = done \cup {g}
  /\ UNCHANGED <<input, todo, phase, uniq, range, sortVars, mids, polys, result>>

-----------------------------------------------------------------------------
(* "vk": algo_midpoint_group_quicksort, a partition at a time. *)
Busy(g) == cur[g][1] < cur[g][2]

Pop(g) ==
  /\ phase = "groups" /\ program = "vk"
  /\ ~Busy(g) /\ stack[g] # <<>>
  /\ cur' = [cur EXCEPT ![g] = Last(stack[g])]
  /\ stack' = [stack EXCEPT ![g] = Front(@)]
  /\ UNCHANGED <<input, todo, phase, done, xs, uniq, range, mids, polys, result>>

Swap(a, i, j) == [a EXCEPT ![i] = a[j], ![j] = a[i]]

(* partitionRange: smaller records move to the front, the pivot behind them;
   step[k] is the array and where the next one goes after k records. *)
Partitioned(a, lo, hi) ==
  LET step[k \in 0 .. hi - lo] ==
        IF k = 0 THEN [a |-> a, i |-> lo]
        ELSE IF Less(step[k - 1].a[lo + k - 1], a[hi])
             THEN [a |-> Swap(step[k - 1].a, step[k - 1].i, lo + k - 1), i |-> step[k - 1].i + 1]
             ELSE step[k - 1]
      moved == step[hi - lo]
  IN [a |-> Swap(moved.a, moved.i, hi), p |-> moved.i]

PutOff(s, lo, hi) == IF hi > lo THEN Append(s, <<lo, hi>>) ELSE s

(* Fault: sides of one record are put off too. *)
PutOffAll(lo, p, hi, s) ==
  IF p - lo > hi - p THEN [c |-> <<p + 1, hi>>, s |-> Append(s, <<lo, p - 1>>)]
                     ELSE [c |-> <<lo, p - 1>>, s |-> Append(s, <<p + 1, hi>>)]

(* Fault: the left side is put off with its pivot. *)
KeepPivot(lo, p, hi, s) ==
  IF p - lo > hi - p THEN [c |-> <<p + 1, hi>>, s |-> PutOff(s, lo, p)]
                     ELSE [c |-> <<lo, p - 1>>, s |-> PutOff(s, p + 1, hi)]

(* The larger side is put off, the other one is next; at slot zero the left
   side is empty, and the loop is left before hi wraps around. *)
Sides(lo, p, hi, s) ==
  IF p - lo > hi - p THEN [c |-> <<p + 1, hi>>, s |-> PutOff(s, lo, p - 1)]
  ELSE [c |-> IF p = 0 THEN <<0, 0>> ELSE <<lo, p - 1>>, s |-> PutOff(s, p + 1, hi)]

PartitionRange(g) ==
  LET lo == cur[g][1]
      hi == cur[g][2]
      part == Partitioned(xs, lo, hi)
      sides == Sides(lo, part.p, hi, stack[g]) IN
  /\ phase = "groups" /\ program = "vk"
  /\ Busy(g)
  /\ xs' = part.a
  /\ cur' = [cur EXCEPT ![g] = sides.c]
  /\ stack' = [stack EXCEPT ![g] = sides.s]
  /\ UNCHANGED <<input, todo, phase, done, uniq, range, mids, polys, result>>

(* The kernel ends with its last thread. *)
SortingDone ==
  /\ phase = "groups" /\ program = "vk"
  /\ \A g \in Groups : ~Busy(g) /\ stack[g] = <<>>
  /\ Go("mids")
  /\ UNCHANGED <<input, todo, xs, uniq, range, sortVars, mids, polys, result>>

(* algo_midpoint_generate_per_group, thread g. *)
StoreMids(g) ==
  /\ phase = "mids" /\ g \notin done
  /\ mids' = WithMids(g, xs)
  /\ done' = done \cup {g}
  /\ UNCHANGED <<input, todo, phase, xs, uniq, range, sortVars, polys, result>>
-----------------------------------------------------------------------------
(* The point query in the structure of the other map. *)
QueryMids ==
  /\ done = Groups
  /\ phase = "mids" \/ (phase = "groups" /\ program \in {"rt", "lbvh"})
  /\ polys' = [k \in DOMAIN mids |-> PolygonOf(mids[k])]
  /\ Go("assign")
  /\ UNCHANGED <<input, todo, xs, uniq, range, sortVars, mids, result>>

(* Thread g assigns the answers to its crossings, the last one excepted. *)
Assign(g) ==
  /\ phase = "assign" /\ g \notin done
  /\ xs' = [i \in Slots |-> IF i \in PieceSlots(g)
                            THEN [x |-> xs[i].x, mid |-> polys[MidSlot(g, i)]] ELSE xs[i]]
  /\ done' = done \cup {g}
  /\ UNCHANGED <<input, todo, phase, uniq, range, sortVars, mids, polys, result>>

(* The map is done; Vulkan reads its buffer back. *)
FinishMap ==
  /\ \/ phase = "assigned"
     \/ phase = "assign" /\ done = Groups
     \/ phase = "groups" /\ program = "grid" /\ done = Groups
  /\ result' = [result EXCEPT ![im] = xs]
  /\ todo' = Tail(todo)
  /\ Go("sort")
  /\ UNCHANGED <<input, xs, uniq, range, sortVars, mids, polys>>

Thread(g) ==
  \/ FindRange(g) \/ SortAndStore(g) \/ SortAndLocate(g)
  \/ Pop(g) \/ PartitionRange(g) \/ StoreMids(g) \/ Assign(g)

Step ==
  \/ SortByEdge \/ Dedup \/ BuildIndex \/ SortingDone \/ QueryMids \/ FinishMap
  \/ \E g \in Groups : Thread(g)

Done == todo = <<>> /\ UNCHANGED vars

Next == Step \/ Done

Spec == Init /\ [][Next]_vars
FairSpec == Spec /\ WF_vars(Step)
-----------------------------------------------------------------------------
Crossings == {queue[i] : i \in 1 .. n}

(* Types; the buffer of midpoints has room for one midpoint less than there
   are crossings, at most. *)
TypeOK ==
  /\ phase \in {"sort", "unique", "index", "groups", "mids", "assign", "assigned"}
  /\ done \subseteq Groups
  /\ \A i \in DOMAIN xs : i \in Slots /\ xs[i].x \in Crossings
  /\ \A g \in DOMAIN range : range[g][1] < range[g][2] /\ range[g][2] <= n
  /\ DOMAIN mids \subseteq 0 .. n - 2
  /\ \A g \in DOMAIN stack : \A r \in Range(stack[g]) : r[1] < r[2] /\ r[2] < n

SameEdge(m, a, i) == i + 1 \in Slots /\ Eid(m, a[i].x) = Eid(m, a[i + 1].x)

(* ComputeOutputPolygons leaves, for each map, every crossing once, by edge and
   along its edge, and with each the polygon that the midpoint to the next
   crossing of that very edge is in; the last of an edge has none.  No midpoint
   is queried that nobody has stored. *)
PiecesExact ==
  /\ phase = "assign" => \A k \in DOMAIN mids : mids[k] # Blank
  /\ \A m \in Maps \ Range(todo) : LET a == result[m] IN
       /\ DOMAIN a = Slots
       /\ {a[i].x : i \in Slots} = Crossings
       /\ \A i, j \in Slots : i < j =>
            \/ Eid(m, a[i].x) < Eid(m, a[j].x)
            \/ Eid(m, a[i].x) = Eid(m, a[j].x) /\ rank[m][a[i].x] <= rank[m][a[j].x]
       /\ \A i \in Slots : a[i].mid = IF SameEdge(m, a, i) THEN <<1 - m, a[i].x, a[i + 1].x>>
                                                           ELSE DontKnow

(* The "Jiaxin Patch" of the OptiX program and lessXsect of the Vulkan one:
   the order does not depend on the order in which the crossings were found,
   even where several are at one place. *)
OrderReproducible ==
  program \in {"rt", "vk"} =>
    \A m \in Maps \ Range(todo) : LET a == result[m] IN
      \A i \in Slots : SameEdge(m, a, i) =>
        \/ rank[m][a[i].x] < rank[m][a[i + 1].x]
        \/ /\ rank[m][a[i].x] = rank[m][a[i + 1].x]
           /\ Eid(1 - m, a[i].x) < Eid(1 - m, a[i + 1].x)

(* As the larger side is put off, each range below the top is at least as
   large as all that was put off after it: the quicksort's stack of 64 is
   never full, whatever the order of the crossings. *)
StackBounded ==
  \A g \in DOMAIN stack : Len(stack[g]) > 1 => Pow2[Len(stack[g]) + 1] <= NXsect(g) + 1

(* Both maps are done in the end: no thread's quicksort goes on for ever. *)
Termination == <>(todo = <<>>)
=============================================================================
