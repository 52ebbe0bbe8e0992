----------------------------- MODULE RadixSort -----------------------------
(***************************************************************************)
(* RadixSortXsectsByQueryEid (vk/algo/radix_sort.h): the Vulkan program    *)
(* sorts the crossings by the edge of one map, one digit per pass.  A pass *)
(* has three kernels: upsweep counts the digits of each partition, spine   *)
(* turns the counts into positions, downsweep ranks the keys of a          *)
(* partition in shared memory and moves keys and values from one pair of   *)
(* buffers to the other.  Values are indices into the unsorted crossings,  *)
(* which the last kernel gathers.                                          *)
(*                                                                         *)
(* Downsweep is modelled wave by wave between two barriers: the lanes of a *)
(* wave run in step, as its ballots and prefix sums need.  In upsweep and  *)
(* spine the groups meet only in atomic adds, or in columns of their own,  *)
(* and a group is one step.  The memory of new buffers is not cleared.     *)
(***************************************************************************)
EXTENDS Integers, FiniteSets, Functions, TLC

CONSTANTS
  Radix,              \* RADIX, 256 in the code
  PassCount,          \* kPassCount, 4
  LaneCount,          \* WaveGetLaneCount(), 32 or 64
  WaveCount,          \* waves of a group: WORKGROUP_SIZE / laneCount
  PartitionDivision,  \* PARTITION_DIVISION, 8: keys per thread
  Inputs              \* the arrays of keys that are tried

GroupSize     == LaneCount * WaveCount
PartitionSize == PartitionDivision * GroupSize

(* Sizes of the two upper levels of the scan in downsweep. *)
Sums1 == (Radix * WaveCount) \div LaneCount
Sums2 == IF Sums1 < LaneCount THEN 1 ELSE Sums1 \div LaneCount

Digits == 0 .. Radix - 1
MaxKey == Radix ^ PassCount - 1

(* What the sizes of the shared arrays and the scan in three levels need. *)
ASSUME LayoutAssumption ==
  /\ {Radix, PassCount, LaneCount, WaveCount, PartitionDivision} \subseteq Nat \ {0}
  /\ Radix <= GroupSize
  /\ Radix * WaveCount <= PartitionSize
  /\ (Radix * WaveCount) % LaneCount = 0
  /\ Sums1 + Sums2 <= Radix
  /\ Sums2 <= LaneCount
  /\ PassCount % 2 = 0

ASSUME InputsAssumption ==
  \A a \in Inputs : a \in [0 .. Cardinality(DOMAIN a) - 1 -> 0 .. MaxKey]

VARIABLES
  src,        \* the keys of the unsorted crossings
  junk,       \* what memory that was not written holds
  stage,      \* the kernel that runs
  done,       \* its groups that have ended
  pass,       \* the digit
  keys, idx,  \* ping (0) and pong (1)
  globalHist, \* per pass and digit
  partHist,   \* per partition and digit
  wg,         \* per group of downsweep: shared memory and place of its waves
  out         \* dst_sorted_xsects_buf, by index of the crossing

vars == <<src, junk, stage, done, pass, keys, idx, globalHist, partHist, wg, out>>

n == Cardinality(DOMAIN src)
Cells == 0 .. n - 1
Partitions == 0 .. ((n + PartitionSize - 1) \div PartitionSize) - 1
Waves   == 0 .. WaveCount - 1
Threads == 0 .. GroupSize - 1
Items   == 0 .. PartitionDivision - 1
ThreadsOf(w) == w * LaneCount .. (w + 1) * LaneCount - 1
ItemsOf(w) == ThreadsOf(w) \X Items

From == pass % 2
To   == 1 - From

DigitOf(key) == (key \div Radix ^ pass) % Radix

Init ==
  /\ src \in Inputs
  /\ junk \in {0, 1}
  /\ stage = IF n = 0 THEN "returned" ELSE "extract"
  /\ done = {}
  /\ pass = 0
  /\ keys = [b \in {0, 1} |-> [i \in Cells |-> junk]]
  /\ idx = [b \in {0, 1} |-> [i \in Cells |-> junk]]
  /\ globalHist = [p \in 0 .. PassCount - 1 |-> [d \in Digits |-> junk]]
  /\ partHist = [g \in Partitions |-> [d \in Digits |-> junk]]
  /\ wg = <<>>
  /\ out = <<>>

(* Fault: the histograms are those of the memory, or of an earlier sort. *)
ExtractOnly ==
  /\ stage = "extract"
  /\ keys' = [keys EXCEPT ![0] = src]
  /\ idx' = [idx EXCEPT ![0] = [i \in Cells |-> i]]
  /\ stage' = "upsweep"
  /\ UNCHANGED <<src, junk, done, pass, globalHist, partHist, wg, out>>

(* extract_keys, and the one clearing of the histograms of all passes. *)
Extract ==
  /\ stage = "extract"
  /\ keys' = [keys EXCEPT ![0] = src]
  /\ idx' = [idx EXCEPT ![0] = [i \in Cells |-> i]]
  /\ globalHist' = [p \in 0 .. PassCount - 1 |-> [d \in Digits |-> 0]]
  /\ stage' = "upsweep"
  /\ UNCHANGED <<src, junk, done, pass, partHist, wg, out>>

(* The group's part of a kernel is over; after the last comes a barrier. *)
EndGroup(g, groups, next) ==
  IF done \cup {g} = groups THEN done' = {} /\ stage' = next
                            ELSE done' = done \cup {g} /\ UNCHANGED stage

(* A cell of a partition, past the end too: there the key is 0xffffffff. *)
KeyAt(c) == IF c \in Cells THEN keys[From][c] ELSE MaxKey
ValueAt(c) == IF c \in Cells THEN idx[From][c] ELSE 0

CellsOf(g) == g * PartitionSize .. (g + 1) * PartitionSize - 1
Count(cells, d) == Cardinality({c \in cells : DigitOf(KeyAt(c)) = d})

(* Group g counts its digits, stores the counts and adds them to all. *)
Upsweep(g) ==
  /\ stage = "upsweep"
  /\ g \notin done
  /\ partHist' = [partHist EXCEPT ![g] = [d \in Digits |-> Count(CellsOf(g), d)]]
  /\ globalHist' = [globalHist EXCEPT ![pass] = [d \in Digits |-> @[d] + Count(CellsOf(g), d)]]
  /\ EndGroup(g, Partitions, "spine")
  /\ UNCHANGED <<src, junk, pass, keys, idx, wg, out>>

(* Prefix sums over a function. *)
Before(f, i) == SumFunctionOnSet(f, {j \in DOMAIN f : j < i})

(* Fault: shared memory for one key per thread. *)
SmallGroup ==
  [pc   |-> [w \in Waves |-> 0],
   hist |-> [c \in 0 .. GroupSize - 1 |-> junk],
   sum  |-> [c \in Digits |-> junk],
   off  |-> [t \in Threads |-> [i \in Items |-> 0]],
   dst  |-> [t \in Threads |-> [i \in Items |-> 0]]]

(* A group of downsweep before its first barrier. *)
FreshGroup ==
  [pc   |-> [w \in Waves |-> 0],
   hist |-> [c \in 0 .. PartitionSize - 1 |-> junk],   \* localHistogram
   sum  |-> [c \in Digits |-> junk],                   \* localHistogramSum
   off  |-> [t \in Threads |-> [i \in Items |-> 0]],   \* localOffsets
   dst  |-> [t \in Threads |-> [i \in Items |-> 0]]]   \* localKeys, in the end

(* Group d scans the counts of digit d over the partitions; group 0 also
   scans the counts of all keys over the digits. *)
Spine(d) ==
  /\ stage = "spine"
  /\ d \notin done
  /\ partHist' = [g \in Partitions |->
       [partHist[g] EXCEPT ![d] = Before([h \in Partitions |-> partHist[h][d]], g)]]
  /\ globalHist' = IF d # 0 THEN globalHist
       ELSE [globalHist EXCEPT ![pass] = [e \in Digits |-> Before(@, e)]]
  /\ EndGroup(d, Digits, "downsweep")
  /\ wg' = IF stage' = "spine" THEN wg ELSE [g \in Partitions |-> FreshGroup]
  /\ UNCHANGED <<src, junk, pass, keys, idx, out>>

-----------------------------------------------------------------------------
(* Downsweep.  The cell that item i of thread t of group g reads. *)
WaveOf(t) == t \div LaneCount
ItemCell(g, t, i) ==
  g * PartitionSize + PartitionDivision * LaneCount * WaveOf(t) + i * LaneCount + (t % LaneCount)
ItemDigit(g, t, i) == DigitOf(KeyAt(ItemCell(g, t, i)))

(* The threads of its wave whose item i has the same digit, by ballots. *)
Peers(g, t, i) == {u \in ThreadsOf(WaveOf(t)) : ItemDigit(g, u, i) = ItemDigit(g, t, i)}
WaveOffset(g, t, i) == Cardinality({u \in Peers(g, t, i) : u < t})

(* The cells of an array of size m that the threads of wave w go through. *)
Strided(w, m) == {c \in 0 .. m - 1 : WaveOf(c % GroupSize) = w}
HistCells(w)  == Strided(w, Radix * WaveCount)
Few(w, m)     == {t \in ThreadsOf(w) : t < m}
Chunk(c)      == c \div LaneCount

(* WavePrefixSum and WaveActiveSum over the lanes with cells s. *)
WavePrefix(f, s, c) == SumFunctionOnSet(f, {e \in s : Chunk(e) = Chunk(c) /\ e < c})
WaveSum(f, s, k)    == SumFunctionOnSet(f, {e \in s : Chunk(e) = k})

Steps == <<"clear", "rank", "waveSums", "groupSums", "topSums", "addTop", "addGroup">>
Place(i)   == Cardinality(DOMAIN Steps) + 2 * i
Advance(i) == Place(i) + 1
Bases      == Place(PartitionDivision)
Ended      == Bases + 5

(* Wave w of group g has reached step s, and all waves the barrier before. *)
At(g, w, s) ==
  /\ stage = "downsweep"
  /\ wg[g].pc[w] = s
  /\ \A v \in Waves : wg[g].pc[v] >= s

(* The wave ends its step with these shared arrays and offsets. *)
Goes(g, w, hist, sum, off) ==
  wg' = [wg EXCEPT ![g] = [@ EXCEPT !.pc[w] = @ + 1, !.hist = hist, !.sum = sum, !.off = off]]

(* Digit histogram per wave, ranks in the wave, and the scan over digits and
   waves in three levels. *)
Scan(g, w) ==
  LET k == wg[g]
      counted == [c \in DOMAIN k.hist |-> k.hist[c] +
                   Cardinality({ti \in ItemsOf(w) :
                                  WaveCount * ItemDigit(g, ti[1], ti[2]) + w = c})]
      ranked == [t \in ThreadsOf(w) |-> [i \in Items |-> WaveOffset(g, t, i)]] @@ k.off
      level1 == [q \in {Chunk(c) : c \in HistCells(w)} |-> WaveSum(k.hist, HistCells(w), q)] @@ k.sum
      low    == Few(w, Sums1)
      level2 == [q \in {Sums1 + Chunk(t) : t \in low} |-> WaveSum(k.sum, low, q - Sums1)]
                  @@ [t \in low |-> WavePrefix(k.sum, low, t)] @@ k.sum IN
  \/ /\ At(g, w, 0)
     /\ Goes(g, w, [c \in {c \in DOMAIN k.hist : c \div WaveCount \in Few(w, Radix)} |-> 0] @@ k.hist,
             k.sum, k.off)
  \/ /\ At(g, w, 1)
     /\ Goes(g, w, counted, k.sum, ranked)
  \/ /\ At(g, w, 2)
     /\ Goes(g, w, [c \in HistCells(w) |-> WavePrefix(k.hist, HistCells(w), c)] @@ k.hist,
             level1, k.off)
  \/ /\ At(g, w, 3)
     /\ Goes(g, w, k.hist, level2, k.off)
  \/ /\ At(g, w, 4)
     /\ Goes(g, w, k.hist,
             [c \in {Sums1 + t : t \in Few(w, Sums2)} |-> SumFunctionOnSet(k.sum, Sums1 .. c - 1)] @@ k.sum, k.off)
  \/ /\ At(g, w, 5)
     /\ Goes(g, w, k.hist, [t \in low |-> k.sum[t] + k.sum[Sums1 + Chunk(t)]] @@ k.sum, k.off)
  \/ /\ At(g, w, 6)
     /\ Goes(g, w, [c \in HistCells(w) |-> k.hist[c] + k.sum[Chunk(c)]] @@ k.hist, k.sum, k.off)

OwnCell(g, t, i) == WaveCount * ItemDigit(g, t, i) + WaveOf(t)

(* Item i gets its place in the partition; then the leader of each digit
   moves the place for the items after it. *)
PlaceItem(g, w, i) ==
  LET k == wg[g] IN
  \/ /\ At(g, w, Place(i))
     /\ Goes(g, w, k.hist, k.sum,
             [t \in ThreadsOf(w) |-> [k.off[t] EXCEPT ![i] = @ + k.hist[OwnCell(g, t, i)]]] @@ k.off)
  \/ /\ At(g, w, Advance(i))
     /\ Goes(g, w, [c \in {OwnCell(g, t, i) : t \in ThreadsOf(w)} |->
                     k.hist[c] + Cardinality({t \in ThreadsOf(w) : OwnCell(g, t, i) = c})] @@ k.hist,
             k.sum, k.off)

(* After the advances cell (d, last wave) ends digit d in the partition: the
   base of a digit is its destination less its place.  It may be below zero,
   which unsigned arithmetic makes up for when the place is added. *)
FindBases(g, w) ==
  LET k == wg[g] IN
  /\ At(g, w, Bases)
  /\ Goes(g, w, k.hist,
          [d \in Few(w, Radix) |-> globalHist[pass][d] + partHist[g][d]
                  - (IF d = 0 THEN 0 ELSE k.hist[WaveCount * d - 1])] @@ k.sum, k.off)

KeysOf(g, w) == [ti \in ItemsOf(w) |-> KeyAt(ItemCell(g, ti[1], ti[2]))]
ValuesOf(g, w) == [ti \in ItemsOf(w) |-> ValueAt(ItemCell(g, ti[1], ti[2]))]

(* Items go to their place in shared memory: keys first, values later. *)
Scatter(g, w, s, content) ==
  LET k == wg[g]
      PlaceOf(ti) == k.off[ti[1]][ti[2]] IN
  /\ At(g, w, s)
  /\ Goes(g, w, [c \in {PlaceOf(ti) : ti \in ItemsOf(w)} |->
                               content[CHOOSE ti \in ItemsOf(w) : PlaceOf(ti) = c]] @@ k.hist, k.sum, k.off)

Slot(t, j) == t + j * GroupSize

(* Each thread writes every GroupSize-th key, unless it is padding, and
   remembers where. *)
WriteKeys(g, w) ==
  LET k == wg[g]
      dst == [t \in Threads |-> [j \in Items |->
               IF t \in ThreadsOf(w) THEN k.sum[DigitOf(k.hist[Slot(t, j)])] + Slot(t, j)
                                     ELSE k.dst[t][j]]]
      Mine(c) == {tj \in ItemsOf(w) : dst[tj[1]][tj[2]] = c} IN
  /\ At(g, w, Bases + 2)
  /\ keys' = [keys EXCEPT ![To] = [c \in {c \in Cells : Mine(c) # {}} |->
                LET tj == CHOOSE tj \in Mine(c) : TRUE IN k.hist[Slot(tj[1], tj[2])]] @@ @]
  /\ wg' = [wg EXCEPT ![g].pc[w] = @ + 1, ![g].dst = dst]

(* And the values, to the same places. *)
WriteValues(g, w) ==
  LET k == wg[g]
      Mine(c) == {tj \in ItemsOf(w) : k.dst[tj[1]][tj[2]] = c} IN
  /\ At(g, w, Bases + 4)
  /\ idx' = [idx EXCEPT ![To] = [c \in {c \in Cells : Mine(c) # {}} |->
                LET tj == CHOOSE tj \in Mine(c) : TRUE IN k.hist[Slot(tj[1], tj[2])]] @@ @]
  /\ wg' = [wg EXCEPT ![g].pc[w] = @ + 1]

Downsweep(g, w) ==
  /\ \/ /\ \/ Scan(g, w)
           \/ \E i \in Items : PlaceItem(g, w, i)
           \/ FindBases(g, w)
           \/ Scatter(g, w, Bases + 1, KeysOf(g, w))
           \/ Scatter(g, w, Bases + 3, ValuesOf(g, w))
        /\ UNCHANGED <<keys, idx>>
     \/ WriteKeys(g, w) /\ UNCHANGED idx
     \/ WriteValues(g, w) /\ UNCHANGED keys
  /\ UNCHANGED <<src, junk, stage, done, pass, globalHist, partHist, out>>
-----------------------------------------------------------------------------
(* The fence of the pass. *)
EndPass ==
  /\ stage = "downsweep"
  /\ \A g \in Partitions, w \in Waves : wg[g].pc[w] = Ended
  /\ pass' = pass + 1
  /\ stage' = IF pass + 1 < PassCount THEN "upsweep" ELSE "gather"
  /\ wg' = <<>>
  /\ UNCHANGED <<src, junk, done, keys, idx, globalHist, partHist, out>>

(* Fault: the last kernel reads the pong buffer. *)
GatherPong ==
  /\ stage = "gather"
  /\ out' = idx[1]
  /\ stage' = "returned"
  /\ UNCHANGED <<src, junk, done, pass, keys, idx, globalHist, partHist, wg>>

(* After an even number of passes the indices are in ping. *)
Gather ==
  /\ stage = "gather"
  /\ out' = idx[0]
  /\ stage' = "returned"
  /\ UNCHANGED <<src, junk, done, pass, keys, idx, globalHist, partHist, wg>>

Step ==
  \/ Extract \/ EndPass \/ Gather
  \/ \E g \in Partitions : Upsweep(g)
  \/ \E d \in Digits : Spine(d)
  \/ \E g \in Partitions, w \in Waves : Downsweep(g, w)

Next == Step \/ (stage = "returned" /\ UNCHANGED vars)

Spec == Init /\ [][Next]_vars
-----------------------------------------------------------------------------
TypeOK ==
  /\ stage \in {"extract", "upsweep", "spine", "downsweep", "gather", "returned"}
  /\ pass \in 0 .. PassCount
  /\ \A b \in {0, 1} : /\ keys[b] \in [Cells -> 0 .. MaxKey]
                       /\ idx[b] \in [Cells -> Cells \cup {junk}]
  /\ \A g \in DOMAIN wg, w \in Waves : wg[g].pc[w] \in 0 .. Ended
  /\ \A g \in DOMAIN wg : DOMAIN wg[g].hist = 0 .. PartitionSize - 1
  /\ \A g \in DOMAIN wg : DOMAIN wg[g].sum = Digits

(* When a wave reads the two histograms they together give the position of
   the first key of a digit in its partition: behind all smaller digits and
   behind the same digit in earlier partitions, padding counted last. *)
DestinationsExact ==
  \A g \in DOMAIN wg : (\E w \in Waves : wg[g].pc[w] = Bases) =>
    LET count == [h \in Partitions |-> [d \in Digits |-> Count(CellsOf(h), d)]]
        total == [d \in Digits |-> SumFunction([h \in Partitions |-> count[h][d]])] IN
    \A d \in Digits :
      globalHist[pass][d] + partHist[g][d] =
        Before(total, d) + Before([h \in Partitions |-> count[h][d]], g)

(* A key and its index move together, and before pass p the keys are sorted
   by their p lower digits, equal ones in the order they arrived in. *)
SortedBy(b, p) ==
  /\ \A i \in Cells : idx[b][i] \in Cells /\ keys[b][i] = src[idx[b][i]]
  /\ \A i, j \in Cells : i < j =>
       LET x == keys[b][i] % Radix ^ p
           y == keys[b][j] % Radix ^ p
       IN x < y \/ (x = y /\ idx[b][i] < idx[b][j])

PassesSort ==
  stage \in {"upsweep", "spine", "downsweep", "gather"} => SortedBy(From, pass)

(* Every pass sorts by the digits so far, and the crossings returned are the
   ones given, sorted by edge, those of an edge in the order of the queue. *)
StableSort ==
  /\ PassesSort
  /\ stage = "returned" /\ n > 0 =>
       /\ DOMAIN out = Cells
       /\ \A i, j \in Cells : i < j =>
            src[out[i]] < src[out[j]] \/ (src[out[i]] = src[out[j]] /\ out[i] < out[j])
=============================================================================
