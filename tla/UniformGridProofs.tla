-------------------------- MODULE UniformGridProofs --------------------------
(***************************************************************************)
(* Theorems about UniformGrid: its types, the layout of the cells after    *)
(* the two kernels that fill them, the crossings that are reported and     *)
(* the edges that are found above points.                                  *)
(*                                                                         *)
(* The argument is about the cells each thread has been to.  A thread goes *)
(* to every cell of its edge once; what a cell has counted, and later what *)
(* is stored in its part of the array, are the edges whose threads have    *)
(* been there, whatever the order of their atomic adds.  When all threads  *)
(* have ended these are the edges of the cell, in both kernels.            *)
(*                                                                         *)
(* Two edges that cross do so at a mean of the ends of each of them, so in *)
(* a cell both have been to, where each has one slot: one pair of slots    *)
(* reports them.                                                           *)
(*                                                                         *)
(* The edges over a point are in a total order.  A cell leaves the lowest  *)
(* of its edges, and the cell in which an edge passes over the point has   *)
(* an answer; so the lowest edge of all is the first answer.               *)
(***************************************************************************)
EXTENDS UniformGrid, SharedLemmas

-----------------------------------------------------------------------------
(* Division, as the kernels need it. *)
LEMMA Quotient ==
  ASSUME NEW n \in Int, NEW b \in Nat \ {0}
  PROVE  \E q \in Int, r \in 0 .. b - 1 : q = n \div b /\ r = n % b /\ n = b * q + r
<1>1. /\ n \div b \in Int /\ n % b \in 0 .. b - 1
      /\ n = b * (n \div b) + (n % b)
  OBVIOUS
<1> QED
  BY <1>1

(* A row and a column are found again in the number of their cell. *)
LEMMA PlaceIsUnique ==
  ASSUME NEW g \in Nat \ {0}, NEW r \in Nat, NEW t \in Nat,
         NEW x \in 0 .. g - 1, NEW y \in 0 .. g - 1, r * g + x = t * g + y
  PROVE  r = t /\ x = y
<1>1. ASSUME NEW i \in Nat, NEW j \in Nat, i < j
      PROVE  i * g + g <= j * g
  <2>1. (i + 1) * g <= j * g
    BY <1>1, Multiples
  <2>2. (i + 1) * g = i * g + g
    OBVIOUS
  <2> QED
    BY <2>1, <2>2
<1>2. r * g \in Nat /\ t * g \in Nat
  OBVIOUS
<1>3. ~ (r < t)
  BY <1>1, <1>2
<1>4. ~ (t < r)
  BY <1>1, <1>2
<1>5. r = t
  BY <1>3, <1>4
<1> QED
  BY <1>2, <1>5

(* A row of numbers that never fall from one to the next never falls. *)
LEMMA NeverFalls ==
  ASSUME NEW n \in Nat, NEW p \in [0 .. n -> Int],
         \A i \in 0 .. n - 1 : p[i] <= p[i + 1]
  PROVE  \A i, j \in 0 .. n : i <= j => p[i] <= p[j]
<1> SUFFICES ASSUME NEW i \in 0 .. n PROVE \A j \in 0 .. n : i <= j => p[i] <= p[j]
  OBVIOUS
<1> DEFINE S == {j \in 0 .. n : i <= j => p[i] <= p[j]}
<1>1. 0 \in S
  OBVIOUS
<1>2. ASSUME NEW j \in 0 .. n - 1, j \in S PROVE j + 1 \in S
  <2>1. j + 1 \in 0 .. n /\ j \in 0 .. n /\ p[j] <= p[j + 1]
    OBVIOUS
  <2>2. PICK u \in Int, v \in Int, w \in Int : u = p[i] /\ v = p[j] /\ w = p[j + 1]
    BY <2>1
  <2>3. i <= j + 1 => u <= w
    BY <1>2, <2>1, <2>2
  <2> QED
    BY <2>1, <2>2, <2>3
<1>3. \A j \in 0 .. n : j \in S
  <2> HIDE DEF S
  <2> QED
    BY <1>1, <1>2, UpTo
<1> QED
  BY <1>3

-----------------------------------------------------------------------------
(* The quotient of CellOf, for an integer coordinate. *)
LEMMA CellBounds ==
  ASSUME NEW n \in Nat
  PROVE  \E q \in Nat, b \in Nat \ {0}, u \in Nat :
           /\ CellOf(n, 1) = q /\ b = Span * 1000 /\ u = n * GSize
           /\ b * q <= u * 999 /\ u * 999 < b * q + b
<1> USE SizesAssumption
<1>1. PICK b \in Nat \ {0} : b = Span * 1000
  OBVIOUS
<1>2. PICK u \in Nat : u = n * GSize
  OBVIOUS
<1>3. PICK v \in Nat : v = u * 999
  OBVIOUS
<1>4. CellOf(n, 1) = v \div b
  <2>1. 1 * Span * 1000 = b
    BY <1>1
  <2> QED
    BY <1>2, <1>3, <2>1 DEF CellOf
<1>5. PICK q \in Int, r \in 0 .. b - 1 : q = v \div b /\ v = b * q + r
  BY Quotient
<1>6. q >= 0
  <2>1. b * 0 <= v
    OBVIOUS
  <2> QED
    BY <1>5, <2>1, DivBounds
<1> QED
  BY <1>1, <1>2, <1>3, <1>4, <1>5, <1>6

(* The factor 0.999 keeps every coordinate inside the grid. *)
LEMMA CellInside ==
  ASSUME NEW n \in 0 .. Span
  PROVE  CellOf(n, 1) \in 0 .. GSize - 1
<1> USE SizesAssumption
<1>1. PICK q \in Nat, b \in Nat \ {0}, u \in Nat :
        /\ CellOf(n, 1) = q /\ b = Span * 1000 /\ u = n * GSize
        /\ b * q <= u * 999 /\ u * 999 < b * q + b
  BY CellBounds
<1>2. PICK w \in Nat \ {0} : w = Span * GSize
  <2>1. 1 * 1 <= Span * GSize
    <3>1. 1 * GSize <= Span * GSize
      BY Multiples
    <3> QED
      BY <3>1
  <2> QED
    BY <2>1
<1>3. u <= w
  BY <1>1, <1>2, Multiples
<1>4. ~ (GSize <= q)
  <2>1. SUFFICES ASSUME GSize <= q PROVE FALSE
    OBVIOUS
  <2>2. GSize * b <= q * b
    BY <2>1, Multiples
  <2>3. GSize * b = w * 1000
    BY <1>1, <1>2
  <2>4. q * b = b * q
    OBVIOUS
  <2> QED
    BY <1>1, <1>2, <1>3, <2>2, <2>3, <2>4
<1> QED
  BY <1>1, <1>4

(* Cells follow one another as coordinates do, *)
LEMMA CellsInOrder ==
  ASSUME NEW n \in Nat, NEW k \in Nat, n <= k
  PROVE  CellOf(n, 1) <= CellOf(k, 1)
<1> USE SizesAssumption
<1>1. PICK q \in Nat, b \in Nat \ {0}, u \in Nat :
        /\ CellOf(n, 1) = q /\ b = Span * 1000 /\ u = n * GSize
        /\ b * q <= u * 999 /\ u * 999 < b * q + b
  BY CellBounds
<1>2. PICK p \in Nat, w \in Nat :
        /\ CellOf(k, 1) = p /\ w = k * GSize
        /\ b * p <= w * 999 /\ w * 999 < b * p + b
  BY <1>1, CellBounds
<1>3. u <= w
  BY <1>1, <1>2, Multiples
<1>4. ~ (p + 1 <= q)
  <2>1. SUFFICES ASSUME p + 1 <= q PROVE FALSE
    OBVIOUS
  <2>2. (p + 1) * b <= q * b
    BY <2>1, Multiples
  <2>3. (p + 1) * b = b * p + b /\ q * b = b * q
    OBVIOUS
  <2> QED
    BY <1>1, <1>2, <1>3, <2>2, <2>3
<1> QED
  BY <1>1, <1>2, <1>4

(* and none is passed over, if there are not more cells than coordinates. *)
LEMMA NextCell ==
  ASSUME NEW n \in Nat, GSize <= Span
  PROVE  CellOf(n + 1, 1) <= CellOf(n, 1) + 1
<1> USE SizesAssumption
<1>1. PICK q \in Nat, b \in Nat \ {0}, u \in Nat :
        /\ CellOf(n, 1) = q /\ b = Span * 1000 /\ u = n * GSize
        /\ b * q <= u * 999 /\ u * 999 < b * q + b
  BY CellBounds
<1>2. PICK p \in Nat, w \in Nat :
        /\ CellOf(n + 1, 1) = p /\ w = (n + 1) * GSize
        /\ b * p <= w * 999 /\ w * 999 < b * p + b
  BY <1>1, CellBounds
<1>3. w = u + GSize
  <2>1. (n + 1) * GSize = n * GSize + GSize
    OBVIOUS
  <2> QED
    BY <1>1, <1>2, <2>1
<1>4. GSize * 999 <= b
  BY <1>1
<1>5. ~ (q + 2 <= p)
  <2>1. SUFFICES ASSUME q + 2 <= p PROVE FALSE
    OBVIOUS
  <2>2. (q + 2) * b <= p * b
    BY <2>1, Multiples
  <2>3. (q + 2) * b = b * q + b + b /\ p * b = b * p
    OBVIOUS
  <2> QED
    BY <1>1, <1>2, <1>3, <1>4, <2>2, <2>3
<1> QED
  BY <1>1, <1>2, <1>5

(* Every cell between those of two coordinates has one in it. *)
LEMMA CellsBetween ==
  ASSUME NEW lo \in Nat, NEW hi \in Nat, lo <= hi, GSize <= Span,
         NEW r \in CellOf(lo, 1) .. CellOf(hi, 1)
  PROVE  \E n \in lo .. hi : CellOf(n, 1) = r
<1> DEFINE S == {n \in lo .. hi : r <= CellOf(n, 1)}
<1>0. \A n \in Nat : CellOf(n, 1) \in Nat
  BY SMTT(30), CellBounds
<1>1. PICK m \in S : \A k \in S : m <= k
  <2>1. S \in SUBSET Nat /\ hi \in S
    BY <1>0
  <2> HIDE DEF S
  <2> QED
    BY <2>1, LeastElement
<1>2. CASE m = lo
  BY <1>0, <1>1, <1>2
<1>3. CASE m # lo
  <2>1. m - 1 \in lo .. hi /\ m - 1 \in Nat /\ m - 1 \notin S
    BY <1>1, <1>3
  <2>2. CellOf((m - 1) + 1, 1) <= CellOf(m - 1, 1) + 1
    BY <2>1, NextCell
  <2>3. (m - 1) + 1 = m
    BY <2>1
  <2>4. CellOf(m - 1, 1) < r
    BY <1>0, <2>1
  <2> QED
    BY <1>0, <1>1, <2>1, <2>2, <2>3, <2>4
<1> QED
  BY <1>2, <1>3
-----------------------------------------------------------------------------
(* A rectangle of h rows and w columns, walked one column after the other:
   each of its cells is met once, and no other. *)
RowAt(k, h) == k % h
ColumnAt(k, h) == k \div h
EachOnce(h, w, n) ==
  /\ \A k \in 0 .. n - 1 : RowAt(k, h) \in 0 .. h - 1 /\ ColumnAt(k, h) \in 0 .. w - 1
  /\ \A j, k \in 0 .. n - 1 :
       RowAt(j, h) = RowAt(k, h) /\ ColumnAt(j, h) = ColumnAt(k, h) => j = k
  /\ \A y \in 0 .. h - 1, x \in 0 .. w - 1 :
       \E k \in 0 .. n - 1 : RowAt(k, h) = y /\ ColumnAt(k, h) = x

(* A walk over the rectangle of cells of a box comes to each of its cells, once. *)
LEMMA Rectangle ==
  ASSUME NEW h \in Nat \ {0}, NEW w \in Nat, NEW n \in Nat, n = w * h
  PROVE  EachOnce(h, w, n)
<1>1. ASSUME NEW k \in 0 .. n - 1
      PROVE  \E q \in 0 .. w - 1, r \in 0 .. h - 1 :
               q = ColumnAt(k, h) /\ r = RowAt(k, h) /\ k = h * q + r
  <2>0. k \in Nat /\ k < w * h
    OBVIOUS
  <2>1. PICK q \in Int, r \in 0 .. h - 1 : q = k \div h /\ r = k % h /\ k = h * q + r
    BY <2>0, Quotient
  <2>2. 0 <= q
    <3>1. h * 0 <= k
      BY <2>0
    <3> QED
      BY <2>0, <2>1, <3>1, DivBounds
  <2>3. ~ (w <= q)
    <3>1. SUFFICES ASSUME w <= q PROVE FALSE
      OBVIOUS
    <3>2. w * h <= q * h
      BY <2>2, <3>1, Multiples
    <3>3. q * h = h * q
      BY <2>1
    <3> QED
      BY <2>0, <2>1, <3>2, <3>3
  <2>4. q = ColumnAt(k, h) /\ r = RowAt(k, h)
    BY <2>1 DEF ColumnAt, RowAt
  <2> QED
    BY <2>1, <2>2, <2>3, <2>4
<1>2. ASSUME NEW j \in 0 .. n - 1, NEW k \in 0 .. n - 1,
             RowAt(j, h) = RowAt(k, h), ColumnAt(j, h) = ColumnAt(k, h)
      PROVE  j = k
  <2>1. PICK q \in 0 .. w - 1, r \in 0 .. h - 1 :
          q = ColumnAt(j, h) /\ r = RowAt(j, h) /\ j = h * q + r
    BY <1>1
  <2>2. PICK p \in 0 .. w - 1, t \in 0 .. h - 1 :
          p = ColumnAt(k, h) /\ t = RowAt(k, h) /\ k = h * p + t
    BY <1>1
  <2> QED
    BY <1>2, <2>1, <2>2
<1>3. ASSUME NEW y \in 0 .. h - 1, NEW x \in 0 .. w - 1
      PROVE  \E k \in 0 .. n - 1 : RowAt(k, h) = y /\ ColumnAt(k, h) = x
  <2>1. PICK k \in Nat : k = x * h + y
    OBVIOUS
  <2>2. (x + 1) * h <= w * h
    BY Multiples
  <2>3. (x + 1) * h = x * h + h
    OBVIOUS
  <2>4. k \in 0 .. n - 1
    BY <2>1, <2>2, <2>3
  <2>5. PICK q \in 0 .. w - 1, r \in 0 .. h - 1 :
          q = ColumnAt(k, h) /\ r = RowAt(k, h) /\ k = h * q + r
    BY <1>1, <2>4
  <2>6. q = x /\ r = y
    <3>1. q * h + r = x * h + y
      <4>1. h * q = q * h
        OBVIOUS
      <4> QED
        BY <2>1, <2>5, <4>1
    <3>2. q \in Nat /\ x \in Nat
      OBVIOUS
    <3> QED
      BY <3>1, <3>2, PlaceIsUnique
  <2> QED
    BY <2>4, <2>5, <2>6
<1>4. ASSUME NEW k \in 0 .. n - 1
      PROVE  RowAt(k, h) \in 0 .. h - 1 /\ ColumnAt(k, h) \in 0 .. w - 1
  BY <1>1
<1> QED
  BY <1>2, <1>3, <1>4 DEF EachOnce

(* The corners of the box of an edge. *)
LEMMA Corners ==
  ASSUME NEW s, Ends(s) \subseteq (0 .. Span) \X (0 .. Span)
  PROVE  /\ XMin(s) \in 0 .. Span /\ XMax(s) \in 0 .. Span /\ XMin(s) <= XMax(s)
         /\ YMin(s) \in 0 .. Span /\ YMax(s) \in 0 .. Span /\ YMin(s) <= YMax(s)
<1>1. s.x1 \in 0 .. Span /\ s.y1 \in 0 .. Span /\ s.x2 \in 0 .. Span /\ s.y2 \in 0 .. Span
  BY DEF Ends
<1> QED
  BY <1>1, SizesAssumption DEF XMin, XMax, YMin, YMax

(* The thread of an edge goes to the cells of its box, to each of them once. *)
LEMMA CellsOfEdge ==
  ASSUME NEW s, Ends(s) \subseteq (0 .. Span) \X (0 .. Span)
  PROVE  /\ CellsAcross(s) \in Nat
         /\ \A k \in 0 .. CellsAcross(s) - 1 : CellThere(s, k) \in Cells
         /\ \A j, k \in 0 .. CellsAcross(s) - 1 : CellThere(s, j) = CellThere(s, k) => j = k
         /\ \A r \in CellOf(YMin(s), 1) .. CellOf(YMax(s), 1),
              x \in CellOf(XMin(s), 1) .. CellOf(XMax(s), 1) :
              \E k \in 0 .. CellsAcross(s) - 1 : CellThere(s, k) = r * GSize + x
         /\ \A k \in 0 .. CellsAcross(s) - 1 :
              \E r \in CellOf(YMin(s), 1) .. CellOf(YMax(s), 1),
                x \in CellOf(XMin(s), 1) .. CellOf(XMax(s), 1) :
                CellThere(s, k) = r * GSize + x
<1> USE SizesAssumption
<1>1. PICK b \in 0 .. GSize - 1, t \in 0 .. GSize - 1, l \in 0 .. GSize - 1, r \in 0 .. GSize - 1 :
        /\ b = CellOf(YMin(s), 1) /\ t = CellOf(YMax(s), 1) /\ b <= t
        /\ l = CellOf(XMin(s), 1) /\ r = CellOf(XMax(s), 1) /\ l <= r
  <2>1. /\ CellOf(YMin(s), 1) \in 0 .. GSize - 1 /\ CellOf(YMax(s), 1) \in 0 .. GSize - 1
        /\ CellOf(XMin(s), 1) \in 0 .. GSize - 1 /\ CellOf(XMax(s), 1) \in 0 .. GSize - 1
    BY Corners, CellInside
  <2>2. CellOf(YMin(s), 1) <= CellOf(YMax(s), 1) /\ CellOf(XMin(s), 1) <= CellOf(XMax(s), 1)
    <3>1. /\ XMin(s) \in Nat /\ XMax(s) \in Nat /\ XMin(s) <= XMax(s)
          /\ YMin(s) \in Nat /\ YMax(s) \in Nat /\ YMin(s) <= YMax(s)
      BY Corners
    <3> QED
      BY <3>1, CellsInOrder
  <2> QED
    BY <2>1, <2>2
<1>2. PICK h \in Nat \ {0}, w \in Nat \ {0} : h = t - b + 1 /\ w = r - l + 1
  BY <1>1
<1>3. PICK n \in Nat : n = w * h /\ CellsAcross(s) = n
  BY <1>1, <1>2 DEF CellsAcross
<1>4. /\ \A k \in 0 .. n - 1 : RowAt(k, h) \in 0 .. h - 1 /\ ColumnAt(k, h) \in 0 .. w - 1
      /\ \A j, k \in 0 .. n - 1 :
           RowAt(j, h) = RowAt(k, h) /\ ColumnAt(j, h) = ColumnAt(k, h) => j = k
      /\ \A y \in 0 .. h - 1, x \in 0 .. w - 1 :
           \E k \in 0 .. n - 1 : RowAt(k, h) = y /\ ColumnAt(k, h) = x
  <2>1. w \in Nat /\ n = w * h
    BY <1>3
  <2>2. EachOnce(h, w, n)
    BY <2>1, Rectangle
  <2> QED
    BY <2>2 DEF EachOnce
<1>5. ASSUME NEW k \in 0 .. n - 1
      PROVE  CellThere(s, k) = (b + RowAt(k, h)) * GSize + l + ColumnAt(k, h)
  <2>1. CellOf(YMax(s), 1) - CellOf(YMin(s), 1) + 1 = h
    BY <1>1, <1>2
  <2> QED
    BY <1>1, <2>1, Zenon DEF CellThere, RowAt, ColumnAt
<1>6. ASSUME NEW k \in 0 .. n - 1
      PROVE  \E y \in b .. t, x \in l .. r :
               /\ y = b + RowAt(k, h) /\ x = l + ColumnAt(k, h)
               /\ CellThere(s, k) = y * GSize + x
  <2>1. PICK y \in 0 .. h - 1, x \in 0 .. w - 1 : y = RowAt(k, h) /\ x = ColumnAt(k, h)
    BY <1>4
  <2>2. b + y \in b .. t /\ l + x \in l .. r
    BY <1>1, <1>2
  <2>3. CellThere(s, k) = (b + y) * GSize + (l + x)
    <3>1. PICK v \in Int : v = (b + y) * GSize
      OBVIOUS
    <3>2. CellThere(s, k) = v + l + x
      BY <1>5, <2>1, <3>1
    <3> QED
      BY <3>1, <3>2
  <2> QED
    BY <2>1, <2>2, <2>3
<1>7. ASSUME NEW k \in 0 .. n - 1
      PROVE  CellThere(s, k) \in Cells
  <2>1. PICK y \in b .. t, x \in l .. r : CellThere(s, k) = y * GSize + x
    BY <1>6
  <2>2. (y + 1) * GSize <= GSize * GSize
    BY <1>1, Multiples
  <2>3. (y + 1) * GSize = y * GSize + GSize
    BY <1>1
  <2>4. y * GSize \in Nat /\ GSize * GSize \in Nat
    BY <1>1
  <2>5. x \in 0 .. GSize - 1
    BY <1>1
  <2> QED
    BY <2>1, <2>2, <2>3, <2>4, <2>5 DEF Cells
<1>8. ASSUME NEW j \in 0 .. n - 1, NEW k \in 0 .. n - 1,
             CellThere(s, j) = CellThere(s, k)
      PROVE  j = k
  <2>1. PICK y \in b .. t, x \in l .. r :
          y = b + RowAt(j, h) /\ x = l + ColumnAt(j, h) /\ CellThere(s, j) = y * GSize + x
    BY <1>6
  <2>2. PICK v \in b .. t, u \in l .. r :
          v = b + RowAt(k, h) /\ u = l + ColumnAt(k, h) /\ CellThere(s, k) = v * GSize + u
    BY <1>6
  <2>3. y = v /\ x = u
    <3>1. y \in Nat /\ v \in Nat /\ x \in 0 .. GSize - 1 /\ u \in 0 .. GSize - 1
      BY <1>1
    <3>2. y * GSize + x = v * GSize + u
      BY <1>8, <2>1, <2>2
    <3> QED
      BY <3>1, <3>2, PlaceIsUnique
  <2>4. RowAt(j, h) = RowAt(k, h) /\ ColumnAt(j, h) = ColumnAt(k, h)
    <3>1. /\ RowAt(j, h) \in 0 .. h - 1 /\ ColumnAt(j, h) \in 0 .. w - 1
          /\ RowAt(k, h) \in 0 .. h - 1 /\ ColumnAt(k, h) \in 0 .. w - 1
      BY <1>4
    <3>2. PICK c1 \in Int, c2 \in Int, c3 \in Int, c4 \in Int :
            c1 = RowAt(j, h) /\ c2 = RowAt(k, h) /\ c3 = ColumnAt(j, h) /\ c4 = ColumnAt(k, h)
      BY <3>1
    <3>3. y = b + c1 /\ v = b + c2 /\ x = l + c3 /\ u = l + c4
      BY <2>1, <2>2, <3>2
    <3>4. b \in Int /\ l \in Int
      BY <1>1
    <3>5. b + c1 = b + c2 => c1 = c2
      BY <3>4
    <3>6. l + c3 = l + c4 => c3 = c4
      BY <3>4
    <3> QED
      BY <2>3, <3>2, <3>3, <3>5, <3>6
  <2> QED
    BY <1>4, <2>4
<1>9. ASSUME NEW y \in b .. t, NEW x \in l .. r
      PROVE  \E k \in 0 .. n - 1 : CellThere(s, k) = y * GSize + x
  <2>1. y - b \in 0 .. h - 1 /\ x - l \in 0 .. w - 1
    BY <1>1, <1>2
  <2>2. PICK k \in 0 .. n - 1 : RowAt(k, h) = y - b /\ ColumnAt(k, h) = x - l
    BY <1>4, <2>1
  <2>3. PICK v \in b .. t, u \in l .. r :
          v = b + RowAt(k, h) /\ u = l + ColumnAt(k, h) /\ CellThere(s, k) = v * GSize + u
    BY <1>6
  <2>4. v = y /\ u = x
    BY <2>2, <2>3
  <2> QED
    BY <2>3, <2>4
<1>10. \A k \in 0 .. n - 1 : \E y \in b .. t, x \in l .. r : CellThere(s, k) = y * GSize + x
  BY <1>6
<1> QED
  BY <1>1, <1>3, <1>7, <1>8, <1>9, <1>10

(* If there are not more cells than coordinates, those are the cells in which
   the box of the edge has a point. *)
LEMMA CellsOfBox ==
  ASSUME NEW s, Ends(s) \subseteq (0 .. Span) \X (0 .. Span), GSize <= Span, NEW c
  PROVE  BoxMeets(s, c) <=> \E k \in 0 .. CellsAcross(s) - 1 : CellThere(s, k) = c
<1>0. /\ XMin(s) \in Nat /\ XMax(s) \in Nat /\ XMin(s) <= XMax(s)
      /\ YMin(s) \in Nat /\ YMax(s) \in Nat /\ YMin(s) <= YMax(s)
  BY Corners
<1>1. ASSUME BoxMeets(s, c)
      PROVE  \E k \in 0 .. CellsAcross(s) - 1 : CellThere(s, k) = c
  <2>1. PICK x \in XMin(s) .. XMax(s), y \in YMin(s) .. YMax(s) :
          CellOf(y, 1) * GSize + CellOf(x, 1) = c
    BY <1>1 DEF BoxMeets, Place
  <2>2. /\ x \in Nat /\ XMin(s) <= x /\ x <= XMax(s)
        /\ y \in Nat /\ YMin(s) <= y /\ y <= YMax(s)
    BY <1>0
  <2>3. /\ CellOf(XMin(s), 1) <= CellOf(x, 1) /\ CellOf(x, 1) <= CellOf(XMax(s), 1)
        /\ CellOf(YMin(s), 1) <= CellOf(y, 1) /\ CellOf(y, 1) <= CellOf(YMax(s), 1)
    BY <1>0, <2>2, CellsInOrder
  <2>4. \A n \in Nat : CellOf(n, 1) \in Nat
    BY CellBounds
  <2>5. /\ CellOf(x, 1) \in CellOf(XMin(s), 1) .. CellOf(XMax(s), 1)
        /\ CellOf(y, 1) \in CellOf(YMin(s), 1) .. CellOf(YMax(s), 1)
    BY <1>0, <2>2, <2>3, <2>4
  <2> QED
    BY <2>1, <2>5, CellsOfEdge
<1>2. ASSUME NEW k \in 0 .. CellsAcross(s) - 1, CellThere(s, k) = c
      PROVE  BoxMeets(s, c)
  <2>1. PICK r \in CellOf(YMin(s), 1) .. CellOf(YMax(s), 1),
             p \in CellOf(XMin(s), 1) .. CellOf(XMax(s), 1) : c = r * GSize + p
    BY <1>2, CellsOfEdge
  <2>2. PICK y \in YMin(s) .. YMax(s) : CellOf(y, 1) = r
    <3>1. PICK lo \in Nat, hi \in Nat : lo = YMin(s) /\ hi = YMax(s)
      BY <1>0
    <3>2. r \in CellOf(lo, 1) .. CellOf(hi, 1) /\ lo <= hi
      BY <1>0, <3>1
    <3>3. \E y \in lo .. hi : CellOf(y, 1) = r
      BY <3>2, CellsBetween
    <3> QED
      BY <3>1, <3>3
  <2>3. PICK x \in XMin(s) .. XMax(s) : CellOf(x, 1) = p
    <3>1. PICK lo \in Nat, hi \in Nat : lo = XMin(s) /\ hi = XMax(s)
      BY <1>0
    <3>2. p \in CellOf(lo, 1) .. CellOf(hi, 1) /\ lo <= hi
      BY <1>0, <3>1
    <3>3. \E x \in lo .. hi : CellOf(x, 1) = p
      BY <3>2, CellsBetween
    <3> QED
      BY <3>1, <3>3
  <2> QED
    BY <2>1, <2>2, <2>3 DEF BoxMeets, Place
<1> QED
  BY <1>1, <1>2
-----------------------------------------------------------------------------
(* The cells the thread of edge e of map m has been to in this kernel and
   those before it in the same phase, *)
Steps(m, e) == IF m < im THEN CellsAcross(edges[m][e]) ELSE IF m = im THEN at[e] ELSE 0
(* the edges whose threads have been to cell c, and those whose threads go there. *)
Visited(m, c) ==
  {e \in Eids(m) : \E k \in 0 .. Steps(m, e) - 1 : CellThere(edges[m][e], k) = c}
Met(m, c) ==
  {e \in Eids(m) : m \in input.built
                     /\ \E k \in 0 .. CellsAcross(edges[m][e]) - 1 : CellThere(edges[m][e], k) = c}

(* The i-th slot for map m in cell c, and what is stored in the first n. *)
SlotOf(c, m, i) == rowIndex[c] + m * ne[c][0] + i
Stored(c, m, n) == {eids[SlotOf(c, m, i)] : i \in 0 .. n - 1}

Typed ==
  /\ input \in Inputs /\ phase \in {"count", "fill", "query"} /\ im \in input.built
  /\ at \in [Eids(im) -> Nat]
  /\ \A e \in Eids(im) : at[e] <= CellsAcross(edges[im][e])
  /\ ne \in [Cells -> [Maps -> Nat]]
  /\ begin \in [Cells -> Nat]
  /\ rowIndex \in [0 .. GSize * GSize -> Nat]
  /\ eids \in [0 .. Total - 1 -> {Blank} \cup Eids(0) \cup Eids(1)]

Counting ==
  phase = "count" =>
    /\ \A c \in Cells, m \in Maps : ne[c][m] = Cardinality(Visited(m, c))
    /\ \A c \in Cells : begin[c] = 0
    /\ \A i \in 0 .. GSize * GSize : rowIndex[i] = 0

Counted ==
  phase \in {"fill", "query"} =>
    /\ \A c \in Cells, m \in Maps : ne[c][m] = Cardinality(Met(m, c))
    /\ rowIndex[0] = 0
    /\ \A c \in Cells : rowIndex[c + 1] = rowIndex[c] + ne[c][0] + ne[c][1]

Filling ==
  phase = "fill" =>
    \A c \in Cells :
      /\ begin[c] = Cardinality(Visited(0, c)) + Cardinality(Visited(1, c))
      /\ \A m \in Maps : Stored(c, m, Cardinality(Visited(m, c))) = Visited(m, c)

Filled ==
  phase = "query" =>
    \A c \in Cells :
      /\ begin[c] = rowIndex[c]
      /\ \A m \in Maps : Stored(c, m, ne[c][m]) = Met(m, c)

Answered ==
  /\ found = Unset \/ found \in [Eids(0) \X Eids(1) -> Nat]
  /\ DOMAIN closest = Maps
  /\ \A q \in Maps : closest[q] = Unset \/ \A p \in DOMAIN closest[q] :
                       closest[q][p] \in Eids(1 - q) \cup {NoEdge}

Inv == Typed /\ Counting /\ Counted /\ Filling /\ Filled /\ Answered
-----------------------------------------------------------------------------
(* What the inputs are, read for the maps of this run. *)
LEMMA InputFacts ==
  ASSUME input \in Inputs
  PROVE  /\ input.built = {0} \/ input.built = Maps
         /\ \A m \in Maps : IsFiniteSet(Eids(m)) /\ Cardinality(Eids(m)) \in Nat /\ Eids(m) \subseteq Nat
         /\ \A m \in Maps : \A e \in Eids(m) : Ends(edges[m][e]) \subseteq (0 .. Span) \X (0 .. Span)
<1>1. /\ input.built \in {{0}, Maps}
      /\ \A m \in Maps :
           /\ IsFiniteSet(Eids(m))
           /\ Eids(m) = 0 .. Cardinality(Eids(m)) - 1
           /\ \A e \in Eids(m) : Ends(edges[m][e]) \subseteq (0 .. Span) \X (0 .. Span)
  BY InputsAssumption DEF Eids, edges
<1>2. ASSUME NEW m \in Maps
      PROVE  Cardinality(Eids(m)) \in Nat /\ Eids(m) \subseteq Nat
  <2>1. Cardinality(Eids(m)) \in Nat
    BY <1>1, FS_CardinalityType
  <2> QED
    BY <1>1, <2>1
<1> QED
  BY <1>1, <1>2

(* An edge of either map, as the lemma about the cells of an edge wants it. *)
LEMMA CellsOfThread ==
  ASSUME input \in Inputs, NEW m \in Maps, NEW e \in Eids(m)
  PROVE  /\ CellsAcross(edges[m][e]) \in Nat
         /\ \A k \in 0 .. CellsAcross(edges[m][e]) - 1 : CellThere(edges[m][e], k) \in Cells
         /\ \A j, k \in 0 .. CellsAcross(edges[m][e]) - 1 :
              CellThere(edges[m][e], j) = CellThere(edges[m][e], k) => j = k
<1>1. PICK s : s = edges[m][e]
  OBVIOUS
<1>2. Ends(s) \subseteq (0 .. Span) \X (0 .. Span)
  BY <1>1, InputFacts
<1>3. /\ CellsAcross(s) \in Nat
      /\ \A k \in 0 .. CellsAcross(s) - 1 : CellThere(s, k) \in Cells
      /\ \A j, k \in 0 .. CellsAcross(s) - 1 : CellThere(s, j) = CellThere(s, k) => j = k
  BY <1>2, CellsOfEdge
<1> QED
  BY <1>1, <1>3

(* No thread has been to more cells than it goes to. *)
LEMMA StepsBounded ==
  ASSUME Typed, NEW m \in Maps, NEW e \in Eids(m)
  PROVE  /\ Steps(m, e) \in 0 .. CellsAcross(edges[m][e])
         /\ Steps(m, e) > 0 => m \in input.built
<1>1. CellsAcross(edges[m][e]) \in Nat
  BY CellsOfThread DEF Typed
<1>2. input.built = {0} \/ input.built = Maps
  BY InputFacts DEF Typed
<1>3. im \in Maps /\ im \in input.built
  BY <1>2 DEF Typed, Maps
<1>4. CASE m < im
  <2>1. m = 0 /\ Steps(m, e) = CellsAcross(edges[m][e])
    BY <1>3, <1>4 DEF Steps, Maps
  <2> QED
    BY <1>1, <1>2, <2>1 DEF Maps
<1>5. CASE m = im
  <2>1. Steps(m, e) = at[e] /\ at[e] \in Nat /\ at[e] <= CellsAcross(edges[m][e])
    BY <1>3, <1>5 DEF Steps, Typed, Maps
  <2> QED
    BY <1>1, <1>3, <1>5, <2>1
<1>6. CASE ~ (m < im) /\ m # im
  <2>1. Steps(m, e) = 0
    BY <1>6 DEF Steps
  <2> QED
    BY <1>1, <2>1
<1> QED
  BY <1>4, <1>5, <1>6

(* The edges that have been to a cell are among those that are to come to it,
   and these are finitely many. *)
LEMMA VisitedFacts ==
  ASSUME Typed, NEW m \in Maps, NEW c \in Cells
  PROVE  /\ Visited(m, c) \subseteq Met(m, c) /\ Met(m, c) \subseteq Eids(m)
         /\ IsFiniteSet(Visited(m, c)) /\ IsFiniteSet(Met(m, c))
         /\ Cardinality(Visited(m, c)) \in Nat /\ Cardinality(Met(m, c)) \in Nat
         /\ Cardinality(Visited(m, c)) <= Cardinality(Met(m, c))
         /\ Cardinality(Met(m, c)) <= Cardinality(Eids(m))
<1>1. ASSUME NEW e \in Visited(m, c)
      PROVE  e \in Met(m, c)
  <2>1. e \in Eids(m)
    BY DEF Visited
  <2>2. PICK k \in 0 .. Steps(m, e) - 1 : CellThere(edges[m][e], k) = c
    BY DEF Visited
  <2>3. Steps(m, e) \in 0 .. CellsAcross(edges[m][e]) /\ (Steps(m, e) > 0 => m \in input.built)
    BY <2>1, StepsBounded
  <2>4. CellsAcross(edges[m][e]) \in Nat
    BY <2>1, CellsOfThread DEF Typed
  <2>5. k \in 0 .. CellsAcross(edges[m][e]) - 1 /\ m \in input.built
    BY <2>2, <2>3, <2>4
  <2> QED
    BY <2>1, <2>2, <2>5 DEF Met
<1>2. IsFiniteSet(Eids(m))
  BY InputFacts DEF Typed
<1>3. Met(m, c) \subseteq Eids(m)
  BY DEF Met
<1>4. /\ IsFiniteSet(Met(m, c)) /\ Cardinality(Met(m, c)) <= Cardinality(Eids(m))
  BY <1>2, <1>3, FS_Subset
<1>5. /\ IsFiniteSet(Visited(m, c))
      /\ Cardinality(Visited(m, c)) <= Cardinality(Met(m, c))
  BY <1>1, <1>4, FS_Subset
<1> QED
  BY <1>1, <1>3, <1>4, <1>5, FS_CardinalityType

(* A step of a thread, and what it does: it adds its edge to one cell, where
   it was not before. *)
GoesOn(e) ==
  /\ e \in Eids(im) /\ at[e] < CellsAcross(edges[im][e])
  /\ at' = [at EXCEPT ![e] = @ + 1]
  /\ input' = input /\ im' = im
VisitsOne(e, d) ==
  /\ d \in Cells /\ e \notin Visited(im, d) /\ e \in Met(im, d)
  /\ \A m \in Maps, c \in Cells :
       Visited(m, c)' = IF m = im /\ c = d THEN Visited(m, c) \cup {e} ELSE Visited(m, c)

(* A step of a thread adds its edge to those that have been to one cell. *)
LEMMA OneCellMore ==
  ASSUME Typed, NEW e, GoesOn(e), NEW d, d = CellThere(edges[im][e], at[e])
  PROVE  VisitsOne(e, d)
<1> USE DEF GoesOn
<1>0. im \in Maps /\ input \in Inputs /\ im \in input.built
  BY InputFacts DEF Typed, Maps
<1>1. PICK n \in Nat, a \in Nat : n = CellsAcross(edges[im][e]) /\ a = at[e] /\ a < n
  <2>1. CellsAcross(edges[im][e]) \in Nat /\ at[e] \in Nat
    BY <1>0, CellsOfThread DEF Typed
  <2> QED
    BY <2>1
<1>2. /\ \A k \in 0 .. n - 1 : CellThere(edges[im][e], k) \in Cells
      /\ \A j, k \in 0 .. n - 1 :
           CellThere(edges[im][e], j) = CellThere(edges[im][e], k) => j = k
  BY <1>0, <1>1, CellsOfThread
<1>3. Steps(im, e) = a /\ Steps(im, e)' = a + 1
  <2>1. ~ (im < im) /\ at'[e] = a + 1
    BY <1>0, <1>1 DEF Typed, Maps
  <2> QED
    BY <1>1, <2>1 DEF Steps
<1>4. d \in Cells
  BY <1>1, <1>2
<1>5. e \notin Visited(im, d)
  <2>1. SUFFICES ASSUME e \in Visited(im, d) PROVE FALSE
    OBVIOUS
  <2>2. PICK k \in 0 .. a - 1 : CellThere(edges[im][e], k) = d
    BY <1>3, <2>1 DEF Visited
  <2>3. k \in 0 .. n - 1 /\ k # a
    BY <1>1
  <2> QED
    BY <1>1, <1>2, <2>2, <2>3
<1>6. e \in Met(im, d)
  BY <1>0, <1>1 DEF Met
<1>7. ASSUME NEW m \in Maps, NEW c \in Cells
      PROVE  Visited(m, c)' = IF m = im /\ c = d THEN Visited(m, c) \cup {e} ELSE Visited(m, c)
  <2>1. Eids(m)' = Eids(m) /\ edges' = edges
    BY DEF Eids, edges
  <2>2. ASSUME NEW f \in Eids(m), m # im \/ f # e
        PROVE  Steps(m, f)' = Steps(m, f)
    <3>1. m = im => at'[f] = at[f]
      BY <2>2 DEF Typed
    <3> QED
      BY <2>1, <3>1 DEF Steps
  <2>3. ASSUME NEW f \in Eids(m), m # im \/ f # e
        PROVE  f \in Visited(m, c)' <=> f \in Visited(m, c)
    BY <2>1, <2>2, <2>3 DEF Visited
  <2>4. ASSUME m = im
        PROVE  e \in Visited(m, c)' <=> e \in Visited(m, c) \/ c = d
    <3>1. e \in Visited(m, c)' <=> \E k \in 0 .. (a + 1) - 1 : CellThere(edges[im][e], k) = c
      BY <1>3, <2>1, <2>4 DEF Visited
    <3>2. e \in Visited(m, c) <=> \E k \in 0 .. a - 1 : CellThere(edges[im][e], k) = c
      BY <1>3, <2>4 DEF Visited
    <3>3. \A k : k \in 0 .. (a + 1) - 1 <=> k \in 0 .. a - 1 \/ k = a
      BY <1>1
    <3> QED
      BY <1>1, <3>1, <3>2, <3>3
  <2>5. Visited(m, c)' \subseteq Eids(m) /\ Visited(m, c) \subseteq Eids(m)
    BY <2>1 DEF Visited
  <2>6. CASE m = im /\ c = d
    BY <2>3, <2>4, <2>5, <2>6
  <2>7. CASE ~ (m = im /\ c = d)
    BY <2>3, <2>4, <2>5, <2>7
  <2> QED
    BY <2>6, <2>7
<1> QED
  BY <1>4, <1>5, <1>6, <1>7 DEF VisitsOne

(* When the last kernel of a phase has ended every thread has been to all its
   cells. *)
LEMMA AllVisited ==
  ASSUME Typed, Ended, im + 1 \notin input.built, NEW m \in Maps, NEW c \in Cells
  PROVE  Visited(m, c) = Met(m, c)
<1>0. input.built = {0} \/ input.built = Maps
  BY InputFacts DEF Typed
<1>1. CASE m \notin input.built
  <2>1. Met(m, c) = {}
    BY <1>1 DEF Met
  <2> QED
    BY <2>1, VisitedFacts
<1>2. CASE m \in input.built
  <2>1. m <= im /\ im \in Maps
    BY <1>0, <1>2 DEF Typed, Maps
  <2>2. ASSUME NEW e \in Eids(m)
        PROVE  Steps(m, e) = CellsAcross(edges[m][e])
    <3>1. CASE m < im
      BY <3>1 DEF Steps
    <3>2. CASE m = im
      <4>1. CellsAcross(edges[m][e]) \in Nat /\ at[e] \in Nat
        BY <3>2, CellsOfThread DEF Typed
      <4>2. at[e] <= CellsAcross(edges[m][e]) /\ ~ (at[e] < CellsAcross(edges[m][e]))
        BY <3>2 DEF Ended, HasCell, Typed
      <4>3. at[e] = CellsAcross(edges[m][e])
        BY <4>1, <4>2
      <4> QED
        BY <2>1, <3>2, <4>3 DEF Steps, Maps
    <3> QED
      BY <2>1, <3>1, <3>2 DEF Maps
  <2> QED
    BY <1>2, <2>2 DEF Visited, Met
<1> QED
  BY <1>1, <1>2

(* Nothing is visited when the first kernel of a phase starts, *)
LEMMA NoneVisited ==
  ASSUME input \in Inputs, im = 0, at = Threads(input, 0), NEW m \in Maps, NEW c
  PROVE  Visited(m, c) = {}
<1>1. ASSUME NEW e \in Eids(m)
      PROVE  Steps(m, e) = 0
  <2>1. CASE m = 0
    BY <2>1 DEF Steps, Threads, Eids
  <2>2. CASE m = 1
    BY <2>2 DEF Steps
  <2> QED
    BY <2>1, <2>2 DEF Maps
<1> QED
  BY <1>1 DEF Visited

(* and the start of the second changes nothing. *)
LEMMA NextMapVisited ==
  ASSUME Typed, NextMap, NEW m \in Maps, NEW c
  PROVE  Visited(m, c)' = Visited(m, c)
<1>0. /\ im = 0 /\ im' = 1 /\ input' = input
      /\ at' = Threads(input, 1) /\ Ended
  BY InputFacts DEF Typed, NextMap, Maps
<1>1. Eids(m)' = Eids(m) /\ edges' = edges
  BY <1>0 DEF Eids, edges
<1>2. ASSUME NEW e \in Eids(m)
      PROVE  Steps(m, e)' = Steps(m, e)
  <2>1. CASE m = 0
    <3>1. CellsAcross(edges[m][e]) \in Nat /\ at[e] \in Nat
      BY <1>0, <2>1, CellsOfThread DEF Typed
    <3>2. at[e] <= CellsAcross(edges[m][e]) /\ ~ (at[e] < CellsAcross(edges[m][e]))
      BY <1>0, <2>1 DEF Ended, HasCell, Typed
    <3>3. at[e] = CellsAcross(edges[m][e])
      BY <3>1, <3>2
    <3> QED
      BY <1>0, <1>1, <2>1, <3>3 DEF Steps
  <2>2. CASE m = 1
    <3>1. at'[e] = 0
      BY <1>0, <2>2 DEF Threads, Eids
    <3> QED
      BY <1>0, <1>1, <2>2, <3>1 DEF Steps
  <2> QED
    BY <2>1, <2>2 DEF Maps
<1> QED
  BY <1>1, <1>2 DEF Visited
-----------------------------------------------------------------------------
(* The number of cells. *)
LEMMA CellNumbers ==
  \E n \in Nat : n = GSize * GSize /\ Cells = 0 .. n - 1
<1>1. PICK n \in Nat : n = GSize * GSize
  BY SizesAssumption
<1> QED
  BY <1>1 DEF Cells

(* Each cell has a part of the slots of its own. *)
LEMMA PartsApart ==
  ASSUME Typed, Counted, phase \in {"fill", "query"}
  PROVE  /\ \A c \in Cells : rowIndex[c] + ne[c][0] + ne[c][1] <= Total
         /\ \A c, d \in Cells : c < d => rowIndex[c] + ne[c][0] + ne[c][1] <= rowIndex[d]
         /\ Total \in Nat
         /\ \A c \in Cells : rowIndex[c] \in Nat /\ ne[c][0] \in Nat /\ ne[c][1] \in Nat
<1>1. PICK n \in Nat : n = GSize * GSize /\ Cells = 0 .. n - 1
  BY CellNumbers
<1>2. rowIndex \in [0 .. n -> Nat] /\ Total = rowIndex[n]
  BY <1>1 DEF Typed, Total
<1>3. \A c \in 0 .. n - 1 : ne[c][0] \in Nat /\ ne[c][1] \in Nat
  BY <1>1 DEF Typed, Maps
<1>4. \A c \in 0 .. n - 1 : rowIndex[c + 1] = rowIndex[c] + ne[c][0] + ne[c][1]
  BY <1>1 DEF Counted
<1>5. \A c \in 0 .. n - 1 : rowIndex[c] <= rowIndex[c + 1]
  <2> TAKE c \in 0 .. n - 1
  <2>1. PICK u \in Nat, v \in Nat, w \in Nat : u = rowIndex[c] /\ v = ne[c][0] /\ w = ne[c][1]
    BY <1>2, <1>3
  <2>2. rowIndex[c + 1] = u + v + w
    BY <1>4, <2>1
  <2> QED
    BY <2>1, <2>2
<1>6. rowIndex \in [0 .. n -> Int]
  BY <1>2
<1>7. \A i, j \in 0 .. n : i <= j => rowIndex[i] <= rowIndex[j]
  BY <1>5, <1>6, NeverFalls
<1>8. ASSUME NEW c \in 0 .. n - 1, NEW d \in 0 .. n, c < d
      PROVE  rowIndex[c] + ne[c][0] + ne[c][1] <= rowIndex[d]
  <2>1. c + 1 \in 0 .. n /\ c + 1 <= d
    BY <1>8
  <2>2. rowIndex[c + 1] <= rowIndex[d]
    BY <1>7, <2>1
  <2> QED
    BY <1>4, <2>2
<1>9. ASSUME NEW c \in Cells
      PROVE  /\ rowIndex[c] + ne[c][0] + ne[c][1] <= Total
             /\ rowIndex[c] \in Nat /\ ne[c][0] \in Nat /\ ne[c][1] \in Nat
  <2>1. c \in 0 .. n - 1 /\ c \in 0 .. n /\ c < n /\ n \in 0 .. n
    BY <1>1
  <2> QED
    BY <1>2, <1>3, <1>8, <2>1
<1>10. ASSUME NEW c \in Cells, NEW d \in Cells, c < d
       PROVE  rowIndex[c] + ne[c][0] + ne[c][1] <= rowIndex[d]
  <2>1. c \in 0 .. n - 1 /\ d \in 0 .. n
    BY <1>1
  <2> QED
    BY <1>8, <1>10, <2>1
<1>11. Total \in Nat
  BY <1>2
<1> QED
  BY <1>9, <1>10, <1>11
-----------------------------------------------------------------------------
(* The invariant, action by action. *)
LEMMA InitHolds ==
  ASSUME Init
  PROVE  Inv
<1>1. PICK n \in Nat : n = GSize * GSize /\ Cells = 0 .. n - 1
  BY CellNumbers
<1>2. input \in Inputs /\ 0 \in input.built
  BY InputFacts DEF Init, Maps
<1>3. Total = 0
  BY <1>1 DEF Init, Total
<1>4. \A m \in Maps, c \in Cells : Visited(m, c) = {}
  BY NoneVisited DEF Init
<1>5. Typed
  <2>1. at \in [Eids(im) -> Nat] /\ \A e \in Eids(im) : at[e] = 0
    BY DEF Init, Threads, Eids
  <2>2. \A e \in Eids(im) : 0 <= CellsAcross(edges[im][e])
    <3> TAKE e \in Eids(im)
    <3>1. CellsAcross(edges[im][e]) \in Nat
      BY <1>2, CellsOfThread DEF Init, Maps
    <3> QED
      BY <3>1
  <2>3. eids \in [0 .. Total - 1 -> {Blank} \cup Eids(0) \cup Eids(1)]
    <3>1. 0 .. Total - 1 = {}
      BY <1>3
    <3> QED
      BY <3>1 DEF Init
  <2>4. /\ ne \in [Cells -> [Maps -> Nat]]
        /\ begin \in [Cells -> Nat]
        /\ rowIndex \in [0 .. GSize * GSize -> Nat]
    BY DEF Init
  <2> QED
    BY <1>2, <2>1, <2>2, <2>3, <2>4 DEF Typed, Init
<1>6. Counting
  BY <1>4, FS_EmptySet DEF Counting, Init
<1>7. Answered
  BY DEF Answered, Init
<1> QED
  BY <1>5, <1>6, <1>7 DEF Inv, Counted, Filling, Filled, Init

(* Edges do not change. *)
LEMMA SameInput ==
  ASSUME input' = input
  PROVE  edges' = edges /\ (\A m : Eids(m)' = Eids(m)) /\ \A m, c : Met(m, c)' = Met(m, c)
BY DEF edges, Eids, Met

(* CountEdge keeps the invariant. *)
LEMMA CountStep ==
  ASSUME Inv, NEW e \in Eids(im), CountEdge(e)
  PROVE  Inv'
<1>0. Typed /\ Counting /\ Answered /\ phase = "count"
  BY DEF Inv, CountEdge
<1>1. PICK d : d = CellThere(edges[im][e], at[e])
  OBVIOUS
<1>2. /\ at[e] < CellsAcross(edges[im][e])
      /\ at' = [at EXCEPT ![e] = @ + 1]
      /\ ne' = [ne EXCEPT ![d][im] = @ + 1]
      /\ UNCHANGED <<input, phase, im, begin, rowIndex, eids, found, closest>>
  BY <1>1 DEF CountEdge, HasCell
<1>3. /\ d \in Cells /\ e \notin Visited(im, d)
      /\ \A m \in Maps, c \in Cells :
           Visited(m, c)' = IF m = im /\ c = d THEN Visited(m, c) \cup {e} ELSE Visited(m, c)
  <2>1. GoesOn(e)
    BY <1>2 DEF GoesOn
  <2>2. VisitsOne(e, d)
    BY <1>0, <1>1, <2>1, OneCellMore
  <2> QED
    BY <2>2 DEF VisitsOne
<1>4. im \in Maps /\ input \in Inputs
  BY <1>0, InputFacts DEF Typed, Maps
<1>5. edges' = edges /\ (\A m : Eids(m)' = Eids(m)) /\ \A m, c : Met(m, c)' = Met(m, c)
  BY <1>2, SameInput
<1>6. Total' = Total
  BY <1>2 DEF Total
<1>7. \A m \in Maps, c \in Cells :
        ne[c][m] \in Nat /\ ne'[c][m] = IF m = im /\ c = d THEN ne[c][m] + 1 ELSE ne[c][m]
  BY <1>0, <1>2, <1>3, <1>4 DEF Typed
<1>8. Typed'
  <2>0. Eids(im)' = Eids(im)
    BY <1>2 DEF Eids
  <2>1. at' \in [Eids(im)' -> Nat]
    BY <1>0, <1>2, <2>0 DEF Typed
  <2>2. \A f \in Eids(im) : at'[f] <= CellsAcross(edges[im][f])
    <3> TAKE f \in Eids(im)
    <3>1. CellsAcross(edges[im][f]) \in Nat /\ at[f] \in Nat
      BY <1>0, <1>4, CellsOfThread DEF Typed
    <3>2. CASE f = e
      BY <1>0, <1>2, <3>1, <3>2 DEF Typed
    <3>3. CASE f # e
      BY <1>0, <1>2, <3>3 DEF Typed
    <3> QED
      BY <3>2, <3>3
  <2>3. ne' \in [Cells -> [Maps -> Nat]]
    BY <1>0, <1>2, <1>3, <1>4 DEF Typed
  <2>4. \A f \in Eids(im)' : at'[f] <= CellsAcross(edges'[im'][f])
    BY <1>2, <1>5, <2>0, <2>2
  <2>5. /\ input' \in Inputs /\ phase' \in {"count", "fill", "query"} /\ im' \in input'.built
        /\ begin' \in [Cells -> Nat]
        /\ rowIndex' \in [0 .. GSize * GSize -> Nat]
        /\ eids' \in [0 .. Total' - 1 -> {Blank} \cup Eids(0)' \cup Eids(1)']
    BY <1>0, <1>2, <1>5, <1>6 DEF Typed
  <2> QED
    BY <2>1, <2>3, <2>4, <2>5 DEF Typed
<1>9. Counting'
  <2>1. ASSUME NEW m \in Maps, NEW c \in Cells
        PROVE  ne'[c][m] = Cardinality(Visited(m, c)')
    <3>1. ne[c][m] = Cardinality(Visited(m, c)) /\ IsFiniteSet(Visited(m, c))
      BY <1>0, VisitedFacts DEF Counting
    <3>2. CASE m = im /\ c = d
      <4>1. Cardinality(Visited(m, c) \cup {e}) = Cardinality(Visited(m, c)) + 1
        BY <1>3, <3>1, <3>2, FS_AddElement
      <4> QED
        BY <1>3, <1>7, <3>1, <3>2, <4>1
    <3>3. CASE ~ (m = im /\ c = d)
      <4>1. Visited(m, c)' = Visited(m, c)
        BY <1>3, <3>3
      <4>2. ne'[c][m] = ne[c][m]
        BY <1>7, <3>3
      <4> QED
        BY <3>1, <4>1, <4>2
    <3> QED
      BY <3>2, <3>3
  <2> QED
    BY <1>0, <1>2, <2>1 DEF Counting
<1>10. Answered'
  BY <1>0, <1>2, <1>5 DEF Answered
<1> QED
  BY <1>0, <1>2, <1>8, <1>9, <1>10 DEF Inv, Counted, Filling, Filled

(* NextMap keeps the invariant. *)
LEMMA NextMapStep ==
  ASSUME Inv, NextMap
  PROVE  Inv'
<1>0. Typed /\ Counting /\ Counted /\ Filling /\ Answered
  BY DEF Inv
<1>1. /\ phase \in {"count", "fill"} /\ im' = im + 1 /\ im + 1 \in input.built
      /\ at' = Threads(input, im + 1)
      /\ UNCHANGED <<input, phase, ne, begin, rowIndex, eids, found, closest>>
  BY DEF NextMap
<1>2. \A m \in Maps : \A c : Visited(m, c)' = Visited(m, c)
  BY <1>0, NextMapVisited
<1>3. edges' = edges /\ (\A m : Eids(m)' = Eids(m)) /\ \A m, c : Met(m, c)' = Met(m, c)
  BY <1>1, SameInput
<1>4. Total' = Total
  BY <1>1 DEF Total
<1>5. Typed'
  <2>1. at' \in [Eids(im)' -> Nat] /\ \A e \in Eids(im)' : at'[e] = 0
    BY <1>1 DEF Threads, Eids
  <2>2. \A e \in Eids(im)' : 0 <= CellsAcross(edges'[im'][e])
    <3>1. im + 1 \in Maps /\ input \in Inputs
      BY <1>0, <1>1, InputFacts DEF Typed, Maps
    <3>2. \A e \in Eids(im + 1) : CellsAcross(edges[im + 1][e]) \in Nat
      BY <3>1, CellsOfThread
    <3>3. Eids(im)' = Eids(im + 1)
      BY <1>1 DEF Eids
    <3> QED
      BY <1>1, <1>3, <3>2, <3>3
  <2>3. /\ input' \in Inputs /\ phase' \in {"count", "fill", "query"} /\ im' \in input'.built
        /\ ne' \in [Cells -> [Maps -> Nat]]
        /\ begin' \in [Cells -> Nat]
        /\ rowIndex' \in [0 .. GSize * GSize -> Nat]
        /\ eids' \in [0 .. Total' - 1 -> {Blank} \cup Eids(0)' \cup Eids(1)']
    BY <1>0, <1>1, <1>3, <1>4 DEF Typed
  <2> QED
    BY <2>1, <2>2, <2>3 DEF Typed
<1>6. Counting'
  BY <1>0, <1>1, <1>2 DEF Counting
<1>7. Counted'
  BY <1>0, <1>1, <1>3 DEF Counted
<1>8. Filling'
  <2>1. \A c, m, n : Stored(c, m, n)' = Stored(c, m, n)
    BY <1>1 DEF Stored, SlotOf
  <2>2. 0 \in Maps /\ 1 \in Maps
    BY DEF Maps
  <2>3. SUFFICES ASSUME phase = "fill", NEW c \in Cells
        PROVE  /\ begin[c] = Cardinality(Visited(0, c)) + Cardinality(Visited(1, c))
               /\ \A m \in Maps : Stored(c, m, Cardinality(Visited(m, c))) = Visited(m, c)
    BY <1>1, <1>2, <2>1, <2>2 DEF Filling, Stored, SlotOf
  <2> QED
    BY <1>0, <2>3 DEF Filling
<1>9. Answered'
  BY <1>0, <1>1, <1>3 DEF Answered
<1> QED
  BY <1>1, <1>5, <1>6, <1>7, <1>8, <1>9 DEF Inv, Filled

(* The scan gives the number of edges in the cells before. *)
LEMMA RunningIsSum ==
  ASSUME Typed
  PROVE  /\ Running \in [0 .. GSize * GSize -> Nat]
         /\ Running[0] = 0
         /\ \A c \in Cells : Running[c + 1] = Running[c] + ne[c][0] + ne[c][1]
<1>1. PICK n \in Nat : n = GSize * GSize /\ Cells = 0 .. n - 1
  BY CellNumbers
<1>2. \A c \in 0 .. n - 1 : ne[c][0] \in Nat /\ ne[c][1] \in Nat
  BY <1>1 DEF Typed, Maps
<1> DEFINE Eq(r) == r = [c \in 0 .. n |-> IF c = 0 THEN 0 ELSE r[c - 1] + ne[c - 1][0] + ne[c - 1][1]]
<1>3. \E r : Eq(r)
  <2> DEFINE f == [c \in 0 .. n - 1 |-> ne[c][0] + ne[c][1]]
  <2>1. f \in [0 .. n - 1 -> Int]
    BY <1>2
  <2>2. PICK p \in [0 .. n -> Int] : p[0] = 0 /\ \A i \in 0 .. n - 1 : p[i + 1] = p[i] + f[i]
    <3> HIDE DEF f
    <3> QED
      BY <2>1, RunningSums
  <2>3. ASSUME NEW c \in 0 .. n
        PROVE  p[c] = IF c = 0 THEN 0 ELSE p[c - 1] + ne[c - 1][0] + ne[c - 1][1]
    <3>1. CASE c = 0
      BY <2>2, <3>1
    <3>2. CASE c # 0
      <4>1. c - 1 \in 0 .. n - 1 /\ (c - 1) + 1 = c /\ c - 1 \in 0 .. n
        BY <3>2
      <4>2. p[c] = p[c - 1] + f[c - 1]
        BY <2>2, <4>1
      <4>3. f[c - 1] = ne[c - 1][0] + ne[c - 1][1]
        BY <4>1
      <4>4. PICK u \in Int, v \in Nat, w \in Nat : u = p[c - 1] /\ v = ne[c - 1][0] /\ w = ne[c - 1][1]
        BY <1>2, <4>1
      <4>5. p[c] = u + v + w
        <5>1. f[c - 1] = v + w
          BY <4>3, <4>4
        <5>2. p[c] = u + (v + w)
          BY <4>2, <4>4, <5>1, Zenon
        <5>3. u + (v + w) = u + v + w
          OBVIOUS
        <5> QED
          BY <5>2, <5>3
      <4>6. p[c] = p[c - 1] + ne[c - 1][0] + ne[c - 1][1]
        BY <4>4, <4>5, Zenon
      <4> QED
        BY <3>2, <4>6, Zenon
    <3> QED
      BY <3>1, <3>2
  <2> QED
    BY <2>3
<1>4. Running = CHOOSE r : Eq(r)
  BY <1>1 DEF Running
<1>5. Eq(Running)
  <2> HIDE DEF Eq
  <2> QED
    BY <1>3, <1>4
<1>6. PICK r : r = Running /\ Eq(r)
  BY <1>5
<1>7. r[0] = 0 /\ DOMAIN r = 0 .. n
  BY <1>6
<1>8. ASSUME NEW c \in 0 .. n - 1
      PROVE  r[c + 1] = r[c] + ne[c][0] + ne[c][1]
  <2>1. c + 1 \in 0 .. n /\ c + 1 # 0 /\ (c + 1) - 1 = c
    OBVIOUS
  <2>2. r[c + 1] = r[(c + 1) - 1] + ne[(c + 1) - 1][0] + ne[(c + 1) - 1][1]
    BY <1>6, <2>1
  <2> QED
    BY <2>1, <2>2
<1>9. \A c \in 0 .. n : r[c] \in Nat
  <2> DEFINE S == {c \in 0 .. n : r[c] \in Nat}
  <2>1. 0 \in S
    BY <1>7
  <2>2. \A c \in 0 .. n - 1 : c \in S => c + 1 \in S
    <3> TAKE c \in 0 .. n - 1
    <3> HAVE c \in S
    <3>1. PICK u \in Nat, v \in Nat, w \in Nat : u = r[c] /\ v = ne[c][0] /\ w = ne[c][1]
      BY <1>2
    <3>2. r[c + 1] = u + v + w
      BY <1>8, <3>1
    <3> QED
      BY <3>1, <3>2
  <2>3. \A c \in 0 .. n : c \in S
    <3> HIDE DEF S
    <3> QED
      BY <2>1, <2>2, UpTo
  <2> QED
    BY <2>3
<1>10. r \in [0 .. n -> Nat]
  BY <1>6, <1>7, <1>9
<1> QED
  BY <1>1, <1>6, <1>7, <1>8, <1>10

(* Scan keeps the invariant. *)
LEMMA ScanStep ==
  ASSUME Inv, Scan
  PROVE  Inv'
<1>0. Typed /\ Counting /\ Answered /\ phase = "count"
  BY DEF Inv, Scan
<1>1. /\ Ended /\ im + 1 \notin input.built
      /\ rowIndex' = Running
      /\ eids' = [i \in 0 .. Running[GSize * GSize] - 1 |-> Blank]
      /\ phase' = "fill" /\ im' = 0 /\ at' = Threads(input, 0)
      /\ UNCHANGED <<input, ne, begin, found, closest>>
  BY DEF Scan
<1>2. edges' = edges /\ (\A m : Eids(m)' = Eids(m)) /\ \A m, c : Met(m, c)' = Met(m, c)
  BY <1>1, SameInput
<1>3. /\ Running \in [0 .. GSize * GSize -> Nat]
      /\ Running[0] = 0
      /\ \A c \in Cells : Running[c + 1] = Running[c] + ne[c][0] + ne[c][1]
  BY <1>0, RunningIsSum
<1>4. \A m \in Maps, c \in Cells : Visited(m, c) = Met(m, c)
  BY <1>0, <1>1, AllVisited
<1>5. ASSUME NEW m \in Maps, NEW c \in Cells
      PROVE  Visited(m, c)' = {}
  <2>1. ASSUME NEW e \in Eids(m)'
        PROVE  Steps(m, e)' = 0
    <3>1. CASE m = 0
      <4>1. at'[e] = 0
        BY <1>1, <3>1 DEF Threads, Eids
      <4> QED
        BY <1>1, <3>1, <4>1 DEF Steps
    <3>2. CASE m = 1
      BY <1>1, <3>2 DEF Steps
    <3> QED
      BY <3>1, <3>2 DEF Maps
  <2> QED
    BY <2>1 DEF Visited
<1>6. Typed'
  <2>1. at' \in [Eids(im)' -> Nat] /\ \A e \in Eids(im)' : at'[e] = 0
    BY <1>1 DEF Threads, Eids
  <2>2. \A e \in Eids(im)' : 0 <= CellsAcross(edges'[im'][e])
    <3>1. 0 \in Maps /\ input \in Inputs
      BY <1>0 DEF Typed, Maps
    <3>2. \A e \in Eids(0) : CellsAcross(edges[0][e]) \in Nat
      BY <3>1, CellsOfThread
    <3>3. Eids(im)' = Eids(0)
      BY <1>1 DEF Eids
    <3> QED
      BY <1>1, <1>2, <3>2, <3>3
  <2>3. im' \in input'.built
    BY <1>0, <1>1, InputFacts DEF Typed, Maps
  <2>4. Total' = Running[GSize * GSize]
    BY <1>1 DEF Total
  <2>5. /\ input' \in Inputs /\ phase' \in {"count", "fill", "query"}
        /\ ne' \in [Cells -> [Maps -> Nat]]
        /\ begin' \in [Cells -> Nat]
        /\ rowIndex' \in [0 .. GSize * GSize -> Nat]
    BY <1>0, <1>1, <1>3 DEF Typed
  <2>6. eids' \in [0 .. Total' - 1 -> {Blank} \cup Eids(0)' \cup Eids(1)']
    BY <1>1, <2>4
  <2> QED
    BY <2>1, <2>2, <2>3, <2>5, <2>6 DEF Typed
<1>7. Counted'
  <2>1. \A c \in Cells, m \in Maps : ne[c][m] = Cardinality(Met(m, c))
    BY <1>0, <1>4 DEF Counting
  <2> QED
    BY <1>1, <1>2, <1>3, <2>1 DEF Counted
<1>8. Filling'
  <2>1. SUFFICES ASSUME NEW c \in Cells
        PROVE  /\ begin'[c] = Cardinality(Visited(0, c)') + Cardinality(Visited(1, c)')
               /\ \A m \in Maps : Stored(c, m, Cardinality(Visited(m, c)))' = Visited(m, c)'
    BY DEF Filling
  <2>2. begin'[c] = 0
    BY <1>0, <1>1 DEF Counting
  <2>3. \A m \in Maps : Visited(m, c)' = {} /\ Cardinality(Visited(m, c)') = 0
    BY <1>5, FS_EmptySet
  <2>4. \A m \in Maps : Stored(c, m, Cardinality(Visited(m, c)))' = {}
    <3> TAKE m \in Maps
    <3>1. 0 .. Cardinality(Visited(m, c)') - 1 = {}
      BY <2>3
    <3> QED
      BY <3>1 DEF Stored
  <2> QED
    BY <2>2, <2>3, <2>4 DEF Maps
<1>9. Answered'
  BY <1>0, <1>1, <1>2 DEF Answered
<1> QED
  BY <1>1, <1>6, <1>7, <1>8, <1>9 DEF Inv, Counting, Filled
-----------------------------------------------------------------------------
(* Where the slots of a cell are: in its part of the array, and those of
   map 1 behind those of map 0. *)
LEMMA SlotPlace ==
  ASSUME Typed, Counted, phase \in {"fill", "query"},
         NEW c \in Cells, NEW m \in Maps, NEW i \in 0 .. ne[c][m] - 1
  PROVE  /\ SlotOf(c, m, i) \in 0 .. Total - 1
         /\ rowIndex[c] <= SlotOf(c, m, i)
         /\ SlotOf(c, m, i) < rowIndex[c] + ne[c][0] + ne[c][1]
         /\ m = 0 => SlotOf(c, m, i) < rowIndex[c] + ne[c][0]
         /\ m = 1 => rowIndex[c] + ne[c][0] <= SlotOf(c, m, i)
<1>1. PICK r \in Nat, u \in Nat, v \in Nat, n \in Nat :
        r = rowIndex[c] /\ u = ne[c][0] /\ v = ne[c][1] /\ n = Total /\ r + u + v <= n
  BY PartsApart
<1>2. CASE m = 0
  <2>1. SlotOf(c, m, i) = r + i /\ i \in 0 .. u - 1
    BY <1>1, <1>2 DEF SlotOf
  <2> QED
    BY <1>1, <1>2, <2>1
<1>3. CASE m = 1
  <2>1. SlotOf(c, m, i) = r + u + i /\ i \in 0 .. v - 1
    BY <1>1, <1>3 DEF SlotOf
  <2> QED
    BY <1>1, <1>3, <2>1
<1> QED
  BY <1>2, <1>3 DEF Maps

(* While map 0 is filled nothing is stored for map 1, and while map 1 is
   filled map 0 is complete. *)
LEMMA OneMapAtATime ==
  ASSUME Typed, NEW c \in Cells
  PROVE  /\ im = 0 => Visited(1, c) = {}
         /\ im = 1 => Visited(0, c) = Met(0, c)
<1>1. im = 0 => \A e \in Eids(1) : Steps(1, e) = 0
  BY DEF Steps
<1>2. im = 1 => \A e \in Eids(0) : Steps(0, e) = CellsAcross(edges[0][e])
  BY DEF Steps
<1>3. im = 1 => 0 \in input.built
  BY InputFacts DEF Typed, Maps
<1> QED
  BY <1>1, <1>2, <1>3 DEF Visited, Met

(* The slot a thread draws is the next one for its map in the cell. *)
LEMMA DrawnSlot ==
  ASSUME Typed, Counted, Filling, phase = "fill", NEW e, NEW d \in Cells,
         e \in Met(im, d), e \notin Visited(im, d)
  PROVE  /\ Cardinality(Visited(im, d)) \in 0 .. ne[d][im] - 1
         /\ rowIndex[d] + begin[d] = SlotOf(d, im, Cardinality(Visited(im, d)))
<1>0. im \in Maps
  BY InputFacts DEF Typed, Maps
<1>1. /\ Visited(im, d) \subseteq Met(im, d) /\ IsFiniteSet(Met(im, d))
      /\ Cardinality(Visited(im, d)) \in Nat
      /\ Cardinality(Visited(im, d)) <= Cardinality(Met(im, d))
  BY <1>0, VisitedFacts
<1>2. Cardinality(Visited(im, d)) # Cardinality(Met(im, d))
  <2>1. Visited(im, d) # Met(im, d)
    OBVIOUS
  <2> QED
    BY <1>1, <2>1, FS_Subset
<1>3. ne[d][im] = Cardinality(Met(im, d)) /\ ne[d][im] \in Nat
  BY <1>0 DEF Counted, Typed
<1>4. Cardinality(Visited(im, d)) \in 0 .. ne[d][im] - 1
  BY <1>1, <1>2, <1>3
<1>5. begin[d] = Cardinality(Visited(0, d)) + Cardinality(Visited(1, d))
  BY DEF Filling
<1>6. PICK r \in Nat, u \in Nat : r = rowIndex[d] /\ u = ne[d][0]
  BY PartsApart
<1>7. CASE im = 0
  <2>1. Cardinality(Visited(1, d)) = 0
    BY <1>7, OneMapAtATime, FS_EmptySet
  <2>2. begin[d] = Cardinality(Visited(im, d))
    BY <1>1, <1>5, <1>7, <2>1
  <2>3. SlotOf(d, im, Cardinality(Visited(im, d))) = r + Cardinality(Visited(im, d))
    BY <1>1, <1>6, <1>7 DEF SlotOf
  <2> QED
    BY <1>4, <1>6, <2>2, <2>3
<1>8. CASE im = 1
  <2>1. Cardinality(Visited(0, d)) = u
    <3>1. Visited(0, d) = Met(0, d)
      BY <1>8, OneMapAtATime
    <3>2. ne[d][0] = Cardinality(Met(0, d))
      BY DEF Counted, Maps
    <3> QED
      BY <1>6, <3>1, <3>2
  <2>2. begin[d] = u + Cardinality(Visited(im, d))
    BY <1>5, <1>8, <2>1
  <2>3. SlotOf(d, im, Cardinality(Visited(im, d))) = r + u + Cardinality(Visited(im, d))
    BY <1>1, <1>6, <1>8 DEF SlotOf
  <2>4. r + (u + Cardinality(Visited(im, d))) = r + u + Cardinality(Visited(im, d))
    BY <1>1, <1>6
  <2> QED
    BY <1>4, <1>6, <2>2, <2>3, <2>4
<1> QED
  BY <1>0, <1>7, <1>8 DEF Maps

(* No other slot that holds something is the one that is drawn. *)
LEMMA DrawnSlotIsFree ==
  ASSUME Typed, Counted, Filling, phase = "fill", NEW e, NEW d \in Cells,
         e \in Met(im, d), e \notin Visited(im, d),
         NEW c \in Cells, NEW m \in Maps, NEW i \in 0 .. Cardinality(Visited(m, c)) - 1
  PROVE  /\ SlotOf(c, m, i) \in 0 .. Total - 1
         /\ SlotOf(c, m, i) # SlotOf(d, im, Cardinality(Visited(im, d)))
<1>0. im \in Maps
  BY InputFacts DEF Typed, Maps
<1>1. PICK k \in Nat : k = Cardinality(Visited(im, d))
  BY <1>0, VisitedFacts
<1>2. k \in 0 .. ne[d][im] - 1
  BY <1>1, DrawnSlot
<1>3. i \in 0 .. ne[c][m] - 1
  <2>1. ne[c][m] = Cardinality(Met(m, c)) /\ ne[c][m] \in Nat
    BY DEF Counted, Typed
  <2>2. Cardinality(Visited(m, c)) \in Nat /\ Cardinality(Visited(m, c)) <= Cardinality(Met(m, c))
    BY VisitedFacts
  <2> QED
    BY <2>1, <2>2
<1>4. PICK s \in Int, p \in Int, r \in Nat, u \in Nat, v \in Nat, t \in Nat, w \in Nat, x \in Nat :
        /\ s = SlotOf(c, m, i) /\ p = SlotOf(d, im, k)
        /\ r = rowIndex[c] /\ u = ne[c][0] /\ v = ne[c][1]
        /\ t = rowIndex[d] /\ w = ne[d][0] /\ x = ne[d][1]
        /\ s \in 0 .. Total - 1
  <2>1. SlotOf(c, m, i) \in 0 .. Total - 1 /\ SlotOf(d, im, k) \in 0 .. Total - 1
    BY <1>0, <1>2, <1>3, SlotPlace
  <2>2. Total \in Nat
    BY PartsApart
  <2>3. SlotOf(c, m, i) \in Int /\ SlotOf(d, im, k) \in Int
    BY <2>1, <2>2
  <2> QED
    BY <2>1, <2>3, PartsApart
<1>5. r <= s /\ s < r + u + v /\ (m = 0 => s < r + u) /\ (m = 1 => r + u <= s)
  BY <1>3, <1>4, SlotPlace
<1>6. t <= p /\ p < t + w + x /\ (im = 0 => p < t + w) /\ (im = 1 => t + w <= p)
  BY <1>0, <1>2, <1>4, SlotPlace
<1>7. CASE c # d
  <2>1. c < d \/ d < c
    BY <1>7, CellNumbers
  <2>2. (c < d => r + u + v <= t) /\ (d < c => t + w + x <= r)
    BY <1>4, PartsApart
  <2>3. s # p
    BY <1>5, <1>6, <2>1, <2>2
  <2> QED
    BY <1>1, <1>4, <2>3
<1>8. CASE c = d /\ m # im
  <2>1. r = t /\ u = w
    BY <1>4, <1>8
  <2>2. s # p
    BY <1>0, <1>5, <1>6, <1>8, <2>1 DEF Maps
  <2> QED
    BY <1>1, <1>4, <2>2
<1>9. CASE c = d /\ m = im
  <2>1. i \in Nat /\ i < k
    BY <1>1, <1>9
  <2>2. PICK z \in Int : z = m * u
    BY DEF Maps
  <2>3. s = r + z + i /\ p = r + z + k
    BY <1>4, <1>9, <2>2 DEF SlotOf
  <2>4. s # p
    BY <2>1, <2>3
  <2> QED
    BY <1>1, <1>4, <2>4
<1> QED
  BY <1>7, <1>8, <1>9

(* FillEdge keeps the invariant. *)
LEMMA FillStep ==
  ASSUME Inv, NEW e \in Eids(im), FillEdge(e)
  PROVE  Inv'
<1>0. Typed /\ Counted /\ Filling /\ Answered /\ phase = "fill"
  BY DEF Inv, FillEdge
<1>1. PICK d, slot : d = CellThere(edges[im][e], at[e]) /\ slot = rowIndex[d] + begin[d]
  OBVIOUS
<1>2. /\ at[e] < CellsAcross(edges[im][e])
      /\ at' = [at EXCEPT ![e] = @ + 1]
      /\ eids' = [i \in DOMAIN eids \cup {slot} |-> IF i = slot THEN e ELSE eids[i]]
      /\ begin' = [begin EXCEPT ![d] = @ + 1]
      /\ UNCHANGED <<input, phase, im, ne, rowIndex, found, closest>>
  BY <1>1 DEF FillEdge, HasCell
<1>3. /\ d \in Cells /\ e \notin Visited(im, d) /\ e \in Met(im, d)
      /\ \A m \in Maps, c \in Cells :
           Visited(m, c)' = IF m = im /\ c = d THEN Visited(m, c) \cup {e} ELSE Visited(m, c)
  <2>1. GoesOn(e)
    BY <1>2 DEF GoesOn
  <2>2. VisitsOne(e, d)
    BY <1>0, <1>1, <2>1, OneCellMore
  <2> QED
    BY <2>2 DEF VisitsOne
<1>4. im \in Maps /\ input \in Inputs
  BY <1>0, InputFacts DEF Typed, Maps
<1>5. edges' = edges /\ (\A m : Eids(m)' = Eids(m)) /\ \A m, c : Met(m, c)' = Met(m, c)
  BY <1>2, SameInput
<1>6. Total' = Total
  BY <1>2 DEF Total
<1>7. PICK k \in Nat : k = Cardinality(Visited(im, d))
  BY <1>0, <1>3, <1>4, VisitedFacts
<1>8. k \in 0 .. ne[d][im] - 1 /\ slot = SlotOf(d, im, k)
  BY <1>0, <1>1, <1>3, <1>7, DrawnSlot
<1>9. slot \in 0 .. Total - 1
  BY <1>0, <1>3, <1>4, <1>8, SlotPlace
<1>10. DOMAIN eids = 0 .. Total - 1
  BY <1>0 DEF Typed
<1>11. eids' = [i \in 0 .. Total - 1 |-> IF i = slot THEN e ELSE eids[i]]
  BY <1>2, <1>9, <1>10
<1>12. \A c, m, i : SlotOf(c, m, i)' = SlotOf(c, m, i)
  BY <1>2 DEF SlotOf
<1>13. ASSUME NEW c \in Cells, NEW m \in Maps, NEW i \in 0 .. Cardinality(Visited(m, c)) - 1
       PROVE  eids'[SlotOf(c, m, i)] = eids[SlotOf(c, m, i)]
  <2>1. SlotOf(c, m, i) \in 0 .. Total - 1 /\ SlotOf(c, m, i) # slot
    BY <1>0, <1>3, <1>7, <1>8, DrawnSlotIsFree
  <2> QED
    BY <1>11, <2>1
<1>14. \A m \in Maps, c \in Cells : Cardinality(Visited(m, c)) \in Nat /\ IsFiniteSet(Visited(m, c))
  BY <1>0, VisitedFacts
<1>15. ASSUME NEW m \in Maps, m = im
       PROVE  Cardinality(Visited(m, d)') = k + 1
  <2>1. Visited(m, d)' = Visited(m, d) \cup {e}
    BY <1>3, <1>15
  <2>2. e \notin Visited(m, d) /\ IsFiniteSet(Visited(m, d)) /\ Cardinality(Visited(m, d)) = k
    BY <1>3, <1>7, <1>14, <1>15
  <2>3. Cardinality(Visited(m, d) \cup {e}) = k + 1
    BY <2>2, FS_AddElement
  <2> QED
    BY <2>1, <2>3
<1>16. Typed'
  <2>0. Eids(im)' = Eids(im)
    BY <1>2 DEF Eids
  <2>1. at' \in [Eids(im)' -> Nat]
    BY <1>0, <1>2, <2>0 DEF Typed
  <2>2. \A f \in Eids(im) : at'[f] <= CellsAcross(edges[im][f])
    <3> TAKE f \in Eids(im)
    <3>1. CellsAcross(edges[im][f]) \in Nat /\ at[f] \in Nat
      BY <1>0, <1>4, CellsOfThread DEF Typed
    <3>2. CASE f = e
      BY <1>0, <1>2, <3>1, <3>2 DEF Typed
    <3>3. CASE f # e
      BY <1>0, <1>2, <3>3 DEF Typed
    <3> QED
      BY <3>2, <3>3
  <2>3. begin' \in [Cells -> Nat]
    BY <1>0, <1>2, <1>3 DEF Typed
  <2>4. \A f \in Eids(im)' : at'[f] <= CellsAcross(edges'[im'][f])
    BY <1>2, <1>5, <2>0, <2>2
  <2>5. eids' \in [0 .. Total' - 1 -> {Blank} \cup Eids(0)' \cup Eids(1)']
    <3>1. e \in Eids(0) \cup Eids(1)
      BY <1>4 DEF Maps
    <3>2. \A i \in 0 .. Total - 1 : eids[i] \in {Blank} \cup Eids(0) \cup Eids(1)
      BY <1>0 DEF Typed
    <3> QED
      BY <1>5, <1>6, <1>11, <3>1, <3>2
  <2>6. /\ input' \in Inputs /\ phase' \in {"count", "fill", "query"} /\ im' \in input'.built
        /\ ne' \in [Cells -> [Maps -> Nat]]
        /\ rowIndex' \in [0 .. GSize * GSize -> Nat]
    BY <1>0, <1>2 DEF Typed
  <2> QED
    BY <2>1, <2>3, <2>4, <2>5, <2>6 DEF Typed
<1>17. Counted'
  BY <1>0, <1>2, <1>5 DEF Counted
<1>18. ASSUME NEW c \in Cells
       PROVE  begin'[c] = Cardinality(Visited(0, c)') + Cardinality(Visited(1, c)')
  <2>1. begin[c] = Cardinality(Visited(0, c)) + Cardinality(Visited(1, c))
    BY <1>0 DEF Filling
  <2>2. PICK v \in Nat, w \in Nat :
          v = Cardinality(Visited(0, c)) /\ w = Cardinality(Visited(1, c))
    BY <1>14 DEF Maps
  <2>3. CASE c # d
    <3>1. \A m \in Maps : Visited(m, c)' = Visited(m, c)
      BY <1>3, <2>3
    <3>2. begin'[c] = begin[c]
      BY <1>0, <1>2, <2>3 DEF Typed
    <3> QED
      BY <2>1, <3>1, <3>2 DEF Maps
  <2>4. CASE c = d /\ im = 0
    <3>0. 0 \in Maps /\ 1 \in Maps /\ v = k
      BY <1>7, <2>2, <2>4 DEF Maps
    <3>1. Cardinality(Visited(0, c)') = v + 1 /\ Visited(1, c)' = Visited(1, c)
      BY <1>3, <1>15, <2>4, <3>0
    <3>2. begin'[c] = (v + w) + 1
      BY <1>0, <1>2, <2>1, <2>2, <2>4 DEF Typed
    <3> QED
      BY <2>2, <3>1, <3>2
  <2>5. CASE c = d /\ im = 1
    <3>0. 0 \in Maps /\ 1 \in Maps /\ w = k
      BY <1>7, <2>2, <2>5 DEF Maps
    <3>1. Cardinality(Visited(1, c)') = w + 1 /\ Visited(0, c)' = Visited(0, c)
      BY <1>3, <1>15, <2>5, <3>0
    <3>2. begin'[c] = (v + w) + 1
      BY <1>0, <1>2, <2>1, <2>2, <2>5 DEF Typed
    <3> QED
      BY <2>2, <3>1, <3>2
  <2> QED
    BY <1>4, <2>3, <2>4, <2>5 DEF Maps
<1>19. ASSUME NEW c \in Cells, NEW m \in Maps
       PROVE  Stored(c, m, Cardinality(Visited(m, c)))' = Visited(m, c)'
  <2>1. {eids[SlotOf(c, m, i)] : i \in 0 .. Cardinality(Visited(m, c)) - 1} = Visited(m, c)
    BY <1>0 DEF Filling, Stored
  <2>2. Stored(c, m, Cardinality(Visited(m, c)))'
          = {eids'[SlotOf(c, m, i)] : i \in 0 .. Cardinality(Visited(m, c)') - 1}
    BY <1>12 DEF Stored
  <2>3. {eids'[SlotOf(c, m, i)] : i \in 0 .. Cardinality(Visited(m, c)) - 1} = Visited(m, c)
    BY <1>13, <2>1
  <2>4. CASE ~ (m = im /\ c = d)
    <3>1. Visited(m, c)' = Visited(m, c)
      BY <1>3, <2>4
    <3> QED
      BY <2>2, <2>3, <3>1
  <2>5. CASE m = im /\ c = d
    <3>1. Visited(m, c)' = Visited(m, c) \cup {e}
      BY <1>3, <2>5
    <3>2. eids'[SlotOf(c, m, k)] = e
      BY <1>8, <1>9, <1>11, <2>5
    <3>3. Cardinality(Visited(m, c)') = k + 1 /\ Cardinality(Visited(m, c)) = k
      BY <1>7, <1>15, <2>5
    <3>4. 0 .. (k + 1) - 1 = (0 .. k - 1) \cup {k}
      OBVIOUS
    <3>5. {eids'[SlotOf(c, m, i)] : i \in (0 .. k - 1) \cup {k}}
            = {eids'[SlotOf(c, m, i)] : i \in 0 .. k - 1} \cup {eids'[SlotOf(c, m, k)]}
      OBVIOUS
    <3> QED
      BY <2>2, <2>3, <3>1, <3>2, <3>3, <3>4, <3>5
  <2> QED
    BY <2>4, <2>5
<1>20. Filling'
  BY <1>18, <1>19 DEF Filling
<1>21. Answered'
  BY <1>0, <1>2, <1>5 DEF Answered
<1> QED
  BY <1>0, <1>2, <1>16, <1>17, <1>20, <1>21 DEF Inv, Counting, Filled

(* Restore keeps the invariant. *)
LEMMA RestoreStep ==
  ASSUME Inv, Restore
  PROVE  Inv'
<1>0. Typed /\ Counted /\ Filling /\ Answered /\ phase = "fill"
  BY DEF Inv, Restore
<1>1. /\ Ended /\ im + 1 \notin input.built
      /\ begin' = [c \in Cells |-> rowIndex[c]] /\ phase' = "query"
      /\ UNCHANGED <<input, im, at, ne, rowIndex, eids, found, closest>>
  BY DEF Restore
<1>2. edges' = edges /\ (\A m : Eids(m)' = Eids(m)) /\ \A m, c : Met(m, c)' = Met(m, c)
  BY <1>1, SameInput
<1>3. \A m \in Maps, c \in Cells : Visited(m, c) = Met(m, c)
  BY <1>0, <1>1, AllVisited
<1>4. Total' = Total
  BY <1>1 DEF Total
<1>5. Typed'
  <2>1. Eids(im)' = Eids(im)
    BY <1>1 DEF Eids
  <2>2. begin' \in [Cells -> Nat]
    BY <1>0, <1>1, PartsApart
  <2>3. /\ input' \in Inputs /\ phase' \in {"count", "fill", "query"} /\ im' \in input'.built
        /\ at' \in [Eids(im)' -> Nat]
        /\ ne' \in [Cells -> [Maps -> Nat]]
        /\ rowIndex' \in [0 .. GSize * GSize -> Nat]
        /\ eids' \in [0 .. Total' - 1 -> {Blank} \cup Eids(0)' \cup Eids(1)']
    BY <1>0, <1>1, <1>2, <1>4, <2>1 DEF Typed
  <2>4. \A f \in Eids(im)' : at'[f] <= CellsAcross(edges'[im'][f])
    BY <1>0, <1>1, <1>2, <2>1 DEF Typed
  <2> QED
    BY <2>2, <2>3, <2>4 DEF Typed
<1>6. Counted'
  BY <1>0, <1>1, <1>2 DEF Counted
<1>7. Filled'
  <2>1. SUFFICES ASSUME NEW c \in Cells
        PROVE  /\ begin'[c] = rowIndex'[c]
               /\ \A m \in Maps : Stored(c, m, ne[c][m])' = Met(m, c)'
    BY DEF Filled
  <2>2. begin'[c] = rowIndex'[c]
    BY <1>1
  <2>3. ASSUME NEW m \in Maps
        PROVE  Stored(c, m, ne[c][m])' = Met(m, c)'
    <3>1. ne[c][m] = Cardinality(Visited(m, c))
      BY <1>0, <1>3 DEF Counted
    <3>2. Stored(c, m, ne[c][m]) = Visited(m, c)
      BY <1>0, <3>1 DEF Filling
    <3>3. Stored(c, m, ne[c][m])' = Stored(c, m, ne[c][m])
      BY <1>1 DEF Stored, SlotOf
    <3> QED
      BY <1>2, <1>3, <3>2, <3>3
  <2> QED
    BY <2>2, <2>3
<1>8. Answered'
  BY <1>0, <1>1, <1>2 DEF Answered
<1> QED
  BY <1>1, <1>5, <1>6, <1>7, <1>8 DEF Inv, Counting, Filling
-----------------------------------------------------------------------------
(* The queries.  They change nothing but their answers. *)
LEMMA QueryKeeps ==
  ASSUME Inv, phase = "query",
         UNCHANGED <<input, phase, im, at, ne, begin, rowIndex, eids>>
  PROVE  (Typed /\ Counting /\ Counted /\ Filling /\ Filled)'
<1>1. Typed /\ Counted /\ Filled
  BY DEF Inv
<1>2. edges' = edges /\ (\A m : Eids(m)' = Eids(m)) /\ \A m, c : Met(m, c)' = Met(m, c)
  BY SameInput
<1>3. Total' = Total /\ Eids(im)' = Eids(im)
  BY DEF Total, Eids
<1>4. Typed'
  <2>1. \A f \in Eids(im)' : at'[f] <= CellsAcross(edges'[im'][f])
    BY <1>1, <1>2, <1>3 DEF Typed
  <2> QED
    BY <1>1, <1>2, <1>3, <2>1 DEF Typed
<1>5. Counted'
  BY <1>1, <1>2 DEF Counted
<1>6. Filled'
  <2>1. \A c, m, n : Stored(c, m, n)' = Stored(c, m, n)
    BY DEF Stored, SlotOf
  <2>2. ASSUME NEW c \in Cells, NEW m \in Maps
        PROVE  Stored(c, m, ne[c][m])' = Met(m, c)'
    <3>1. Stored(c, m, ne[c][m]) = Met(m, c)
      BY <1>1 DEF Filled
    <3>2. Stored(c, m, ne[c][m])' = Stored(c, m, ne[c][m])
      BY DEF Stored, SlotOf
    <3> QED
      BY <1>2, <3>1, <3>2
  <2> QED
    BY <1>1, <2>2 DEF Filled
<1> QED
  BY <1>4, <1>5, <1>6 DEF Counting, Filling

(* What is in the slots of a cell are edges. *)
LEMMA SlotsHoldEdges ==
  ASSUME Inv, phase = "query", NEW c \in Cells, NEW m \in Maps, NEW i \in 0 .. ne[c][m] - 1
  PROVE  EidIn(c, m, i) \in Met(m, c) /\ EidIn(c, m, i) \in Eids(m)
<1>1. Filled
  BY DEF Inv
<1>2. EidIn(c, m, i) = eids[SlotOf(c, m, i)]
  BY <1>1 DEF Filled, EidIn, SlotOf
<1>3. EidIn(c, m, i) \in Stored(c, m, ne[c][m])
  BY <1>2 DEF Stored
<1> QED
  BY <1>1, <1>3 DEF Filled, Met

(* The pairs of a cell that the crossing query tests are finitely many. *)
Tested ==
  UNION {{<<c, i, j>> : i \in 0 .. ne[c][0] - 1, j \in 0 .. ne[c][1] - 1} : c \in Cells}

(* They are finitely many. *)
LEMMA TestedIsFinite ==
  ASSUME Inv, phase = "query"
  PROVE  IsFiniteSet(Tested)
<1>1. Typed /\ Counted
  BY DEF Inv
<1>2. PICK k \in Nat : k = Cardinality(Eids(0)) + Cardinality(Eids(1))
  BY <1>1, InputFacts DEF Typed, Maps
<1>3. \A c \in Cells, m \in Maps : ne[c][m] \in 0 .. k
  <2> TAKE c \in Cells, m \in Maps
  <2>1. /\ Cardinality(Met(m, c)) \in Nat /\ Cardinality(Met(m, c)) <= Cardinality(Eids(m))
        /\ ne[c][m] = Cardinality(Met(m, c))
    BY <1>1, VisitedFacts DEF Counted
  <2>2. Cardinality(Eids(0)) \in Nat /\ Cardinality(Eids(1)) \in Nat
    BY <1>1, InputFacts DEF Typed, Maps
  <2>3. m = 0 \/ m = 1
    BY DEF Maps
  <2> QED
    BY <1>2, <2>1, <2>2, <2>3
<1> DEFINE S == (Cells \X (0 .. k)) \X (0 .. k)
           f == [p \in S |-> <<p[1][1], p[1][2], p[2]>>]
           T == {f[p] : p \in S}
<1>4. IsFiniteSet(S)
  <2>1. IsFiniteSet(Cells)
    BY CellNumbers, FS_Interval
  <2>2. IsFiniteSet(0 .. k)
    BY FS_Interval
  <2> QED
    BY <2>1, <2>2, FS_Product
<1>5. f \in Surjection(S, T)
  <2>1. f \in [S -> T]
    OBVIOUS
  <2>2. \A t \in T : \E p \in S : f[p] = t
    OBVIOUS
  <2> HIDE DEF f, S, T
  <2> QED
    BY <2>1, <2>2 DEF Surjection
<1>6. IsFiniteSet(T)
  <2> HIDE DEF f, S, T
  <2> QED
    BY <1>4, <1>5, FS_Surjection
<1>7. Tested \subseteq T
  <2>1. SUFFICES ASSUME NEW c \in Cells, NEW i \in 0 .. ne[c][0] - 1, NEW j \in 0 .. ne[c][1] - 1
        PROVE  <<c, i, j>> \in T
    BY DEF Tested
  <2>2. i \in 0 .. k /\ j \in 0 .. k
    BY <1>3 DEF Maps
  <2>3. <<<<c, i>>, j>> \in S /\ f[<<<<c, i>>, j>>] = <<c, i, j>>
    BY <2>2
  <2> QED
    BY <2>3
<1> QED
  <2> HIDE DEF T
  <2> QED
    BY <1>6, <1>7, FS_Subset

(* IntersectEdge keeps the invariant. *)
LEMMA IntersectStep ==
  ASSUME Inv, IntersectEdge
  PROVE  Inv'
<1>1. /\ phase = "query"
      /\ UNCHANGED <<input, phase, im, at, ne, begin, rowIndex, eids, closest>>
  BY DEF IntersectEdge
<1> DEFINE hits == {r \in Tested : Reports(r[1], r[2], r[3])}
           of(p) == {r \in hits : p = <<EidIn(r[1], 0, r[2]), EidIn(r[1], 1, r[3])>>}
<1>2. found' = [p \in Eids(0) \X Eids(1) |-> Cardinality(of(p))]
  BY DEF IntersectEdge, Tested
<1>3. \A p : Cardinality(of(p)) \in Nat
  <2> TAKE p
  <2>1. of(p) \subseteq Tested
    OBVIOUS
  <2>2. IsFiniteSet(Tested)
    BY <1>1, TestedIsFinite
  <2> HIDE DEF of
  <2> QED
    BY <2>1, <2>2, FS_Subset, FS_CardinalityType
<1>4. found' \in [Eids(0) \X Eids(1) -> Nat]
  <2> HIDE DEF of
  <2> QED
    BY <1>2, <1>3
<1>5. (\A m : Eids(m)' = Eids(m))
  BY <1>1, SameInput
<1>6. Answered'
  BY <1>1, <1>4, <1>5 DEF Answered, Inv
<1> QED
  BY <1>1, <1>6, QueryKeeps DEF Inv

(* The loop over the edges of a cell goes from one best edge to the
   next. *)
Better(q, x, y, c, i, b) ==
  /\ ~Beside(q, x, edges[1 - q][EidIn(c, 1 - q, i)])
  /\ ~Above(q, x, y, edges[1 - q][EidIn(c, 1 - q, i)])
  /\ b = NoEdge \/ Replaces(q, x, edges[1 - q][EidIn(c, 1 - q, i)], edges[1 - q][b])

LoopOf(q, x, y, c, n, r) ==
  /\ BestOf(q, x, y, c) = r[n] /\ r[0] = NoEdge
  /\ \A k \in 0 .. n - 1 : r[k + 1] = IF Better(q, x, y, c, k, r[k]) THEN EidIn(c, 1 - q, k) ELSE r[k]

LEMMA BestIsRun ==
  ASSUME Inv, phase = "query", NEW q \in Maps, NEW x, NEW y, NEW c \in Cells,
         NEW n \in Nat, n = ne[c][1 - q]
  PROVE  \E r : LoopOf(q, x, y, c, n, r)
<1>1. 1 - q \in Maps
  BY DEF Maps
<1>2. n = ne[c][1 - q]
  OBVIOUS
<1> DEFINE V == Eids(1 - q) \cup {NoEdge}
<1>3. \A i \in 0 .. n - 1 : EidIn(c, 1 - q, i) \in V
  BY <1>1, <1>2, SlotsHoldEdges
<1> DEFINE Eq(r) ==
      r = [k \in 0 .. ne[c][1 - q] |->
             IF k = 0 THEN NoEdge
             ELSE IF Better(q, x, y, c, k - 1, r[k - 1])
                  THEN EidIn(c, 1 - q, k - 1) ELSE r[k - 1]]
<1>4. \E r : Eq(r)
  <2> DEFINE g == [i \in 0 .. n - 1 |->
                     [b \in V |-> IF Better(q, x, y, c, i, b) THEN EidIn(c, 1 - q, i) ELSE b]]
  <2>1. g \in [0 .. n - 1 -> [V -> V]] /\ NoEdge \in V
    BY <1>3
  <2>2. PICK f \in [0 .. n -> V] : f[0] = NoEdge /\ \A i \in 0 .. n - 1 : f[i + 1] = g[i][f[i]]
    <3>1. PICK W, h, v : W = V /\ h = g /\ v = NoEdge
      OBVIOUS
    <3>2. v \in W /\ h \in [0 .. n - 1 -> [W -> W]]
      BY <2>1, <3>1
    <3>3. HasRun(n, W, v, h)
      BY <3>2, StepByStep
    <3> HIDE DEF g, V
    <3> QED
      BY <3>1, <3>3 DEF HasRun
  <2>3. ASSUME NEW k \in 0 .. n
        PROVE  f[k] = IF k = 0 THEN NoEdge
                      ELSE IF Better(q, x, y, c, k - 1, f[k - 1])
                           THEN EidIn(c, 1 - q, k - 1) ELSE f[k - 1]
    <3>1. CASE k = 0
      BY <2>2, <3>1
    <3>2. CASE k # 0
      <4>1. k - 1 \in 0 .. n - 1 /\ (k - 1) + 1 = k /\ k - 1 \in 0 .. n
        BY <3>2
      <4>2. PICK b \in V : b = f[k - 1]
        BY <4>1
      <4>3. f[k] = g[k - 1][b]
        BY <2>2, <4>1, <4>2
      <4>4. g[k - 1][b] = IF Better(q, x, y, c, k - 1, b) THEN EidIn(c, 1 - q, k - 1) ELSE b
        BY <4>1
      <4> HIDE DEF g, V
      <4> QED
        BY <3>2, <4>2, <4>3, <4>4
    <3> QED
      BY <3>1, <3>2
  <2> HIDE DEF g, V
  <2> QED
    BY <1>2, <2>3
<1>5. BestOf(q, x, y, c) = (CHOOSE r : Eq(r))[n]
  BY <1>2 DEF BestOf, Better
<1>6. PICK r : r = (CHOOSE f : Eq(f)) /\ Eq(r)
  <2> HIDE DEF Eq
  <2> QED
    BY <1>4
<1>7. ASSUME NEW k \in 0 .. n - 1
      PROVE  r[k + 1] = IF Better(q, x, y, c, k, r[k]) THEN EidIn(c, 1 - q, k) ELSE r[k]
  <2>1. PICK i \in 0 .. n : i = k + 1 /\ i # 0 /\ i - 1 = k
    OBVIOUS
  <2>2. r[i] = IF i = 0 THEN NoEdge
               ELSE IF Better(q, x, y, c, i - 1, r[i - 1])
                    THEN EidIn(c, 1 - q, i - 1) ELSE r[i - 1]
    BY <1>2, <1>6
  <2> QED
    BY <2>1, <2>2
<1>8. r[0] = NoEdge
  BY <1>2, <1>6
<1> HIDE DEF Eq
<1> QED
  BY <1>5, <1>6, <1>7, <1>8 DEF LoopOf

(* What a cell leaves as the closest edge is an edge of the map, or none. *)
LEMMA BestIsEdge ==
  ASSUME Inv, phase = "query", NEW q \in Maps, NEW x, NEW y, NEW c \in Cells
  PROVE  BestOf(q, x, y, c) \in Eids(1 - q) \cup {NoEdge}
<1>1. 1 - q \in Maps
  BY DEF Maps
<1>2. PICK n \in Nat : n = ne[c][1 - q]
  BY <1>1 DEF Inv, Typed
<1> DEFINE V == Eids(1 - q) \cup {NoEdge}
<1>3. \A i \in 0 .. n - 1 : EidIn(c, 1 - q, i) \in V
  BY <1>1, <1>2, SlotsHoldEdges
<1>4. PICK r : LoopOf(q, x, y, c, n, r)
  BY <1>2, BestIsRun
<1> DEFINE S == {k \in 0 .. n : r[k] \in V}
<1>5. 0 \in S
  BY <1>4 DEF LoopOf
<1>6. \A k \in 0 .. n - 1 : k \in S => k + 1 \in S
  BY <1>3, <1>4 DEF LoopOf
<1>7. n \in S
  <2> HIDE DEF S
  <2> QED
    BY <1>5, <1>6, UpTo
<1> QED
  BY <1>4, <1>7 DEF LoopOf

(* The walk ends with an edge of the other map, or none. *)
LEMMA WalkIsEdge ==
  ASSUME Inv, phase = "query", NEW q \in Maps, NEW x \in 0 .. Span, NEW y \in 0 .. Span
  PROVE  Walk(q, x, y) \in Eids(1 - q) \cup {NoEdge}
<1> DEFINE Ans(r) == Answer(q, x, y, r * GSize + CellOf(x, 1))
           Rows == {r \in CellOf(y, 1) .. GSize - 1 : Ans(r) # NoEdge}
<1>1. CellOf(x, 1) \in 0 .. GSize - 1 /\ CellOf(y, 1) \in 0 .. GSize - 1
  BY CellInside
<1>2. ASSUME NEW r \in CellOf(y, 1) .. GSize - 1
      PROVE  Ans(r) \in Eids(1 - q) \cup {NoEdge}
  <2>1. r \in 0 .. GSize - 1
    BY <1>1
  <2>2. r * GSize + CellOf(x, 1) \in Cells
    <3>1. (r + 1) * GSize <= GSize * GSize
      BY <2>1, SizesAssumption, Multiples
    <3>2. (r + 1) * GSize = r * GSize + GSize
      BY <2>1, SizesAssumption
    <3>3. r * GSize \in Nat /\ GSize * GSize \in Nat
      BY <2>1, SizesAssumption
    <3> QED
      BY <1>1, <3>1, <3>2, <3>3, SizesAssumption DEF Cells
  <2>3. BestOf(q, x, y, r * GSize + CellOf(x, 1)) \in Eids(1 - q) \cup {NoEdge}
    BY <2>2, BestIsEdge
  <2> QED
    BY <2>3 DEF Answer
<1>3. Walk(q, x, y) = IF Rows = {} THEN NoEdge ELSE Ans(CHOOSE r \in Rows : \A t \in Rows : r <= t)
  BY DEF Walk
<1>4. CASE Rows = {}
  <2> HIDE DEF Rows
  <2> QED
    BY <1>3, <1>4
<1>5. CASE Rows # {}
  <2>1. Rows \in SUBSET Nat
    BY <1>1
  <2>2. \E r \in Rows : \A t \in Rows : r <= t
    <3> HIDE DEF Rows
    <3> QED
      BY <1>5, <2>1, LeastElement
  <2>3. PICK l \in Rows : l = CHOOSE r \in Rows : \A t \in Rows : r <= t
    <3> HIDE DEF Rows
    <3> QED
      BY <2>2
  <2>4. Ans(l) \in Eids(1 - q) \cup {NoEdge}
    BY <1>2
  <2> HIDE DEF Rows, Ans
  <2> QED
    BY <1>3, <1>5, <2>3, <2>4
<1> QED
  BY <1>4, <1>5

(* LocateVertices keeps the invariant. *)
LEMMA LocateStep ==
  ASSUME Inv, NEW q \in Maps, LocateVertices(q)
  PROVE  Inv'
<1>1. /\ phase = "query"
      /\ closest' = [closest EXCEPT ![q] = [p \in Points(q) |-> Walk(q, p[1], p[2])]]
      /\ UNCHANGED <<input, phase, im, at, ne, begin, rowIndex, eids, found>>
  BY DEF LocateVertices
<1>2. \A p \in Points(q) : p[1] \in 0 .. Span /\ p[2] \in 0 .. Span
  <2> TAKE p \in Points(q)
  <2>1. PICK e \in Eids(q) : p \in Ends(edges[q][e])
    BY DEF Points
  <2>2. p \in (0 .. Span) \X (0 .. Span)
    BY <2>1, InputFacts DEF Inv, Typed
  <2> QED
    BY <2>2
<1>3. \A p \in Points(q) : Walk(q, p[1], p[2]) \in Eids(1 - q) \cup {NoEdge}
  BY <1>1, <1>2, WalkIsEdge
<1>4. (\A m : Eids(m)' = Eids(m))
  BY <1>1, SameInput
<1>5. Answered'
  <2>1. DOMAIN closest' = Maps /\ (found' = Unset \/ found' \in [Eids(0)' \X Eids(1)' -> Nat])
    BY <1>1, <1>4 DEF Answered, Inv
  <2>2. ASSUME NEW t \in Maps
        PROVE  closest'[t] = Unset \/ \A p \in DOMAIN closest'[t] :
                 closest'[t][p] \in Eids(1 - t) \cup {NoEdge}
    <3>1. CASE t = q
      <4>1. closest'[t] = [p \in Points(q) |-> Walk(q, p[1], p[2])]
        BY <1>1, <3>1 DEF Inv, Answered
      <4> QED
        BY <1>3, <3>1, <4>1
    <3>2. CASE t # q
      <4>1. closest'[t] = closest[t]
        BY <1>1, <3>2 DEF Inv, Answered
      <4> QED
        BY <4>1 DEF Inv, Answered
    <3> QED
      BY <3>1, <3>2
  <2> QED
    BY <1>4, <2>1, <2>2 DEF Answered
<1> QED
  BY <1>1, <1>5, QueryKeeps DEF Inv

(* A step that changes nothing keeps it. *)
LEMMA StutterStep ==
  ASSUME Inv, UNCHANGED vars
  PROVE  Inv'
<1>1. UNCHANGED <<input, phase, im, at, ne, begin, rowIndex, eids, found, closest>>
  BY DEF vars
<1>2. edges' = edges /\ (\A m : Eids(m)' = Eids(m)) /\ \A m, c : Met(m, c)' = Met(m, c)
  BY <1>1, SameInput
<1>3. Total' = Total /\ Eids(im)' = Eids(im)
  BY <1>1 DEF Total, Eids
<1>4. \A m, c : Visited(m, c)' = Visited(m, c)
  BY <1>1, <1>2 DEF Visited, Steps
<1>5. \A c, m, i : SlotOf(c, m, i)' = SlotOf(c, m, i)
  BY <1>1 DEF SlotOf
<1>6. Typed'
  <2>1. \A f \in Eids(im)' : at'[f] <= CellsAcross(edges'[im'][f])
    BY <1>1, <1>2, <1>3 DEF Typed, Inv
  <2> QED
    BY <1>1, <1>2, <1>3, <2>1 DEF Typed, Inv
<1>7. Counting'
  BY <1>1, <1>4 DEF Counting, Inv
<1>8. Counted'
  BY <1>1, <1>2 DEF Counted, Inv
<1>9. Filling'
  BY <1>1, <1>4, <1>5, Zenon DEF Filling, Inv, Stored
<1>10. Filled'
  BY <1>1, <1>2, <1>5, Zenon DEF Filled, Inv, Stored
<1>11. Answered'
  BY <1>1, <1>2 DEF Answered, Inv
<1> QED
  BY <1>6, <1>7, <1>8, <1>9, <1>10, <1>11 DEF Inv
-----------------------------------------------------------------------------
(* The invariant of the two kernels, the scan between them and the queries. *)
THEOREM Invariance == Spec => []Inv
<1>1. Init => Inv
  BY InitHolds
<1>2. Inv /\ [Next]_vars => Inv'
  <2>1. SUFFICES ASSUME Inv, [Next]_vars PROVE Inv'
    OBVIOUS
  <2>2. CASE \E e \in Eids(im) : CountEdge(e) \/ FillEdge(e)
    BY <2>1, <2>2, CountStep, FillStep
  <2>3. CASE NextMap
    BY <2>1, <2>3, NextMapStep
  <2>4. CASE Scan
    BY <2>1, <2>4, ScanStep
  <2>5. CASE Restore
    BY <2>1, <2>5, RestoreStep
  <2>6. CASE IntersectEdge
    BY <2>1, <2>6, IntersectStep
  <2>7. CASE \E q \in Maps : LocateVertices(q)
    BY <2>1, <2>7, LocateStep
  <2>8. CASE Idle
    BY <2>1, <2>8, StutterStep DEF Idle
  <2>9. CASE UNCHANGED vars
    BY <2>1, <2>9, StutterStep
  <2> QED
    BY <2>1, <2>2, <2>3, <2>4, <2>5, <2>6, <2>7, <2>8, <2>9 DEF Next
<1> QED
  BY <1>1, <1>2, PTL DEF Spec

(* Every variable has its type: in particular a cell never counts past its
   part of the array, and the queries answer with edges of the other map. *)
THEOREM TypeCorrect == Spec => []TypeOK
<1>1. Inv => TypeOK
  <2>1. SUFFICES ASSUME Inv PROVE TypeOK
    OBVIOUS
  <2>2. im \in Maps
    BY <2>1, InputFacts DEF Inv, Typed, Maps
  <2>3. \A e \in DOMAIN at : at[e] \in 0 .. CellsAcross(edges[im][e])
    <3>1. SUFFICES ASSUME NEW e \in Eids(im) PROVE at[e] \in 0 .. CellsAcross(edges[im][e])
      BY <2>1 DEF Inv, Typed
    <3>2. CellsAcross(edges[im][e]) \in Nat
      BY <2>1, <2>2, CellsOfThread DEF Inv, Typed
    <3> QED
      BY <2>1, <3>2 DEF Inv, Typed
  <2>4. ASSUME NEW c \in Cells
        PROVE  begin[c] \in 0 .. Total
    <3>1. begin[c] \in Nat /\ Total \in Nat
      BY <2>1, SizesAssumption DEF Inv, Typed, Total
    <3>2. CASE phase = "count"
      BY <2>1, <3>1, <3>2 DEF Inv, Counting
    <3>3. CASE phase \in {"fill", "query"}
      <4>1. PICK r \in Nat, u \in Nat, v \in Nat, n \in Nat :
              r = rowIndex[c] /\ u = ne[c][0] /\ v = ne[c][1] /\ n = Total /\ r + u + v <= n
        BY <2>1, <3>3, PartsApart DEF Inv
      <4>2. CASE phase = "query"
        BY <2>1, <3>1, <4>1, <4>2 DEF Inv, Filled
      <4>3. CASE phase = "fill"
        <5>1. /\ Cardinality(Visited(0, c)) \in Nat /\ Cardinality(Visited(0, c)) <= u
              /\ Cardinality(Visited(1, c)) \in Nat /\ Cardinality(Visited(1, c)) <= v
          BY <2>1, <3>3, <4>1, VisitedFacts DEF Inv, Counted, Maps
        <5>2. begin[c] = Cardinality(Visited(0, c)) + Cardinality(Visited(1, c))
          BY <2>1, <4>3 DEF Inv, Filling
        <5> QED
          BY <3>1, <4>1, <5>1, <5>2
      <4> QED
        BY <3>3, <4>2, <4>3
    <3> QED
      BY <2>1, <3>2, <3>3 DEF Inv, Typed
  <2>5. begin \in [Cells -> 0 .. Total]
    BY <2>1, <2>4 DEF Inv, Typed
  <2> QED
    BY <2>1, <2>2, <2>3, <2>5 DEF Inv, Typed, Answered, TypeOK
<1> QED
  BY <1>1, Invariance, PTL

(* If a row has not more cells than coordinates (the program's rows have 2048
   cells or 15000, its coordinates a range of 2^31 or 2^47): after the fill
   each cell lists in its own part of the array, map 0 before map 1, exactly
   the edges with a point of their box in it, each once, in whatever order the
   threads ran. *)
THEOREM LayoutIsExact ==
  ASSUME GSize <= Span
  PROVE  Spec => []LayoutExact
<1>1. Inv => LayoutExact
  <2>1. SUFFICES ASSUME Inv, phase = "query" PROVE LayoutExact
    BY DEF LayoutExact
  <2>2. Typed /\ Counted /\ Filled
    BY <2>1 DEF Inv
  <2>3. ASSUME NEW c \in Cells, NEW m \in Maps
        PROVE  Listed(m, c) = Met(m, c)
    <3>1. \A e \in Eids(m) : BoxMeets(edges[m][e], c)
            <=> \E k \in 0 .. CellsAcross(edges[m][e]) - 1 : CellThere(edges[m][e], k) = c
      <4> TAKE e \in Eids(m)
      <4>1. PICK s : s = edges[m][e]
        OBVIOUS
      <4>2. Ends(s) \subseteq (0 .. Span) \X (0 .. Span)
        BY <2>2, <4>1, InputFacts DEF Typed
      <4>3. BoxMeets(s, c) <=> \E k \in 0 .. CellsAcross(s) - 1 : CellThere(s, k) = c
        BY <4>2, CellsOfBox
      <4> QED
        BY <4>1, <4>3
    <3> QED
      BY <3>1, Zenon DEF Listed, Met
  <2>4. ASSUME NEW c \in Cells, NEW m \in Maps
        PROVE  /\ ne[c][m] = Cardinality(Listed(m, c))
               /\ {EidIn(c, m, i) : i \in 0 .. ne[c][m] - 1} = Listed(m, c)
    <3>1. ne[c][m] = Cardinality(Met(m, c)) /\ Stored(c, m, ne[c][m]) = Met(m, c)
      BY <2>1, <2>2 DEF Counted, Filled
    <3>2. \A i : EidIn(c, m, i) = eids[SlotOf(c, m, i)]
      BY <2>1, <2>2 DEF Filled, EidIn, SlotOf
    <3>3. {EidIn(c, m, i) : i \in 0 .. ne[c][m] - 1} = Stored(c, m, ne[c][m])
      BY <3>2, Zenon DEF Stored
    <3> QED
      BY <2>3, <3>1, <3>3
  <2>5. \A c \in Cells : begin[c] + ne[c][0] + ne[c][1] = rowIndex[c + 1]
    BY <2>1, <2>2 DEF Counted, Filled
  <2> QED
    BY <2>4, <2>5 DEF LayoutExact
<1> QED
  BY <1>1, Invariance, PTL

-----------------------------------------------------------------------------
(* The crossing test.  A segment, its equation, and which way round that is. *)
Line(s, x1, y1, x2, y2, o, a, b, c) ==
  /\ s.x1 = x1 /\ s.y1 = y1 /\ s.x2 = x2 /\ s.y2 = y2
  /\ o \in {1, -1} /\ a = o * (y1 - y2) /\ b = o * (x2 - x1) /\ c = -x1 * a - y1 * b
  /\ Equation(s).a = a /\ Equation(s).b = b /\ Equation(s).c = c

(* Every edge has one, with coefficients no larger than its coordinates. *)
LEMMA LineOf ==
  ASSUME NEW s, Ends(s) \subseteq (0 .. Span) \X (0 .. Span)
  PROVE  \E x1, y1, x2, y2 \in 0 .. Span : \E o, a, b, c \in Int :
           /\ Line(s, x1, y1, x2, y2, o, a, b, c)
           /\ -Span <= a /\ a <= Span /\ -Span <= b /\ b <= Span
<1>1. s.x1 \in 0 .. Span /\ s.y1 \in 0 .. Span /\ s.x2 \in 0 .. Span /\ s.y2 \in 0 .. Span
  BY DEF Ends
<1>2. PICK x1 \in 0 .. Span, y1 \in 0 .. Span, x2 \in 0 .. Span, y2 \in 0 .. Span :
        s.x1 = x1 /\ s.y1 = y1 /\ s.x2 = x2 /\ s.y2 = y2
  BY <1>1
<1>3. PICK a \in Int, b \in Int : a = y1 - y2 /\ b = x2 - x1
  BY SizesAssumption
<1>4. PICK c \in Int : c = -x1 * a - y1 * b
  <2>1. x1 \in Int /\ y1 \in Int
    BY SizesAssumption
  <2>2. PICK m \in Int, n \in Int : m = x1 * a /\ n = y1 * b
    BY <1>3, <2>1
  <2>3. -x1 * a = -m
    BY <1>3, <2>1, <2>2
  <2>4. -m - n \in Int /\ -m - n = -x1 * a - y1 * b
    BY <2>2, <2>3
  <2> QED
    BY <2>4, Zenon
<1>5. Equation(s) = IF b < 0 THEN [a |-> -a, b |-> -b, c |-> -c] ELSE [a |-> a, b |-> b, c |-> c]
  BY <1>2, <1>3, <1>4 DEF Equation
<1>6. -Span <= a /\ a <= Span /\ -Span <= b /\ b <= Span
  BY <1>3, SizesAssumption
<1>7. CASE b < 0
  <2>1. PICK p \in Int, q \in Int, r \in Int : p = -a /\ q = -b /\ r = -c
    OBVIOUS
  <2>2. p = (-1) * (y1 - y2) /\ q = (-1) * (x2 - x1)
    BY <1>3, <2>1
  <2>3. r = -x1 * p - y1 * q
    BY <1>4, <2>1
  <2>4. Line(s, x1, y1, x2, y2, -1, p, q, r)
    BY <1>2, <1>5, <1>7, <2>1, <2>2, <2>3 DEF Line
  <2>5. -Span <= p /\ p <= Span /\ -Span <= q /\ q <= Span
    BY <1>6, <2>1, SizesAssumption
  <2>6. -1 \in Int
    OBVIOUS
  <2> QED
    BY <2>1, <2>4, <2>5, <2>6, Zenon
<1>8. CASE ~ (b < 0)
  <2>1. a = 1 * (y1 - y2) /\ b = 1 * (x2 - x1)
    BY <1>3
  <2>2. Line(s, x1, y1, x2, y2, 1, a, b, c)
    BY <1>2, <1>4, <1>5, <1>8, <2>1 DEF Line
  <2>3. 1 \in Int
    OBVIOUS
  <2> QED
    BY <1>3, <1>4, <1>6, <2>2, <2>3, Zenon
<1> QED
  BY <1>7, <1>8

(* Fine is more than any coefficient, and any product of two, comes to. *)
LEMMA FineIsFine == Fine \in Nat \ {0} /\ Fine > 1 /\ IsFine(Fine, Span)
<1> USE SizesAssumption
<1>1. PICK n \in Nat : n = Span * Span
  OBVIOUS
<1>2. Span <= n
  BY <1>1
<1>3. 2 * Span * Span = 2 * n
  BY <1>1
<1> QED
  BY <1>1, <1>2, <1>3 DEF Fine, IsFine

(* Two numbers have opposite signs, and stay so times one number. *)
Opposed(u, v) == (u > 0 /\ v < 0) \/ (u < 0 /\ v > 0)

LEMMA OpposedIsNegative ==
  ASSUME NEW u \in Int, NEW v \in Int
  PROVE  u * v < 0 <=> Opposed(u, v)
<1>1. CASE u > 0 /\ v >= 0
  <2>1. u * v >= 0
    BY <1>1
  <2> QED
    BY <1>1, <2>1 DEF Opposed
<1>2. CASE u > 0 /\ v < 0
  <2>1. u * v < 0
    BY <1>2
  <2> QED
    BY <1>2, <2>1 DEF Opposed
<1>3. CASE u < 0 /\ v > 0
  <2>1. u * v < 0
    BY <1>3
  <2> QED
    BY <1>3, <2>1 DEF Opposed
<1>4. CASE u < 0 /\ v <= 0
  <2>1. u * v >= 0
    BY <1>4
  <2> QED
    BY <1>4, <2>1 DEF Opposed
<1>5. CASE u = 0
  <2>1. u * v = 0
    BY <1>5
  <2> QED
    BY <1>5, <2>1 DEF Opposed
<1> QED
  BY <1>1, <1>2, <1>3, <1>4, <1>5

Times(s, k, o, u) == s = k * (o * u)

LEMMA OpposedTimes ==
  ASSUME NEW u \in Int, NEW v \in Int, NEW k \in Nat \ {0}, NEW o \in {1, -1},
         NEW s \in Int, NEW t \in Int, Times(s, k, o, u), Times(t, k, o, v)
  PROVE  Opposed(s, t) <=> Opposed(u, v)
<1>1. ASSUME NEW x \in Int
      PROVE  (k * x > 0 <=> x > 0) /\ (k * x < 0 <=> x < 0)
  <2>1. CASE x > 0
    <3>1. k * x > 0
      BY <2>1
    <3> QED
      BY <2>1, <3>1
  <2>2. CASE x < 0
    <3>1. k * x < 0
      BY <2>2
    <3> QED
      BY <2>2, <3>1
  <2>3. CASE x = 0
    BY <2>3
  <2> QED
    BY <2>1, <2>2, <2>3
<1>2. PICK x \in Int, y \in Int : x = o * u /\ y = o * v
  OBVIOUS
<1>3. (s > 0 <=> x > 0) /\ (s < 0 <=> x < 0) /\ (t > 0 <=> y > 0) /\ (t < 0 <=> y < 0)
  BY <1>1, <1>2 DEF Times
<1>4. (x = u /\ y = v) \/ (x = -u /\ y = -v)
  BY <1>2
<1> QED
  BY <1>3, <1>4 DEF Opposed

(* The reference compares signs only. *)
LEMMA OppositeIsOpposed ==
  ASSUME NEW s, NEW r, NEW t \in Int, NEW u \in Int,
         t = Turn(s.x1, s.y1, s.x2, s.y2, r.x1, r.y1), u = Turn(s.x1, s.y1, s.x2, s.y2, r.x2, r.y2)
  PROVE  Opposite(s, r) <=> Opposed(t, u)
<1>1. PICK i \in {-1, 0, 1}, j \in {-1, 0, 1} :
        /\ i = (IF t > 0 THEN 1 ELSE IF t < 0 THEN -1 ELSE 0)
        /\ j = (IF u > 0 THEN 1 ELSE IF u < 0 THEN -1 ELSE 0)
  OBVIOUS
<1>2. TurnSign(s, r.x1, r.y1) = i /\ TurnSign(s, r.x2, r.y2) = j
  BY <1>1 DEF TurnSign
<1>3. i * j = -1 <=> Opposed(i, j)
  BY <1>1 DEF Opposed
<1>4. Opposed(i, j) <=> Opposed(t, u)
  BY <1>1 DEF Opposed
<1> QED
  BY <1>2, <1>3, <1>4 DEF Opposite

(* The value at a moved point is the turn of the reference, times a number
   that keeps signs. *)
LEMMA TurnOfMoved ==
  ASSUME NEW x1 \in Int, NEW y1 \in Int, NEW x2 \in Int, NEW y2 \in Int,
         NEW a \in Int, NEW b \in Int, NEW c \in Int, NEW o \in {1, -1},
         a = o * (y1 - y2), b = o * (x2 - x1), c = -x1 * a - y1 * b,
         NEW u \in Int, NEW v \in Int, NEW k \in Int, NEW f \in Int, NEW g \in {1, -1},
         NEW z \in Int, z = u * a + v * b + c, NEW w \in Int, w = k * z + g * (f * a + b)
  PROVE  k * (o * w) = (k * x2 - k * x1) * (k * v + g - k * y1)
                         - (k * y2 - k * y1) * (k * u + g * f - k * x1)
<1>1. PICK p \in Int, q \in Int : p = y1 - y2 /\ q = x2 - x1
  OBVIOUS
<1>2. PICK h \in Int : h = k * ((u - x1) * p + (v - y1) * q) + g * (f * p + q)
  OBVIOUS
<1>3. o * w = h
  <2>1. CASE o = 1
    <3>1. a = p /\ b = q
      BY <1>1, <2>1
    <3>2. z = (u - x1) * a + (v - y1) * b
      OBVIOUS
    <3>3. o * w = w
      BY <2>1
    <3> QED
      BY <1>2, <3>1, <3>2, <3>3
  <2>2. CASE o = -1
    <3>1. a = -p /\ b = -q
      BY <1>1, <2>2
    <3>2. z = (u - x1) * a + (v - y1) * b
      OBVIOUS
    <3>3. o * w = -w
      BY <2>2
    <3>4. PICK m \in Int, n \in Int : m = (u - x1) * p + (v - y1) * q /\ n = f * p + q
      OBVIOUS
    <3>5. z = -m /\ f * a + b = -n
      BY <3>1, <3>2, <3>4
    <3>6. w = -(k * m) - g * n
      BY <3>5
    <3>7. h = k * m + g * n
      BY <1>2, <3>4
    <3>8. PICK i \in Int, j \in Int : i = k * m /\ j = g * n
      OBVIOUS
    <3>9. w = -i - j /\ h = i + j
      BY <3>6, <3>7, <3>8
    <3>10. -w = h
      BY <3>9
    <3> QED
      BY <3>3, <3>10, Zenon
  <2> QED
    BY <2>1, <2>2
<1>4. k * h = (k * q) * (k * v + g - k * y1) + (k * p) * (k * u + g * f - k * x1)
  BY <1>2
<1>5. k * q = k * x2 - k * x1 /\ k * p = -(k * y2 - k * y1)
  BY <1>1
<1> QED
  BY <1>3, <1>4, <1>5

(* The code's test of the ends of r against edge s moved by (-1 / f, -1 / f^2)
   or, which is the same, the ends moved by as much the other way. *)
LEMMA ApartIsOpposite ==
  ASSUME NEW s, Ends(s) \subseteq (0 .. Span) \X (0 .. Span),
         NEW r, Ends(r) \subseteq (0 .. Span) \X (0 .. Span)
  PROVE  /\ Apart(r, Equation(s), 1) <=> Opposite(Scaled(s), Moved(r))
         /\ Apart(r, Equation(s), -1) <=> Opposite(Moved(s), Scaled(r))
<1> USE SizesAssumption
<1>1. PICK x1 \in 0 .. Span, y1 \in 0 .. Span, x2 \in 0 .. Span, y2 \in 0 .. Span :
      \E o, a, b, c \in Int :
        /\ Line(s, x1, y1, x2, y2, o, a, b, c)
        /\ -Span <= a /\ a <= Span /\ -Span <= b /\ b <= Span
  BY LineOf
<1>2. PICK o \in Int, a \in Int, b \in Int, c \in Int :
        /\ Line(s, x1, y1, x2, y2, o, a, b, c)
        /\ -Span <= a /\ a <= Span /\ -Span <= b /\ b <= Span
  BY <1>1
<1>3. PICK u1 \in Int, v1 \in Int, u2 \in Int, v2 \in Int :
        r.x1 = u1 /\ r.y1 = v1 /\ r.x2 = u2 /\ r.y2 = v2
  BY DEF Ends
<1>4. PICK f \in Nat \ {0} : f = Fine
  BY FineIsFine
<1>5. PICK z1 \in Int, z2 \in Int : z1 = u1 * a + v1 * b + c /\ z2 = u2 * a + v2 * b + c
  OBVIOUS
<1>6. /\ s.x1 = x1 /\ s.y1 = y1 /\ s.x2 = x2 /\ s.y2 = y2
      /\ o \in {1, -1} /\ a = o * (y1 - y2) /\ b = o * (x2 - x1) /\ c = -x1 * a - y1 * b
      /\ Equation(s).a = a /\ Equation(s).b = b /\ Equation(s).c = c
  BY <1>2 DEF Line
<1>7. ASSUME NEW g \in {1, -1}
      PROVE  /\ Side(r.x1, r.y1, Equation(s), g) = Decided(z1, a, b, g)
             /\ Side(r.x2, r.y2, Equation(s), g) = Decided(z2, a, b, g)
  BY <1>3, <1>5, <1>6 DEF Side, Decided
<1>8. PICK k \in Nat \ {0} : k = f * f
  BY <1>4
<1>9. o * o = 1 /\ o * a = y1 - y2 /\ o * b = x2 - x1
  BY <1>6
<1>10. ASSUME NEW g \in {1, -1}, NEW w1 \in Int, NEW w2 \in Int,
              w1 = f * f * z1 + g * (f * a + b), w2 = f * f * z2 + g * (f * a + b)
       PROVE  Apart(r, Equation(s), g) <=> Opposed(w1, w2)
  <2>1. PICK d1 \in Int, d2 \in Int : d1 = Decided(z1, a, b, g) /\ d2 = Decided(z2, a, b, g)
    BY DEF Decided
  <2>2. (w1 > 0 <=> Decided(z1, a, b, g) > 0) /\ (w1 < 0 <=> Decided(z1, a, b, g) < 0)
    <3>1. /\ InReach(a, Span) /\ InReach(b, Span) /\ IsFine(f, Span)
          /\ ValueMoved(w1, z1, a, b, f, g)
      BY <1>2, <1>4, <1>10, FineIsFine DEF InReach, ValueMoved
    <3> QED
      BY <3>1, SideMoved DEF SameSign
  <2>3. (w2 > 0 <=> Decided(z2, a, b, g) > 0) /\ (w2 < 0 <=> Decided(z2, a, b, g) < 0)
    <3>1. /\ InReach(a, Span) /\ InReach(b, Span) /\ IsFine(f, Span)
          /\ ValueMoved(w2, z2, a, b, f, g)
      BY <1>2, <1>4, <1>10, FineIsFine DEF InReach, ValueMoved
    <3> QED
      BY <3>1, SideMoved DEF SameSign
  <2>4. Apart(r, Equation(s), g) <=> d1 * d2 < 0
    BY <1>7, <2>1 DEF Apart
  <2>5. d1 * d2 < 0 <=> Opposed(d1, d2)
    BY OpposedIsNegative
  <2> QED
    BY <2>1, <2>2, <2>3, <2>4, <2>5 DEF Opposed
<1>11. Apart(r, Equation(s), 1) <=> Opposite(Scaled(s), Moved(r))
  <2>1. PICK w1 \in Int, w2 \in Int :
          w1 = f * f * z1 + 1 * (f * a + b) /\ w2 = f * f * z2 + 1 * (f * a + b)
    OBVIOUS
  <2>2. PICK t \in Int, u \in Int : t = k * (o * w1) /\ u = k * (o * w2)
    OBVIOUS
  <2>3. /\ Scaled(s).x1 = k * x1 /\ Scaled(s).y1 = k * y1 /\ Scaled(s).x2 = k * x2 /\ Scaled(s).y2 = k * y2
        /\ Moved(r).x1 = k * u1 + f /\ Moved(r).y1 = k * v1 + 1
        /\ Moved(r).x2 = k * u2 + f /\ Moved(r).y2 = k * v2 + 1
    BY <1>3, <1>4, <1>6, <1>8 DEF Scaled, Moved, Unit
  <2>4. t = Turn(Scaled(s).x1, Scaled(s).y1, Scaled(s).x2, Scaled(s).y2, Moved(r).x1, Moved(r).y1)
    <3>1. t = (k * x2 - k * x1) * (k * v1 + 1 - k * y1) - (k * y2 - k * y1) * (k * u1 + f - k * x1)
      <4>1. w1 = k * z1 + 1 * (f * a + b)
        BY <1>8, <2>1
      <4>2. k * (o * w1) = (k * x2 - k * x1) * (k * v1 + 1 - k * y1)
                             - (k * y2 - k * y1) * (k * u1 + 1 * f - k * x1)
        BY <1>5, <1>6, <4>1, TurnOfMoved
      <4> QED
        BY <2>2, <4>2
    <3> QED
      BY <2>3, <3>1 DEF Turn
  <2>5. u = Turn(Scaled(s).x1, Scaled(s).y1, Scaled(s).x2, Scaled(s).y2, Moved(r).x2, Moved(r).y2)
    <3>1. u = (k * x2 - k * x1) * (k * v2 + 1 - k * y1) - (k * y2 - k * y1) * (k * u2 + f - k * x1)
      <4>1. w2 = k * z2 + 1 * (f * a + b)
        BY <1>8, <2>1
      <4>2. k * (o * w2) = (k * x2 - k * x1) * (k * v2 + 1 - k * y1)
                             - (k * y2 - k * y1) * (k * u2 + 1 * f - k * x1)
        BY <1>5, <1>6, <4>1, TurnOfMoved
      <4> QED
        BY <2>2, <4>2
    <3> QED
      BY <2>3, <3>1 DEF Turn
  <2>6. Opposite(Scaled(s), Moved(r)) <=> Opposed(t, u)
    BY <2>4, <2>5, OppositeIsOpposed
  <2>7. Opposed(t, u) <=> Opposed(w1, w2)
    <3>1. o \in {1, -1} /\ Times(t, k, o, w1) /\ Times(u, k, o, w2)
      BY <1>6, <2>2 DEF Times
    <3> QED
      BY <3>1, OpposedTimes
  <2> QED
    BY <1>10, <2>1, <2>6, <2>7
<1>12. Apart(r, Equation(s), -1) <=> Opposite(Moved(s), Scaled(r))
  <2>1. PICK w1 \in Int, w2 \in Int :
          w1 = f * f * z1 + (-1) * (f * a + b) /\ w2 = f * f * z2 + (-1) * (f * a + b)
    OBVIOUS
  <2>2. PICK t \in Int, u \in Int : t = k * (o * w1) /\ u = k * (o * w2)
    OBVIOUS
  <2>3. /\ Scaled(r).x1 = k * u1 /\ Scaled(r).y1 = k * v1 /\ Scaled(r).x2 = k * u2 /\ Scaled(r).y2 = k * v2
        /\ Moved(s).x1 = k * x1 + f /\ Moved(s).y1 = k * y1 + 1
        /\ Moved(s).x2 = k * x2 + f /\ Moved(s).y2 = k * y2 + 1
    BY <1>3, <1>4, <1>6, <1>8 DEF Scaled, Moved, Unit
  <2>4. t = Turn(Moved(s).x1, Moved(s).y1, Moved(s).x2, Moved(s).y2, Scaled(r).x1, Scaled(r).y1)
    <3>1. t = (k * x2 + f - (k * x1 + f)) * (k * v1 - (k * y1 + 1))
                - (k * y2 + 1 - (k * y1 + 1)) * (k * u1 - (k * x1 + f))
      <4>1. w1 = k * z1 + (-1) * (f * a + b)
        BY <1>8, <2>1
      <4>2. k * (o * w1) = (k * x2 - k * x1) * (k * v1 + (-1) - k * y1)
                             - (k * y2 - k * y1) * (k * u1 + (-1) * f - k * x1)
        BY <1>5, <1>6, <4>1, TurnOfMoved
      <4> QED
        BY <2>2, <4>2
    <3> QED
      BY <2>3, <3>1 DEF Turn
  <2>5. u = Turn(Moved(s).x1, Moved(s).y1, Moved(s).x2, Moved(s).y2, Scaled(r).x2, Scaled(r).y2)
    <3>1. u = (k * x2 + f - (k * x1 + f)) * (k * v2 - (k * y1 + 1))
                - (k * y2 + 1 - (k * y1 + 1)) * (k * u2 - (k * x1 + f))
      <4>1. w2 = k * z2 + (-1) * (f * a + b)
        BY <1>8, <2>1
      <4>2. k * (o * w2) = (k * x2 - k * x1) * (k * v2 + (-1) - k * y1)
                             - (k * y2 - k * y1) * (k * u2 + (-1) * f - k * x1)
        BY <1>5, <1>6, <4>1, TurnOfMoved
      <4> QED
        BY <2>2, <4>2
    <3> QED
      BY <2>3, <3>1 DEF Turn
  <2>6. Opposite(Moved(s), Scaled(r)) <=> Opposed(t, u)
    BY <2>4, <2>5, OppositeIsOpposed
  <2>7. Opposed(t, u) <=> Opposed(w1, w2)
    <3>1. o \in {1, -1} /\ Times(t, k, o, w1) /\ Times(u, k, o, w2)
      BY <1>6, <2>2 DEF Times
    <3> QED
      BY <3>1, OpposedTimes
  <2> QED
    BY <1>10, <2>1, <2>6, <2>7
<1> QED
  BY <1>11, <1>12

(* The ends of an edge are not apart for the edge itself. *)
LEMMA OwnEnds ==
  ASSUME NEW s, Ends(s) \subseteq (0 .. Span) \X (0 .. Span),
         NEW r, Ends(r) = Ends(s)
  PROVE  ~ Apart(r, Equation(s), 1)
<1> USE SizesAssumption
<1>1. PICK x1 \in 0 .. Span, y1 \in 0 .. Span, x2 \in 0 .. Span, y2 \in 0 .. Span :
      \E o, a, b, c \in Int :
        /\ Line(s, x1, y1, x2, y2, o, a, b, c)
        /\ -Span <= a /\ a <= Span /\ -Span <= b /\ b <= Span
  BY LineOf
<1>2. PICK o \in Int, a \in Int, b \in Int, c \in Int : Line(s, x1, y1, x2, y2, o, a, b, c)
  BY <1>1
<1>3. /\ s.x1 = x1 /\ s.y1 = y1 /\ s.x2 = x2 /\ s.y2 = y2
      /\ o \in {1, -1} /\ a = o * (y1 - y2) /\ b = o * (x2 - x1) /\ c = -x1 * a - y1 * b
      /\ Equation(s).a = a /\ Equation(s).b = b /\ Equation(s).c = c
  BY <1>2 DEF Line
<1>4. x1 * a + y1 * b + c = 0 /\ x2 * a + y2 * b + c = 0
  <2>1. x2 * a + y2 * b + c = o * ((x2 - x1) * (y1 - y2) + (y2 - y1) * (x2 - x1))
    BY <1>3
  <2>2. (x2 - x1) * (y1 - y2) + (y2 - y1) * (x2 - x1) = 0
    OBVIOUS
  <2> QED
    BY <1>3, <2>1, <2>2
<1>5. PICK d \in Int : d = IF a # 0 THEN 1 * a ELSE 1 * b
  OBVIOUS
<1>6. \A p \in Ends(s) : Side(p[1], p[2], Equation(s), 1) = d
  <2>1. Side(x1, y1, Equation(s), 1) = d /\ Side(x2, y2, Equation(s), 1) = d
    BY <1>3, <1>4, <1>5 DEF Side
  <2> QED
    BY <1>3, <2>1 DEF Ends
<1>7. Side(r.x1, r.y1, Equation(s), 1) = d /\ Side(r.x2, r.y2, Equation(s), 1) = d
  <2>1. <<r.x1, r.y1>> \in Ends(s) /\ <<r.x2, r.y2>> \in Ends(s)
    BY DEF Ends
  <2> QED
    BY <1>6, <2>1
<1>8. d * d >= 0
  OBVIOUS
<1> QED
  BY <1>7, <1>8 DEF Apart

(* The test of the code is the one of the reference: the epsilon of the code
   is smaller than what separates two things. *)
LEMMA CrossesAsMoved ==
  ASSUME NEW d, Ends(d) \subseteq (0 .. Span) \X (0 .. Span),
         NEW e, Ends(e) \subseteq (0 .. Span) \X (0 .. Span)
  PROVE  Crosses(d, e) <=> ProperCrossing(Scaled(d), Moved(e))
<1>1. Apart(d, Equation(e), -1) <=> Opposite(Moved(e), Scaled(d))
  BY ApartIsOpposite
<1>2. Apart(e, Equation(d), 1) <=> Opposite(Scaled(d), Moved(e))
  BY ApartIsOpposite
<1>3. Apart(e, Equation(d), 1) => Ends(d) # Ends(e)
  BY OwnEnds
<1> QED
  BY <1>1, <1>2, <1>3 DEF Crosses, ProperCrossing

-----------------------------------------------------------------------------
(* Where two edges cross: the values of one's ends on the line of the other
   are not on one side, *)
Splits(s, t) == s # t /\ ((s >= 0 /\ t <= 0) \/ (s <= 0 /\ t >= 0))

LEMMA ApartSplits ==
  ASSUME NEW s \in Int, NEW t \in Int, NEW a \in Int, NEW b \in Int, NEW g \in {1, -1},
         Decided(s, a, b, g) * Decided(t, a, b, g) < 0
  PROVE  Splits(s, t)
<1>1. PICK h \in Int : h = IF a # 0 THEN g * a ELSE g * b
  OBVIOUS
<1>2. PICK u \in Int, v \in Int : u = (IF s # 0 THEN s ELSE h) /\ v = (IF t # 0 THEN t ELSE h)
  BY <1>1
<1>3. Decided(s, a, b, g) = u /\ Decided(t, a, b, g) = v
  BY <1>1, <1>2 DEF Decided
<1>4. u * v < 0
  BY <1>3
<1>5. Opposed(u, v)
  BY <1>4, OpposedIsNegative
<1> QED
  BY <1>2, <1>5 DEF Opposed, Splits

(* and n / m, whatever sign m has, is a coordinate between lo and hi. *)
Within(n, m, lo, hi) ==
  /\ n \in Int /\ m \in Int /\ m # 0
  /\ m > 0 => lo * m <= n /\ n <= hi * m
  /\ m < 0 => lo * (-m) <= -n /\ -n <= hi * (-m)
Among(x, lo, hi) == lo <= x /\ x <= hi
Mean(n, m, o, x, y, s, t, lo, hi) ==
  /\ Splits(s, t) /\ Among(x, lo, hi) /\ Among(y, lo, hi) /\ o \in {1, -1}
  /\ n = o * (y * s - x * t) /\ m = o * (s - t)

LEMMA MeanIsWithin ==
  ASSUME NEW s \in Int, NEW t \in Int, NEW x \in Int, NEW y \in Int,
         NEW lo \in Int, NEW hi \in Int, NEW n \in Int, NEW m \in Int,
         NEW o \in Int, Mean(n, m, o, x, y, s, t, lo, hi)
  PROVE  Within(n, m, lo, hi)
<1>1. PICK k \in Int, l \in Int : k = y * s - x * t /\ l = s - t
  OBVIOUS
<1>2. (n = k /\ m = l) \/ (n = -k /\ m = -l)
  BY <1>1 DEF Mean
<1> lo <= x /\ x <= hi /\ lo <= y /\ y <= hi
  BY DEF Among, Mean
<1> s # t /\ ((s >= 0 /\ t <= 0) \/ (s <= 0 /\ t >= 0))
  BY DEF Mean, Splits
<1>3. CASE s >= 0 /\ t <= 0
  <2>1. lo * s <= y * s /\ y * s <= hi * s
    BY <1>3
  <2>2. hi * t <= x * t /\ x * t <= lo * t
    BY <1>3
  <2>3. l > 0 /\ lo * l <= k /\ k <= hi * l
    BY <1>1, <1>3, <2>1, <2>2
  <2> QED
    BY <1>2, <2>3 DEF Within
<1>4. CASE s <= 0 /\ t >= 0
  <2>1. hi * s <= y * s /\ y * s <= lo * s
    BY <1>4
  <2>2. lo * t <= x * t /\ x * t <= hi * t
    BY <1>4
  <2>3. l < 0 /\ lo * (-l) <= -k /\ -k <= hi * (-l)
    BY <1>1, <1>4, <2>1, <2>2
  <2> QED
    BY <1>2, <2>3 DEF Within
<1> QED
  BY <1>3, <1>4

LEMMA WithinTurned ==
  ASSUME NEW n \in Int, NEW m \in Int, NEW lo \in Int, NEW hi \in Int
  PROVE  Within(-n, -m, lo, hi) <=> Within(n, m, lo, hi)
  BY DEF Within

(* The point where the lines of d and e meet, as CrossingCell has it. *)
Denominator(d, e) == Equation(d).a * Equation(e).b - Equation(e).a * Equation(d).b
XOfMeeting(d, e) == Equation(e).c * Equation(d).b - Equation(d).c * Equation(e).b
YOfMeeting(d, e) == Equation(e).a * Equation(d).c - Equation(d).a * Equation(e).c

(* As a mean of the ends of d. *)
LEMMA MeetingIsMean ==
  ASSUME NEW x1 \in Int, NEW y1 \in Int, NEW x2 \in Int, NEW y2 \in Int,
         NEW a \in Int, NEW b \in Int, NEW c \in Int, NEW o \in {1, -1},
         a = o * (y1 - y2), b = o * (x2 - x1), c = -x1 * a - y1 * b,
         NEW p \in Int, NEW q \in Int, NEW r \in Int, NEW s \in Int, NEW t \in Int,
         s = x1 * p + y1 * q + r, t = x2 * p + y2 * q + r
  PROVE  /\ a * q - p * b = o * (s - t)
         /\ r * b - c * q = o * (x2 * s - x1 * t)
         /\ p * c - a * r = o * (y2 * s - y1 * t)
<1>0. PICK u \in Int, v \in Int : u = y1 - y2 /\ v = x2 - x1
  OBVIOUS
<1>1. PICK w \in Int : u = y1 - y2 /\ v = x2 - x1 /\ w = -x1 * u - y1 * v
  BY <1>0
<1>2. u * q - p * v = s - t
  BY <1>1
<1>3. r * v - w * q = x2 * s - x1 * t
  BY <1>1
<1>4. p * w - u * r = y2 * s - y1 * t
  BY <1>1
<1>5. CASE o = 1
  <2>1. a = u /\ b = v
    BY <1>1, <1>5
  <2>2. c = w
    BY <1>1, <2>1
  <2> QED
    BY <1>2, <1>3, <1>4, <1>5, <2>1, <2>2
<1>6. CASE o = -1
  <2>1. a = -u /\ b = -v
    BY <1>1, <1>6
  <2>2. c = -w
    BY <1>1, <2>1
  <2>3. a * q - p * b = -(u * q - p * v)
    BY <2>1
  <2>4. r * b - c * q = -(r * v - w * q)
    BY <2>1, <2>2
  <2>5. p * c - a * r = -(p * w - u * r)
    BY <2>1, <2>2
  <2> QED
    BY <1>2, <1>3, <1>4, <1>6, <2>3, <2>4, <2>5
<1> QED
  BY <1>5, <1>6

(* If e has the ends of d on two sides, they meet in the box of d. *)
LEMMA MeetInBox ==
  ASSUME NEW d, Ends(d) \subseteq (0 .. Span) \X (0 .. Span),
         NEW e, Ends(e) \subseteq (0 .. Span) \X (0 .. Span),
         NEW g \in {1, -1}, Apart(d, Equation(e), g)
  PROVE  /\ Within(XOfMeeting(d, e), Denominator(d, e), XMin(d), XMax(d))
         /\ Within(YOfMeeting(d, e), Denominator(d, e), YMin(d), YMax(d))
<1>1. PICK x1 \in 0 .. Span, y1 \in 0 .. Span, x2 \in 0 .. Span, y2 \in 0 .. Span :
      \E o, a, b, c \in Int :
        /\ Line(d, x1, y1, x2, y2, o, a, b, c)
        /\ -Span <= a /\ a <= Span /\ -Span <= b /\ b <= Span
  BY LineOf
<1>2. PICK o \in Int, a \in Int, b \in Int, c \in Int : Line(d, x1, y1, x2, y2, o, a, b, c)
  BY <1>1
<1>3. PICK p \in Int, q \in Int, r \in Int :
        Equation(e).a = p /\ Equation(e).b = q /\ Equation(e).c = r
  BY LineOf DEF Line
<1>4. /\ d.x1 = x1 /\ d.y1 = y1 /\ d.x2 = x2 /\ d.y2 = y2
      /\ o \in {1, -1} /\ a = o * (y1 - y2) /\ b = o * (x2 - x1) /\ c = -x1 * a - y1 * b
      /\ Equation(d).a = a /\ Equation(d).b = b /\ Equation(d).c = c
  BY <1>2 DEF Line
<1>5. x1 \in Int /\ y1 \in Int /\ x2 \in Int /\ y2 \in Int
  BY SizesAssumption
<1>6. PICK s \in Int, t \in Int : s = x1 * p + y1 * q + r /\ t = x2 * p + y2 * q + r
  BY <1>5
<1>7. Splits(s, t)
  <2>1. Side(d.x1, d.y1, Equation(e), g) = Decided(s, p, q, g)
    BY <1>3, <1>4, <1>6 DEF Side, Decided
  <2>2. Side(d.x2, d.y2, Equation(e), g) = Decided(t, p, q, g)
    BY <1>3, <1>4, <1>6 DEF Side, Decided
  <2>3. Decided(s, p, q, g) * Decided(t, p, q, g) < 0
    BY <2>1, <2>2 DEF Apart
  <2> QED
    BY <2>3, ApartSplits
<1>8. PICK m \in Int, n \in Int, k \in Int :
        m = a * q - p * b /\ n = r * b - c * q /\ k = p * c - a * r
  OBVIOUS
<1>9. m = o * (s - t) /\ n = o * (x2 * s - x1 * t) /\ k = o * (y2 * s - y1 * t)
  <2>1. /\ a * q - p * b = o * (s - t)
        /\ r * b - c * q = o * (x2 * s - x1 * t)
        /\ p * c - a * r = o * (y2 * s - y1 * t)
    BY <1>4, <1>5, <1>6, MeetingIsMean
  <2> QED
    BY <1>8, <2>1
<1>10. Denominator(d, e) = m /\ XOfMeeting(d, e) = n /\ YOfMeeting(d, e) = k
  BY <1>3, <1>4, <1>8 DEF Denominator, XOfMeeting, YOfMeeting
<1>11. /\ XMin(d) \in Int /\ XMax(d) \in Int
       /\ Among(x1, XMin(d), XMax(d)) /\ Among(x2, XMin(d), XMax(d))
  BY <1>4, <1>5 DEF XMin, XMax, Among
<1>12. /\ YMin(d) \in Int /\ YMax(d) \in Int
       /\ Among(y1, YMin(d), YMax(d)) /\ Among(y2, YMin(d), YMax(d))
  BY <1>4, <1>5 DEF YMin, YMax, Among
<1>13. Within(n, m, XMin(d), XMax(d))
  <2>1. PICK lo \in Int, hi \in Int : lo = XMin(d) /\ hi = XMax(d)
    BY <1>11
  <2>2. Among(x1, lo, hi) /\ Among(x2, lo, hi)
    BY <1>11, <2>1
  <2>3. Mean(n, m, o, x1, x2, s, t, lo, hi)
    BY <1>4, <1>7, <1>9, <2>2 DEF Mean
  <2>4. Within(n, m, lo, hi)
    BY <1>5, <2>3, MeanIsWithin
  <2> QED
    BY <2>1, <2>4
<1>14. Within(k, m, YMin(d), YMax(d))
  <2>1. PICK lo \in Int, hi \in Int : lo = YMin(d) /\ hi = YMax(d)
    BY <1>12
  <2>2. Among(y1, lo, hi) /\ Among(y2, lo, hi)
    BY <1>12, <2>1
  <2>3. Mean(k, m, o, y1, y2, s, t, lo, hi)
    BY <1>4, <1>7, <1>9, <2>2 DEF Mean
  <2>4. Within(k, m, lo, hi)
    BY <1>5, <2>3, MeanIsWithin
  <2> QED
    BY <2>1, <2>4
<1> QED
  BY <1>10, <1>13, <1>14

(* Taken the other way round it is the same point. *)
LEMMA MeetingTurned ==
  ASSUME NEW d, Ends(d) \subseteq (0 .. Span) \X (0 .. Span),
         NEW e, Ends(e) \subseteq (0 .. Span) \X (0 .. Span)
  PROVE  /\ Denominator(d, e) \in Int /\ XOfMeeting(d, e) \in Int /\ YOfMeeting(d, e) \in Int
         /\ Denominator(e, d) = -Denominator(d, e)
         /\ XOfMeeting(e, d) = -XOfMeeting(d, e) /\ YOfMeeting(e, d) = -YOfMeeting(d, e)
<1>1. PICK p \in Int, q \in Int, r \in Int :
        Equation(e).a = p /\ Equation(e).b = q /\ Equation(e).c = r
  BY LineOf DEF Line
<1>2. PICK a \in Int, b \in Int, c \in Int :
        Equation(d).a = a /\ Equation(d).b = b /\ Equation(d).c = c
  BY LineOf DEF Line
<1> QED
  BY <1>1, <1>2 DEF Denominator, XOfMeeting, YOfMeeting

(* A quotient between two coordinates is in a cell between theirs. *)
LEMMA CellOfQuotient ==
  ASSUME NEW n \in Int, NEW m \in Nat \ {0}, NEW lo \in Nat, NEW hi \in Nat,
         lo * m <= n, n <= hi * m
  PROVE  CellOf(n, m) \in CellOf(lo, 1) .. CellOf(hi, 1)
<1> USE SizesAssumption
<1>1. PICK l \in Nat, b \in Nat \ {0}, u \in Nat :
        /\ CellOf(lo, 1) = l /\ b = Span * 1000 /\ u = lo * GSize
        /\ b * l <= u * 999 /\ u * 999 < b * l + b
  BY CellBounds
<1>2. PICK h \in Nat, w \in Nat :
        /\ CellOf(hi, 1) = h /\ w = hi * GSize
        /\ b * h <= w * 999 /\ w * 999 < b * h + b
  BY <1>1, CellBounds
<1>3. PICK G \in Nat : G = GSize
  OBVIOUS
<1>4. n \in Nat
  <2>1. lo * m \in Nat
    OBVIOUS
  <2> QED
    BY <2>1
<1>5. PICK v \in Nat : v = n * G * 999
  BY <1>4
<1>6. PICK B \in Nat \ {0} : B = m * b
  <2>1. m * b \in Nat /\ m * b > 0
    OBVIOUS
  <2> QED
    BY <2>1
<1>7. m * Span * 1000 = B
  BY <1>1, <1>6
<1>8. CellOf(n, m) = v \div B
  BY <1>3, <1>5, <1>7 DEF CellOf
<1>9. PICK q \in Int, r \in 0 .. B - 1 : q = v \div B /\ v = B * q + r
  BY Quotient
<1>10. m * (u * 999) <= v /\ v <= m * (w * 999)
  <2>1. m * (u * 999) = (lo * m) * G * 999 /\ m * (w * 999) = (hi * m) * G * 999
    BY <1>1, <1>2, <1>3
  <2>2. (lo * m) * G <= n * G /\ n * G <= (hi * m) * G
    <3>1. PICK i \in Nat, j \in Nat : i = lo * m /\ j = hi * m
      OBVIOUS
    <3>2. i <= n /\ n <= j
      BY <3>1
    <3>3. i * G <= n * G /\ n * G <= j * G
      BY <1>4, <3>2, Multiples
    <3> QED
      BY <3>1, <3>3
  <2> QED
    BY <1>4, <1>5, <2>1, <2>2
<1>11. B * l <= v /\ v < B * h + B
  <2>1. m * (b * l) <= m * (u * 999) /\ m * (w * 999) < m * (b * h + b)
    <3>1. PICK i \in Int, j \in Int : i = b * l /\ j = u * 999 /\ i <= j
      BY <1>1
    <3>2. PICK k \in Int, g \in Int : k = w * 999 /\ g = b * h + b /\ k < g
      BY <1>2
    <3>3. m * i <= m * j /\ m * k < m * g
      BY <3>1, <3>2
    <3> QED
      BY <3>1, <3>2, <3>3
  <2>2. m * (b * l) = B * l /\ m * (b * h + b) = B * h + B
    BY <1>6
  <2> QED
    BY <1>10, <2>1, <2>2
<1>12. l <= q
  BY <1>9, <1>11, DivBounds
<1>13. q <= h
  <2>1. SUFFICES ASSUME h + 1 <= q PROVE FALSE
    OBVIOUS
  <2>2. B * (h + 1) <= B * q
    BY <2>1
  <2> QED
    BY <1>9, <1>11, <2>2
<1> QED
  BY <1>1, <1>2, <1>8, <1>9, <1>12, <1>13

(* Rational has nothing to clamp, and its cell is one of the box. *)
CellOfPair(p) == CellOf(p[1], p[2])

LEMMA RationalInBox ==
  ASSUME NEW n, NEW m, NEW lo \in Nat, NEW hi \in Nat, Within(n, m, lo, hi),
         NEW i \in Int, NEW j \in Int, i <= lo, hi <= j
  PROVE  /\ Rational(n, m, i, j) = IF m < 0 THEN <<-n, -m>> ELSE <<n, m>>
         /\ CellOfPair(Rational(n, m, i, j)) \in CellOf(lo, 1) .. CellOf(hi, 1)
<1>1. n \in Int /\ m \in Int /\ m # 0
  BY DEF Within
<1>2. PICK k \in Int, d \in Nat \ {0} :
        /\ k = (IF m < 0 THEN -n ELSE n) /\ d = (IF m < 0 THEN -m ELSE m)
        /\ lo * d <= k /\ k <= hi * d
  BY <1>1 DEF Within
<1>3. ~ (k < i * d) /\ ~ (k > j * d)
  <2>1. i * d <= lo * d /\ hi * d <= j * d
    OBVIOUS
  <2> QED
    BY <1>2, <2>1
<1>4. Clamp(k, d, i, j) = <<k, d>>
  BY <1>3 DEF Clamp
<1>5. Rational(n, m, i, j) = <<k, d>>
  BY <1>2, <1>4 DEF Rational
<1>6. CellOf(k, d) \in CellOf(lo, 1) .. CellOf(hi, 1)
  BY <1>2, CellOfQuotient
<1> QED
  BY <1>2, <1>5, <1>6 DEF CellOfPair

(* A crossing is in a cell that the box of each of the two edges meets. *)
InBox(s, c) ==
  \E r \in CellOf(YMin(s), 1) .. CellOf(YMax(s), 1),
     x \in CellOf(XMin(s), 1) .. CellOf(XMax(s), 1) : c = r * GSize + x

LEMMA CrossingInBoth ==
  ASSUME NEW d, Ends(d) \subseteq (0 .. Span) \X (0 .. Span),
         NEW e, Ends(e) \subseteq (0 .. Span) \X (0 .. Span), Crosses(d, e)
  PROVE  InBox(d, CrossingCell(d, e)) /\ InBox(e, CrossingCell(d, e))
<1>1. /\ Within(XOfMeeting(d, e), Denominator(d, e), XMin(d), XMax(d))
      /\ Within(YOfMeeting(d, e), Denominator(d, e), YMin(d), YMax(d))
  BY MeetInBox DEF Crosses
<1>2. /\ Within(XOfMeeting(e, d), Denominator(e, d), XMin(e), XMax(e))
      /\ Within(YOfMeeting(e, d), Denominator(e, d), YMin(e), YMax(e))
  BY MeetInBox DEF Crosses
<1>3. PICK m \in Int, n \in Int, k \in Int :
        m = Denominator(d, e) /\ n = XOfMeeting(d, e) /\ k = YOfMeeting(d, e)
  BY MeetingTurned
<1>4. PICK l \in Nat, r \in Nat, b \in Nat, t \in Nat :
        l = XMin(d) /\ r = XMax(d) /\ b = YMin(d) /\ t = YMax(d)
  BY Corners, SizesAssumption
<1>5. PICK u \in Nat, v \in Nat, w \in Nat, z \in Nat :
        u = XMin(e) /\ v = XMax(e) /\ w = YMin(e) /\ z = YMax(e)
  BY Corners, SizesAssumption
<1>6. Within(n, m, l, r) /\ Within(k, m, b, t)
  BY <1>1, <1>3, <1>4
<1>7. Within(n, m, u, v) /\ Within(k, m, w, z)
  <2>1. Within(-n, -m, u, v) /\ Within(-k, -m, w, z)
    BY <1>2, <1>3, <1>5, MeetingTurned
  <2> QED
    BY <2>1, WithinTurned
<1>8. PICK x1 \in Int, x2 \in Int, y1 \in Int, y2 \in Int :
        /\ x1 = Least(l, u) /\ x2 = Greatest(r, v) /\ y1 = Least(b, w) /\ y2 = Greatest(t, z)
        /\ x1 <= l /\ x1 <= u /\ r <= x2 /\ v <= x2
        /\ y1 <= b /\ y1 <= w /\ t <= y2 /\ z <= y2
  BY DEF Least, Greatest
<1>9. PICK i, j :
        i = CellOfPair(Rational(n, m, x1, x2)) /\ j = CellOfPair(Rational(k, m, y1, y2))
  OBVIOUS
<1>10. i \in CellOf(l, 1) .. CellOf(r, 1) /\ i \in CellOf(u, 1) .. CellOf(v, 1)
  BY <1>6, <1>7, <1>8, <1>9, RationalInBox
<1>11. j \in CellOf(b, 1) .. CellOf(t, 1) /\ j \in CellOf(w, 1) .. CellOf(z, 1)
  BY <1>6, <1>7, <1>8, <1>9, RationalInBox
<1>12. CrossingCell(d, e) = j * GSize + i
  <2>1. /\ Denominator(d, e) = Equation(d).a * Equation(e).b - Equation(e).a * Equation(d).b
        /\ XOfMeeting(d, e) = Equation(e).c * Equation(d).b - Equation(d).c * Equation(e).b
        /\ YOfMeeting(d, e) = Equation(e).a * Equation(d).c - Equation(d).a * Equation(e).c
    BY DEF Denominator, XOfMeeting, YOfMeeting
  <2> QED
    BY <1>3, <1>4, <1>5, <1>8, <1>9, <2>1 DEF CrossingCell, CellOfPair
<1> QED
  BY <1>4, <1>5, <1>10, <1>11, <1>12 DEF InBox

(* The two edges are among those of that cell. *)
LEMMA CrossingIsTested ==
  ASSUME Typed, input.built = Maps, NEW d \in Eids(0), NEW e \in Eids(1),
         Crosses(edges[0][d], edges[1][e])
  PROVE  \E c \in Cells :
           c = CrossingCell(edges[0][d], edges[1][e]) /\ d \in Met(0, c) /\ e \in Met(1, c)
<1>1. PICK s, r : s = edges[0][d] /\ r = edges[1][e]
  OBVIOUS
<1>2. Ends(s) \subseteq (0 .. Span) \X (0 .. Span) /\ Ends(r) \subseteq (0 .. Span) \X (0 .. Span)
  BY <1>1, InputFacts DEF Typed, Maps
<1>3. PICK c : c = CrossingCell(s, r)
  OBVIOUS
<1>4. InBox(s, c) /\ InBox(r, c)
  BY <1>1, <1>2, <1>3, CrossingInBoth
<1>5. /\ \E k \in 0 .. CellsAcross(s) - 1 : CellThere(s, k) = c
      /\ \E k \in 0 .. CellsAcross(r) - 1 : CellThere(r, k) = c
  BY <1>2, <1>4, CellsOfEdge DEF InBox
<1>6. c \in Cells
  BY <1>2, <1>5, CellsOfEdge
<1>7. d \in Met(0, c) /\ e \in Met(1, c)
  BY <1>1, <1>5 DEF Met, Maps
<1> QED
  BY <1>1, <1>3, <1>6, <1>7

(* A cell has an edge in one slot. *)
LEMMA SlotOfEdge ==
  ASSUME Inv, phase = "query", NEW c \in Cells, NEW m \in Maps, NEW e \in Met(m, c)
  PROVE  \E i \in 0 .. ne[c][m] - 1 :
           \A j \in 0 .. ne[c][m] - 1 : EidIn(c, m, j) = e <=> j = i
<1>1. Typed /\ Counted /\ Filled
  BY DEF Inv
<1>0. PICK n \in Nat : n = ne[c][m]
  BY <1>1 DEF Typed
<1>2. PICK S : n = ne[c][m] /\ S = 0 .. n - 1
  BY <1>0
<1>3. PICK T : T = Met(m, c)
  OBVIOUS
<1>4. n = Cardinality(T) /\ IsFiniteSet(T)
  BY <1>1, <1>2, <1>3, VisitedFacts DEF Counted
<1>5. Stored(c, m, n) = T
  BY <1>1, <1>2, <1>3 DEF Filled
<1>6. \A i : EidIn(c, m, i) = eids[SlotOf(c, m, i)]
  BY <1>1 DEF Filled, EidIn, SlotOf
<1>7. {EidIn(c, m, i) : i \in S} = T
  BY <1>2, <1>5, <1>6, Zenon DEF Stored
<1>8. PICK f : f = [i \in S |-> EidIn(c, m, i)]
  OBVIOUS
<1>9. f \in Surjection(S, T)
  BY <1>7, <1>8 DEF Surjection
<1>10. IsFiniteSet(S) /\ Cardinality(S) = n
  <2>1. IsFiniteSet(0 .. n - 1) /\ Cardinality(0 .. n - 1) = IF 0 > n - 1 THEN 0 ELSE (n - 1) - 0 + 1
    BY FS_Interval
  <2>2. Cardinality(0 .. n - 1) = n
    BY <2>1
  <2> QED
    BY <1>2, <2>1, <2>2
<1>11. f \in Injection(S, T)
  BY <1>4, <1>9, <1>10, FS_SurjSameCardinalityImpliesInj
<1>12. PICK i \in S : f[i] = e
  BY <1>3, <1>9 DEF Surjection
<1>13. \A j \in S : f[j] = e <=> j = i
  BY <1>11, <1>12 DEF Injection, IsInjective
<1> QED
  BY <1>2, <1>8, <1>12, <1>13

(* So a crossing is reported once, whatever the cells the edges share. *)
Records(d, e) ==
  {r \in Tested : Reports(r[1], r[2], r[3]) /\ EidIn(r[1], 0, r[2]) = d /\ EidIn(r[1], 1, r[3]) = e}

LEMMA OneRecord ==
  ASSUME Inv, phase = "query", input.built = Maps, NEW d \in Eids(0), NEW e \in Eids(1)
  PROVE  Cardinality(Records(d, e)) = IF Crosses(edges[0][d], edges[1][e]) THEN 1 ELSE 0
<1>1. \A r \in Records(d, e) : /\ Crosses(edges[0][d], edges[1][e])
                               /\ CrossingCell(edges[0][d], edges[1][e]) = r[1]
  BY DEF Records, Reports
<1>2. CASE ~ Crosses(edges[0][d], edges[1][e])
  <2>1. Records(d, e) = {}
    BY <1>1, <1>2
  <2> QED
    BY <1>2, <2>1, FS_EmptySet
<1>3. CASE Crosses(edges[0][d], edges[1][e])
  <2>1. PICK c \in Cells :
          c = CrossingCell(edges[0][d], edges[1][e]) /\ d \in Met(0, c) /\ e \in Met(1, c)
    BY <1>3, CrossingIsTested DEF Inv
  <2>2. PICK i \in 0 .. ne[c][0] - 1 : \A j \in 0 .. ne[c][0] - 1 : EidIn(c, 0, j) = d <=> j = i
    BY <2>1, SlotOfEdge DEF Maps
  <2>3. PICK k \in 0 .. ne[c][1] - 1 : \A j \in 0 .. ne[c][1] - 1 : EidIn(c, 1, j) = e <=> j = k
    BY <2>1, SlotOfEdge DEF Maps
  <2>4. <<c, i, k>> \in Records(d, e)
    <3>1. EidIn(c, 0, i) = d /\ EidIn(c, 1, k) = e
      BY <2>2, <2>3
    <3>2. Reports(c, i, k)
      BY <1>3, <2>1, <3>1 DEF Reports
    <3>3. <<c, i, k>> \in Tested
      BY <2>1, <2>2, <2>3 DEF Tested
    <3> QED
      BY <3>1, <3>2, <3>3 DEF Records
  <2>5. ASSUME NEW r \in Records(d, e)
        PROVE  r = <<c, i, k>>
    <3>1. PICK b \in Cells : \E u \in 0 .. ne[b][0] - 1, v \in 0 .. ne[b][1] - 1 : r = <<b, u, v>>
      BY DEF Records, Tested
    <3>2. PICK u \in 0 .. ne[b][0] - 1, v \in 0 .. ne[b][1] - 1 : r = <<b, u, v>>
      BY <3>1
    <3>3. b = c
      BY <1>1, <2>1, <3>2
    <3>4. EidIn(c, 0, u) = d /\ EidIn(c, 1, v) = e
      BY <3>2, <3>3 DEF Records
    <3> QED
      BY <2>2, <2>3, <3>2, <3>3, <3>4
  <2>6. Records(d, e) = {<<c, i, k>>}
    BY <2>4, <2>5
  <2> QED
    BY <1>3, <2>6, FS_Singleton
<1> QED
  BY <1>2, <1>3

-----------------------------------------------------------------------------
(* What the crossing query left behind. *)
Once ==
  found # Unset =>
    \A d \in Eids(0), e \in Eids(1) :
      found[<<d, e>>] = IF Crosses(edges[0][d], edges[1][e]) THEN 1 ELSE 0

(* IntersectEdge makes it so. *)
LEMMA IntersectOnce ==
  ASSUME Inv, IntersectEdge
  PROVE  Once'
<1>1. phase = "query" /\ input.built = Maps /\ UNCHANGED input
  BY DEF IntersectEdge
<1> DEFINE hits == {r \in Tested : Reports(r[1], r[2], r[3])}
           of(p) == {r \in hits : p = <<EidIn(r[1], 0, r[2]), EidIn(r[1], 1, r[3])>>}
<1>2. found' = [p \in Eids(0) \X Eids(1) |-> Cardinality(of(p))]
  BY DEF IntersectEdge, Tested
<1>3. \A d, e : of(<<d, e>>) = Records(d, e)
  BY DEF Records
<1>4. \A d \in Eids(0), e \in Eids(1) : found'[<<d, e>>] = Cardinality(Records(d, e))
  <2> HIDE DEF of
  <2> QED
    BY <1>2, <1>3
<1>5. \A d \in Eids(0), e \in Eids(1) :
        found'[<<d, e>>] = IF Crosses(edges[0][d], edges[1][e]) THEN 1 ELSE 0
  BY <1>1, <1>4, OneRecord
<1>6. edges' = edges /\ Eids(0)' = Eids(0) /\ Eids(1)' = Eids(1)
  BY <1>1 DEF edges, Eids
<1> QED
  BY <1>5, <1>6 DEF Once

(* Nothing else touches the queue, or the maps. *)
LEMMA OnceKept ==
  ASSUME Once, UNCHANGED <<input, found>>
  PROVE  Once'
<1>1. edges' = edges /\ Eids(0)' = Eids(0) /\ Eids(1)' = Eids(1)
  BY DEF edges, Eids
<1> QED
  BY <1>1 DEF Once

LEMMA NextOnce ==
  ASSUME Inv, Once, [Next]_vars
  PROVE  Once'
<1>1. CASE IntersectEdge
  BY <1>1, IntersectOnce
<1>2. CASE ~ IntersectEdge
  <2>1. UNCHANGED <<input, found>>
    <3>1. CASE \E e \in Eids(im) : CountEdge(e) \/ FillEdge(e)
      BY <3>1 DEF CountEdge, FillEdge
    <3>2. CASE NextMap \/ Scan \/ Restore
      BY <3>2 DEF NextMap, Scan, Restore
    <3>3. CASE \E q \in Maps : LocateVertices(q)
      BY <3>3 DEF LocateVertices
    <3>4. CASE Idle \/ UNCHANGED vars
      BY <3>4 DEF Idle, vars
    <3> QED
      BY <1>2, <3>1, <3>2, <3>3, <3>4 DEF Next
  <2> QED
    BY <2>1, OnceKept
<1> QED
  BY <1>1, <1>2

(* The crossing query reports every pair of edges that cross exactly once, in
   whatever cells the two are both listed, and no other pair; they cross when
   they do with map 1 moved by less than what separates two things of this
   size, whatever the size of the grid and of the coordinates. *)
THEOREM CrossingsReportedOnce == Spec => []CrossingsOnce
<1>1. Init => Once
  BY DEF Init, Once
<1>2. Inv /\ Once /\ [Next]_vars => Once'
  BY NextOnce
<1>3. Inv /\ Once => CrossingsOnce
  <2>1. SUFFICES ASSUME Inv, Once, found # Unset, NEW d \in Eids(0), NEW e \in Eids(1)
        PROVE  found[<<d, e>>] =
                 IF ProperCrossing(Scaled(edges[0][d]), Moved(edges[1][e])) THEN 1 ELSE 0
    BY DEF CrossingsOnce
  <2>2. PICK s, r : s = edges[0][d] /\ r = edges[1][e]
    OBVIOUS
  <2>3. Ends(s) \subseteq (0 .. Span) \X (0 .. Span) /\ Ends(r) \subseteq (0 .. Span) \X (0 .. Span)
    BY <2>1, <2>2, InputFacts DEF Inv, Typed, Maps
  <2>4. Crosses(s, r) <=> ProperCrossing(Scaled(s), Moved(r))
    BY <2>3, CrossesAsMoved
  <2> QED
    BY <2>1, <2>2, <2>4 DEF Once
<1> QED
  BY <1>1, <1>2, <1>3, Invariance, PTL DEF Spec

-----------------------------------------------------------------------------
(* The equations of edges are small. *)
LEMMA SmallInSpan ==
  ASSUME NEW s, Ends(s) \subseteq (0 .. Span) \X (0 .. Span), NEW x \in Int,
         XMin(s) < XMax(s), XMin(s) <= x, x <= XMax(s)
  PROVE  \E a, b, c \in Int : Small(s, x, Span, a, b, c)
<1> USE SizesAssumption
<1>1. Corner(s)
  BY DEF Corner, Ends
<1>2. PICK l \in 0 .. Span, r \in 0 .. Span, lo \in 0 .. Span, hi \in 0 .. Span :
        l = XMin(s) /\ r = XMax(s) /\ lo = YMin(s) /\ hi = YMax(s)
  BY Corners
<1>3. XMax(s) - XMin(s) <= Span /\ YMax(s) - YMin(s) <= Span
  BY <1>2
<1> QED
  BY <1>1, <1>3, SmallEquation

(* The tests of the loop take the edges that are over the moved point. *)
Candidate(q, x, y, s) == ~Beside(q, x, s) /\ ~Above(q, x, y, s)
IsOver(q, x, y, s) == OverMoved(s, x, y, Fine, Shift(q))

LEMMA ShiftIsOne ==
  ASSUME NEW q \in Maps
  PROVE  Shift(q) \in {1, -1} /\ (Shift(q) = 1 <=> q = 1) /\ (Shift(q) = -1 <=> q = 0)
BY DEF Shift, Maps

LEMMA NotBeside ==
  ASSUME NEW s, Ends(s) \subseteq (0 .. Span) \X (0 .. Span), NEW q \in Maps, NEW x \in 0 .. Span
  PROVE  /\ ~Beside(q, x, s) <=> /\ Fine * XMin(s) < Fine * x + Shift(q)
                                 /\ Fine * x + Shift(q) < Fine * XMax(s)
         /\ ~Beside(q, x, s) => XMin(s) < XMax(s) /\ XMin(s) <= x /\ x <= XMax(s)
<1> USE SizesAssumption
<1>1. PICK l \in Int, r \in Int : l = XMin(s) /\ r = XMax(s)
  BY Corners
<1>2. PICK f \in Nat : f = Fine /\ f > 1
  BY FineIsFine
<1>3. PICK g \in {1, -1} : g = Shift(q) /\ (g = 1 <=> q = 1) /\ (g = -1 <=> q = 0)
  BY ShiftIsOne
<1>4. /\ f * l < f * x + g <=> l < x \/ (l = x /\ g = 1)
      /\ f * x + g < f * r <=> x < r \/ (x = r /\ g = -1)
  BY <1>2, ShiftedOrder
<1>5. Beside(q, x, s) <=> x < l \/ x > r \/ x = (IF q = 0 THEN l ELSE r)
  BY <1>1 DEF Beside
<1>6. ~Beside(q, x, s) <=> /\ l < x \/ (l = x /\ g = 1)
                           /\ x < r \/ (x = r /\ g = -1)
  BY <1>3, <1>5 DEF Maps
<1>7. ~Beside(q, x, s) => l < r /\ l <= x /\ x <= r
  BY <1>3, <1>6
<1> QED
  BY <1>1, <1>2, <1>3, <1>4, <1>6, <1>7

LEMMA NotAbove ==
  ASSUME NEW s, NEW q \in Maps, NEW x \in Int, NEW y \in Int,
         NEW a \in Int, NEW b \in Int, NEW c \in Int, Small(s, x, Span, a, b, c)
  PROVE  /\ ~Above(q, x, y, s) <=>
              HeightMoved(s, x, Fine, Shift(q)) > (Fine * Fine * y + Shift(q)) * Equation(s).b
         /\ ~Above(q, x, y, s) => y * b <= YNum(s, x)
<1> USE SizesAssumption
<1>1. /\ Equation(s).a = a /\ Equation(s).b = b /\ Equation(s).c = c /\ b > 0
  BY DEF Small
<1>2. PICK f \in Nat : f = Fine /\ IsFine(f, Span)
  BY FineIsFine
<1>3. PICK g \in {1, -1} : g = Shift(q) /\ (g = 1 <=> q = 1) /\ (g = -1 <=> q = 0)
  BY ShiftIsOne
<1>4. PICK v \in Int : ValueAt(v, a, b, c, x, y)
  BY DEF ValueAt
<1>5. PICK m \in Int, n \in Int : m = a * x /\ n = y * b
  OBVIOUS
<1>6. YNum(s, x) = -m - c
  BY <1>1, <1>5 DEF YNum
<1>7. n - (-m - c) = v
  <2>1. x * a = m
    BY <1>5
  <2> QED
    BY <1>4, <1>5, <2>1 DEF ValueAt
<1>8. Above(q, x, y, s) <=> Decided(v, a, b, g) > 0
  <2>1. Above(q, x, y, s) <=>
          (IF v # 0 THEN v ELSE IF q = 0 THEN -(IF a # 0 THEN a ELSE b) ELSE (IF a # 0 THEN a ELSE b)) > 0
    BY <1>1, <1>5, <1>6, <1>7 DEF Above
  <2>2. CASE g = 1
    BY <1>3, <2>1, <2>2 DEF Decided
  <2>3. CASE g = -1
    BY <1>3, <2>1, <2>3 DEF Decided
  <2> QED
    BY <2>2, <2>3
<1>9. /\ HeightMoved(s, x, f, g) > (f * f * y + g) * Equation(s).b <=> ~ (Decided(v, a, b, g) > 0)
      /\ ~ (Decided(v, a, b, g) > 0) => v <= 0
  BY <1>2, <1>4, HeightDecides
<1> QED
  BY <1>2, <1>3, <1>5, <1>6, <1>7, <1>8, <1>9

LEMMA CandidateIsOver ==
  ASSUME NEW s, Ends(s) \subseteq (0 .. Span) \X (0 .. Span), NEW q \in Maps,
         NEW x \in 0 .. Span, NEW y \in 0 .. Span
  PROVE  Candidate(q, x, y, s) <=> IsOver(q, x, y, s)
<1>1. CASE Beside(q, x, s)
  BY <1>1, NotBeside DEF Candidate, IsOver, OverMoved
<1>2. CASE ~Beside(q, x, s)
  <2>1. PICK a \in Int, b \in Int, c \in Int : Small(s, x, Span, a, b, c)
    <3>1. XMin(s) < XMax(s) /\ XMin(s) <= x /\ x <= XMax(s) /\ x \in Int
      BY <1>2, NotBeside, SizesAssumption
    <3> QED
      BY <3>1, SmallInSpan
  <2>2. ~Above(q, x, y, s) <=>
          HeightMoved(s, x, Fine, Shift(q)) > (Fine * Fine * y + Shift(q)) * Equation(s).b
    BY <2>1, NotAbove, SizesAssumption
  <2> QED
    BY <1>2, <2>2, NotBeside DEF Candidate, IsOver, OverMoved
<1> QED
  BY <1>1, <1>2

-----------------------------------------------------------------------------
(* The code compares as the moved point would, but for a tie of slopes. *)
LEMMA ReplacesIsUnder ==
  ASSUME NEW s, NEW r, NEW q \in Maps, NEW x \in Int,
         NEW a \in Int, NEW b \in Int, NEW c \in Int, Small(s, x, Span, a, b, c),
         NEW i \in Int, NEW j \in Int, NEW k \in Int, Small(r, x, Span, i, j, k)
  PROVE  /\ Drop(s, r, x) \in Int /\ Gap(s, r) \in Int
         /\ Lower(q, x, s, r) <=> Under(Drop(s, r, x), Gap(s, r), Shift(q))
         /\ Lower(q, x, r, s) <=> Under(-Drop(s, r, x), -Gap(s, r), Shift(q))
         /\ Replaces(q, x, s, r) <=>
              \/ Drop(s, r, x) < 0
              \/ Drop(s, r, x) = 0 /\ ((Gap(s, r) > 0) = (q = 1))
<1> USE SizesAssumption
<1>1. PICK f \in Nat : f = Fine /\ IsFine(f, Span)
  BY FineIsFine
<1>2. PICK g \in {1, -1} : g = Shift(q)
  BY ShiftIsOne
<1>3. /\ Drop(s, r, x) \in Int /\ Gap(s, r) \in Int
      /\ Drop(r, s, x) = -Drop(s, r, x) /\ Gap(r, s) = -Gap(s, r)
      /\ LowerMoved(s, r, x, f, g) <=> Under(Drop(s, r, x), Gap(s, r), g)
  BY <1>1, LowerIsUnder
<1>4. LowerMoved(r, s, x, f, g) <=> Under(Drop(r, s, x), Gap(r, s), g)
  BY <1>1, LowerIsUnder
<1>5. PICK h \in Int, u \in Int : h = YNum(s, x) /\ u = YNum(r, x)
  BY WholeRise DEF Small, YNum, Rise
<1>6. /\ Equation(s).a = a /\ Equation(s).b = b /\ Equation(r).a = i /\ Equation(r).b = j
  BY DEF Small
<1>7. PICK d \in Int, e \in Int : d = h * j - u * b /\ e = a * j - i * b
  OBVIOUS
<1>8. Drop(s, r, x) = d /\ Gap(s, r) = e
  BY <1>5, <1>6, <1>7 DEF Drop, Gap, Rise, YNum
<1>9. Replaces(q, x, s, r) <=> d < 0 \/ (d = 0 /\ ((e > 0) = (q = 1)))
  <2>1. (Steeper(s, r) = (q = 1)) <=> ((e > 0) = (q = 1))
    BY <1>6, <1>7 DEF Steeper
  <2>2. Replaces(q, x, s, r) <=> h * j < u * b \/ (h * j = u * b /\ (Steeper(s, r) = (q = 1)))
    BY <1>5, <1>6 DEF Replaces
  <2>3. /\ h * j < u * b <=> d < 0
        /\ h * j = u * b <=> d = 0
    BY <1>7
  <2> QED
    BY <2>1, <2>2, <2>3
<1> QED
  BY <1>1, <1>2, <1>3, <1>4, <1>8, <1>9 DEF Lower

(* Of three edges, each lower than the next, the first is lower than the last. *)
HeightThere(q, x, s) == HeightMoved(s, x, Fine, Shift(q))

LEMMA LowerIsTransitive ==
  ASSUME NEW q, NEW x, NEW s, NEW r, NEW t,
         NEW h \in Int, NEW i \in Int, NEW j \in Int, NEW a \in Nat \ {0}, NEW b \in Nat \ {0}, NEW c \in Nat \ {0},
         HeightThere(q, x, s) = h, HeightThere(q, x, r) = i, HeightThere(q, x, t) = j,
         Equation(s).b = a, Equation(r).b = b, Equation(t).b = c,
         Lower(q, x, s, r), Lower(q, x, r, t)
  PROVE  Lower(q, x, s, t)
<1>1. h * b < i * a /\ i * c < j * b
  BY DEF Lower, LowerMoved, HeightThere
<1>2. (h * b) * c < (i * a) * c /\ (i * c) * a < (j * b) * a
  <2>1. PICK u \in Int, v \in Int, w \in Int, z \in Int : u = h * b /\ v = i * a /\ w = i * c /\ z = j * b
    OBVIOUS
  <2>2. u * c < v * c /\ w * a < z * a
    BY <1>1, <2>1
  <2> QED
    BY <2>1, <2>2
<1>3. PICK u \in Int, v \in Int : u = h * c /\ v = j * a
  OBVIOUS
<1>4. b * u < b * v
  <2>1. b * u = (h * b) * c /\ b * v = (j * b) * a /\ (i * a) * c = (i * c) * a
    BY <1>3
  <2> QED
    BY <1>2, <2>1
<1>5. u < v
  <2>1. SUFFICES ASSUME v <= u PROVE FALSE
    OBVIOUS
  <2>2. b * v <= b * u
    BY <2>1
  <2> QED
    BY <1>4, <2>2
<1> QED
  BY <1>3, <1>5 DEF Lower, LowerMoved, HeightThere

-----------------------------------------------------------------------------
(* The edges of the base map of a point query. *)
Base(q, e) == edges[1 - q][e]
IsLower(q, x, d, e) == Lower(q, x, Base(q, d), Base(q, e))
RowOf(q, x, e) == CellOf(YNum(Base(q, e), x), Equation(Base(q, e)).b)

LEMMA BaseInSpan ==
  ASSUME input \in Inputs, NEW q \in Maps, NEW e \in Eids(1 - q)
  PROVE  Ends(Base(q, e)) \subseteq (0 .. Span) \X (0 .. Span)
<1>1. 1 - q \in Maps
  BY DEF Maps
<1> QED
  BY <1>1, InputFacts DEF Base

(* What the loop accepts, and what it is over. *)
LEMMA OverIsCandidate ==
  ASSUME input \in Inputs, NEW q \in Maps, NEW x \in 0 .. Span, NEW y \in 0 .. Span,
         NEW e \in Eids(1 - q)
  PROVE  e \in OverPoint(q, x, y) <=> Candidate(q, x, y, Base(q, e))
<1>1. Candidate(q, x, y, Base(q, e)) <=> IsOver(q, x, y, Base(q, e))
  BY BaseInSpan, CandidateIsOver
<1>2. e \in OverPoint(q, x, y) <=> IsOver(q, x, y, Base(q, e))
  BY DEF OverPoint, IsOver, Base
<1> QED
  BY <1>1, <1>2

LEMMA OverEdge ==
  ASSUME input \in Inputs, NEW q \in Maps, NEW x \in 0 .. Span, NEW y \in 0 .. Span,
         NEW e \in OverPoint(q, x, y)
  PROVE  \E a, b, c \in Int : /\ Small(Base(q, e), x, Span, a, b, c)
                              /\ y * b <= YNum(Base(q, e), x)
<1>1. e \in Eids(1 - q)
  BY DEF OverPoint
<1>2. PICK s : s = Base(q, e)
  OBVIOUS
<1>3. Ends(s) \subseteq (0 .. Span) \X (0 .. Span)
  BY <1>1, <1>2, BaseInSpan
<1>4. ~Beside(q, x, s) /\ ~Above(q, x, y, s)
  BY <1>1, <1>2, OverIsCandidate DEF Candidate
<1>5. x \in Int /\ y \in Int
  BY SizesAssumption
<1>6. XMin(s) < XMax(s) /\ XMin(s) <= x /\ x <= XMax(s)
  BY <1>3, <1>4, NotBeside
<1>7. PICK a \in Int, b \in Int, c \in Int : Small(s, x, Span, a, b, c)
  BY <1>3, <1>5, <1>6, SmallInSpan
<1>8. y * b <= YNum(s, x)
  BY <1>4, <1>5, <1>7, NotAbove
<1> QED
  BY <1>2, <1>7, <1>8

(* Of two edges over a point one is lower, and only then it replaces the other. *)
LEMMA OneIsLower ==
  ASSUME input \in Inputs, NEW q \in Maps, NEW x \in 0 .. Span, NEW y \in 0 .. Span,
         NEW d \in OverPoint(q, x, y), NEW e \in OverPoint(q, x, y), d # e
  PROVE  /\ Replaces(q, x, Base(q, d), Base(q, e)) <=> IsLower(q, x, d, e)
         /\ IsLower(q, x, d, e) <=> ~ IsLower(q, x, e, d)
<1>1. PICK s, r : s = Base(q, d) /\ r = Base(q, e)
  OBVIOUS
<1>2. x \in Int
  BY SizesAssumption
<1>3. PICK a \in Int, b \in Int, c \in Int : Small(s, x, Span, a, b, c)
  BY <1>1, OverEdge
<1>4. PICK i \in Int, j \in Int, k \in Int : Small(r, x, Span, i, j, k)
  BY <1>1, OverEdge
<1>5. Planar(s, r)
  <2>1. d \in Eids(1 - q) /\ e \in Eids(1 - q) /\ 1 - q \in Maps
    BY DEF OverPoint, Maps
  <2> QED
    BY <1>1, <2>1, InputsAssumption DEF Eids, edges, Base
<1>6. XMin(s) < XMax(r) /\ XMin(r) < XMax(s)
  <2>1. IsOver(q, x, y, s) /\ IsOver(q, x, y, r)
    BY <1>1 DEF OverPoint, IsOver, Base
  <2>2. PICK l \in Int, h \in Int, m \in Int, n \in Int :
          l = XMin(s) /\ h = XMax(s) /\ m = XMin(r) /\ n = XMax(r)
    <3>1. Ends(s) \subseteq (0 .. Span) \X (0 .. Span) /\ Ends(r) \subseteq (0 .. Span) \X (0 .. Span)
      BY <1>1, BaseInSpan DEF OverPoint
    <3> QED
      BY <3>1, Corners, SizesAssumption
  <2>3. PICK f \in Nat : f = Fine /\ f > 1
    BY FineIsFine, SizesAssumption
  <2>4. Shift(q) \in Int
    BY ShiftIsOne
  <2>5. f * l < f * n /\ f * m < f * h
    BY <1>2, <2>1, <2>2, <2>3, <2>4 DEF IsOver, OverMoved
  <2>6. l < n /\ m < h
    BY <2>3, <2>5
  <2> QED
    BY <2>2, <2>6
<1>7. PICK u \in Int, v \in Int : u = Drop(s, r, x) /\ v = Gap(s, r)
  BY <1>2, <1>3, <1>4, ReplacesIsUnder
<1>8. ~ (u = 0 /\ v = 0)
  BY <1>2, <1>3, <1>4, <1>5, <1>6, <1>7, NotLevel
<1>9. PICK g \in {1, -1} : g = Shift(q) /\ (g = 1 <=> q = 1)
  BY ShiftIsOne
<1>10. /\ Lower(q, x, s, r) <=> Under(u, v, g)
       /\ Replaces(q, x, s, r) <=> u < 0 \/ (u = 0 /\ ((v > 0) = (q = 1)))
       /\ Lower(q, x, r, s) <=> Under(-u, -v, g)
  BY <1>2, <1>3, <1>4, <1>7, <1>9, ReplacesIsUnder
<1>11. Under(u, v, g) <=> ~ Under(-u, -v, g)
  BY <1>8 DEF Under
<1>12. (u < 0 \/ (u = 0 /\ ((v > 0) = (q = 1)))) <=> Under(u, v, g)
  BY <1>8, <1>9 DEF Under
<1> QED
  BY <1>1, <1>10, <1>11, <1>12 DEF IsLower

LEMMA LowerOfLower ==
  ASSUME input \in Inputs, NEW q \in Maps, NEW x \in 0 .. Span, NEW y \in 0 .. Span,
         NEW d \in OverPoint(q, x, y), NEW e \in OverPoint(q, x, y), NEW f \in OverPoint(q, x, y),
         IsLower(q, x, d, e), IsLower(q, x, e, f)
  PROVE  IsLower(q, x, d, f)
<1>1. ASSUME NEW m \in OverPoint(q, x, y)
      PROVE  /\ HeightThere(q, x, Base(q, m)) \in Int
             /\ Equation(Base(q, m)).b \in Nat \ {0}
  <2>1. PICK a \in Int, b \in Int, c \in Int : Small(Base(q, m), x, Span, a, b, c)
    BY OverEdge
  <2>2. /\ Equation(Base(q, m)).a = a /\ Equation(Base(q, m)).b = b /\ Equation(Base(q, m)).c = c
        /\ b > 0
    BY <2>1 DEF Small
  <2>3. Fine \in Int /\ Shift(q) \in Int /\ x \in Int
    BY FineIsFine, ShiftIsOne, SizesAssumption
  <2>4. PICK n \in Int : n = a * (Fine * x + Shift(q))
    BY <2>3
  <2>5. HeightThere(q, x, Base(q, m)) = Fine * (-n - Fine * c)
    BY <2>2, <2>4 DEF HeightThere, HeightMoved
  <2>6. Fine * (-n - Fine * c) \in Int
    BY <2>3
  <2> QED
    BY <2>2, <2>5, <2>6
<1>2. PICK s, r, t : s = Base(q, d) /\ r = Base(q, e) /\ t = Base(q, f)
  OBVIOUS
<1>3. PICK h \in Int, i \in Int, j \in Int :
        h = HeightThere(q, x, s) /\ i = HeightThere(q, x, r) /\ j = HeightThere(q, x, t)
  BY <1>1, <1>2
<1>4. PICK a \in Nat \ {0}, b \in Nat \ {0}, c \in Nat \ {0} :
        a = Equation(s).b /\ b = Equation(r).b /\ c = Equation(t).b
  BY <1>1, <1>2
<1>5. Lower(q, x, s, r) /\ Lower(q, x, r, t)
  BY <1>2 DEF IsLower
<1>6. Lower(q, x, s, t)
  BY <1>3, <1>4, <1>5, LowerIsTransitive
<1> QED
  BY <1>2, <1>6 DEF IsLower

-----------------------------------------------------------------------------
(* The row of the cell in which an edge passes over a point: a higher edge
   does so in no lower row, *)
LEMMA QuotientsInOrder ==
  ASSUME NEW n \in Nat, NEW m \in Nat \ {0}, NEW k \in Nat, NEW l \in Nat \ {0}, n * l <= k * m
  PROVE  CellOf(n, m) <= CellOf(k, l)
<1> USE SizesAssumption
<1>1. PICK G \in Nat, S \in Nat \ {0} : G = GSize /\ S = Span
  OBVIOUS
<1>2. PICK v \in Nat, w \in Nat : v = n * G * 999 /\ w = k * G * 999
  OBVIOUS
<1>3. PICK A \in Nat \ {0}, B \in Nat \ {0} : A = m * S * 1000 /\ B = l * S * 1000
  <2>1. \A i, j \in Nat \ {0} : i * j \in Nat \ {0}
    OBVIOUS
  <2>2. m * S \in Nat \ {0} /\ l * S \in Nat \ {0}
    BY <2>1
  <2> QED
    BY <2>2
<1>4. CellOf(n, m) = v \div A /\ CellOf(k, l) = w \div B
  BY <1>1, <1>2, <1>3 DEF CellOf
<1>5. PICK p \in Int, r \in 0 .. A - 1 : p = v \div A /\ v = A * p + r
  BY Quotient
<1>6. PICK q \in Int, t \in 0 .. B - 1 : q = w \div B /\ w = B * q + t
  BY Quotient
<1>7. v * B <= w * A
  <2>1. PICK C \in Nat : C = G * 999 * (S * 1000)
    <3>1. PICK i \in Nat, j \in Nat : i = G * 999 /\ j = S * 1000
      OBVIOUS
    <3>2. i * j \in Nat
      OBVIOUS
    <3> QED
      BY <3>1, <3>2
  <2>2. PICK i \in Nat, j \in Nat : i = n * l /\ j = k * m
    OBVIOUS
  <2>3. i * C <= j * C
    BY <2>2, Multiples
  <2>4. v * B = i * C /\ w * A = j * C
    BY <1>2, <1>3, <2>1, <2>2
  <2> QED
    BY <2>3, <2>4
<1>8. ~ (q + 1 <= p)
  <2>1. SUFFICES ASSUME q + 1 <= p PROVE FALSE
    OBVIOUS
  <2>2. w < B * p
    <3>1. B * (q + 1) <= B * p
      BY <2>1
    <3>2. B * (q + 1) = B * q + B
      OBVIOUS
    <3> QED
      BY <1>6, <3>1, <3>2
  <2>3. A * p <= v
    BY <1>5
  <2>4. PICK i \in Int, j \in Int : i = B * p /\ j = A * p
    OBVIOUS
  <2>5. w * A < i * A /\ j * B <= v * B
    BY <2>2, <2>3, <2>4
  <2>6. i * A = j * B
    BY <2>4
  <2> QED
    BY <1>7, <2>5, <2>6
<1> QED
  BY <1>4, <1>5, <1>6, <1>8

LEMMA RowOfLower ==
  ASSUME input \in Inputs, NEW q \in Maps, NEW x \in 0 .. Span, NEW y \in 0 .. Span,
         NEW d \in OverPoint(q, x, y), NEW e \in OverPoint(q, x, y), IsLower(q, x, d, e)
  PROVE  RowOf(q, x, d) <= RowOf(q, x, e)
<1>1. PICK s, r : s = Base(q, d) /\ r = Base(q, e)
  OBVIOUS
<1>2. x \in Int /\ y \in Nat
  BY SizesAssumption
<1>3. PICK a \in Int, b \in Int, c \in Int : Small(s, x, Span, a, b, c) /\ y * b <= YNum(s, x)
  BY <1>1, OverEdge
<1>4. PICK i \in Int, j \in Int, k \in Int : Small(r, x, Span, i, j, k) /\ y * j <= YNum(r, x)
  BY <1>1, OverEdge
<1>5. /\ Equation(s).a = a /\ Equation(s).b = b /\ Equation(s).c = c
      /\ Equation(r).a = i /\ Equation(r).b = j /\ Equation(r).c = k /\ b > 0 /\ j > 0
  BY <1>3, <1>4 DEF Small
<1>6. PICK h \in Nat, m \in Nat : h = YNum(s, x) /\ m = YNum(r, x)
  <2>1. PICK n \in Int, t \in Int : n = a * x /\ t = i * x
    BY <1>2
  <2>2. YNum(s, x) = -n - c /\ YNum(r, x) = -t - k
    BY <1>5, <2>1 DEF YNum
  <2>3. -n - c \in Int /\ -t - k \in Int
    OBVIOUS
  <2>4. PICK h \in Int, m \in Int : h = YNum(s, x) /\ m = YNum(r, x)
    BY <2>2, <2>3
  <2>5. PICK u \in Int, v \in Int : u = y * b /\ v = y * j /\ u >= 0 /\ v >= 0
    BY <1>2, <1>5
  <2>6. u <= h /\ v <= m
    BY <1>3, <1>4, <2>4, <2>5
  <2>7. h \in Nat /\ m \in Nat
    BY <2>5, <2>6
  <2> QED
    BY <2>4, <2>7
<1>7. PICK u \in Int, v \in Int : u = Drop(s, r, x) /\ v = Gap(s, r)
  BY <1>2, <1>3, <1>4, ReplacesIsUnder
<1>8. u <= 0
  <2>1. Under(u, v, Shift(q))
    BY <1>1, <1>2, <1>3, <1>4, <1>7, ReplacesIsUnder DEF IsLower
  <2> QED
    BY <2>1 DEF Under
<1>9. h * j <= m * b
  <2>1. u = h * j - m * b
    BY <1>5, <1>6, <1>7 DEF Drop, Rise, YNum
  <2> QED
    BY <1>8, <2>1
<1>10. b \in Nat \ {0} /\ j \in Nat \ {0}
  BY <1>5
<1>11. CellOf(h, b) <= CellOf(m, j)
  BY <1>9, <1>10, QuotientsInOrder
<1> QED
  BY <1>1, <1>5, <1>6, <1>11 DEF RowOf

(* and the edge is among those of that cell, which is not below the point. *)
LEMMA RowOfOver ==
  ASSUME input \in Inputs, NEW q \in Maps, 1 - q \in input.built,
         NEW x \in 0 .. Span, NEW y \in 0 .. Span, NEW e \in OverPoint(q, x, y)
  PROVE  /\ RowOf(q, x, e) \in CellOf(y, 1) .. GSize - 1
         /\ RowOf(q, x, e) <= CellOf(YMax(Base(q, e)), 1)
         /\ e \in Met(1 - q, RowOf(q, x, e) * GSize + CellOf(x, 1))
<1> USE SizesAssumption
<1>1. PICK s : s = Base(q, e)
  OBVIOUS
<1>2. e \in Eids(1 - q)
  BY DEF OverPoint
<1>3. Ends(s) \subseteq (0 .. Span) \X (0 .. Span)
  BY <1>1, <1>2, BaseInSpan
<1>4. PICK a \in Int, b \in Int, c \in Int : Small(s, x, Span, a, b, c) /\ y * b <= YNum(s, x)
  BY <1>1, OverEdge
<1>5. PICK xl \in Int, yl \in Int, xr \in Int, yr \in Int :
        FromLeft(s, xl, yl, xr, yr, a, b, c) /\ xl <= x /\ x <= xr
  BY <1>4 DEF Small
<1>6. PICK lo \in 0 .. Span, hi \in 0 .. Span, l \in 0 .. Span, r \in 0 .. Span :
        lo = YMin(s) /\ hi = YMax(s) /\ l = XMin(s) /\ r = XMax(s)
  BY <1>3, Corners
<1>7. Equation(s).a = a /\ Equation(s).b = b /\ Equation(s).c = c /\ b > 0
  BY <1>4 DEF Small
<1>8. PICK h \in Int : h = -(a * x) - c
  <2>1. PICK m \in Int : m = a * x
    OBVIOUS
  <2>2. -m - c \in Int
    OBVIOUS
  <2> QED
    BY <2>1, <2>2
<1>9. YNum(s, x) = h
  <2>1. PICK m \in Int : m = a * x
    OBVIOUS
  <2> QED
    BY <1>7, <1>8, <2>1 DEF YNum
<1>10. lo * b <= h /\ h <= hi * b
  BY <1>5, <1>6, <1>8, HeightInBox
<1>11. y * b <= h
  BY <1>4, <1>9
<1>12. b \in Nat \ {0}
  BY <1>7
<1>13. PICK w : w = CellOf(h, b)
  OBVIOUS
<1>14. w \in CellOf(lo, 1) .. CellOf(hi, 1) /\ w \in CellOf(y, 1) .. CellOf(hi, 1)
  BY <1>10, <1>11, <1>12, <1>13, CellOfQuotient
<1>15. RowOf(q, x, e) = w
  BY <1>1, <1>7, <1>9, <1>13 DEF RowOf
<1>16. CellOf(lo, 1) \in 0 .. GSize - 1 /\ CellOf(hi, 1) \in 0 .. GSize - 1 /\ CellOf(y, 1) \in 0 .. GSize - 1
       /\ CellOf(x, 1) \in 0 .. GSize - 1 /\ CellOf(l, 1) \in 0 .. GSize - 1 /\ CellOf(r, 1) \in 0 .. GSize - 1
  BY CellInside
<1>17. CellOf(x, 1) \in CellOf(l, 1) .. CellOf(r, 1)
  <2>1. l <= x /\ x <= r
    BY <1>5, <1>6 DEF FromLeft
  <2>2. CellOf(l, 1) <= CellOf(x, 1) /\ CellOf(x, 1) <= CellOf(r, 1)
    BY <2>1, CellsInOrder
  <2> QED
    BY <1>16, <2>2
<1>18. \E k \in 0 .. CellsAcross(s) - 1 : CellThere(s, k) = w * GSize + CellOf(x, 1)
  BY <1>3, <1>6, <1>14, <1>17, CellsOfEdge
<1>19. e \in Met(1 - q, w * GSize + CellOf(x, 1))
  BY <1>1, <1>2, <1>18 DEF Met, Base
<1>20. w \in CellOf(y, 1) .. GSize - 1 /\ w <= CellOf(hi, 1)
  BY <1>14, <1>16
<1> QED
  BY <1>1, <1>6, <1>15, <1>19, <1>20

-----------------------------------------------------------------------------
(* The lowest of some edges over a point, or none of no edges. *)
Lowest(q, x, S, e) ==
  IF e = NoEdge THEN S = {} ELSE e \in S /\ \A d \in S : d = e \/ IsLower(q, x, e, d)

(* One turn of the loop of a cell: what it keeps is the lowest so far. *)
LEMMA LowestSoFar ==
  ASSUME input \in Inputs, NEW q \in Maps, NEW x \in 0 .. Span, NEW y \in 0 .. Span,
         NEW S \in SUBSET OverPoint(q, x, y), NEW b, Lowest(q, x, S, b), NEW e \in Eids(1 - q),
         NEW n, n = IF Candidate(q, x, y, Base(q, e)) /\ (b = NoEdge \/ Replaces(q, x, Base(q, e), Base(q, b)))
                    THEN e ELSE b
  PROVE  Lowest(q, x, S \cup ({e} \cap OverPoint(q, x, y)), n)
<1>1. e # NoEdge
  <2>1. 1 - q \in Maps
    BY DEF Maps
  <2> QED
    BY <2>1, InputFacts DEF NoEdge
<1>2. PICK O : O = OverPoint(q, x, y)
  OBVIOUS
<1>3. e \in O <=> Candidate(q, x, y, Base(q, e))
  BY <1>2, OverIsCandidate
<1>4. CASE e \notin O
  <2>1. n = b /\ S \cup ({e} \cap O) = S
    BY <1>3, <1>4
  <2> QED
    BY <1>2, <2>1
<1>5. CASE e \in O
  <2>1. S \cup ({e} \cap O) = S \cup {e}
    BY <1>5
  <2>2. CASE b = NoEdge
    <3>1. n = e /\ S = {}
      BY <1>3, <1>5, <2>2 DEF Lowest
    <3>2. Lowest(q, x, S \cup {e}, e)
      BY <1>1, <3>1 DEF Lowest
    <3> QED
      BY <1>2, <2>1, <3>1, <3>2
  <2>3. CASE b # NoEdge /\ b = e
    <3>1. n = e /\ S \cup {e} = S
      BY <2>3 DEF Lowest
    <3> QED
      BY <1>2, <2>1, <2>3, <3>1
  <2>4. CASE b # NoEdge /\ b # e
    <3>1. b \in O /\ b \in S /\ \A d \in S : d \in O /\ (d = b \/ IsLower(q, x, b, d))
      BY <1>2, <2>4 DEF Lowest
    <3>2. /\ Replaces(q, x, Base(q, e), Base(q, b)) <=> IsLower(q, x, e, b)
          /\ IsLower(q, x, e, b) <=> ~ IsLower(q, x, b, e)
      BY <1>2, <1>5, <2>4, <3>1, OneIsLower
    <3>3. CASE IsLower(q, x, e, b)
      <4>1. n = e
        BY <1>3, <1>5, <3>2, <3>3
      <4>2. ASSUME NEW d \in S
            PROVE  d = e \/ IsLower(q, x, e, d)
        <5>1. d \in O /\ (d = b \/ IsLower(q, x, b, d))
          BY <3>1
        <5>2. CASE d = b
          BY <3>3, <5>2
        <5>3. CASE IsLower(q, x, b, d)
          BY <1>2, <1>5, <3>1, <3>3, <5>1, <5>3, LowerOfLower
        <5> QED
          BY <5>1, <5>2, <5>3
      <4>3. Lowest(q, x, S \cup {e}, e)
        BY <1>1, <4>2 DEF Lowest
      <4> QED
        BY <1>2, <2>1, <4>1, <4>3
    <3>4. CASE ~ IsLower(q, x, e, b)
      <4>1. n = b /\ IsLower(q, x, b, e)
        BY <2>4, <3>2, <3>4
      <4>2. Lowest(q, x, S \cup {e}, b)
        BY <2>4, <3>1, <4>1 DEF Lowest
      <4> QED
        BY <1>2, <2>1, <4>1, <4>2
    <3> QED
      BY <3>3, <3>4
  <2> QED
    BY <2>2, <2>3, <2>4
<1> QED
  BY <1>4, <1>5

(* So a cell leaves the lowest of its edges over the point. *)
LEMMA BestIsLowest ==
  ASSUME Inv, phase = "query", NEW q \in Maps, NEW x \in 0 .. Span, NEW y \in 0 .. Span, NEW c \in Cells
  PROVE  Lowest(q, x, OverPoint(q, x, y) \cap Met(1 - q, c), BestOf(q, x, y, c))
<1>1. 1 - q \in Maps /\ input \in Inputs
  BY DEF Maps, Inv, Typed
<1>2. PICK n \in Nat : n = ne[c][1 - q]
  BY <1>1 DEF Inv, Typed
<1>3. PICK r : LoopOf(q, x, y, c, n, r)
  BY <1>2, BestIsRun
<1>4. \A i \in 0 .. n - 1 : EidIn(c, 1 - q, i) \in Eids(1 - q)
  BY <1>1, <1>2, SlotsHoldEdges
<1> DEFINE O == OverPoint(q, x, y)
           Seen(k) == {EidIn(c, 1 - q, i) : i \in 0 .. k - 1} \cap O
           D == {k \in 0 .. n : Lowest(q, x, Seen(k), r[k])}
<1>5. 0 \in D
  <2>1. Seen(0) = {}
    OBVIOUS
  <2>2. r[0] = NoEdge
    BY <1>3 DEF LoopOf
  <2>3. Lowest(q, x, Seen(0), r[0])
    BY <2>1, <2>2 DEF Lowest
  <2> QED
    BY <2>3
<1>6. ASSUME NEW k \in 0 .. n - 1, k \in D
      PROVE  k + 1 \in D
  <2>1. PICK e \in Eids(1 - q) : e = EidIn(c, 1 - q, k)
    BY <1>4
  <2>2. PICK S \in SUBSET O : S = Seen(k)
    OBVIOUS
  <2>3. PICK b, m : b = r[k] /\ m = r[k + 1]
    OBVIOUS
  <2>4. Lowest(q, x, S, b)
    BY <1>6, <2>2, <2>3
  <2>5. m = IF Candidate(q, x, y, Base(q, e)) /\ (b = NoEdge \/ Replaces(q, x, Base(q, e), Base(q, b)))
            THEN e ELSE b
    BY <1>3, <2>1, <2>3 DEF LoopOf, Better, Candidate, Base
  <2>6. Lowest(q, x, S \cup ({e} \cap O), m)
    <3> HIDE DEF Seen, D
    <3> QED
      BY <1>1, <2>4, <2>5, LowestSoFar
  <2>7. Seen(k + 1) = S \cup ({e} \cap O)
    <3>1. \A i \in Int : i \in 0 .. (k + 1) - 1 <=> i \in 0 .. k - 1 \/ i = k
      OBVIOUS
    <3>2. {EidIn(c, 1 - q, i) : i \in 0 .. (k + 1) - 1} = {EidIn(c, 1 - q, i) : i \in 0 .. k - 1} \cup {e}
      BY <2>1, <3>1
    <3> QED
      BY <2>2, <3>2
  <2>8. k + 1 \in 0 .. n
    OBVIOUS
  <2> HIDE DEF Seen
  <2> QED
    BY <2>3, <2>6, <2>7, <2>8
<1>7. n \in D
  <2> HIDE DEF D
  <2> QED
    BY <1>5, <1>6, UpTo
<1>8. {EidIn(c, 1 - q, i) : i \in 0 .. n - 1} = Met(1 - q, c)
  <2>1. Filled
    BY DEF Inv
  <2>2. Stored(c, 1 - q, n) = Met(1 - q, c)
    BY <1>1, <1>2, <2>1 DEF Filled
  <2>3. \A m, i : EidIn(c, m, i) = eids[SlotOf(c, m, i)]
    BY <2>1 DEF Filled, EidIn, SlotOf
  <2> QED
    BY <2>2, <2>3, Zenon DEF Stored
<1>9. Seen(n) = O \cap Met(1 - q, c)
  BY <1>8
<1>10. r[n] = BestOf(q, x, y, c)
  BY <1>3 DEF LoopOf
<1> HIDE DEF Seen, O
<1>11. Lowest(q, x, O \cap Met(1 - q, c), BestOf(q, x, y, c))
  BY <1>7, <1>9, <1>10
<1> QED
  BY <1>11 DEF O

(* The cells above a point, by row. *)
CellAbove(x, r) == r * GSize + CellOf(x, 1)

LEMMA CellAboveIsCell ==
  ASSUME NEW x \in 0 .. Span, NEW r \in 0 .. GSize - 1
  PROVE  CellAbove(x, r) \in Cells /\ Row(CellAbove(x, r)) = r
<1> USE SizesAssumption
<1>1. PICK w \in 0 .. GSize - 1 : w = CellOf(x, 1)
  BY CellInside
<1>2. PICK c \in Int : c = r * GSize + w
  OBVIOUS
<1>3. c \in Cells
  <2>1. (r + 1) * GSize <= GSize * GSize
    BY Multiples
  <2>2. (r + 1) * GSize = r * GSize + GSize
    OBVIOUS
  <2>3. r * GSize \in Nat /\ GSize * GSize \in Nat
    OBVIOUS
  <2> QED
    BY <1>2, <2>1, <2>2, <2>3 DEF Cells
<1>4. c \div GSize = r
  <2>1. GSize * r <= c /\ c < GSize * r + GSize
    BY <1>2
  <2>2. PICK d \in Int, k \in 0 .. GSize - 1 : d = c \div GSize /\ c = GSize * d + k
    BY Quotient
  <2>3. r <= d
    BY <2>1, <2>2, DivBounds
  <2>4. ~ (r + 1 <= d)
    <3>1. SUFFICES ASSUME r + 1 <= d PROVE FALSE
      OBVIOUS
    <3>2. GSize * (r + 1) <= GSize * d
      BY <3>1
    <3>3. GSize * (r + 1) = GSize * r + GSize
      OBVIOUS
    <3> QED
      BY <2>1, <2>2, <3>2, <3>3
  <2> QED
    BY <2>2, <2>3, <2>4
<1> QED
  BY <1>1, <1>2, <1>3, <1>4 DEF CellAbove, Row

(* A cell that answers does so with the lowest of its edges over the point,
   where the ray crosses that edge in the cell or below. *)
LEMMA AnswerOfRow ==
  ASSUME Inv, phase = "query", NEW q \in Maps, 1 - q \in input.built,
         NEW x \in 0 .. Span, NEW y \in 0 .. Span, NEW r \in 0 .. GSize - 1,
         NEW e, e = Answer(q, x, y, CellAbove(x, r)), e # NoEdge
  PROVE  /\ e \in OverPoint(q, x, y) /\ RowOf(q, x, e) <= r
         /\ \A d \in OverPoint(q, x, y) \cap Met(1 - q, CellAbove(x, r)) : d = e \/ IsLower(q, x, e, d)
<1>1. input \in Inputs
  BY DEF Inv, Typed
<1>2. PICK c \in Cells : c = CellAbove(x, r) /\ Row(c) = r
  BY CellAboveIsCell
<1>3. PICK b : b = BestOf(q, x, y, c)
  OBVIOUS
<1>4. Answer(q, x, y, c) = IF \/ b = NoEdge
                              \/ CellOf(YMax(Base(q, b)), 1) = Row(c)
                              \/ RowOf(q, x, b) <= Row(c)
                           THEN b ELSE NoEdge
  BY <1>3 DEF Answer, Base, RowOf
<1>5. /\ e = b
      /\ CellOf(YMax(Base(q, b)), 1) = r \/ RowOf(q, x, b) <= r
  BY <1>2, <1>4
<1>6. Lowest(q, x, OverPoint(q, x, y) \cap Met(1 - q, c), b)
  BY <1>3, BestIsLowest
<1>7. /\ b \in OverPoint(q, x, y)
      /\ \A d \in OverPoint(q, x, y) \cap Met(1 - q, c) : d = b \/ IsLower(q, x, b, d)
  BY <1>5, <1>6 DEF Lowest
<1>8. RowOf(q, x, b) <= CellOf(YMax(Base(q, b)), 1)
  BY <1>1, <1>7, RowOfOver
<1>9. RowOf(q, x, b) <= r
  BY <1>5, <1>8
<1> QED
  BY <1>2, <1>5, <1>7, <1>9

(* The cell in which an edge passes over the point answers. *)
LEMMA RowAnswers ==
  ASSUME Inv, phase = "query", NEW q \in Maps, 1 - q \in input.built,
         NEW x \in 0 .. Span, NEW y \in 0 .. Span, NEW e \in OverPoint(q, x, y),
         NEW r \in 0 .. GSize - 1, r = RowOf(q, x, e)
  PROVE  Answer(q, x, y, CellAbove(x, r)) # NoEdge
<1>1. input \in Inputs
  BY DEF Inv, Typed
<1>2. PICK c \in Cells : c = CellAbove(x, r) /\ Row(c) = r
  BY CellAboveIsCell
<1>3. PICK b : b = BestOf(q, x, y, c)
  OBVIOUS
<1>4. e \in Met(1 - q, c)
  BY <1>1, <1>2, RowOfOver DEF CellAbove
<1>5. Lowest(q, x, OverPoint(q, x, y) \cap Met(1 - q, c), b)
  BY <1>3, BestIsLowest
<1>6. /\ b # NoEdge /\ b \in OverPoint(q, x, y)
      /\ e = b \/ IsLower(q, x, b, e)
  BY <1>4, <1>5 DEF Lowest
<1>7. RowOf(q, x, b) <= r
  <2>1. CASE e = b
    BY <2>1
  <2>2. CASE IsLower(q, x, b, e)
    BY <1>1, <1>6, <2>2, RowOfLower
  <2> QED
    BY <1>6, <2>1, <2>2
<1>8. Answer(q, x, y, c) = b
  BY <1>2, <1>3, <1>7 DEF Answer, Base, RowOf
<1> QED
  BY <1>2, <1>6, <1>8

(* The walk ends with the lowest edge over the point, if there is one. *)
LEMMA WalkIsLowest ==
  ASSUME Inv, phase = "query", NEW q \in Maps, 1 - q \in input.built,
         NEW x \in 0 .. Span, NEW y \in 0 .. Span
  PROVE  Lowest(q, x, OverPoint(q, x, y), Walk(q, x, y))
<1> DEFINE Ans(r) == Answer(q, x, y, CellAbove(x, r))
           Rows == {r \in CellOf(y, 1) .. GSize - 1 : Ans(r) # NoEdge}
<1>1. input \in Inputs
  BY DEF Inv, Typed
<1>2. CellOf(y, 1) \in 0 .. GSize - 1 /\ GSize \in Int
  BY CellInside, SizesAssumption
<1>3. Walk(q, x, y) = IF Rows = {} THEN NoEdge ELSE Ans(CHOOSE r \in Rows : \A t \in Rows : r <= t)
  BY DEF Walk, CellAbove
<1>4. \A e \in OverPoint(q, x, y) : RowOf(q, x, e) \in Rows
  <2> TAKE e \in OverPoint(q, x, y)
  <2>1. PICK r \in CellOf(y, 1) .. GSize - 1 : r = RowOf(q, x, e)
    BY <1>1, RowOfOver
  <2>2. r \in 0 .. GSize - 1
    BY <1>2
  <2>3. Ans(r) # NoEdge
    BY <2>1, <2>2, RowAnswers
  <2> QED
    BY <2>1, <2>3
<1>5. CASE Rows = {}
  <2>1. OverPoint(q, x, y) = {}
    <3> HIDE DEF Rows
    <3> QED
      BY <1>4, <1>5
  <2>2. Walk(q, x, y) = NoEdge
    <3> HIDE DEF Rows
    <3> QED
      BY <1>3, <1>5
  <2> QED
    BY <2>1, <2>2 DEF Lowest
<1>6. CASE Rows # {}
  <2>1. Rows \in SUBSET Nat
    BY <1>2
  <2>2. \E r \in Rows : \A t \in Rows : r <= t
    <3> HIDE DEF Rows
    <3> QED
      BY <1>6, <2>1, LeastElement
  <2>3. PICK l \in Rows : l = (CHOOSE r \in Rows : \A t \in Rows : r <= t) /\ \A t \in Rows : l <= t
    <3> HIDE DEF Rows
    <3> QED
      BY <2>2
  <2>4. PICK e : e = Answer(q, x, y, CellAbove(x, l)) /\ e # NoEdge
    OBVIOUS
  <2>5. Walk(q, x, y) = e
    <3>1. Walk(q, x, y) = Ans(l)
      <4> HIDE DEF Rows, Ans
      <4> QED
        BY <1>3, <1>6, <2>3
    <3> QED
      BY <2>4, <3>1
  <2>6. l \in 0 .. GSize - 1
    BY <1>2
  <2>7. /\ e \in OverPoint(q, x, y) /\ RowOf(q, x, e) <= l
        /\ \A d \in OverPoint(q, x, y) \cap Met(1 - q, CellAbove(x, l)) : d = e \/ IsLower(q, x, e, d)
    BY <2>4, <2>6, AnswerOfRow
  <2>8. ASSUME NEW d \in OverPoint(q, x, y), d # e
        PROVE  IsLower(q, x, e, d)
    <3>1. /\ IsLower(q, x, d, e) <=> ~ IsLower(q, x, e, d)
      BY <1>1, <2>7, <2>8, OneIsLower
    <3>2. SUFFICES ASSUME IsLower(q, x, d, e) PROVE FALSE
      BY <3>1
    <3>3. RowOf(q, x, d) <= RowOf(q, x, e)
      BY <1>1, <2>7, <3>2, RowOfLower
    <3>4. PICK u \in Rows : u = RowOf(q, x, d) /\ u \in Nat /\ l <= u
      BY <1>4, <2>1, <2>3
    <3>5. PICK v \in Nat : v = RowOf(q, x, e)
      BY <1>4, <2>1, <2>7
    <3>6. u = l
      BY <2>6, <2>7, <3>3, <3>4, <3>5
    <3>7. d \in Met(1 - q, CellAbove(x, l))
      BY <1>1, <3>4, <3>6, RowOfOver DEF CellAbove
    <3>8. IsLower(q, x, e, d)
      BY <2>7, <2>8, <3>7
    <3> QED
      BY <3>1, <3>2, <3>8
  <2> QED
    BY <2>4, <2>5, <2>7, <2>8 DEF Lowest
<1> QED
  BY <1>5, <1>6

(* LocateVertices answers every point so, *)
LEMMA LocateFinds ==
  ASSUME Inv, ClosestFound, NEW q \in Maps, LocateVertices(q)
  PROVE  ClosestFound'
<1>1. /\ phase = "query" /\ 1 - q \in input.built
      /\ closest' = [closest EXCEPT ![q] = [p \in Points(q) |-> Walk(q, p[1], p[2])]]
      /\ UNCHANGED input
  BY DEF LocateVertices
<1>2. edges' = edges /\ \A m : Eids(m)' = Eids(m)
  BY <1>1 DEF edges, Eids
<1>3. \A m, x, y : OverPoint(m, x, y)' = OverPoint(m, x, y)
  BY <1>2 DEF OverPoint
<1>4. \A m, x, y, e : IsClosest(m, x, y, e)' = IsClosest(m, x, y, e)
  BY <1>2, <1>3 DEF IsClosest
<1>5. ASSUME NEW p \in Points(q)
      PROVE  IsClosest(q, p[1], p[2], Walk(q, p[1], p[2]))
  <2>1. p[1] \in 0 .. Span /\ p[2] \in 0 .. Span
    <3>1. PICK e \in Eids(q) : p \in Ends(edges[q][e])
      BY DEF Points
    <3>2. p \in (0 .. Span) \X (0 .. Span)
      BY <3>1, InputFacts DEF Inv, Typed
    <3> QED
      BY <3>2
  <2>2. PICK x \in 0 .. Span, y \in 0 .. Span : x = p[1] /\ y = p[2]
    BY <2>1
  <2>3. PICK e : e = Walk(q, x, y) /\ Lowest(q, x, OverPoint(q, x, y), e)
    BY <1>1, WalkIsLowest
  <2>4. IsClosest(q, x, y, e)
    BY <2>3 DEF IsClosest, Lowest, IsLower, Base
  <2> QED
    BY <2>2, <2>3, <2>4
<1>6. ASSUME NEW t \in Maps, closest'[t] # Unset, NEW p \in DOMAIN closest'[t]
      PROVE  IsClosest(t, p[1], p[2], closest'[t][p])
  <2>1. CASE t = q
    <3>1. closest'[t] = [i \in Points(q) |-> Walk(q, i[1], i[2])]
      BY <1>1, <2>1 DEF Inv, Answered
    <3> QED
      BY <1>5, <1>6, <2>1, <3>1
  <2>2. CASE t # q
    <3>1. closest'[t] = closest[t]
      BY <1>1, <2>2 DEF Inv, Answered
    <3> QED
      BY <1>6, <3>1 DEF ClosestFound
  <2> QED
    BY <2>1, <2>2
<1> QED
  BY <1>4, <1>6, Zenon DEF ClosestFound

(* and no other step changes an answer, or a map. *)
LEMMA FoundKept ==
  ASSUME ClosestFound, UNCHANGED <<input, closest>>
  PROVE  ClosestFound'
<1>1. edges' = edges /\ \A m : Eids(m)' = Eids(m)
  BY DEF edges, Eids
<1>2. \A m, x, y : OverPoint(m, x, y)' = OverPoint(m, x, y)
  BY <1>1 DEF OverPoint
<1>3. \A m, x, y, e : IsClosest(m, x, y, e)' = IsClosest(m, x, y, e)
  BY <1>1, <1>2 DEF IsClosest
<1> QED
  BY <1>3, Zenon DEF ClosestFound

LEMMA NextFinds ==
  ASSUME Inv, ClosestFound, [Next]_vars
  PROVE  ClosestFound'
<1>1. CASE \E q \in Maps : LocateVertices(q)
  BY <1>1, LocateFinds
<1>2. CASE ~ \E q \in Maps : LocateVertices(q)
  <2>1. UNCHANGED <<input, closest>>
    <3>1. CASE \E e \in Eids(im) : CountEdge(e) \/ FillEdge(e)
      BY <3>1 DEF CountEdge, FillEdge
    <3>2. CASE NextMap \/ Scan \/ Restore
      BY <3>2 DEF NextMap, Scan, Restore
    <3>3. CASE IntersectEdge
      BY <3>3 DEF IntersectEdge
    <3>4. CASE Idle \/ UNCHANGED vars
      BY <3>4 DEF Idle, vars
    <3> QED
      BY <1>2, <3>1, <3>2, <3>3, <3>4 DEF Next
  <2> QED
    BY <2>1, FoundKept
<1> QED
  BY <1>1, <1>2

(* The point query gives every vertex the lowest edge of the base map above it,
   whatever the cells the edge and the ray are in, or none where there is none:
   with the query map moved by less than what separates two things of this
   size, whatever the size of the grid and of the coordinates. *)
THEOREM ClosestIsFound == Spec => []ClosestFound
<1>1. Init => ClosestFound
  BY DEF Init, ClosestFound
<1>2. Inv /\ ClosestFound /\ [Next]_vars => ClosestFound'
  BY NextFinds
<1> QED
  BY <1>1, <1>2, Invariance, PTL DEF Spec
=============================================================================
