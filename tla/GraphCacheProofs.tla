--------------------------- MODULE GraphCacheProofs ---------------------------
(***************************************************************************)
(* Proofs about GraphCache, for every number of processes, loads, maps and *)
(* crashes.                                                                *)
(***************************************************************************)
EXTENDS GraphCache, SequenceTheorems, TLAPS

(* The word at i is the one of the copy of map s. *)
Good(s, i) == i <= Len(file) /\ file[i] = Word(Layout[i], s)

(* An undisturbed reader has what it has read so far; what a Vulkan reader
   reads after the points is not what the names say. *)
HasRead(p, s) ==
  /\ graph[p]["counts"] # Zero
  /\ \A i \in 1 .. 9 : (i < pos[p] /\ (kind[p] = "cuda" \/ i <= 4)) =>
       graph[p][Layout[i]] = Word(Layout[i], s)

(* Nobody has parsed the map yet. *)
Fresh == \A p \in Procs : pc[p] \in {"start", "parse", "killed"} /\ loads[p] = 0

(* Map s was copied first, and everybody who still copies copies it. *)
Shared(s) ==
  /\ Len(file) <= 9
  /\ \A p \in Procs : pc[p] \in {"parse", "write"} => source = s
  /\ \A p \in Writers : graph[p] = Graph(s) /\ pos[p] \in 1 .. 9
  /\ \A i \in 1 .. 9 : Good(s, i) \/ (\E w \in Writers : pos[w] <= i) \/ ~ NoneCut
  /\ \A p \in Procs : (pc[p] = "read" /\ ~ torn[p]) => Writers = {}
  /\ \A p \in Procs : Undisturbed(p) =>
       /\ pc[p] # "aborted"
       /\ pc[p] = "read" => HasRead(p, s)
       /\ Loaded(p) => \A f \in Compared(p) : graph[p][f] = Word(f, s)

(* Who has loads to do has some left, and a reader is inside its program. *)
Bounded ==
  \A p \in Procs :
    /\ pc[p] \in {"start", "read", "parse", "write"} => loads[p] < Loads
    /\ pc[p] = "read" => pos[p] \in 1 .. Len(Reads(kind[p], graph[p]["counts"]))

(* The inductive invariant. *)
Inv ==
  /\ TypeOK
  /\ Bounded
  /\ IF file = NoFile THEN Fresh ELSE \E s \in 1 .. Sources : Shared(s)
-----------------------------------------------------------------------------
(* The layout of the copy. *)
LEMMA LayoutIs ==
  /\ Len(Layout) = 9 /\ DOMAIN Layout = 1 .. 9
  /\ Layout[1] = "sum" /\ Layout[2] = "counts" /\ Layout[3] = "chains"
  /\ Layout[4] = "points" /\ Layout[5] = "min_x" /\ Layout[6] = "min_y"
  /\ Layout[7] = "max_x" /\ Layout[8] = "max_y" /\ Layout[9] = "sum"
BY DEF Layout

(* The program of reads, read by read. *)
LEMMA ReadsAre ==
  ASSUME NEW k \in Kinds, NEW c
  PROVE  /\ (c # Zero /\ k = "cuda") =>
              /\ Len(Reads(k, c)) = 9
              /\ \A i \in 1 .. 9 : Reads(k, c)[i] = Layout[i]
         /\ (c # Zero /\ k # "cuda") =>
              /\ Len(Reads(k, c)) = 10
              /\ \A i \in 1 .. 4 : Reads(k, c)[i] = Layout[i]
              /\ \A i \in 5 .. 9 : Reads(k, c)[i] \in {"min_x", "min_y", "max_x", "max_y"}
              /\ Reads(k, c)[10] = "sum"
         /\ c = Zero => Len(Reads(k, c)) \in 7 .. 8
         /\ Reads(k, c)[1] = "sum" /\ Reads(k, c)[2] = "counts"
         /\ \A i \in 3 .. Len(Reads(k, c)) : Reads(k, c)[i] \in Fields \ {"counts"}
<1> DEFINE A == <<"sum", "counts">>
<1> DEFINE B == IF c = Zero THEN <<>> ELSE <<"chains", "points">>
<1>1. k = "cuda" \/ k = "vk"
  BY KindsAssumption
<1>2. Reads(k, c) = (A \o B) \o Rest(k)
  BY DEF Reads
<1>3. CASE c # Zero /\ k = "cuda"
  <2>1. Reads(k, c) = (<<"sum", "counts">> \o <<"chains", "points">>)
                        \o <<"min_x", "min_y", "max_x", "max_y", "sum">>
    BY <1>2, <1>3 DEF Rest
  <2>2. /\ Len(Reads(k, c)) = 9
        /\ Reads(k, c)[1] = "sum" /\ Reads(k, c)[2] = "counts"
        /\ Reads(k, c)[3] = "chains" /\ Reads(k, c)[4] = "points"
        /\ Reads(k, c)[5] = "min_x" /\ Reads(k, c)[6] = "min_y"
        /\ Reads(k, c)[7] = "max_x" /\ Reads(k, c)[8] = "max_y" /\ Reads(k, c)[9] = "sum"
    BY <2>1
  <2>3. \A i \in 1 .. 9 : i = 1 \/ i = 2 \/ i = 3 \/ i = 4 \/ i = 5 \/ i = 6 \/ i = 7 \/ i = 8 \/ i = 9
    OBVIOUS
  <2>4. \A i \in 1 .. 9 : Reads(k, c)[i] = Layout[i]
    BY <2>2, <2>3, LayoutIs
  <2> QED
    BY SMTT(30), <1>3, <2>2, <2>3, <2>4 DEF Fields
<1>4. CASE c # Zero /\ k = "vk"
  <2>1. Reads(k, c) = (<<"sum", "counts">> \o <<"chains", "points">>)
                        \o <<"min_x", "min_y", "max_x", "min_y", "max_y", "sum">>
    BY <1>2, <1>4 DEF Rest
  <2>2. /\ Len(Reads(k, c)) = 10
        /\ Reads(k, c)[1] = "sum" /\ Reads(k, c)[2] = "counts"
        /\ Reads(k, c)[3] = "chains" /\ Reads(k, c)[4] = "points"
        /\ Reads(k, c)[5] = "min_x" /\ Reads(k, c)[6] = "min_y"
        /\ Reads(k, c)[7] = "max_x" /\ Reads(k, c)[8] = "min_y"
        /\ Reads(k, c)[9] = "max_y" /\ Reads(k, c)[10] = "sum"
    BY <2>1
  <2>3. /\ \A i \in 1 .. 4 : i = 1 \/ i = 2 \/ i = 3 \/ i = 4
        /\ \A i \in 5 .. 9 : i = 5 \/ i = 6 \/ i = 7 \/ i = 8 \/ i = 9
        /\ \A i \in 3 .. 10 : i = 3 \/ i = 4 \/ i \in 5 .. 9 \/ i = 10
    OBVIOUS
  <2>4. \A i \in 1 .. 4 : Reads(k, c)[i] = Layout[i]
    BY <2>2, <2>3, LayoutIs
  <2>5. \A i \in 5 .. 9 : Reads(k, c)[i] \in {"min_x", "min_y", "max_x", "max_y"}
    BY <2>2, <2>3
  <2>6. \A i \in 3 .. 10 : Reads(k, c)[i] \in Fields \ {"counts"}
    BY <2>2, <2>3, <2>5 DEF Fields
  <2> QED
    BY <1>4, <2>2, <2>4, <2>5, <2>6
<1>5. CASE c = Zero /\ k = "cuda"
  <2>1. Reads(k, c) = (<<"sum", "counts">> \o <<>>) \o <<"min_x", "min_y", "max_x", "max_y", "sum">>
    BY <1>2, <1>5 DEF Rest
  <2>2. /\ Len(Reads(k, c)) = 7
        /\ Reads(k, c)[1] = "sum" /\ Reads(k, c)[2] = "counts"
        /\ Reads(k, c)[3] = "min_x" /\ Reads(k, c)[4] = "min_y"
        /\ Reads(k, c)[5] = "max_x" /\ Reads(k, c)[6] = "max_y" /\ Reads(k, c)[7] = "sum"
    BY <2>1
  <2>3. \A i \in 3 .. 7 : i = 3 \/ i = 4 \/ i = 5 \/ i = 6 \/ i = 7
    OBVIOUS
  <2> QED
    BY <1>5, <2>2, <2>3 DEF Fields
<1>6. CASE c = Zero /\ k = "vk"
  <2>1. Reads(k, c) = (<<"sum", "counts">> \o <<>>)
                        \o <<"min_x", "min_y", "max_x", "min_y", "max_y", "sum">>
    BY <1>2, <1>6 DEF Rest
  <2>2. /\ Len(Reads(k, c)) = 8
        /\ Reads(k, c)[1] = "sum" /\ Reads(k, c)[2] = "counts"
        /\ Reads(k, c)[3] = "min_x" /\ Reads(k, c)[4] = "min_y"
        /\ Reads(k, c)[5] = "max_x" /\ Reads(k, c)[6] = "min_y"
        /\ Reads(k, c)[7] = "max_y" /\ Reads(k, c)[8] = "sum"
    BY <2>1
  <2>3. \A i \in 3 .. 8 : i = 3 \/ i = 4 \/ i = 5 \/ i = 6 \/ i = 7 \/ i = 8
    OBVIOUS
  <2> QED
    BY <1>6, <2>2, <2>3 DEF Fields
<1> QED
  BY <1>1, <1>3, <1>4, <1>5, <1>6

(* The copy and the graph of a map are made of words; the mark of a missing
   file is none. *)
LEMMA WordsAre ==
  /\ \A f \in Fields, s \in 1 .. Sources : Word(f, s) \in Words
  /\ \A s \in 1 .. Sources : Graph(s) \in [Fields -> Words \cup {Unset}]
  /\ \A s \in 1 .. Sources : \A f \in Fields : Graph(s)[f] = Word(f, s)
  /\ NewGraph \in [Fields -> Words \cup {Unset}]
  /\ \A i \in 1 .. 9 : Layout[i] \in Fields
  /\ Zero \in Words /\ Unset # Zero
  /\ NoFile \notin Seq(Words)
<1>1. \A f \in Fields, s \in 1 .. Sources : Word(f, s) \in Words
  BY DEF Words
<1>2. \A s \in 1 .. Sources : /\ Graph(s) \in [Fields -> Words \cup {Unset}]
                             /\ \A f \in Fields : Graph(s)[f] = Word(f, s)
  BY <1>1 DEF Graph
<1>3. NewGraph \in [Fields -> Words \cup {Unset}]
  BY DEF NewGraph
<1>4. \A i \in 1 .. 9 : Layout[i] \in Fields
  <2>1. \A i \in 1 .. 9 : i = 1 \/ i = 2 \/ i = 3 \/ i = 4 \/ i = 5 \/ i = 6 \/ i = 7 \/ i = 8 \/ i = 9
    OBVIOUS
  <2> QED
    BY <2>1, LayoutIs DEF Fields
<1>5. Zero \in Words /\ Unset # Zero
  BY DEF Words, Zero, Unset
<1>6. NoFile \notin Seq(Words)
  <2>1. SUFFICES ASSUME NoFile \in Seq(Words) PROVE FALSE
    OBVIOUS
  <2>2. Len(NoFile) = 1 /\ NoFile[1] = [of |-> "none", source |-> 0]
    BY DEF NoFile
  <2>3. NoFile[1] \in Words
    BY <2>1, <2>2
  <2>4. \A w \in Words : w.of # "none"
    BY DEF Words, Word, Zero, Fields
  <2> QED
    BY <2>2, <2>3, <2>4
<1> QED
  BY <1>1, <1>2, <1>3, <1>4, <1>5, <1>6
-----------------------------------------------------------------------------
(* The invariant holds at first: nobody has parsed the map. *)
LEMMA InitHolds == Init => Inv
<1> SUFFICES ASSUME Init PROVE Inv
  OBVIOUS
<1>1. TypeOK
  BY WordsAre, LayoutIs, SourcesAssumption, LoadsAssumption, MaxCrashesAssumption
  DEF Init, TypeOK, Ended
<1>2. Bounded
  <2>1. \A p \in Procs : pc[p] = "start" /\ loads[p] = 0
    BY DEF Init
  <2>2. 0 < Loads
    BY LoadsAssumption
  <2>3. \A p \in Procs : pc[p] # "read" /\ loads[p] < Loads
    BY <2>1, <2>2
  <2> QED
    BY <2>3, Zenon DEF Bounded
<1>3. file = NoFile /\ Fresh
  BY DEF Init, Fresh
<1> QED
  BY <1>1, <1>2, <1>3 DEF Inv

(* A process looks for the copy: it starts to read only if there is one, and
   is undisturbed only if nobody writes it. *)
LEMMA LookupStep ==
  ASSUME Inv, NEW p \in Procs, Lookup(p) PROVE Inv'
<1>1. /\ TypeOK /\ Bounded /\ pc[p] = "start"
      /\ pc' = [pc EXCEPT ![p] = IF file = NoFile THEN "parse" ELSE "read"]
      /\ pos' = [pos EXCEPT ![p] = 1] /\ graph' = [graph EXCEPT ![p] = NewGraph]
      /\ torn' = [torn EXCEPT ![p] = file # NoFile /\ Writers # {}]
      /\ UNCHANGED <<source, file, kind, loads, crashes>>
  BY DEF Inv, Lookup
<1>2. TypeOK'
  <2>1. pos' \in [Procs -> 1 .. Len(Layout) + 1]
    BY <1>1, LayoutIs DEF TypeOK
  <2>2. (IF file = NoFile THEN "parse" ELSE "read")
          \in {"start", "read", "parse", "write", "done"} \cup Ended
    OBVIOUS
  <2>3. pc' \in [Procs -> {"start", "read", "parse", "write", "done"} \cup Ended]
    BY <1>1, <2>2 DEF TypeOK
  <2>4. (file # NoFile /\ Writers # {}) \in BOOLEAN
    OBVIOUS
  <2>5. torn' \in [Procs -> BOOLEAN]
    BY <1>1, <2>4 DEF TypeOK
  <2>6. graph' \in [Procs -> [Fields -> Words \cup {Unset}]]
    BY <1>1, WordsAre DEF TypeOK
  <2> QED
    BY <1>1, <2>1, <2>3, <2>5, <2>6 DEF TypeOK
<1>3. /\ pc'[p] = IF file = NoFile THEN "parse" ELSE "read"
      /\ pos'[p] = 1 /\ graph'[p] = NewGraph
      /\ \A q \in Procs \ {p} : pc'[q] = pc[q] /\ pos'[q] = pos[q]
                                /\ graph'[q] = graph[q] /\ torn'[q] = torn[q]
  BY <1>1 DEF TypeOK
<1>4. torn'[p] = (file # NoFile /\ Writers # {})
  BY <1>1, Zenon DEF TypeOK
<1>5. Bounded'
  <2>1. 1 \in 1 .. Len(Reads(kind[p], NewGraph["counts"]))
    <3>1. kind[p] \in Kinds
      BY <1>1 DEF TypeOK
    <3> QED
      BY <3>1, ReadsAre
  <2>2. ASSUME NEW q \in Procs \ {p} PROVE
          /\ pc'[q] \in {"start", "read", "parse", "write"} => loads'[q] < Loads
          /\ pc'[q] = "read" => pos'[q] \in 1 .. Len(Reads(kind'[q], graph'[q]["counts"]))
    BY <1>1, <1>3, <2>2 DEF Bounded
  <2>3. /\ loads'[p] < Loads
        /\ pos'[p] \in 1 .. Len(Reads(kind'[p], graph'[p]["counts"]))
    BY <1>1, <1>3, <2>1 DEF Bounded
  <2> QED
    BY <2>2, <2>3 DEF Bounded
<1>6. CASE file = NoFile
  <2>1. Fresh
    BY <1>6 DEF Inv
  <2>2. Fresh'
    BY <1>1, <1>3, <1>6, <2>1 DEF Fresh
  <2> QED
    BY <1>1, <1>2, <1>5, <1>6, <2>2 DEF Inv
<1>7. CASE file # NoFile
  <2>1. PICK s \in 1 .. Sources : Shared(s)
    BY <1>7 DEF Inv
  <2>2. Writers' = Writers /\ NoneCut' = NoneCut
    BY <1>1, <1>3, <1>7 DEF Writers, NoneCut
  <2>3. \A i \in 1 .. 9 : Good(s, i)' = Good(s, i)
    BY <1>1 DEF Good
  <2>4. \A q \in Procs : pc'[q] \in {"parse", "write"} => source' = s
    BY <1>1, <1>3, <1>7, <2>1 DEF Shared
  <2>5. \A q \in Writers' : graph'[q] = Graph(s) /\ pos'[q] \in 1 .. 9
    BY <1>1, <1>3, <2>1, <2>2 DEF Shared, Writers
  <2>6. \A i \in 1 .. 9 : Good(s, i)' \/ (\E w \in Writers' : pos'[w] <= i) \/ ~ NoneCut'
    BY <1>1, <1>3, <2>1, <2>2, <2>3 DEF Shared, Writers
  <2>7. \A q \in Procs : (pc'[q] = "read" /\ ~ torn'[q]) => Writers' = {}
    BY <1>3, <1>4, <1>7, <2>1, <2>2 DEF Shared
  <2>8. ASSUME NEW q \in Procs, Undisturbed(q)'
        PROVE  /\ pc'[q] # "aborted"
               /\ pc'[q] = "read" => HasRead(q, s)'
               /\ Loaded(q)' => \A f \in Compared(q)' : graph'[q][f] = Word(f, s)
    <3>1. CASE q = p
      <4>1. NewGraph["counts"] # Zero
        BY WordsAre DEF NewGraph, Fields
      <4>2. HasRead(p, s)'
        BY <1>3, <4>1 DEF HasRead
      <4> QED
        BY <1>3, <1>7, <3>1, <4>2 DEF Loaded
    <3>2. CASE q # p
      <4>1. Undisturbed(q)
        BY <1>3, <2>2, <2>8, <3>2 DEF Undisturbed
      <4>2. /\ pc[q] # "aborted" /\ (pc[q] = "read" => HasRead(q, s))
            /\ Loaded(q) => \A f \in Compared(q) : graph[q][f] = Word(f, s)
        BY <2>1, <4>1 DEF Shared
      <4> QED
        BY <1>1, <1>3, <3>2, <4>2 DEF HasRead, Loaded, Compared
    <3> QED
      BY <3>1, <3>2
  <2>9. Shared(s)'
    BY <1>1, <2>1, <2>4, <2>5, <2>6, <2>7, <2>8 DEF Shared
  <2> QED
    BY <1>1, <1>2, <1>5, <1>7, <2>9 DEF Inv
<1> QED
  BY <1>6, <1>7

(* A process parses the map and truncates the copy: the first one to do so
   settles which map is shared, and a later one parses the same map, since it
   cannot be replaced meanwhile; who reads is disturbed from now on. *)
LEMMA ParseStep ==
  ASSUME Inv, NEW p \in Procs, Parse(p) PROVE Inv'
<1>1. /\ TypeOK /\ Bounded /\ pc[p] = "parse" /\ file' = <<>>
      /\ graph' = [graph EXCEPT ![p] = Graph(source)]
      /\ torn' = [q \in Procs |-> torn[q] \/ pc[q] = "read"]
      /\ pos' = [pos EXCEPT ![p] = 1] /\ pc' = [pc EXCEPT ![p] = "write"]
      /\ UNCHANGED <<source, kind, loads, crashes>>
  BY DEF Inv, Parse
<1>2. /\ pc'[p] = "write" /\ pos'[p] = 1 /\ graph'[p] = Graph(source)
      /\ \A q \in Procs \ {p} : pc'[q] = pc[q] /\ pos'[q] = pos[q] /\ graph'[q] = graph[q]
  BY <1>1 DEF TypeOK
<1>3. \A q \in Procs : torn'[q] = (torn[q] \/ pc[q] = "read")
  BY <1>1, Zenon
<1>4. TypeOK'
  <2>1. pos' \in [Procs -> 1 .. Len(Layout) + 1]
    BY <1>1, LayoutIs DEF TypeOK
  <2>2. pc' \in [Procs -> {"start", "read", "parse", "write", "done"} \cup Ended]
    BY <1>1 DEF TypeOK
  <2>3. \A q \in Procs : (torn[q] \/ pc[q] = "read") \in BOOLEAN
    OBVIOUS
  <2>4. torn' \in [Procs -> BOOLEAN]
    BY <1>1, <2>3, Zenon
  <2>5. graph' \in [Procs -> [Fields -> Words \cup {Unset}]]
    BY <1>1, WordsAre DEF TypeOK
  <2>6. file' \in Seq(Words)
    BY <1>1
  <2> QED
    BY <1>1, <2>1, <2>2, <2>4, <2>5, <2>6 DEF TypeOK
<1>5. Bounded'
  <2>1. ASSUME NEW q \in Procs PROVE
          /\ pc'[q] \in {"start", "read", "parse", "write"} => loads'[q] < Loads
          /\ pc'[q] = "read" => pos'[q] \in 1 .. Len(Reads(kind'[q], graph'[q]["counts"]))
    <3>1. CASE q = p
      BY <1>1, <1>2, <3>1 DEF Bounded
    <3>2. CASE q # p
      BY <1>1, <1>2, <3>2 DEF Bounded
    <3> QED
      BY <3>1, <3>2
  <2> QED
    BY <2>1 DEF Bounded
<1>6. file' # NoFile
  BY <1>1, WordsAre, EmptySeq
<1>7. Writers' = Writers \cup {p} /\ NoneCut' = NoneCut
  BY <1>1, <1>2 DEF Writers, NoneCut
<1>8. \A i \in 1 .. 9 : \E w \in Writers' : pos'[w] <= i
  BY <1>2, <1>7
<1>9. CASE file = NoFile
  <2>1. Fresh
    BY <1>9 DEF Inv
  <2>2. source \in 1 .. Sources
    BY <1>1 DEF TypeOK
  <2>3. PICK s \in 1 .. Sources : s = source
    BY <2>2
  <2>4. Writers' = {p} /\ graph'[p] = Graph(s) /\ pos'[p] \in 1 .. 9
    BY <1>2, <1>7, <2>1, <2>3 DEF Writers, Fresh
  <2>5. \A q \in Procs : pc'[q] \notin {"read", "aborted"} /\ loads'[q] = 0
    BY <1>1, <1>2, <2>1 DEF Fresh
  <2>6. \A q \in Procs : ~ Loaded(q)'
    BY <2>5 DEF Loaded
  <2>7. Len(file') <= 9 /\ source' = s
    BY <1>1, <2>3
  <2>8. Shared(s)'
    BY <1>8, <2>4, <2>5, <2>6, <2>7 DEF Shared
  <2> QED
    BY <1>4, <1>5, <1>6, <2>8 DEF Inv
<1>10. CASE file # NoFile
  <2>1. PICK s \in 1 .. Sources : Shared(s)
    BY <1>10 DEF Inv
  <2>2. source = s /\ source' = s /\ Len(file') <= 9
    BY <1>1, <2>1 DEF Shared
  <2>3. \A q \in Writers' : graph'[q] = Graph(s) /\ pos'[q] \in 1 .. 9
    BY SMTT(30), <1>2, <1>7, <2>1, <2>2 DEF Shared, Writers
  <2>4. \A q \in Procs : ~ (pc'[q] = "read" /\ ~ torn'[q])
    BY <1>2, <1>3
  <2>5. ASSUME NEW q \in Procs, Undisturbed(q)'
        PROVE  /\ pc'[q] # "aborted" /\ pc'[q] # "read"
               /\ Loaded(q)' => \A f \in Compared(q)' : graph'[q][f] = Word(f, s)
    <3>1. CASE q = p
      BY <1>2, <3>1 DEF Loaded
    <3>2. CASE q # p
      <4>1. Undisturbed(q)
        BY <1>3, <1>7, <2>5 DEF Undisturbed
      <4>2. pc[q] # "aborted" /\ (Loaded(q) => \A f \in Compared(q) : graph[q][f] = Word(f, s))
        BY <2>1, <4>1 DEF Shared
      <4>3. pc'[q] # "read"
        BY <2>4, <2>5 DEF Undisturbed
      <4> QED
        BY <1>1, <1>2, <3>2, <4>2, <4>3 DEF Loaded, Compared
    <3> QED
      BY <3>1, <3>2
  <2>6. Shared(s)'
    BY <1>8, <2>2, <2>3, <2>4, <2>5 DEF Shared
  <2> QED
    BY <1>4, <1>5, <1>6, <2>6 DEF Inv
<1> QED
  BY <1>9, <1>10

(* What a word put at a position does to the file. *)
PutIn(i, w) ==
  /\ Put(i, w) \in Seq(Words) /\ Len(Put(i, w)) \in Len(file) .. 9
  /\ i <= Len(Put(i, w)) /\ Put(i, w)[i] = w
  /\ \A j \in 1 .. Len(file) : j # i => Put(i, w)[j] = file[j]
(* Putting a word changes that word, keeps the others and is still a copy of words. *)
LEMMA PutIs ==
  ASSUME file \in Seq(Words), NEW w \in Words, NEW i \in 1 .. 9, Len(file) <= 9
  PROVE  PutIn(i, w)
<1> DEFINE n == IF i > Len(file) THEN i ELSE Len(file)
<1> DEFINE e(j) == IF j = i THEN w ELSE IF j <= Len(file) THEN file[j] ELSE Zero
<1>1. Put(i, w) = [j \in 1 .. n |-> e(j)]
  BY DEF Put
<1>2. n \in Nat /\ n \in Len(file) .. 9 /\ i <= n
  OBVIOUS
<1>3. \A j \in 1 .. n : e(j) \in Words
  BY <1>2, WordsAre
<1>4. Put(i, w) \in Seq(Words) /\ Len(Put(i, w)) = n
  BY <1>1, <1>2, <1>3
<1>5. Put(i, w)[i] = w /\ \A j \in 1 .. Len(file) : j # i => Put(i, w)[j] = file[j]
  BY <1>1, <1>2
<1> QED
  BY <1>2, <1>4, <1>5 DEF PutIn

(* A program that finishes a load has loads left exactly if it starts again. *)
LEMMA FinishIs ==
  ASSUME TypeOK, NEW p \in Procs, Finish(p), loads[p] < Loads
  PROVE  /\ pc' \in [Procs -> {"start", "read", "parse", "write", "done"} \cup Ended]
         /\ loads' \in [Procs -> 0 .. Loads]
         /\ pc'[p] \in {"start", "done"} /\ (pc'[p] = "start" => loads'[p] < Loads)
         /\ \A q \in Procs \ {p} : pc'[q] = pc[q] /\ loads'[q] = loads[q]
<1>1. /\ pc' = [pc EXCEPT ![p] = IF loads[p] + 1 = Loads THEN "done" ELSE "start"]
      /\ loads' = [loads EXCEPT ![p] = loads[p] + 1]
  BY DEF Finish
<1>2. loads[p] \in 0 .. Loads /\ Loads \in Nat
  BY LoadsAssumption DEF TypeOK
<1>3. loads[p] + 1 \in 0 .. Loads
  BY <1>2
<1>4. (IF loads[p] + 1 = Loads THEN "done" ELSE "start")
        \in {"start", "read", "parse", "write", "done"} \cup Ended
  OBVIOUS
<1>5. pc' \in [Procs -> {"start", "read", "parse", "write", "done"} \cup Ended]
  BY <1>1, <1>4 DEF TypeOK
<1>6. loads' \in [Procs -> 0 .. Loads]
  BY <1>1, <1>3 DEF TypeOK
<1>7. /\ pc'[p] = (IF loads[p] + 1 = Loads THEN "done" ELSE "start")
      /\ loads'[p] = loads[p] + 1
      /\ \A q \in Procs \ {p} : pc'[q] = pc[q] /\ loads'[q] = loads[q]
  BY <1>1 DEF TypeOK
<1> QED
  BY <1>2, <1>3, <1>5, <1>6, <1>7

(* A writer puts the next word of the shared map: a position is good once it
   is written, and as long as it is not some writer is yet to reach it. *)
LEMMA WriteStep ==
  ASSUME Inv, NEW p \in Procs, Write(p) PROVE Inv'
<1> DEFINE i == pos[p]
<1>1. /\ TypeOK /\ Bounded /\ pc[p] = "write"
      /\ file' = Put(i, graph[p][Layout[i]]) /\ pos' = [pos EXCEPT ![p] = i + 1]
      /\ IF i = 9 THEN Finish(p) ELSE UNCHANGED <<pc, loads>>
      /\ UNCHANGED <<source, kind, graph, torn, crashes>>
  BY LayoutIs DEF Inv, Write
<1>2. file # NoFile /\ file \in Seq(Words) /\ p \in Writers
  BY <1>1 DEF Inv, Fresh, TypeOK, Writers
<1>3. PICK s \in 1 .. Sources : Shared(s)
  BY <1>2 DEF Inv
<1>4. /\ Len(file) <= 9 /\ source = s /\ i \in 1 .. 9 /\ graph[p] = Graph(s)
      /\ \A q \in Procs : pc[q] = "read" => torn[q]
  BY <1>1, <1>2, <1>3 DEF Shared
<1>5. graph[p][Layout[i]] = Word(Layout[i], s) /\ Word(Layout[i], s) \in Words
  BY <1>4, WordsAre
<1>6. /\ file' \in Seq(Words) /\ Len(file') \in Len(file) .. 9 /\ i <= Len(file')
      /\ file'[i] = Word(Layout[i], s)
      /\ \A j \in 1 .. Len(file) : j # i => file'[j] = file[j]
  <2>1. PICK n \in 1 .. 9 : n = i
    BY <1>4
  <2>2. PICK w \in Words : w = Word(Layout[n], s)
    BY <1>5, <2>1, Zenon
  <2>3. file' = Put(n, w)
    BY <1>1, <1>5, <2>1, <2>2
  <2>4. PutIn(n, w)
    BY <1>2, <1>4, PutIs
  <2> QED
    BY <2>1, <2>2, <2>3, <2>4 DEF PutIn
<1>7. /\ pc' \in [Procs -> {"start", "read", "parse", "write", "done"} \cup Ended]
      /\ loads' \in [Procs -> 0 .. Loads]
      /\ pc'[p] = IF i = 9 THEN pc'[p] ELSE "write"
      /\ i = 9 => pc'[p] \in {"start", "done"}
      /\ pc'[p] \in {"start", "write"} => loads'[p] < Loads
      /\ \A q \in Procs \ {p} : pc'[q] = pc[q] /\ loads'[q] = loads[q]
  <2>1. loads[p] < Loads
    BY <1>1 DEF Bounded
  <2>2. CASE i = 9
    <3>1. Finish(p)
      BY <1>1, <2>2
    <3> HIDE DEF i
    <3> QED
      BY <1>1, <2>1, <2>2, <3>1, FinishIs
  <2>3. CASE i # 9
    <3>1. pc' = pc /\ loads' = loads
      BY <1>1, <2>3
    <3> HIDE DEF i
    <3> QED
      BY <1>1, <2>1, <2>3, <3>1 DEF TypeOK
  <2> QED
    BY <2>2, <2>3
<1>8. pos'[p] = i + 1 /\ \A q \in Procs \ {p} : pos'[q] = pos[q]
  BY <1>1 DEF TypeOK
<1>9. TypeOK'
  <2>1. pos' \in [Procs -> 1 .. Len(Layout) + 1]
    BY <1>1, <1>4, LayoutIs DEF TypeOK
  <2> QED
    BY <1>1, <1>6, <1>7, <2>1 DEF TypeOK
<1>10. Bounded'
  <2>1. ASSUME NEW q \in Procs PROVE
          /\ pc'[q] \in {"start", "read", "parse", "write"} => loads'[q] < Loads
          /\ pc'[q] = "read" => pos'[q] \in 1 .. Len(Reads(kind'[q], graph'[q]["counts"]))
    <3>1. CASE q = p
      BY <1>7, <3>1
    <3>2. CASE q # p
      BY <1>1, <1>7, <1>8, <3>2 DEF Bounded
    <3> QED
      BY <3>1, <3>2
  <2> QED
    BY <2>1 DEF Bounded
<1>11. file' # NoFile
  BY <1>6, WordsAre
<1>12. /\ \A q \in Writers' : q \in Writers
       /\ \A q \in Writers : q # p \/ i # 9 => q \in Writers'
       /\ NoneCut' = NoneCut
  BY <1>1, <1>7 DEF Writers, NoneCut
<1>13. ASSUME NEW j \in 1 .. 9
       PROVE  Good(s, j)' \/ (\E w \in Writers' : pos'[w] <= j) \/ ~ NoneCut'
  <2>1. CASE Good(s, j)
    BY <1>2, <1>6, <2>1 DEF Good
  <2>2. CASE \E w \in Writers : pos[w] <= j
    <3>1. PICK w \in Writers : pos[w] <= j
      BY <2>2
    <3>2. CASE w # p
      BY <1>8, <1>12, <3>1, <3>2 DEF Writers
    <3>3. CASE w = p /\ j = i
      BY <1>6, <3>3 DEF Good
    <3>4. CASE w = p /\ j # i
      BY <1>2, <1>4, <1>8, <1>12, <3>1, <3>4
    <3> QED
      BY <3>2, <3>3, <3>4
  <2>3. CASE ~ NoneCut
    BY <1>12, <2>3
  <2> QED
    BY <1>3, <2>1, <2>2, <2>3 DEF Shared
<1>14. \A q \in Procs : pc'[q] \in {"parse", "write"} => source' = s
  BY <1>1, <1>4
<1>15. \A q \in Writers' : graph'[q] = Graph(s) /\ pos'[q] \in 1 .. 9
  <2>1. ASSUME NEW q \in Writers' PROVE graph'[q] = Graph(s) /\ pos'[q] \in 1 .. 9
    <3>1. q \in Writers /\ q \in Procs /\ pc'[q] = "write"
      BY <1>12, <2>1 DEF Writers
    <3>2. CASE q = p
      BY <1>1, <1>4, <1>7, <1>8, <3>1, <3>2
    <3>3. CASE q # p
      BY <1>1, <1>3, <1>8, <3>1, <3>3 DEF Shared
    <3> QED
      BY <3>2, <3>3
  <2> QED
    BY <2>1
<1>16. \A q \in Procs : ~ (pc'[q] = "read" /\ ~ torn'[q])
  BY <1>1, <1>4, <1>7
<1>17. ASSUME NEW q \in Procs, Undisturbed(q)'
       PROVE  /\ pc'[q] # "aborted" /\ pc'[q] # "read"
              /\ Loaded(q)' => \A f \in Compared(q)' : graph'[q][f] = Word(f, s)
  <2>1. pc'[q] # "read"
    BY <1>16, <1>17 DEF Undisturbed
  <2>2. CASE q = p
    <3>1. Compared(q)' \subseteq Fields
      BY DEF Compared, Fields
    <3>2. graph'[q] = Graph(s)
      BY <1>1, <1>4, <2>2
    <3>3. \A f \in Compared(q)' : graph'[q][f] = Word(f, s)
      BY <3>1, <3>2, WordsAre
    <3>4. pc'[q] # "aborted"
      BY <1>7, <2>2
    <3> QED
      BY <2>1, <3>3, <3>4
  <2>3. CASE q # p
    <3>1. Undisturbed(q)
      BY <1>1, <1>12, <1>17 DEF Undisturbed
    <3>2. pc[q] # "aborted" /\ (Loaded(q) => \A f \in Compared(q) : graph[q][f] = Word(f, s))
      BY <1>3, <3>1 DEF Shared
    <3> QED
      BY <1>1, <1>7, <2>1, <2>3, <3>2 DEF Loaded, Compared
  <2> QED
    BY <2>2, <2>3
<1>18. Shared(s)'
  BY <1>2, <1>6, <1>13, <1>14, <1>15, <1>16, <1>17 DEF Shared
<1> QED
  BY <1>9, <1>10, <1>11, <1>18 DEF Inv

(* A reader reads the next variable.  Undisturbed it has the whole copy of the
   shared map before it, so each word is the one its program expects, and both
   sums hold; the Vulkan programs read past the end last, where the sum is
   still the one read first. *)
LEMMA ReadStep ==
  ASSUME Inv, NEW p \in Procs, Read(p) PROVE Inv'
<1>1. PICK n : n = Len(Reads(kind[p], graph[p]["counts"]))
  OBVIOUS
<1>2. PICK f : f = Reads(kind[p], graph[p]["counts"])[pos[p]]
  OBVIOUS
<1>3. PICK w : w = IF pos[p] <= Len(file) THEN file[pos[p]] ELSE graph[p][f]
  OBVIOUS
<1>4. /\ TypeOK /\ Bounded /\ pc[p] = "read"
      /\ graph' = [graph EXCEPT ![p][f] = w]
      /\ pos' = [pos EXCEPT ![p] = IF pos[p] > 2 /\ pos[p] = n THEN pos[p] ELSE pos[p] + 1]
      /\ \/ /\ f = "sum" => w.of = "sum"
            /\ IF pos[p] > 2 /\ pos[p] = n THEN Finish(p) ELSE UNCHANGED <<pc, loads>>
         \/ /\ \/ f = "sum" /\ w.of # "sum"
               \/ f = "counts" /\ w.of \notin {"counts", "zero"}
            /\ pc' = [pc EXCEPT ![p] = "aborted"]
            /\ UNCHANGED loads
      /\ UNCHANGED <<source, file, kind, torn, crashes>>
  BY <1>1, <1>2, <1>3 DEF Inv, Read, ReadVar
<1>5. file # NoFile /\ file \in Seq(Words)
  BY <1>4 DEF Inv, Fresh, TypeOK
<1>6. kind[p] \in Kinds /\ n \in 7 .. 10 /\ pos[p] \in 1 .. n /\ loads[p] < Loads
  <2>1. kind[p] \in Kinds
    BY <1>4 DEF TypeOK
  <2>2. n \in 7 .. 10
    BY <1>1, <2>1, ReadsAre
  <2> QED
    BY <1>1, <1>4, <2>1, <2>2 DEF Bounded
<1>7. /\ f \in Fields
      /\ f = "counts" <=> pos[p] = 2
  <2>1. pos[p] = 1 \/ pos[p] = 2 \/ pos[p] \in 3 .. n
    BY <1>6
  <2>2. pos[p] \in 3 .. n => f \in Fields \ {"counts"}
    BY <1>1, <1>2, <1>6, ReadsAre
  <2>3. (pos[p] = 1 => f = "sum") /\ (pos[p] = 2 => f = "counts")
    BY <1>2, <1>6, ReadsAre
  <2> QED
    BY <2>1, <2>2, <2>3 DEF Fields
<1>8. w \in Words \cup {Unset}
  BY <1>3, <1>4, <1>5, <1>6, <1>7 DEF TypeOK
<1>9. /\ graph' \in [Procs -> [Fields -> Words \cup {Unset}]]
      /\ graph'[p][f] = w /\ \A g \in Fields \ {f} : graph'[p][g] = graph[p][g]
      /\ \A q \in Procs \ {p} : graph'[q] = graph[q]
  <2>1. graph[p] \in [Fields -> Words \cup {Unset}]
    BY <1>4 DEF TypeOK
  <2>2. graph' = [graph EXCEPT ![p] = [graph[p] EXCEPT ![f] = w]]
    BY <1>4
  <2>3. [graph[p] EXCEPT ![f] = w] \in [Fields -> Words \cup {Unset}]
    BY <1>7, <1>8, <2>1
  <2>4. graph'[p] = [graph[p] EXCEPT ![f] = w]
    BY <1>4, <2>2 DEF TypeOK
  <2> QED
    BY <1>4, <1>7, <2>1, <2>2, <2>3, <2>4 DEF TypeOK
<1>10. /\ pos' \in [Procs -> 1 .. Len(Layout) + 1]
       /\ pos'[p] = (IF pos[p] = n THEN n ELSE pos[p] + 1)
       /\ \A q \in Procs \ {p} : pos'[q] = pos[q]
  BY SMTT(30), <1>4, <1>6, LayoutIs DEF TypeOK
<1>11. /\ pc' \in [Procs -> {"start", "read", "parse", "write", "done"} \cup Ended]
       /\ loads' \in [Procs -> 0 .. Loads]
       /\ \/ pc'[p] = "read" /\ pos[p] # n
          \/ pc'[p] \in {"start", "done"} /\ pos[p] = n
          \/ /\ pc'[p] = "aborted"
             /\ \/ f = "sum" /\ w.of # "sum"
                \/ f = "counts" /\ w.of \notin {"counts", "zero"}
       /\ pc'[p] \in {"start", "read"} => loads'[p] < Loads
       /\ \A q \in Procs \ {p} : pc'[q] = pc[q] /\ loads'[q] = loads[q]
  <2>1. CASE pos[p] = n /\ Finish(p)
    BY <1>4, <1>6, <2>1, FinishIs
  <2>2. CASE pos[p] # n /\ UNCHANGED <<pc, loads>>
    BY <1>4, <1>6, <2>2 DEF TypeOK
  <2>3. CASE /\ \/ f = "sum" /\ w.of # "sum"
                \/ f = "counts" /\ w.of \notin {"counts", "zero"}
             /\ pc' = [pc EXCEPT ![p] = "aborted"]
             /\ UNCHANGED loads
    BY <1>4, <2>3 DEF TypeOK, Ended
  <2> QED
    BY <1>4, <1>6, <2>1, <2>2, <2>3
<1>12. TypeOK'
  BY <1>4, <1>9, <1>10, <1>11 DEF TypeOK
<1>13. Bounded'
  <2>1. pc'[p] = "read" => pos'[p] \in 1 .. Len(Reads(kind[p], graph'[p]["counts"]))
    <3>1. SUFFICES ASSUME pc'[p] = "read"
                   PROVE  pos'[p] \in 1 .. Len(Reads(kind[p], graph'[p]["counts"]))
      OBVIOUS
    <3>2. pos'[p] = pos[p] + 1 /\ pos[p] + 1 \in 1 .. n
      BY <1>6, <1>10, <1>11, <3>1
    <3>3. CASE pos[p] = 2
      <4>1. PICK c : c = graph'[p]["counts"]
        OBVIOUS
      <4>2. PICK m : m = Len(Reads(kind[p], c))
        OBVIOUS
      <4>3. m \in 7 .. 10
        BY <1>6, <4>2, ReadsAre
      <4>4. pos'[p] \in 1 .. m
        BY <3>2, <3>3, <4>3
      <4> QED
        BY <4>1, <4>2, <4>4
    <3>4. CASE pos[p] # 2
      <4>1. graph'[p]["counts"] = graph[p]["counts"]
        BY <1>7, <1>9, <3>4 DEF Fields
      <4> QED
        BY <1>1, <3>2, <4>1
    <3> QED
      BY <3>3, <3>4
  <2>2. ASSUME NEW q \in Procs \ {p} PROVE
          /\ pc'[q] \in {"start", "read", "parse", "write"} => loads'[q] < Loads
          /\ pc'[q] = "read" => pos'[q] \in 1 .. Len(Reads(kind'[q], graph'[q]["counts"]))
    BY <1>4, <1>9, <1>10, <1>11, <2>2 DEF Bounded
  <2>3. pc'[p] \in {"start", "read", "parse", "write"} => loads'[p] < Loads
    BY <1>11
  <2> QED
    BY <1>4, <2>1, <2>2, <2>3 DEF Bounded
<1>14. PICK s \in 1 .. Sources : Shared(s)
  BY <1>5 DEF Inv
<1>15. Writers' = Writers /\ NoneCut' = NoneCut /\ p \notin Writers
  BY <1>4, <1>11 DEF Writers, NoneCut
<1>16. ASSUME ~ torn[p], NoneCut
       PROVE  /\ pc'[p] # "aborted"
              /\ pc'[p] = "read" => HasRead(p, s)'
              /\ Loaded(p)' => \A g \in Compared(p)' : graph'[p][g] = Word(g, s)
  <2>1. Writers = {} /\ HasRead(p, s) /\ Len(file) <= 9
    BY <1>4, <1>14, <1>16 DEF Shared, Undisturbed
  <2>2. \A i \in 1 .. 9 : i <= Len(file) /\ file[i] = Word(Layout[i], s)
    BY <1>14, <1>16, <2>1 DEF Shared, Good
  <2>3. Len(file) = 9
    <3>1. PICK m : m = Len(file)
      OBVIOUS
    <3>2. m \in Nat /\ m <= 9
      BY <1>5, <2>1, <3>1
    <3>3. 9 <= m
      BY <2>2, <3>1
    <3>4. m = 9
      BY <3>2, <3>3
    <3> QED
      BY <3>1, <3>4
  <2>4. graph[p]["counts"] # Zero
    BY <2>1 DEF HasRead
  <2>5. /\ kind[p] = "cuda" => n = 9 /\ f = Layout[pos[p]]
        /\ kind[p] # "cuda" => /\ n = 10
                               /\ pos[p] <= 4 => f = Layout[pos[p]]
                               /\ pos[p] \in 5 .. 9 => f \in {"min_x", "min_y", "max_x", "max_y"}
                               /\ pos[p] = 10 => f = "sum"
    <3>1. PICK c : c = graph[p]["counts"]
      OBVIOUS
    <3>2. c # Zero /\ n = Len(Reads(kind[p], c)) /\ f = Reads(kind[p], c)[pos[p]]
      BY <1>1, <1>2, <2>4, <3>1
    <3>3. CASE kind[p] = "cuda"
      BY SMTT(30), <1>6, <3>2, <3>3, ReadsAre
    <3>4. CASE kind[p] # "cuda"
      BY SMTT(30), <1>6, <3>2, <3>4, ReadsAre
    <3> QED
      BY <3>3, <3>4
  <2>6. pos[p] <= 9 => w = Word(Layout[pos[p]], s)
    BY <1>3, <1>6, <2>2, <2>3
  <2>7. pos[p] = 10 => w = Word("sum", s)
    <3>1. SUFFICES ASSUME pos[p] = 10 PROVE w = Word("sum", s)
      OBVIOUS
    <3>2. kind[p] # "cuda" /\ f = "sum"
      BY <1>6, <2>5, <3>1
    <3>3. graph[p]["sum"] = Word("sum", s)
      BY <2>1, <3>1, LayoutIs DEF HasRead
    <3> QED
      BY <1>3, <2>3, <3>1, <3>2, <3>3
  <2>8. f \in {"sum", "counts"} => w = Word(f, s)
    <3>1. pos[p] \in 5 .. 9 /\ kind[p] # "cuda" => f \notin {"sum", "counts"}
      BY <2>5
    <3> QED
      BY <1>6, <2>5, <2>6, <2>7, <3>1
  <2>9. pc'[p] # "aborted"
    <3>1. Word("sum", s).of = "sum" /\ Word("counts", s).of = "counts"
      BY DEF Word
    <3> QED
      BY <1>11, <2>8, <3>1
  <2>10. ASSUME NEW i \in 1 .. 9, i <= pos[p], kind[p] = "cuda" \/ i <= 4
         PROVE  graph'[p][Layout[i]] = Word(Layout[i], s)
    <3>1. Layout[i] \in Fields
      BY <2>10, WordsAre
    <3>2. CASE i = pos[p]
      BY <1>9, <2>5, <2>6, <2>10, <3>2
    <3>3. CASE i < pos[p]
      <4>1. graph[p][Layout[i]] = Word(Layout[i], s)
        BY <2>1, <2>10, <3>3 DEF HasRead
      <4>2. CASE Layout[i] # f
        BY <1>9, <3>1, <4>1, <4>2
      <4>3. CASE Layout[i] = f
        <5>1. w = Word(f, s)
          <6>1. CASE kind[p] = "cuda" \/ pos[p] <= 4
            BY <1>6, <2>5, <2>6, <6>1
          <6>2. CASE kind[p] # "cuda" /\ pos[p] = 10
            BY <2>5, <2>7, <6>2
          <6>3. CASE kind[p] # "cuda" /\ pos[p] \in 5 .. 9
            <7>1. i = 1 \/ i = 2 \/ i = 3 \/ i = 4
              BY <2>10, <6>3
            <7>2. Layout[i] \notin {"min_x", "min_y", "max_x", "max_y"}
              BY <7>1, LayoutIs
            <7> QED
              BY <2>5, <4>3, <6>3, <7>2
          <6> QED
            BY <1>6, <6>1, <6>2, <6>3
        <5> QED
          BY <1>9, <4>3, <5>1
      <4> QED
        BY <4>2, <4>3
    <3> QED
      BY <1>6, <2>10, <3>2, <3>3
  <2>11. pc'[p] = "read" => HasRead(p, s)'
    <3>1. SUFFICES ASSUME pc'[p] = "read" PROVE HasRead(p, s)'
      OBVIOUS
    <3>2. pos'[p] = pos[p] + 1
      BY <1>10, <1>11, <3>1
    <3>3. graph'[p]["counts"] # Zero
      <4>1. CASE f = "counts"
        <5>1. Word("counts", s) # Zero
          BY DEF Word, Zero
        <5> QED
          BY <1>9, <2>8, <4>1, <5>1
      <4>2. CASE f # "counts"
        BY <1>9, <2>4, <4>2 DEF Fields
      <4> QED
        BY <4>1, <4>2
    <3>4. \A i \in 1 .. 9 : (i < pos'[p] /\ (kind'[p] = "cuda" \/ i <= 4)) =>
            graph'[p][Layout[i]] = Word(Layout[i], s)
      BY <1>4, <1>6, <2>10, <3>2
    <3> QED
      BY <3>3, <3>4 DEF HasRead
  <2>12. Loaded(p)' => \A g \in Compared(p)' : graph'[p][g] = Word(g, s)
    <3>1. SUFFICES ASSUME Loaded(p)', NEW g \in Compared(p)'
                   PROVE  graph'[p][g] = Word(g, s)
      OBVIOUS
    <3>2. pos[p] = n
      BY <1>11, <3>1 DEF Loaded
    <3>3. /\ g \in {"counts", "chains", "points"} \cup
                     (IF kind[p] = "cuda" THEN {"min_x", "min_y", "max_x", "max_y"} ELSE {})
      BY <1>4, <3>1 DEF Compared
    <3>4. \/ \E i \in 2 .. 4 : g = Layout[i]
          \/ kind[p] = "cuda" /\ \E i \in 5 .. 8 : g = Layout[i]
      <4>1. 2 \in 2 .. 4 /\ 3 \in 2 .. 4 /\ 4 \in 2 .. 4
            /\ 5 \in 5 .. 8 /\ 6 \in 5 .. 8 /\ 7 \in 5 .. 8 /\ 8 \in 5 .. 8
        OBVIOUS
      <4> QED
        BY <3>3, <4>1, LayoutIs
    <3>5. PICK i \in 1 .. 9 : g = Layout[i] /\ i <= n /\ (kind[p] = "cuda" \/ i <= 4)
      BY <1>6, <2>5, <3>4
    <3>6. i <= pos[p]
      BY <3>2, <3>5
    <3> QED
      BY <2>10, <3>5, <3>6
  <2> QED
    BY <2>9, <2>11, <2>12
<1>17. Shared(s)'
  <2>1. \A q \in Procs : pc'[q] \in {"parse", "write"} => source' = s
    BY <1>4, <1>11, <1>14 DEF Shared
  <2>2. \A q \in Writers' : graph'[q] = Graph(s) /\ pos'[q] \in 1 .. 9
    BY <1>9, <1>10, <1>14, <1>15 DEF Shared, Writers
  <2>3. \A i \in 1 .. 9 : Good(s, i)' = Good(s, i)
    BY <1>4 DEF Good
  <2>4. \A i \in 1 .. 9 : Good(s, i)' \/ (\E v \in Writers' : pos'[v] <= i) \/ ~ NoneCut'
    BY <1>10, <1>14, <1>15, <2>3 DEF Shared, Writers
  <2>5. \A q \in Procs : (pc'[q] = "read" /\ ~ torn'[q]) => Writers' = {}
    BY <1>4, <1>11, <1>14, <1>15 DEF Shared
  <2>6. ASSUME NEW q \in Procs, Undisturbed(q)'
        PROVE  /\ pc'[q] # "aborted"
               /\ pc'[q] = "read" => HasRead(q, s)'
               /\ Loaded(q)' => \A g \in Compared(q)' : graph'[q][g] = Word(g, s)
    <3>1. ~ torn[q] /\ NoneCut
      BY <1>4, <1>15, <2>6 DEF Undisturbed
    <3>2. CASE q = p
      BY <1>16, <3>1, <3>2
    <3>3. CASE q # p
      <4>1. /\ pc[q] # "aborted" /\ (pc[q] = "read" => HasRead(q, s))
            /\ Loaded(q) => \A g \in Compared(q) : graph[q][g] = Word(g, s)
        BY <1>14, <3>1 DEF Shared, Undisturbed
      <4> QED
        BY <1>4, <1>9, <1>10, <1>11, <3>3, <4>1 DEF HasRead, Loaded, Compared
    <3> QED
      BY <3>2, <3>3
  <2> QED
    BY <1>4, <1>14, <2>1, <2>2, <2>4, <2>5, <2>6 DEF Shared
<1> QED
  BY <1>4, <1>5, <1>12, <1>13, <1>17 DEF Inv

(* A process is killed: if it wrote the copy, nothing is promised any more;
   otherwise the others go on as before. *)
LEMMA CrashStep ==
  ASSUME Inv, NEW p \in Procs, Crash(p) PROVE Inv'
<1>1. /\ TypeOK /\ Bounded /\ crashes < MaxCrashes /\ crashes' = crashes + 1 /\ pc[p] # "cut"
      /\ pc' = [pc EXCEPT ![p] = IF pc[p] = "write" THEN "cut" ELSE "killed"]
      /\ UNCHANGED <<source, file, kind, pos, graph, loads, torn>>
  BY DEF Inv, Crash, Ended
<1>2. /\ pc'[p] = (IF pc[p] = "write" THEN "cut" ELSE "killed")
      /\ \A q \in Procs \ {p} : pc'[q] = pc[q]
  BY <1>1 DEF TypeOK
<1>3. TypeOK'
  <2>1. crashes' \in 0 .. MaxCrashes
    BY <1>1, MaxCrashesAssumption DEF TypeOK
  <2>2. (IF pc[p] = "write" THEN "cut" ELSE "killed")
          \in {"start", "read", "parse", "write", "done"} \cup Ended
    BY DEF Ended
  <2>3. pc' \in [Procs -> {"start", "read", "parse", "write", "done"} \cup Ended]
    BY <1>1, <2>2 DEF TypeOK
  <2> QED
    BY <1>1, <2>1, <2>3 DEF TypeOK
<1>4. Bounded'
  <2>1. ASSUME NEW q \in Procs PROVE
          /\ pc'[q] \in {"start", "read", "parse", "write"} => loads'[q] < Loads
          /\ pc'[q] = "read" => pos'[q] \in 1 .. Len(Reads(kind'[q], graph'[q]["counts"]))
    BY <1>1, <1>2 DEF Bounded
  <2> QED
    BY <2>1 DEF Bounded
<1>5. CASE file = NoFile
  <2>1. Fresh /\ pc[p] # "write"
    BY <1>5 DEF Inv, Fresh
  <2>2. Fresh'
    BY <1>1, <1>2, <2>1 DEF Fresh
  <2> QED
    BY <1>1, <1>3, <1>4, <1>5, <2>2 DEF Inv
<1>6. CASE file # NoFile
  <2>1. PICK s \in 1 .. Sources : Shared(s)
    BY <1>6 DEF Inv
  <2>2. /\ \A q \in Writers' : q \in Writers
        /\ NoneCut' => NoneCut /\ Writers \subseteq Writers'
    <3>1. \A q \in Procs : pc'[q] = "write" => pc[q] = "write"
      BY <1>2
    <3>2. NoneCut' => pc[p] \notin {"write", "cut"} /\ pc'[p] # "cut"
      BY <1>1, <1>2 DEF NoneCut
    <3>3. NoneCut' => NoneCut
      BY <1>2, <3>2 DEF NoneCut
    <3>4. NoneCut' => \A q \in Procs : pc[q] = "write" => pc'[q] = "write"
      BY <1>2, <3>2
    <3> QED
      BY <3>1, <3>3, <3>4 DEF Writers
  <2>3. \A q \in Procs : pc'[q] \in {"parse", "write"} => source' = s
    BY <1>1, <1>2, <2>1 DEF Shared
  <2>4. \A q \in Writers' : graph'[q] = Graph(s) /\ pos'[q] \in 1 .. 9
    BY <1>1, <2>1, <2>2 DEF Shared
  <2>5. \A i \in 1 .. 9 : Good(s, i)' = Good(s, i)
    BY <1>1 DEF Good
  <2>6. \A i \in 1 .. 9 : Good(s, i)' \/ (\E w \in Writers' : pos'[w] <= i) \/ ~ NoneCut'
    BY <1>1, <2>1, <2>2, <2>5 DEF Shared
  <2>7. \A q \in Procs : (pc'[q] = "read" /\ ~ torn'[q]) => Writers' = {}
    <3>1. SUFFICES ASSUME NEW q \in Procs, pc'[q] = "read", ~ torn'[q] PROVE Writers' = {}
      OBVIOUS
    <3>2. Writers = {}
      BY <1>1, <1>2, <2>1, <3>1 DEF Shared
    <3> QED
      BY <2>2, <3>2
  <2>8. ASSUME NEW q \in Procs, Undisturbed(q)'
        PROVE  /\ pc'[q] # "aborted"
               /\ pc'[q] = "read" => HasRead(q, s)'
               /\ Loaded(q)' => \A f \in Compared(q)' : graph'[q][f] = Word(f, s)
    <3>1. Undisturbed(q)
      BY <1>1, <2>2, <2>8 DEF Undisturbed
    <3>2. /\ pc[q] # "aborted" /\ (pc[q] = "read" => HasRead(q, s))
          /\ Loaded(q) => \A f \in Compared(q) : graph[q][f] = Word(f, s)
      BY <2>1, <3>1 DEF Shared
    <3> QED
      BY <1>1, <1>2, <3>2 DEF HasRead, Loaded, Compared
  <2>9. Shared(s)'
    BY <1>1, <2>1, <2>3, <2>4, <2>6, <2>7, <2>8 DEF Shared
  <2> QED
    BY <1>1, <1>3, <1>4, <1>6, <2>9 DEF Inv
<1> QED
  BY <1>5, <1>6

(* The map is replaced only when nobody is about to parse or copy it; who has
   the copy does not notice. *)
LEMMA ReplaceStep ==
  ASSUME Inv, Replace PROVE Inv'
<1>1. /\ TypeOK /\ Bounded /\ source < Sources /\ source' = source + 1
      /\ \A p \in Procs : pc[p] \notin {"parse", "write"}
      /\ UNCHANGED <<file, pc, kind, pos, graph, loads, torn, crashes>>
  BY DEF Inv, Replace
<1>2. TypeOK'
  BY <1>1, SourcesAssumption DEF TypeOK
<1>3. Bounded' /\ (Fresh => Fresh') /\ Writers' = Writers /\ NoneCut' = NoneCut
  BY <1>1 DEF Bounded, Fresh, Writers, NoneCut
<1>4. ASSUME NEW s \in 1 .. Sources, Shared(s) PROVE Shared(s)'
  <2>1. \A p \in Procs : Undisturbed(p)' = Undisturbed(p) /\ Loaded(p)' = Loaded(p)
                         /\ Compared(p)' = Compared(p) /\ HasRead(p, s)' = HasRead(p, s)
    BY <1>1, <1>3 DEF Undisturbed, Loaded, Compared, HasRead
  <2>2. \A i \in 1 .. 9 : Good(s, i)' = Good(s, i)
    BY <1>1 DEF Good
  <2> QED
    BY <1>1, <1>3, <1>4, <2>1, <2>2 DEF Shared
<1> QED
  BY <1>1, <1>2, <1>3, <1>4 DEF Inv

(* A step that changes nothing keeps the invariant. *)
LEMMA StutterStep ==
  ASSUME Inv, UNCHANGED vars PROVE Inv'
<1>1. /\ TypeOK' = TypeOK /\ Bounded' = Bounded /\ Fresh' = Fresh /\ file' = file
      /\ \A s \in 1 .. Sources : Shared(s)' = Shared(s)
  BY DEF vars, TypeOK, Bounded, Fresh, Shared, Good, HasRead, Writers, NoneCut, Undisturbed,
         Loaded, Compared
<1> QED
  BY <1>1 DEF Inv
-----------------------------------------------------------------------------
(* Everything below is read off this invariant: as long as no writer is
   killed, whatever is in the copy of a map, and whatever an undisturbed load
   has of it, comes from one map. *)
THEOREM Invariance == Spec => []Inv
<1>1. Inv /\ [Next]_vars => Inv'
  <2> SUFFICES ASSUME Inv, [Next]_vars PROVE Inv'
    OBVIOUS
  <2>1. CASE Replace
    BY <2>1, ReplaceStep
  <2>2. ASSUME NEW p \in Procs, Lookup(p) PROVE Inv'
    BY <2>2, LookupStep
  <2>3. ASSUME NEW p \in Procs, Parse(p) PROVE Inv'
    BY <2>3, ParseStep
  <2>4. ASSUME NEW p \in Procs, Write(p) PROVE Inv'
    BY <2>4, WriteStep
  <2>5. ASSUME NEW p \in Procs, Read(p) PROVE Inv'
    BY <2>5, ReadStep
  <2>6. ASSUME NEW p \in Procs, Crash(p) PROVE Inv'
    BY <2>6, CrashStep
  <2>7. CASE UNCHANGED vars
    BY <2>7, StutterStep
  <2> QED
    BY <2>1, <2>2, <2>3, <2>4, <2>5, <2>6, <2>7 DEF Next, Idle, ProcStep
<1> QED
  BY InitHolds, <1>1, PTL DEF Spec

(* Every variable keeps its type. *)
THEOREM TypeCorrect == Spec => []TypeOK
<1>1. Inv => TypeOK
  BY DEF Inv
<1> QED
  BY Invariance, <1>1, PTL

(* A copy that nobody writes, and that no killed process left, is the whole
   copy of one map: programs that found none and wrote it over each other left
   nothing torn. *)
THEOREM QuietIsWhole == Spec => []QuietWhole
<1>1. Inv => QuietWhole
  <2> SUFFICES ASSUME Inv, Writers = {}, NoneCut, file # NoFile
               PROVE  file \in {Copy(s) : s \in 1 .. Sources}
    BY DEF QuietWhole
  <2>1. PICK s \in 1 .. Sources : Shared(s)
    BY DEF Inv
  <2>2. Len(file) <= 9 /\ \A i \in 1 .. 9 : i <= Len(file) /\ file[i] = Word(Layout[i], s)
    BY <2>1 DEF Shared, Good
  <2>3. file \in Seq(Words)
    BY DEF Inv, TypeOK
  <2>4. DOMAIN file = 1 .. 9
    <3>1. PICK m : m = Len(file)
      OBVIOUS
    <3>2. m \in Nat /\ m <= 9 /\ DOMAIN file = 1 .. m
      BY <2>2, <2>3, <3>1
    <3>3. 9 <= m
      BY <2>2, <3>1
    <3> QED
      BY <3>2, <3>3
  <2>5. file = [i \in 1 .. 9 |-> file[i]]
    BY <2>3, <2>4
  <2>6. file = [i \in 1 .. 9 |-> Word(Layout[i], s)]
    BY <2>2, <2>5
  <2>7. file = Copy(s)
    BY <2>6, LayoutIs DEF Copy
  <2> QED
    BY <2>7
<1> QED
  BY Invariance, <1>1, PTL

(* A load that no writer disturbed is not aborted by the checks and has the
   chains and points (and in the CUDA programs the box) of one map, the same
   one in every process. *)
THEOREM LoadIsExact == Spec => []LoadExact
<1>1. Inv => LoadExact
  <2> SUFFICES ASSUME Inv PROVE LoadExact
    OBVIOUS
  <2>1. CASE file = NoFile
    <3>1. Fresh
      BY <2>1 DEF Inv
    <3>2. \A p \in Procs : pc[p] # "aborted" /\ loads[p] = 0
      BY <3>1 DEF Fresh
    <3>3. ASSUME NEW p \in Procs PROVE ~ Loaded(p)
      <4>1. ~ (0 > 0)
        OBVIOUS
      <4> QED
        BY <3>2, <4>1, Zenon DEF Loaded
    <3> QED
      BY <3>2, <3>3 DEF LoadExact, LoadWhole, SameMap
  <2>2. CASE file # NoFile
    <3>1. PICK s \in 1 .. Sources : Shared(s)
      BY <2>2 DEF Inv
    <3>2. \A p \in Procs : Undisturbed(p) =>
            /\ pc[p] # "aborted"
            /\ Loaded(p) => \A f \in Compared(p) : graph[p][f] = Word(f, s)
      BY <3>1 DEF Shared
    <3>3. LoadWhole
      BY <3>2 DEF LoadWhole
    <3>4. \A p \in Procs : (Undisturbed(p) /\ Loaded(p)) => graph[p]["chains"] = Word("chains", s)
      BY <3>2 DEF Compared
    <3>5. SameMap
      BY <3>4 DEF SameMap
    <3> QED
      BY <3>3, <3>5 DEF LoadExact
  <2> QED
    BY <2>1, <2>2
<1> QED
  BY Invariance, <1>1, PTL
=============================================================================
