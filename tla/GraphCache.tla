------------------------------ MODULE GraphCache ------------------------------
(***************************************************************************)
(* load_from (map/planar_graph.h, vk/map/planar_graph.h): with -serialize  *)
(* a program keeps a binary copy of each map it has parsed and reads the   *)
(* copy the next time.  The CUDA and the Vulkan programs share the         *)
(* directory (scripts/test), and several may run at once.                  *)
(*                                                                         *)
(* The copy is a sequence of words, written in place after a truncating    *)
(* open and flushed in order; the read of a word past the end of the file  *)
(* leaves its variable as it was, and nothing looks at the stream's state. *)
(* The three counts are one word and each array is one; the directory is   *)
(* there and writable.  The source map may be replaced when no program is  *)
(* about to parse or copy it, and so may the map of another path that the  *)
(* program gives the same name ("/" becomes "-"): nobody looks.            *)
(***************************************************************************)
EXTENDS Sequences, Integers

CONSTANTS
  Procs,       \* processes that load the map
  Loads,       \* loads each of them does
  Kinds,       \* subset of {"cuda", "vk"}: the programs they may run
  Sources,     \* the maps the path has stood for are 1 .. Sources
  MaxCrashes   \* processes killed at most

ASSUME LoadsAssumption == Loads \in Nat \ {0}
ASSUME KindsAssumption == Kinds \subseteq {"cuda", "vk"} /\ Kinds # {}
ASSUME SourcesAssumption == Sources \in Nat \ {0}
ASSUME MaxCrashesAssumption == MaxCrashes \in Nat

VARIABLES
  source,    \* the map that is at the path now
  file,      \* the words of the copy, or NoFile
  pc,        \* per process: where it is in load_from
  kind,      \* per process: the program it runs
  pos,       \* per process: the next word it reads or writes
  graph,     \* per process: the variables deserialize_pgraph reads into
  loads,     \* per process: loads completed
  torn,      \* per process: a writer had the copy open during this read
  crashes    \* processes killed

vars == <<source, file, pc, kind, pos, graph, loads, torn, crashes>>

(* serialize_pgraph; the words are named for the variables they come from. *)
Layout == <<"sum", "counts", "chains", "points",
            "min_x", "min_y", "max_x", "max_y", "sum">>

Fields == {"sum", "counts", "chains", "points", "min_x", "min_y", "max_x", "max_y"}

NoFile == <<[of |-> "none", source |-> 0]>>

(* A word is the value of a variable for a map; the check sum is always the
   same.  A hole in the file reads as zero; what no read has set is unset. *)
Word(f, s) == [of |-> f, source |-> IF f = "sum" THEN 0 ELSE s]
Zero  == [of |-> "zero", source |-> 0]
Unset == [of |-> "unset", source |-> 0]
Words == {Word(f, s) : f \in Fields, s \in 1 .. Sources} \cup {Zero}
Copy(s) == [i \in DOMAIN Layout |-> Word(Layout[i], s)]
Graph(s) == [f \in Fields |-> Word(f, s)]

(* Fault: the corners of the box are read in another order than written. *)
RestSwapped(k) == <<"min_x", "max_x", "min_y", "max_y", "sum">>

(* The bounding box and the second check sum.  The Vulkan reader names min_y
   twice (vk/map/planar_graph.h:282) and so reads a word too many. *)
Rest(k) == IF k = "vk"
           THEN <<"min_x", "min_y", "max_x", "min_y", "max_y", "sum">>
           ELSE <<"min_x", "min_y", "max_x", "max_y", "sum">>

(* deserialize_pgraph: the variable of each read, in order; no element of
   an array is read if the count of it is zero. *)
Reads(k, counts) ==
  <<"sum", "counts">>
    \o (IF counts = Zero THEN <<>> ELSE <<"chains", "points">>) \o Rest(k)

(* Aborted by a CHECK; killed, and killed while it wrote the copy. *)
Ended == {"aborted", "killed", "cut"}

NewGraph == [f \in Fields |-> Unset]

TypeOK ==
  /\ source \in 1 .. Sources
  /\ file \in Seq(Words) \cup {NoFile}
  /\ pc \in [Procs -> {"start", "read", "parse", "write", "done"} \cup Ended]
  /\ kind \in [Procs -> Kinds]
  /\ pos \in [Procs -> 1 .. Len(Layout) + 1]
  /\ graph \in [Procs -> [Fields -> Words \cup {Unset}]]
  /\ loads \in [Procs -> 0 .. Loads]
  /\ torn \in [Procs -> BOOLEAN]
  /\ crashes \in 0 .. MaxCrashes

Init ==
  /\ source = 1
  /\ file = NoFile
  /\ pc = [p \in Procs |-> "start"]
  /\ kind \in [Procs -> Kinds]
  /\ pos = [p \in Procs |-> 1]
  /\ graph = [p \in Procs |-> NewGraph]
  /\ loads = [p \in Procs |-> 0]
  /\ torn = [p \in Procs |-> FALSE]
  /\ crashes = 0

Writers == {p \in Procs : pc[p] = "write"}

(* access(ser_path, R_OK), then the open of the copy for reading. *)
Lookup(p) ==
  /\ pc[p] = "start"
  /\ pc' = [pc EXCEPT ![p] = IF file = NoFile THEN "parse" ELSE "read"]
  /\ pos' = [pos EXCEPT ![p] = 1]
  /\ graph' = [graph EXCEPT ![p] = NewGraph]
  /\ torn' = [torn EXCEPT ![p] = file # NoFile /\ Writers # {}]
  /\ UNCHANGED <<source, file, kind, loads, crashes>>

(* read_pgraph, then the truncating open of the copy. *)
Parse(p) ==
  /\ pc[p] = "parse"
  /\ graph' = [graph EXCEPT ![p] = Graph(source)]
  /\ file' = <<>>
  /\ torn' = [q \in Procs |-> torn[q] \/ pc[q] = "read"]
  /\ pos' = [pos EXCEPT ![p] = 1]
  /\ pc' = [pc EXCEPT ![p] = "write"]
  /\ UNCHANGED <<source, kind, loads, crashes>>

(* Fault: the copy is opened for appending. *)
PutLast(i, w) == Append(file, w)

(* The file after word w reached position i; a gap before it is zeros. *)
Put(i, w) == [j \in 1 .. (IF i > Len(file) THEN i ELSE Len(file)) |->
                IF j = i THEN w ELSE IF j <= Len(file) THEN file[j] ELSE Zero]

(* Fault: one load more than asked for. *)
FinishLate(p) ==
  /\ pc' = [pc EXCEPT ![p] = IF loads[p] = Loads THEN "done" ELSE "start"]
  /\ loads' = [loads EXCEPT ![p] = @ + 1]

(* load_from returns; a program loads more than one map. *)
Finish(p) ==
  /\ pc' = [pc EXCEPT ![p] = IF loads[p] + 1 = Loads THEN "done" ELSE "start"]
  /\ loads' = [loads EXCEPT ![p] = @ + 1]

(* The buffered stream flushes one more word; the last one is the close. *)
Write(p) ==
  /\ pc[p] = "write"
  /\ file' = Put(pos[p], graph[p][Layout[pos[p]]])
  /\ pos' = [pos EXCEPT ![p] = @ + 1]
  /\ IF pos[p] = Len(Layout) THEN Finish(p) ELSE UNCHANGED <<pc, loads>>
  /\ UNCHANGED <<source, kind, graph, torn, crashes>>

(* STREAM_READ_VAR: past the end nothing is assigned. *)
ReadVar(p, f) == IF pos[p] <= Len(file) THEN file[pos[p]] ELSE graph[p][f]

(* One read.  Both check sums must hold or the process aborts; counts that
   were never read are garbage, and resizing to them may fail as well. *)
Read(p) ==
  LET prog == Reads(kind[p], graph[p]["counts"])
      f    == prog[pos[p]]
      w    == ReadVar(p, f)
      last == pos[p] > 2 /\ pos[p] = Len(prog)
  IN
  /\ pc[p] = "read"
  /\ graph' = [graph EXCEPT ![p][f] = w]
  /\ pos' = [pos EXCEPT ![p] = IF last THEN @ ELSE @ + 1]
  /\ \/ /\ f = "sum" => w.of = "sum"
        /\ IF last THEN Finish(p) ELSE UNCHANGED <<pc, loads>>
     \/ /\ \/ f = "sum" /\ w.of # "sum"
           \/ f = "counts" /\ w.of \notin {"counts", "zero"}
        /\ pc' = [pc EXCEPT ![p] = "aborted"]
        /\ UNCHANGED loads
  /\ UNCHANGED <<source, file, kind, torn, crashes>>

(* The process is killed; what it flushed stays. *)
Crash(p) ==
  /\ crashes < MaxCrashes
  /\ pc[p] \notin {"done"} \cup Ended
  /\ pc' = [pc EXCEPT ![p] = IF pc[p] = "write" THEN "cut" ELSE "killed"]
  /\ crashes' = crashes + 1
  /\ UNCHANGED <<source, file, kind, pos, graph, loads, torn>>

(* The map at the path is replaced; the copy is not. *)
Replace ==
  /\ source < Sources
  /\ \A p \in Procs : pc[p] \notin {"parse", "write"}
  /\ source' = source + 1
  /\ UNCHANGED <<file, pc, kind, pos, graph, loads, torn, crashes>>

(* Nothing is left to load. *)
AllEnded == \A p \in Procs : pc[p] \in {"done"} \cup Ended

Idle == AllEnded /\ UNCHANGED vars

ProcStep(p) == Lookup(p) \/ Parse(p) \/ Write(p) \/ Read(p)

Next == Idle \/ Replace \/ \E p \in Procs : ProcStep(p) \/ Crash(p)

Spec == Init /\ [][Next]_vars
-----------------------------------------------------------------------------
(* p has just returned a graph from load_from. *)
Loaded(p) == loads[p] > 0 /\ pc[p] \in {"start", "done"}

NoneCut == \A p \in Procs : pc[p] # "cut"

(* When nobody writes and no writer was killed the copy is missing or whole,
   and of one map, also after several processes found none and wrote it over
   each other. *)
QuietWhole == (Writers = {} /\ NoneCut) => file \in {NoFile} \cup {Copy(s) : s \in 1 .. Sources}

(* A load that no writer disturbed is not aborted by the checks, and has the
   chains and points of one map, whether from the source or from the copy; in
   the CUDA programs its bounding box too. *)
Undisturbed(p) == ~torn[p] /\ NoneCut
Compared(p) == {"counts", "chains", "points"}
                 \cup (IF kind[p] = "cuda" THEN {"min_x", "min_y", "max_x", "max_y"} ELSE {})
LoadWhole ==
  \A p \in Procs : Undisturbed(p) =>
    /\ pc[p] # "aborted"
    /\ Loaded(p) => \E s \in 1 .. Sources : \A f \in Compared(p) : graph[p][f] = Word(f, s)

(* It is the same map for all of them, whenever they load it: the one that
   was copied first, even if another one is at the path since. *)
SameMap ==
  \A p, q \in Procs : (Undisturbed(p) /\ Undisturbed(q) /\ Loaded(p) /\ Loaded(q)) =>
    graph[p]["chains"] = graph[q]["chains"]

(* What an undisturbed load returns. *)
LoadExact == LoadWhole /\ SameMap

(* What CHECK_EQ(check_sum, 0xabcdabcd) after the last word is for: a graph
   that passed it is the graph that was serialized. *)
CheckedWhole ==
  \A p \in Procs : Loaded(p) => \E s \in 1 .. Sources : graph[p] = Graph(s)
=============================================================================
