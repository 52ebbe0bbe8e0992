----------------------------- MODULE MCOverlay -----------------------------
(* Every program with every engine, grouping and shape of the maps; what is *)
(* refused or missing once per program.                                     *)
EXTENDS Overlay

Usual ==
  [program |-> "cuda", mode |-> "rt", ag |-> 0, fau |-> FALSE, missing |-> "none", some |-> TRUE,
   mids |-> [m \in Maps |-> TRUE], check |-> FALSE, generated |-> FALSE]

Shapes == [Maps -> BOOLEAN]

MCInputs ==
  {[Usual EXCEPT !.ag = a, !.fau = f, !.mids = s, !.check = c] :
     a \in 0 .. 2, f \in BOOLEAN, s \in Shapes, c \in BOOLEAN}
  \cup {[Usual EXCEPT !.mode = o, !.mids = s, !.check = c] : o \in {"lbvh", "grid"}, s \in Shapes, c \in BOOLEAN}
  \cup {[Usual EXCEPT !.program = "native", !.ag = a, !.fau = f, !.mids = s] :
     a \in 0 .. 2, f \in BOOLEAN, s \in Shapes}
  \cup {[Usual EXCEPT !.program = "vk", !.ag = a, !.mids = s] : a \in {0, 2}, s \in Shapes}
  \cup {[Usual EXCEPT !.program = "vk", !.ag = a, !.some = FALSE, !.mids = [m \in Maps |-> FALSE]] : a \in {0, 2}}
  \cup {[Usual EXCEPT !.program = p, !.missing = x] : p \in {"cuda", "native"}, x \in {"checked", "unchecked"}}
  \cup {[Usual EXCEPT !.program = "vk", !.missing = x] : x \in {"device", "features", "shader"}}
  \cup {[Usual EXCEPT !.program = p, !.mode = "other"] : p \in {"cuda", "native", "vk"}}
  \cup {[Usual EXCEPT !.program = p, !.mode = o] : p \in {"native", "vk"}, o \in {"grid", "lbvh"}}
  \cup {[Usual EXCEPT !.program = "native", !.ag = 3], [Usual EXCEPT !.program = "vk", !.ag = 1]}
  \cup {[Usual EXCEPT !.program = p, !.mode = o, !.check = c, !.generated = g] :
           p \in {"lsi", "pip"}, o \in {"rt", "lbvh", "grid", "other"}, c \in BOOLEAN, g \in BOOLEAN}
  \cup {[Usual EXCEPT !.program = p, !.ag = a] : p \in {"lsi", "pip"}, a \in 1 .. 2}
  \cup {[Usual EXCEPT !.program = p, !.missing = x] : p \in {"lsi", "pip"}, x \in {"checked", "unchecked"}}
  \cup {[Usual EXCEPT !.program = "pip", !.ag = 3]}
=============================================================================
