----------------------------- MODULE RoundRobin -----------------------------
(***************************************************************************)
(* The loops by which both directions of the manager hand parts to lanes:  *)
(* _dispatchMore with _nextPart, _dispatchUpload with _nextUploadPart.     *)
(* Objects stand in a list `order' and are looked at in turn from index    *)
(* rr; one that has a part gives its next one.  Lanes are filled worker by *)
(* worker.  A part is a pair of its object and its number, from[k] is how  *)
(* many parts object k had given before.                                   *)
(***************************************************************************)
EXTENDS Integers, Sequences, FiniteSets

(* The i-th look (from 0) is at the object at index (rr + i) % Len(order),  *)
(* so each object is looked at once every Len(order) looks and gives its    *)
(* next part each time.                                                     *)
FirstLook(order, rr, k) ==
  LET index == CHOOSE i \in 1 .. Len(order) : order[i] = k
  IN  (index - 1 - rr) % Len(order)

Look(order, rr, from, p) ==
  FirstLook(order, rr, p[1]) + (p[2] - from[p[1]] - 1) * Len(order)

(* The parts given are those of the earliest looks: none of the parts left  *)
(* would have been met before one of them.                                  *)
InTurn(order, rr, from, given, left) ==
  \A p \in given, q \in left : Look(order, rr, from, p) < Look(order, rr, from, q)

(* How many looks it took: one past the last that found a part.  This set   *)
(* has one element.                                                         *)
Looks(order, rr, from, given) ==
  {n \in {0} \cup {Look(order, rr, from, p) + 1 : p \in given} :
     \A p \in given : Look(order, rr, from, p) < n}

(* lanes[w] are the parts worker w gets, free[w] its free lanes: the first  *)
(* parts go to the first worker until its lanes are taken, and so on.       *)
Dealt(order, rr, from, lanes, free) ==
  /\ \A w \in DOMAIN lanes : Cardinality(lanes[w]) <= free[w]
  /\ \A v, w \in DOMAIN lanes : v < w /\ lanes[w] # {} => Cardinality(lanes[v]) = free[v]
  /\ \A v, w \in DOMAIN lanes : \A p \in lanes[v], q \in lanes[w] :
       Look(order, rr, from, p) < Look(order, rr, from, q) => v <= w
=============================================================================
