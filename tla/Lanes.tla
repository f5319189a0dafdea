-------------------------------- MODULE Lanes --------------------------------
(***************************************************************************)
(* How a scheduling loop fills lanes: worker by worker, each until it has  *)
(* no free lane left.  free[w] is the number of free lanes of worker w.    *)
(***************************************************************************)
EXTENDS Integers, FiniteSets, Sequences

Vacant(free) == UNION {{w} \X (1 .. free[w]) : w \in DOMAIN free}

(* How many lanes are filled before lane i of worker w.                     *)
SlotsBefore(free, w, i) ==
  Cardinality({s \in Vacant(free) : s[1] < w \/ (s[1] = w /\ s[2] < i)})

(* things is the sequence of what there is to hand out: what worker w gets  *)
(* of it, in order.                                                         *)
Shares(free, things, w) ==
  [i \in {j \in 1 .. free[w] : SlotsBefore(free, w, j) < Len(things)} |->
     things[SlotsBefore(free, w, i) + 1]]

(* How many of count things find a lane.                                    *)
Placed(free, count) ==
  LET lanes == Cardinality(Vacant(free)) IN IF lanes < count THEN lanes ELSE count
=============================================================================
