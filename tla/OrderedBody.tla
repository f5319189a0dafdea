----------------------------- MODULE OrderedBody ----------------------------
(***************************************************************************)
(* What download() promises the consumers of a batch: each body is the     *)
(* object's parts in order, each once; it ends only after the last one,    *)
(* and it fails only before the last one.  Workers, lanes, the reorder     *)
(* backlog and backpressure do not appear.                                 *)
(***************************************************************************)
EXTENDS Integers, Sequences

CONSTANTS
  Keys,   \* the objects
  Parts   \* Parts[k]: how many parts object k has

VARIABLES
  body,   \* where the call for each key has got to
  got     \* the parts its consumer has received, in order

Init ==
  /\ body = [k \in Keys |-> "none"]
  /\ got = [k \in Keys |-> <<>>]

(* A call that is not refused first asks for the object's size.             *)
Move(k, from, to) ==
  /\ body[k] = from
  /\ body' = [body EXCEPT ![k] = to]
  /\ UNCHANGED got

Receive(k) ==
  /\ body[k] = "open"
  /\ \E m \in 1 .. Parts[k] - Len(got[k]) :
       got' = [got EXCEPT ![k] = @ \o [i \in 1 .. m |-> Len(@) + i]]
  /\ UNCHANGED body

End(k) == Len(got[k]) = Parts[k] /\ Move(k, "open", "ended")

(* One failure may cut off several bodies, none of them a complete one.     *)
CutOff ==
  \E lost \in SUBSET {k \in Keys : body[k] = "open" /\ Len(got[k]) < Parts[k]} :
    /\ body' = [k \in Keys |-> IF k \in lost THEN "errored" ELSE body[k]]
    /\ UNCHANGED got

(* The next iteration starts when all bodies of this one have ended.        *)
Renew ==
  /\ \A k \in Keys : body[k] = "ended"
  /\ body' = [k \in Keys |-> "none"]
  /\ got' = [k \in Keys |-> <<>>]

Next ==
  \/ \E k \in Keys : \/ Move(k, "none", "head") \/ Move(k, "none", "rejected")
                     \/ Move(k, "head", "open") \/ Move(k, "head", "rejected")
                     \/ Receive(k) \/ End(k)
  \/ CutOff
  \/ Renew

Spec == Init /\ [][Next]_<<body, got>>
=============================================================================
