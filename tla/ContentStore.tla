---------------------------- MODULE ContentStore ----------------------------
(***************************************************************************)
(* What gruel-cache promises its callers: a map from entry paths to blobs  *)
(* that may lose an entry at any time, and whose lookups return either a   *)
(* miss or a blob that was stored whole.                                   *)
(***************************************************************************)
CONSTANTS Paths,    \* the entry paths, <kind>/<key>.<ext>
          Blobs,    \* the complete blobs a caller may store
          Absent    \* the answer of a lookup that misses

VARIABLES map,      \* the blob stored under each path, or Absent
          answer    \* what the latest lookup returned, and for which path

ContentInit ==
    /\ map = [e \in Paths |-> Absent]
    /\ answer = <<>>

Insert(e, b) ==
    /\ map' = [map EXCEPT ![e] = b]
    /\ UNCHANGED answer

Lose(e) ==
    /\ map' = [map EXCEPT ![e] = Absent]
    /\ UNCHANGED answer

Lookup(e) ==
    /\ answer' = <<e, map[e]>>
    /\ UNCHANGED map

ContentNext ==
    \E e \in Paths : \/ Lookup(e)
                     \/ Lose(e)
                     \/ \E b \in Blobs : Insert(e, b)

ContentSpec == ContentInit /\ [][ContentNext]_<<map, answer>>
=============================================================================
