----------------------------- MODULE ObjectCache -----------------------------
(***************************************************************************)
(* What model.ObjectCache promises its users: a bounded map that may       *)
(* forget.  A lookup returns the value last stored under the key, or       *)
(* misses; it never returns a value that was removed, replaced or purged.  *)
(* A store into a full map forgets exactly one other key; a store into a   *)
(* map with room forgets none.                                             *)
(***************************************************************************)
EXTENDS Naturals, FiniteSets

CONSTANTS Key, Value, None, Size

VARIABLES map,    \* what a lookup may return
          ret     \* what the last Get returned

vars == <<map, ret>>

Stored(m) == {k \in Key : m[k] # None}

Init ==
  /\ map = [k \in Key |-> None]
  /\ ret = None

Put(k, v) ==
  LET others == Stored(map) \ {k}
  IN /\ IF Cardinality(others) < Size
        THEN map' = [map EXCEPT ![k] = v]
        ELSE \E old \in others : map' = [map EXCEPT ![k] = v, ![old] = None]
     /\ UNCHANGED ret

Get(k) ==
  /\ ret' \in {map[k], None}
  /\ map' = IF ret' = None THEN [map EXCEPT ![k] = None] ELSE map

Remove(k) ==
  /\ map' = [map EXCEPT ![k] = None]
  /\ UNCHANGED ret

Purge ==
  /\ map' = [k \in Key |-> None]
  /\ UNCHANGED ret

Next ==
  \/ \E k \in Key : Get(k) \/ Remove(k) \/ \E v \in Value : Put(k, v)
  \/ Purge

Spec == Init /\ [][Next]_vars

=============================================================================
