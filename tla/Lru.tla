--------------------------------- MODULE Lru ---------------------------------
(***************************************************************************)
(* The LRU cache of model/lru.go: a map of entries and a recency list,     *)
(* with expiry times, and with generations so that Purge is one increment. *)
(* Every operation holds the lock, so each is one action.                  *)
(***************************************************************************)
EXTENDS Integers, Sequences, FiniteSets, Functions

CONSTANTS Key, Value, None,
          Size,       \* capacity given to NewLru
          Expiry,     \* expireAtSecs arguments; 0 is "does not expire"
          MaxTime,    \* bound on the clock
          MaxGen      \* bound on Purge

ASSUME SizeAssumption == Size \in Nat \ {0}
ASSUME NoneAssumption == None \notin Value
ASSUME ExpiryAssumption == Expiry \subseteq Nat

VARIABLES items,      \* key -> entry
          evictList,  \* keys, most recent first
          len,        \* the count that Len reports and Keys allocates
          generation, \* currentGeneration
          now,        \* the clock, in seconds
          ret         \* what the last Get returned

vars == <<items, evictList, len, generation, now, ret>>

Entry == [value: Value, expireAt: Nat, generation: Nat]

\* items and evictList always hold the same keys, each once; the recency list
\* never exceeds the capacity.
TypeOK ==
  /\ \A k \in DOMAIN items : items[k] \in Entry
  /\ Range(evictList) = DOMAIN items
  /\ IsInjective(evictList)
  /\ Len(evictList) <= Size

Init ==
  /\ items = [k \in {} |-> None]
  /\ evictList = <<>>
  /\ len = 0
  /\ generation = 0
  /\ now = 1
  /\ ret = None

\* The element of the list that items[k] points to.
Element(k) == CHOOSE i \in DOMAIN evictList : evictList[i] = k

RemoveAt(s, i) == SubSeq(s, 1, i - 1) \o SubSeq(s, i + 1, Len(s))

Without(k) == RemoveAt(evictList, Element(k))

ToFront(k) == <<k>> \o Without(k)

Current(k) == items[k].generation = generation

Drop(f, k) == Restrict(f, DOMAIN f \ {k})

With(f, k, e) == [j \in DOMAIN f \cup {k} |-> IF j = k THEN e ELSE f[j]]

\* Mutant: the count goes down for an entry of an earlier generation too.
RemoveElementAlways(k) ==
  /\ items' = Drop(items, k)
  /\ evictList' = Without(k)
  /\ len' = IF len = 0 THEN 0 ELSE len - 1

\* removeElement
RemoveElement(k) ==
  /\ items' = Drop(items, k)
  /\ evictList' = Without(k)
  /\ len' = IF Current(k) THEN len - 1 ELSE len

Deadline(secs) == IF secs > 0 THEN now + secs ELSE 0

\* An entry that is there, of whatever generation, is reused.
Overwrite(k, e) ==
  /\ k \in DOMAIN items
  /\ items' = [items EXCEPT ![k] = e]
  /\ evictList' = ToFront(k)
  /\ len' = IF Current(k) THEN len ELSE len + 1

\* A new entry goes to the front; the back of a list that is now too long is
\* removed, and counted out only if it is of this generation.
Insert(k, e) ==
  /\ k \notin DOMAIN items
  /\ LET list == <<k>> \o evictList
         victim == list[Len(list)]
         full == Len(list) > Size
     IN /\ evictList' = IF full THEN RemoveAt(list, Len(list)) ELSE list
        /\ items' = LET all == With(items, k, e) IN IF full THEN Drop(all, victim) ELSE all
        /\ len' = IF full /\ Current(victim) THEN len ELSE len + 1

AddWithExpiresInSecs(k, v, secs) ==
  /\ LET e == [value |-> v, expireAt |-> Deadline(secs), generation |-> generation]
     IN Overwrite(k, e) \/ Insert(k, e)
  /\ UNCHANGED <<generation, now, ret>>

Expired(e) == e.generation # generation \/ (e.expireAt > 0 /\ now > e.expireAt)

\* A stale or expired entry is removed by the lookup that meets it.
GetMiss(k) ==
  /\ ret' = None
  /\ IF k \in DOMAIN items
     THEN Expired(items[k]) /\ RemoveElement(k)
     ELSE UNCHANGED <<items, evictList, len>>
  /\ UNCHANGED <<generation, now>>

\* Mutant: only the expiry is looked at.
GetHitAnyGeneration(k) ==
  /\ k \in DOMAIN items
  /\ ~(items[k].expireAt > 0 /\ now > items[k].expireAt)
  /\ ret' = items[k].value
  /\ evictList' = ToFront(k)
  /\ UNCHANGED <<items, len, generation, now>>

GetHit(k) ==
  /\ k \in DOMAIN items
  /\ ~Expired(items[k])
  /\ ret' = items[k].value
  /\ evictList' = ToFront(k)
  /\ UNCHANGED <<items, len, generation, now>>

RemoveKey(k) ==
  /\ k \in DOMAIN items
  /\ RemoveElement(k)
  /\ UNCHANGED <<generation, now, ret>>

\* The entries stay where they are.
Purge ==
  /\ generation < MaxGen
  /\ generation' = generation + 1
  /\ len' = 0
  /\ UNCHANGED <<items, evictList, now, ret>>

Tick ==
  /\ now < MaxTime
  /\ now' = now + 1
  /\ UNCHANGED <<items, evictList, len, generation, ret>>

\* Keys walks the list from the back and writes each key of the current
\* generation to the next slot; these are the slots it writes.
LiveAt == {i \in DOMAIN evictList : Current(evictList[i])}
Slot(i) == Cardinality({j \in LiveAt : j > i})
Keys == {Slot(i) : i \in LiveAt}

Next ==
  \/ \E k \in Key :
       \/ GetHit(k) \/ GetMiss(k) \/ RemoveKey(k)
       \/ \E v \in Value, secs \in Expiry : AddWithExpiresInSecs(k, v, secs)
  \/ Purge
  \/ Tick

Spec == Init /\ [][Next]_vars

-----------------------------------------------------------------------------
(* Properties. *)

\* Keys allocates len slots: it writes each of them and none outside, across
\* Purge, overwriting and evicting old entries.
LenIsExact == Keys = 0..(len - 1)

\* What a lookup may return, as a map.
AbstractMap ==
  [k \in Key |-> IF k \in DOMAIN items /\ Current(k) THEN items[k].value ELSE None]

Map == INSTANCE ObjectCache WITH map <- AbstractMap

\* The cache is the bounded map ObjectCache describes: no purged or replaced
\* value comes back, and the entries that Purge leaves behind take no room.
IsObjectCache == Map!Spec

=============================================================================
