------------------------------ MODULE LruStore ------------------------------
(***************************************************************************)
(* The OrderedDict behind InProcessRenderingCache                          *)
(* (app/repositories/cache.py) as operators on a sequence of entries       *)
(* [key, val], the entry used longest ago first.  No state: the modules    *)
(* that own a store apply these operators to a variable of theirs.         *)
(***************************************************************************)
EXTENDS Naturals, Sequences, SequencesExt

Keys(store) == { e.key : e \in ToSet(store) }

Holds(store, k) == k \in Keys(store)

PositionOf(store, k) == CHOOSE i \in DOMAIN store : store[i].key = k

ValueOf(store, k) == store[PositionOf(store, k)].val

\* OrderedDict.move_to_end of a key that is present, its value becoming v.
Refreshed(store, k, v) ==
    Append(RemoveAt(store, PositionOf(store, k)), [key |-> k, val |-> v])

\* Mutant: one entry more than the capacity is kept.
EvictedLate(store, max) ==
    IF Len(store) > max + 1
    THEN SubSeq(store, Len(store) - max + 1, Len(store))
    ELSE store

\* popitem(last=False) until at most max entries are left.
Evicted(store, max) ==
    IF Len(store) > max
    THEN SubSeq(store, Len(store) - max + 1, Len(store))
    ELSE store

\* get: a hit moves the entry to the recent end, a miss changes nothing.
Get(store, k) ==
    IF Holds(store, k) THEN Refreshed(store, k, ValueOf(store, k)) ELSE store

\* put: insert or overwrite at the recent end, then evict the oldest.
Put(store, k, v, max) ==
    Evicted(IF Holds(store, k) THEN Refreshed(store, k, v)
                               ELSE Append(store, [key |-> k, val |-> v]),
            max)
=============================================================================
