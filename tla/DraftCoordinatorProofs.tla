----------------------- MODULE DraftCoordinatorProofs -----------------------
(***************************************************************************)
(* Proofs about one draft connection, for every set of languages and       *)
(* texts, every number of revisions and permits and every cache size:      *)
(* type correctness, single flight, increasing answers, complete           *)
(* renderings, the cache bound, and that it implements RevisionStream.     *)
(* First, what the LRU operators return, for every store.                  *)
(***************************************************************************)
EXTENDS DraftCoordinator, SequenceTheorems, TLAPS

\* The elements of a sequence, by index.
LEMMA ElementsByIndex ==
    ASSUME NEW E, NEW s \in Seq(E), NEW x
    PROVE  x \in ToSet(s) <=> \E j \in 1..Len(s) : x = s[j]
BY LenProperties DEF ToSet

\* A sequence all of whose elements are elements of another one.
LEMMA SubsetByIndex ==
    ASSUME NEW E, NEW s \in Seq(E), NEW t \in Seq(E),
           \A j \in 1..Len(t) : \E n \in 1..Len(s) : t[j] = s[n]
    PROVE  ToSet(t) \subseteq ToSet(s)
<1> SUFFICES ASSUME NEW x \in ToSet(t) PROVE x \in ToSet(s)
  OBVIOUS
<1>1. PICK j \in 1..Len(t) : x = t[j]
  BY ElementsByIndex
<1>2. PICK n \in 1..Len(s) : t[j] = s[n]
  OBVIOUS
<1> QED BY <1>1, <1>2, ElementsByIndex

\* Dropping one entry leaves a store with none but the old entries.
LEMMA RemoveAtKeeps ==
    ASSUME NEW E, NEW s \in Seq(E), NEW i \in 1..Len(s)
    PROVE  /\ RemoveAt(s, i) \in Seq(E)
           /\ ToSet(RemoveAt(s, i)) \subseteq ToSet(s)
<1> DEFINE a == SubSeq(s, 1, i - 1)
           b == SubSeq(s, i + 1, Len(s))
<1>1. /\ a \in Seq(E) /\ Len(a) = i - 1
      /\ \A j \in 1..Len(a) : a[j] = s[j]
  BY SubSeqProperties
<1>2. /\ b \in Seq(E) /\ Len(b) = Len(s) - i
      /\ \A j \in 1..Len(b) : b[j] = s[i + j]
  BY SubSeqProperties
<1> HIDE DEF a, b
<1>3. /\ a \o b \in Seq(E)
      /\ Len(a \o b) = Len(s) - 1
      /\ \A j \in 1..Len(a \o b) :
            (a \o b)[j] = IF j <= Len(a) THEN a[j] ELSE b[j - Len(a)]
  <2>1. a \in Seq(E) /\ b \in Seq(E) /\ Len(s) \in Nat
    BY <1>1, <1>2, LenProperties
  <2>2. /\ a \o b \in Seq(E)
        /\ Len(a \o b) = Len(a) + Len(b)
        /\ \A j \in 1..(Len(a) + Len(b)) :
              (a \o b)[j] = IF j <= Len(a) THEN a[j] ELSE b[j - Len(a)]
    BY <2>1, ConcatProperties, Zenon
  <2> QED BY <1>1, <1>2, <2>1, <2>2
<1>4. \A j \in 1..Len(a \o b) : \E n \in 1..Len(s) : (a \o b)[j] = s[n]
  <2> TAKE j \in 1..Len(a \o b)
  <2>1. CASE j <= Len(a)
    BY <2>1, <1>1, <1>3
  <2>2. CASE ~(j <= Len(a))
    <3>1. j - Len(a) \in 1..Len(b) /\ i + (j - Len(a)) \in 1..Len(s)
      BY <2>2, <1>1, <1>2, <1>3
    <3>2. (a \o b)[j] = s[i + (j - Len(a))]
      BY <2>2, <3>1, <1>2, <1>3
    <3> QED BY <3>1, <3>2
  <2> QED BY <2>1, <2>2
<1>5. RemoveAt(s, i) = a \o b
  BY DEF RemoveAt, a, b
<1>6. ToSet(a \o b) \subseteq ToSet(s)
  BY <1>3, <1>4, SubsetByIndex
<1> QED BY <1>3, <1>5, <1>6

\* The position of a key that is held is one of its entries.
LEMMA PositionInStore ==
    ASSUME NEW E, NEW s \in Seq(E), NEW k, Holds(s, k)
    PROVE  PositionOf(s, k) \in 1..Len(s) /\ s[PositionOf(s, k)].key = k
<1>1. \E i \in DOMAIN s : s[i].key = k
  BY DEF Holds, Keys, ToSet
<1> QED BY <1>1 DEF PositionOf

\* Refreshing an entry adds nothing but the refreshed entry.
LEMMA RefreshedKeeps ==
    ASSUME NEW E, NEW s \in Seq(E), NEW k, NEW v, [key |-> k, val |-> v] \in E,
           Holds(s, k)
    PROVE  /\ Refreshed(s, k, v) \in Seq(E)
           /\ ToSet(Refreshed(s, k, v)) \subseteq ToSet(s) \cup {[key |-> k, val |-> v]}
<1> DEFINE r == RemoveAt(s, PositionOf(s, k))
           e == [key |-> k, val |-> v]
<1>1. r \in Seq(E) /\ ToSet(r) \subseteq ToSet(s)
  BY PositionInStore, RemoveAtKeeps
<1> HIDE DEF r, e
<1>2. Append(r, e) \in Seq(E) /\ ToSet(Append(r, e)) \subseteq ToSet(r) \cup {e}
  BY <1>1, AppendProperties DEF ToSet, e
<1> QED BY <1>1, <1>2 DEF Refreshed, r, e

\* Evicting only drops entries.
LEMMA EvictedKeeps ==
    ASSUME NEW E, NEW s \in Seq(E), NEW max \in Nat
    PROVE  /\ Evicted(s, max) \in Seq(E)
           /\ ToSet(Evicted(s, max)) \subseteq ToSet(s)
           /\ Len(Evicted(s, max)) <= max
<1>1. CASE Len(s) > max
  <2> DEFINE t == SubSeq(s, Len(s) - max + 1, Len(s))
  <2>1. /\ t \in Seq(E) /\ Len(t) = max
        /\ \A j \in 1..Len(t) : t[j] = s[(Len(s) - max + 1) + j - 1]
    BY <1>1, SubSeqProperties
  <2>2. Evicted(s, max) = t
    BY <1>1 DEF Evicted
  <2> HIDE DEF t
  <2>3. \A j \in 1..Len(t) : (Len(s) - max + 1) + j - 1 \in 1..Len(s)
    BY <1>1, <2>1
  <2>4. ToSet(t) \subseteq ToSet(s)
    BY <2>1, <2>3, SubsetByIndex
  <2> QED BY <2>1, <2>2, <2>4
<1>2. CASE ~(Len(s) > max)
  BY <1>2 DEF Evicted
<1> QED BY <1>1, <1>2

\* get returns the same entries, and the value it returns is one of them.
THEOREM GetKeeps ==
    ASSUME NEW E, NEW s \in Seq(E), NEW k,
           \A e \in E : e = [key |-> e.key, val |-> e.val]
    PROVE  /\ Get(s, k) \in Seq(E)
           /\ ToSet(Get(s, k)) \subseteq ToSet(s)
           /\ Holds(s, k) => [key |-> k, val |-> ValueOf(s, k)] \in ToSet(s)
<1>1. CASE Holds(s, k)
  <2> DEFINE p == PositionOf(s, k)
  <2>1. p \in 1..Len(s) /\ s[p].key = k
    BY <1>1, PositionInStore
  <2>2. s[p] = [key |-> k, val |-> ValueOf(s, k)] /\ s[p] \in E /\ s[p] \in ToSet(s)
    BY <2>1 DEF ValueOf, ToSet
  <2> QED BY <1>1, <2>2, RefreshedKeeps DEF Get
<1>2. CASE ~Holds(s, k)
  BY <1>2 DEF Get
<1> QED BY <1>1, <1>2

\* put returns old entries and the new one, never more than the capacity.
THEOREM PutKeeps ==
    ASSUME NEW E, NEW s \in Seq(E), NEW k, NEW v, [key |-> k, val |-> v] \in E,
           NEW max \in Nat
    PROVE  /\ Put(s, k, v, max) \in Seq(E)
           /\ ToSet(Put(s, k, v, max)) \subseteq ToSet(s) \cup {[key |-> k, val |-> v]}
           /\ Len(Put(s, k, v, max)) <= max
<1> DEFINE e == [key |-> k, val |-> v]
           t == IF Holds(s, k) THEN Refreshed(s, k, v) ELSE Append(s, e)
<1>1. Append(s, e) \in Seq(E) /\ ToSet(Append(s, e)) \subseteq ToSet(s) \cup {e}
  <2> HIDE DEF e
  <2> QED BY AppendProperties DEF ToSet, e
<1>2. t \in Seq(E) /\ ToSet(t) \subseteq ToSet(s) \cup {e}
  BY <1>1, RefreshedKeeps
<1>3. Put(s, k, v, max) = Evicted(t, max)
  BY DEF Put
<1> HIDE DEF t, e
<1> QED BY <1>2, <1>3, EvictedKeeps DEF e

-----------------------------------------------------------------------------
(* No key twice: get and put move or add an entry, they never repeat one.  *)

UniqueKeys(s) == \A i, j \in DOMAIN s : s[i].key = s[j].key => i = j

\* What is left after dropping entry i: its length, and each entry's origin.
LEMMA RemoveAtEntries ==
    ASSUME NEW E, NEW s \in Seq(E), NEW i \in 1..Len(s)
    PROVE  /\ RemoveAt(s, i) \in Seq(E)
           /\ Len(RemoveAt(s, i)) = Len(s) - 1
           /\ \A j \in 1..(Len(s) - 1) :
                 RemoveAt(s, i)[j] = IF j < i THEN s[j] ELSE s[j + 1]
<1> DEFINE a == SubSeq(s, 1, i - 1)
           b == SubSeq(s, i + 1, Len(s))
<1>1. /\ a \in Seq(E) /\ Len(a) = i - 1
      /\ \A j \in 1..(i - 1) : a[j] = s[j]
  BY SubSeqProperties
<1>2. /\ b \in Seq(E) /\ Len(b) = Len(s) - i
      /\ \A j \in 1..(Len(s) - i) : b[j] = s[i + j]
  BY SubSeqProperties
<1>3. RemoveAt(s, i) = a \o b
  BY DEF RemoveAt
<1> HIDE DEF a, b
<1>4. /\ a \o b \in Seq(E)
      /\ Len(a \o b) = Len(a) + Len(b)
      /\ \A j \in 1..(Len(a) + Len(b)) :
            (a \o b)[j] = IF j <= Len(a) THEN a[j] ELSE b[j - Len(a)]
  BY <1>1, <1>2, ConcatProperties, Zenon
<1>5. Len(s) \in Nat
  BY LenProperties
<1>6. ASSUME NEW j \in 1..(Len(s) - 1)
      PROVE  (a \o b)[j] = IF j < i THEN s[j] ELSE s[j + 1]
  <2>1. CASE j < i
    BY <2>1, <1>1, <1>2, <1>4, <1>5
  <2>2. CASE ~(j < i)
    <3>1. /\ j - (i - 1) \in 1..(Len(s) - i)
          /\ i + (j - (i - 1)) = j + 1
      BY <2>2, <1>5
    <3>2. (a \o b)[j] = b[j - (i - 1)]
      BY <2>2, <1>1, <1>2, <1>4, <1>5
    <3> QED BY <2>2, <3>1, <3>2, <1>2
  <2> QED BY <2>1, <2>2
<1> QED BY <1>1, <1>2, <1>3, <1>4, <1>5, <1>6

\* Appending a key that no entry has.
LEMMA AppendUnique ==
    ASSUME NEW E, NEW s \in Seq(E), NEW e \in E, UniqueKeys(s),
           \A j \in 1..Len(s) : s[j].key # e.key
    PROVE  UniqueKeys(Append(s, e))
<1>1. /\ DOMAIN s = 1..Len(s) /\ Len(s) \in Nat
      /\ DOMAIN Append(s, e) = 1..(Len(s) + 1)
      /\ \A j \in 1..Len(s) : Append(s, e)[j] = s[j]
      /\ Append(s, e)[Len(s) + 1] = e
  BY LenProperties, AppendProperties
<1> QED BY <1>1 DEF UniqueKeys

\* A refreshed entry takes the place of the old one.
LEMMA RefreshedUnique ==
    ASSUME NEW E, NEW s \in Seq(E), NEW k, NEW v, [key |-> k, val |-> v] \in E,
           Holds(s, k), UniqueKeys(s)
    PROVE  /\ UniqueKeys(Refreshed(s, k, v))
           /\ Len(Refreshed(s, k, v)) = Len(s)
<1> DEFINE p == PositionOf(s, k)
           r == RemoveAt(s, p)
           e == [key |-> k, val |-> v]
<1>1. p \in 1..Len(s) /\ s[p].key = k /\ Len(s) \in Nat /\ DOMAIN s = 1..Len(s)
  BY PositionInStore, LenProperties
<1>2. /\ r \in Seq(E) /\ Len(r) = Len(s) - 1
      /\ \A j \in 1..(Len(s) - 1) : r[j] = IF j < p THEN s[j] ELSE s[j + 1]
  BY <1>1, RemoveAtEntries
<1>3. e.key = k /\ e \in E
  OBVIOUS
<1>4. Refreshed(s, k, v) = Append(r, e)
  BY DEF Refreshed
<1> HIDE DEF p, r, e
<1>5. DOMAIN r = 1..(Len(s) - 1)
  BY <1>2, LenProperties
<1>6. UniqueKeys(r)
  <2> DEFINE from(j) == IF j < p THEN j ELSE j + 1
  <2>1. \A j \in 1..(Len(s) - 1) : from(j) \in 1..Len(s) /\ r[j] = s[from(j)]
    BY <1>1, <1>2
  <2>2. \A i, j \in 1..(Len(s) - 1) : from(i) = from(j) => i = j
    BY <1>1
  <2> HIDE DEF from
  <2> QED BY <1>1, <1>5, <2>1, <2>2 DEF UniqueKeys
<1>7. \A j \in 1..Len(r) : r[j].key # e.key
  BY <1>1, <1>2, <1>3 DEF UniqueKeys
<1>8. Len(Append(r, e)) = Len(s)
  <2>1. Len(Append(r, e)) = Len(r) + 1
    BY <1>2, <1>3, AppendProperties
  <2> QED BY <2>1, <1>1, <1>2
<1> QED BY <1>2, <1>3, <1>4, <1>6, <1>7, <1>8, AppendUnique

\* What eviction leaves is a suffix, so still without repetition.
LEMMA EvictedUnique ==
    ASSUME NEW E, NEW s \in Seq(E), NEW max \in Nat, UniqueKeys(s)
    PROVE  UniqueKeys(Evicted(s, max))
<1>0. Len(s) \in Nat /\ DOMAIN s = 1..Len(s)
  BY LenProperties
<1>1. CASE Len(s) > max
  <2> DEFINE t == SubSeq(s, Len(s) - max + 1, Len(s))
  <2>1. /\ t \in Seq(E) /\ Len(t) = max
        /\ \A j \in 1..Len(t) : t[j] = s[(Len(s) - max + 1) + j - 1]
    BY <1>0, <1>1, SubSeqProperties
  <2>2. Evicted(s, max) = t
    BY <1>1 DEF Evicted
  <2> HIDE DEF t
  <2>3. DOMAIN t = 1..Len(t)
    BY <2>1, LenProperties
  <2>4. \A j \in 1..Len(t) : (Len(s) - max + 1) + j - 1 \in 1..Len(s)
    BY <1>0, <1>1, <2>1
  <2>5. ASSUME NEW i \in 1..Len(t), NEW j \in 1..Len(t), t[i].key = t[j].key
        PROVE  i = j
    <3> DEFINE at(x) == (Len(s) - max + 1) + x - 1
    <3>1. /\ at(i) \in DOMAIN s /\ at(j) \in DOMAIN s
          /\ t[i] = s[at(i)] /\ t[j] = s[at(j)]
      BY <1>0, <2>1, <2>4
    <3>2. at(i) = at(j) => i = j
      BY <1>0, <2>1
    <3> HIDE DEF at
    <3> QED BY <2>5, <3>1, <3>2 DEF UniqueKeys
  <2> QED BY <2>2, <2>3, <2>5 DEF UniqueKeys
<1>2. CASE ~(Len(s) > max)
  BY <1>2 DEF Evicted
<1> QED BY <1>1, <1>2

\* get repeats no key and adds no entry.
THEOREM GetUnique ==
    ASSUME NEW E, NEW s \in Seq(E), NEW k, UniqueKeys(s),
           \A e \in E : e = [key |-> e.key, val |-> e.val]
    PROVE  UniqueKeys(Get(s, k)) /\ Len(Get(s, k)) = Len(s)
<1>1. CASE Holds(s, k)
  <2>1. PositionOf(s, k) \in 1..Len(s) /\ s[PositionOf(s, k)].key = k
    BY <1>1, PositionInStore
  <2>2. [key |-> k, val |-> ValueOf(s, k)] \in E
    BY <2>1 DEF ValueOf
  <2> QED BY <1>1, <2>2, RefreshedUnique DEF Get
<1>2. CASE ~Holds(s, k)
  BY <1>2 DEF Get
<1> QED BY <1>1, <1>2

\* put repeats no key.
THEOREM PutUnique ==
    ASSUME NEW E, NEW s \in Seq(E), NEW k, NEW v, [key |-> k, val |-> v] \in E,
           NEW max \in Nat, UniqueKeys(s)
    PROVE  UniqueKeys(Put(s, k, v, max))
<1> DEFINE e == [key |-> k, val |-> v]
           t == IF Holds(s, k) THEN Refreshed(s, k, v) ELSE Append(s, e)
<1>1. t \in Seq(E) /\ UniqueKeys(t)
  <2>1. CASE Holds(s, k)
    BY <2>1, RefreshedKeeps, RefreshedUnique
  <2>2. CASE ~Holds(s, k)
    <3>1. e \in E /\ e.key = k
      OBVIOUS
    <3>2. \A j \in 1..Len(s) : s[j].key # k
      BY <2>2, ElementsByIndex DEF Holds, Keys
    <3> HIDE DEF e
    <3>3. Append(s, e) \in Seq(E) /\ UniqueKeys(Append(s, e))
      BY <3>1, <3>2, AppendUnique, AppendProperties
    <3> QED BY <2>2, <3>3
  <2> QED BY <2>1, <2>2
<1>2. Put(s, k, v, max) = Evicted(t, max)
  BY DEF Put
<1> HIDE DEF t
<1> QED BY <1>1, <1>2, EvictedUnique

-----------------------------------------------------------------------------
(* The draft connection.                                                   *)

USE DEF Rev, NoTask

Entry == [key : CacheKey, val : SUBSET Lang]

-----------------------------------------------------------------------------
(* Lemmas on what a response does to the wire.                             *)

\* Writing one more response of the newest revision keeps the ids increasing
\* when every earlier one is smaller.
LEMMA AppendIncreasing ==
    ASSUME NEW w \in Seq(Response), NEW m \in Response,
           \A i, j \in DOMAIN w : i < j => w[i].rev < w[j].rev,
           \A x \in ToSet(w) : x.rev < m.rev
    PROVE  /\ Append(w, m) \in Seq(Response)
           /\ ToSet(Append(w, m)) = ToSet(w) \cup {m}
           /\ \A i, j \in DOMAIN Append(w, m) :
                 i < j => Append(w, m)[i].rev < Append(w, m)[j].rev
<1> DEFINE n == Append(w, m)
<1>1. /\ n \in Seq(Response) /\ Len(n) = Len(w) + 1
      /\ \A i \in 1..Len(w) : n[i] = w[i]
      /\ n[Len(w) + 1] = m
  BY AppendProperties
<1>2. DOMAIN n = 1..(Len(w) + 1) /\ DOMAIN w = 1..Len(w) /\ Len(w) \in Nat
  BY <1>1, LenProperties
<1> HIDE DEF n
<1>3. \A i \in 1..Len(w) : w[i] \in ToSet(w)
  BY ElementsByIndex
<1>4. \A i, j \in DOMAIN n : i < j => n[i].rev < n[j].rev
  <2> SUFFICES ASSUME NEW i \in DOMAIN n, NEW j \in DOMAIN n, i < j
               PROVE  n[i].rev < n[j].rev
    OBVIOUS
  <2>1. i \in 1..Len(w) /\ n[i] = w[i]
    BY <1>1, <1>2
  <2>2. CASE j = Len(w) + 1
    BY <2>1, <2>2, <1>1, <1>3
  <2>3. CASE j # Len(w) + 1
    BY <2>1, <2>3, <1>1, <1>2
  <2> QED BY <2>2, <2>3
<1>5. ToSet(n) = ToSet(w) \cup {m}
  BY <1>1, <1>2 DEF ToSet
<1> QED BY <1>1, <1>4, <1>5 DEF n

\* A response on the wire names a revision.
LEMMA WireRevs ==
    ASSUME TypeOK, NEW m \in ToSet(wire)
    PROVE  m \in Response /\ m.rev \in Rev
<1>1. wire \in Seq(Response)
  BY DEF TypeOK
<1>2. m \in Response
  BY <1>1, ElementsByIndex
<1> QED BY <1>2 DEF Response

-----------------------------------------------------------------------------
(* The inductive invariant.                                                *)

\* The invariant holds of a connection that was just accepted.
THEOREM InitEstablishes == Init => IInv
<1> SUFFICES ASSUME Init PROVE IInv
  OBVIOUS
<1>1. TypeOK
  BY DraftAssumption DEF Init, TypeOK, TaskState, CallState, NoSource
<1>2. ToSet(store) = {} /\ ToSet(wire) = {} /\ DOMAIN wire = {}
  BY DEF Init, ToSet
<1>3. \A r \in Rev : ~Pending(r)
  BY DEF Init, Pending
<1> QED BY <1>1, <1>2, <1>3
        DEF IInv, SingleFlight, PendingHasSource, AnsweredIsOver, Pending,
            ResponsesIncrease, OnlyCompleteRenderings

\* Cancelling leaves the task table well typed: the current task is no longer
\* pending, the others are as in the table base.
LEMMA CancelCurrentEffect ==
    ASSUME TypeOK, NEW base \in [Rev -> TaskState], CancelCurrent(base),
           current # NoTask => (base[current] = task[current])
    PROVE  /\ task' \in [Rev -> TaskState]
           /\ call' \in [Rev -> [Lang -> CallState]]
           /\ \A r \in Rev : r # current => task'[r] = base[r]
           /\ current # NoTask => task'[current] \notin {"ready", "gather"}
<1> USE DEF TypeOK, TaskState
<1>1. CASE current # NoTask /\ Pending(current)
  <2>1. task' = [base EXCEPT ![current] = "cancelled"] /\ current \in Rev
    BY <1>1 DEF CancelCurrent
  <2>2. PICK calls \in CancelledCalls(current) : call' = [call EXCEPT ![current] = calls]
    BY <1>1 DEF CancelCurrent
  <2>3. call[current] \in [Lang -> CallState]
    BY <2>1
  <2>4. \A s \in CallState : AbortedCall(s) \in CallState
    BY DEF AbortedCall, CallState
  <2>5. calls \in [Lang -> CallState]
    BY <2>2, <2>3, <2>4, Zenon DEF CancelledCalls
  <2> QED BY <2>1, <2>2, <2>5
<1>2. CASE ~(current # NoTask /\ Pending(current))
  BY <1>2 DEF CancelCurrent, Pending
<1> QED BY <1>1, <1>2

\* Emitting the complete rendering of a task that is still pending.
LEMMA EmitEffect ==
    ASSUME IInv, NEW r \in Rev, Pending(r), Emit(r, Lang)
    PROVE  /\ wire' \in Seq(Response)
           /\ ToSet(wire') \subseteq ToSet(wire) \cup {[rev |-> r, langs |-> Lang]}
           /\ ResponsesIncrease'
<1> DEFINE m == [rev |-> r, langs |-> Lang]
<1>1. wire \in Seq(Response) /\ m \in Response
  BY DEF IInv, TypeOK, Response
<1>2. r = latest
  BY DEF IInv, SingleFlight
<1>3. \A x \in ToSet(wire) : x.rev < m.rev
  <2> SUFFICES ASSUME NEW x \in ToSet(wire) PROVE x.rev < r
    OBVIOUS
  <2>1. x.rev \in Rev
    BY WireRevs DEF IInv
  <2>2. x.rev <= latest /\ x.rev # r
    BY DEF IInv, AnsweredIsOver
  <2> QED BY <2>1, <2>2, <1>2
<1>4. wire' = Append(wire, m) \/ wire' = wire
  BY DEF Emit
<1>5. CASE wire' = Append(wire, m)
  <2> HIDE DEF m
  <2>1. \A i, j \in DOMAIN wire : i < j => wire[i].rev < wire[j].rev
    BY DEF IInv, ResponsesIncrease
  <2>2. /\ wire' \in Seq(Response)
        /\ ToSet(wire') = ToSet(wire) \cup {m}
        /\ \A i, j \in DOMAIN wire' : i < j => wire'[i].rev < wire'[j].rev
    BY <1>1, <1>3, <1>5, <2>1, AppendIncreasing
  <2> QED BY <2>2 DEF ResponsesIncrease, m
<1>6. CASE wire' = wire
  BY <1>6, <1>1 DEF IInv, ResponsesIncrease
<1> QED BY <1>4, <1>5, <1>6

\* A step of the receive loop that accepts a newer revision.
LEMMA SubmitStep ==
    ASSUME IInv, NEW id \in Rev, NEW text \in Text \cup {Blank}, Submit(id, text)
    PROVE  IInv'
<1> DEFINE base == [task EXCEPT ![id] = "ready"]
<1> USE DEF IInv
<1>1. /\ id > latest /\ latest' = id /\ current' = id
      /\ source' = [source EXCEPT ![id] = text]
      /\ CancelCurrent(base)
      /\ UNCHANGED <<resolvable, conn, store, wire>>
  BY DEF Submit
<1>2. base \in [Rev -> TaskState] /\ TypeOK
  BY DEF TypeOK, TaskState
<1>3. \A r \in Rev : Pending(r) => r = latest /\ r = current
  BY DEF SingleFlight
<1>4. /\ task' \in [Rev -> TaskState]
      /\ call' \in [Rev -> [Lang -> CallState]]
      /\ \A r \in Rev : r # id => task'[r] \notin {"ready", "gather"}
      /\ task'[id] # "gather"
  <2>1. CASE current # id
    <3>1. current # NoTask => base[current] = task[current]
      BY <2>1, <1>2 DEF TypeOK
    <3>2. /\ task' \in [Rev -> TaskState]
          /\ call' \in [Rev -> [Lang -> CallState]]
          /\ \A r \in Rev : r # current => task'[r] = base[r]
          /\ current # NoTask => task'[current] \notin {"ready", "gather"}
      BY <1>1, <1>2, <3>1, CancelCurrentEffect, Zenon
    <3>3. base[id] = "ready" /\ \A r \in Rev : r # id => base[r] = task[r]
      BY <1>2 DEF TypeOK
    <3> HIDE DEF base
    <3> QED BY <3>2, <3>3, <1>3 DEF Pending
  <2>2. CASE current = id
    <3>1. ~Pending(id)
      BY <1>1, <1>2, <1>3 DEF TypeOK
    <3>2. current # NoTask
      BY <2>2
    <3>3. CASE UNCHANGED call /\ task' = base
      BY <3>3, <1>2, <1>3, <2>2 DEF TypeOK, Pending
    <3> QED BY <3>1, <3>3, <2>2, <1>1 DEF CancelCurrent
  <2> QED BY <2>1, <2>2
<1> HIDE DEF base
<1>5. TypeOK'
  BY <1>1, <1>2, <1>4 DEF TypeOK
<1>6. SingleFlight'
  BY <1>1, <1>4 DEF SingleFlight, Pending
<1>7. PendingHasSource'
  BY <1>1, <1>4, <1>2 DEF PendingHasSource, Pending, TypeOK
<1>8. AnsweredIsOver'
  <2> SUFFICES ASSUME NEW m \in ToSet(wire)
               PROVE  m.rev <= id /\ task'[m.rev] \notin {"ready", "gather"}
    BY <1>1 DEF AnsweredIsOver, Pending
  <2>1. m.rev <= latest /\ m.rev \in Rev
    BY WireRevs DEF AnsweredIsOver
  <2> QED BY <2>1, <1>1, <1>2, <1>4 DEF TypeOK
<1>9. ResponsesIncrease' /\ OnlyCompleteRenderings'
  BY <1>1 DEF ResponsesIncrease, OnlyCompleteRenderings
<1> QED BY <1>5, <1>6, <1>7, <1>8, <1>9

\* A step that ends no task and changes neither the store nor the wire.
LEMMA CallStep ==
    ASSUME IInv, NEW r \in Rev, NEW l \in Lang, StreamStep(r, l)
    PROVE  IInv'
<1>1. PICK s \in CallState : SetCall(r, l, s)
  BY DEF StreamStep, Acquire, StreamEnds, StreamFails, StreamAborted, CallState
<1>2. call' = [call EXCEPT ![r][l] = s]
      /\ UNCHANGED <<resolvable, conn, latest, current, source, task, store, wire>>
  BY <1>1 DEF SetCall
<1>3. TypeOK'
  BY <1>2 DEF IInv, TypeOK
<1> QED BY <1>2, <1>3
        DEF IInv, SingleFlight, PendingHasSource, AnsweredIsOver, Pending,
            ResponsesIncrease, OnlyCompleteRenderings

\* The connection closes, with or without cancelling the running task.
LEMMA CloseStep ==
    ASSUME IInv, Disconnect \/ BadMessage
    PROVE  IInv'
<1> USE DEF IInv
<1>1. /\ conn' = "closed"
      /\ UNCHANGED <<resolvable, latest, current, source, store, wire>>
  BY DEF Disconnect, BadMessage
<1>2. TypeOK /\ task \in [Rev -> TaskState]
  BY DEF TypeOK
<1>3. /\ task' \in [Rev -> TaskState]
      /\ call' \in [Rev -> [Lang -> CallState]]
      /\ \A r \in Rev : task'[r] \in {"ready", "gather"} => Pending(r) /\ task'[r] = task[r]
  <2>1. CASE Disconnect
    <3>1. /\ task' \in [Rev -> TaskState]
          /\ call' \in [Rev -> [Lang -> CallState]]
          /\ \A r \in Rev : r # current => task'[r] = task[r]
          /\ current # NoTask => task'[current] \notin {"ready", "gather"}
      BY <2>1, <1>2, CancelCurrentEffect, Zenon DEF Disconnect
    <3> QED BY <3>1 DEF Pending
  <2>2. CASE BadMessage
    BY <2>2, <1>2 DEF BadMessage, TypeOK, Pending
  <2> QED BY <2>1, <2>2
<1>4. TypeOK'
  BY <1>1, <1>2, <1>3 DEF TypeOK
<1>5. \A m \in ToSet(wire) : m.rev \in Rev
  BY <1>2, WireRevs
<1> QED BY <1>1, <1>3, <1>4, <1>5
        DEF SingleFlight, PendingHasSource, AnsweredIsOver, Pending,
            ResponsesIncrease, OnlyCompleteRenderings

\* A task ends: whatever it wrote was complete and of the newest revision.
LEMMA TaskEnds ==
    ASSUME IInv, NEW r \in Rev, Pending(r), NEW s \in TaskState \ {"ready", "gather"},
           task' = [task EXCEPT ![r] = s],
           UNCHANGED <<resolvable, conn, latest, current, source, call>>,
           store' \in Seq(Entry),
           \A e \in ToSet(store') : e.val = Lang,
           Emit(r, Lang) \/ wire' = wire
    PROVE  IInv'
<1> USE DEF IInv
<1>1. /\ wire' \in Seq(Response)
      /\ ToSet(wire') \subseteq ToSet(wire) \cup {[rev |-> r, langs |-> Lang]}
      /\ ResponsesIncrease'
  <2>1. CASE wire' = wire
    BY <2>1 DEF TypeOK, ResponsesIncrease
  <2>2. CASE Emit(r, Lang)
    BY <2>2, EmitEffect
  <2> QED BY <2>1, <2>2
<1>2. TypeOK'
  BY <1>1 DEF TypeOK, Entry
<1>3. \A q \in Rev : Pending(q)' => Pending(q) /\ task'[q] = task[q]
  BY DEF TypeOK, Pending
<1>4. AnsweredIsOver'
  <2> SUFFICES ASSUME NEW m \in ToSet(wire')
               PROVE  m.rev <= latest /\ ~Pending(m.rev)'
    BY DEF AnsweredIsOver
  <2>1. CASE m \in ToSet(wire)
    <3>1. m.rev \in Rev
      BY <2>1, WireRevs
    <3> QED BY <2>1, <3>1, <1>3 DEF AnsweredIsOver
  <2>2. CASE m = [rev |-> r, langs |-> Lang]
    <3>1. r = latest
      BY DEF SingleFlight
    <3>2. ~Pending(r)'
      BY DEF Pending, TypeOK
    <3> QED BY <2>2, <3>1, <3>2
  <2> QED BY <1>1, <2>1, <2>2
<1>5. SingleFlight' /\ PendingHasSource'
  BY <1>3 DEF SingleFlight, PendingHasSource, Pending
<1>6. OnlyCompleteRenderings'
  BY <1>1 DEF OnlyCompleteRenderings
<1> QED BY <1>1, <1>2, <1>4, <1>5, <1>6

\* The first step of a task.
LEMMA StartStep ==
    ASSUME IInv, NEW r \in Rev, Start(r)
    PROVE  IInv'
<1> USE DEF IInv
<1>1. /\ task[r] = "ready" /\ Pending(r)
      /\ UNCHANGED <<resolvable, conn, latest, current, source>>
  BY DEF Start, Pending
<1>2. /\ store \in Seq(Entry)
      /\ \A e \in ToSet(store) : e.val = Lang
  BY DEF TypeOK, Entry, OnlyCompleteRenderings
<1>3. CASE task' = [task EXCEPT ![r] = "done"] /\ UNCHANGED <<call, store, wire>>
  BY <1>1, <1>2, <1>3, TaskEnds DEF TaskState
<1>4. CASE /\ Holds(store, source[r])
           /\ store' = Get(store, source[r])
           /\ Emit(r, ValueOf(store, source[r]))
           /\ task' = [task EXCEPT ![r] = "done"]
           /\ UNCHANGED call
  <2>1. \A e \in Entry : e = [key |-> e.key, val |-> e.val]
    BY DEF Entry
  <2>2. /\ store' \in Seq(Entry)
        /\ ToSet(store') \subseteq ToSet(store)
        /\ [key |-> source[r], val |-> ValueOf(store, source[r])] \in ToSet(store)
    BY <1>2, <1>4, <2>1, GetKeeps
  <2>3. Emit(r, Lang)
    BY <1>2, <1>4, <2>2
  <2> QED BY <1>1, <1>2, <1>4, <2>2, <2>3, TaskEnds DEF TaskState
<1>5. CASE task' = [task EXCEPT ![r] = "failed"] /\ UNCHANGED <<call, store, wire>>
  BY <1>1, <1>2, <1>5, TaskEnds DEF TaskState
<1>6. CASE /\ task' = [task EXCEPT ![r] = "gather"]
           /\ call' = [call EXCEPT ![r] = [l \in Lang |-> "queued"]]
           /\ UNCHANGED <<store, wire>>
           /\ source[r] # Blank
  <2>1. TypeOK'
    BY <1>1, <1>6 DEF TypeOK, TaskState, CallState
  <2>2. task'[r] = "gather" /\ source[r] \in Text
    BY <1>1, <1>6 DEF TypeOK, PendingHasSource
  <2>3. \A q \in Rev : q # r => task'[q] = task[q]
    BY <1>6 DEF TypeOK
  <2>4. \A m \in ToSet(wire) : m.rev \in Rev /\ m.rev # r
    BY <1>1, WireRevs DEF AnsweredIsOver
  <2>5. SingleFlight'
    BY <1>1, <2>2, <2>3 DEF SingleFlight, Pending
  <2>6. PendingHasSource'
    BY <1>1, <2>2, <2>3 DEF PendingHasSource
  <2>7. AnsweredIsOver'
    BY <1>1, <1>6, <2>3, <2>4 DEF AnsweredIsOver, Pending
  <2> QED BY <1>6, <2>1, <2>5, <2>6, <2>7 DEF ResponsesIncrease, OnlyCompleteRenderings
<1> QED BY <1>3, <1>4, <1>5, <1>6 DEF Start, FanOut

\* gather() returns: the complete rendering is cached and sent.
LEMMA GatherReturnsStep ==
    ASSUME IInv, NEW r \in Rev, GatherReturns(r)
    PROVE  IInv'
<1> DEFINE e == [key |-> source[r], val |-> Lang]
<1>1. /\ Pending(r)
      /\ task' = [task EXCEPT ![r] = "done"]
      /\ store' = Put(store, source[r], Lang, CacheMax)
      /\ Emit(r, Lang)
      /\ UNCHANGED <<resolvable, conn, latest, current, source, call>>
  BY DEF GatherReturns, Pending
<1>2. e \in Entry /\ store \in Seq(Entry)
  BY DEF CacheKey, IInv, TypeOK, PendingHasSource, Entry, GatherReturns
<1>3. store' \in Seq(Entry) /\ ToSet(store') \subseteq ToSet(store) \cup {e}
  BY <1>1, <1>2, PutKeeps, DraftAssumption
<1>4. \A x \in ToSet(store') : x.val = Lang
  BY <1>3 DEF IInv, OnlyCompleteRenderings
<1> QED BY <1>1, <1>3, <1>4, TaskEnds DEF TaskState

\* gather() raises: the task ends, nothing is cached or sent.
LEMMA GatherRaisesStep ==
    ASSUME IInv, NEW r \in Rev, GatherRaises(r)
    PROVE  IInv'
<1>1. /\ Pending(r)
      /\ task' = [task EXCEPT ![r] = "failed"]
      /\ UNCHANGED <<resolvable, conn, latest, current, source, call, store, wire>>
  BY DEF GatherRaises, Pending
<1>2. store \in Seq(Entry) /\ \A e \in ToSet(store) : e.val = Lang
  BY DEF IInv, TypeOK, OnlyCompleteRenderings, Entry
<1> QED BY <1>1, <1>2, TaskEnds DEF TaskState

\* What other connections do to the cache.
LEMMA NeighbourStep ==
    ASSUME IInv, NEW key \in CacheKey, Neighbour(key)
    PROVE  IInv'
<1> DEFINE e == [key |-> key, val |-> Lang]
<1>1. e \in Entry /\ store \in Seq(Entry) /\ \A x \in Entry : x = [key |-> x.key, val |-> x.val]
  BY DEF IInv, TypeOK, Entry
<1>2. store' \in Seq(Entry) /\ ToSet(store') \subseteq ToSet(store) \cup {e}
  <2>1. CASE store' = Get(store, key)
    BY <1>1, <2>1, GetKeeps
  <2>2. CASE store' = Put(store, key, Lang, CacheMax)
    BY <1>1, <2>2, PutKeeps, DraftAssumption
  <2> QED BY <2>1, <2>2 DEF Neighbour
<1>3. \A x \in ToSet(store') : x.val = Lang
  BY <1>2 DEF IInv, OnlyCompleteRenderings
<1>4. UNCHANGED <<resolvable, conn, latest, current, source, task, call, wire>>
  BY DEF Neighbour
<1>5. TypeOK'
  BY <1>2, <1>4 DEF IInv, TypeOK, Entry
<1> QED BY <1>3, <1>4, <1>5
        DEF IInv, SingleFlight, PendingHasSource, AnsweredIsOver, Pending,
            ResponsesIncrease, OnlyCompleteRenderings

\* Every step of the connection keeps the invariant.
THEOREM StepKeeps == IInv /\ [Next]_vars => IInv'
<1> SUFFICES ASSUME IInv, [Next]_vars PROVE IInv'
  OBVIOUS
<1>1. ASSUME NEW id \in Rev, NEW text \in Text \cup {Blank}, Submit(id, text)
      PROVE  IInv'
  BY <1>1, SubmitStep
<1>2. ASSUME NEW r \in Rev, TaskStep(r) PROVE IInv'
  BY <1>2, StartStep, GatherReturnsStep, GatherRaisesStep DEF TaskStep
<1>3. ASSUME NEW r \in Rev, NEW l \in Lang, StreamStep(r, l) PROVE IInv'
  BY <1>3, CallStep
<1>4. CASE Disconnect \/ BadMessage
  BY <1>4, CloseStep
<1>5. CASE UNCHANGED vars
  BY <1>5 DEF vars, IInv, TypeOK, SingleFlight, PendingHasSource, AnsweredIsOver,
              ResponsesIncrease, OnlyCompleteRenderings, Pending
<1>6. ASSUME NEW key \in CacheKey, Neighbour(key) PROVE IInv'
  BY <1>6, NeighbourStep
<1> QED BY <1>1, <1>2, <1>3, <1>4, <1>5, <1>6 DEF Next, Receive, DropStale

\* What was written to the socket stays; a step writes behind it.
THEOREM WireGrows ==
    IInv /\ [Next]_vars =>
        /\ Len(wire) <= Len(wire')
        /\ \A i \in 1..Len(wire) : wire'[i] = wire[i]
<1> SUFFICES ASSUME IInv, [Next]_vars
             PROVE  /\ Len(wire) <= Len(wire')
                    /\ \A i \in 1..Len(wire) : wire'[i] = wire[i]
  OBVIOUS
<1>1. wire \in Seq(Response) /\ Len(wire) \in Nat
  BY LenProperties DEF IInv, TypeOK
<1>2. wire' = wire \/ \E m : wire' = Append(wire, m)
  BY DEF Next, Receive, Submit, DropStale, Disconnect, BadMessage, Neighbour, TaskStep, Start,
         Emit, GatherReturns, GatherRaises, StreamStep, Acquire, StreamEnds, StreamFails,
         StreamAborted, SetCall, vars
<1>3. ASSUME NEW m, wire' = Append(wire, m)
      PROVE  /\ Len(wire') = Len(wire) + 1
             /\ \A i \in 1..Len(wire) : wire'[i] = wire[i]
  BY <1>1, <1>3
<1> QED BY <1>1, <1>2, <1>3

\* The invariant holds throughout.
THEOREM Invariance == Spec => []IInv
<1>1. Init => IInv
  BY InitEstablishes
<1>2. IInv /\ [Next]_vars => IInv'
  BY StepKeeps
<1> QED BY <1>1, <1>2, PTL DEF Spec

-----------------------------------------------------------------------------
(* The properties.                                                         *)

\* Type correctness of the connection (coordinator, tasks, cache, wire).
THEOREM TypeCorrect == Spec => []TypeOK
<1>1. IInv => TypeOK
  BY DEF IInv
<1> QED BY <1>1, Invariance, PTL

\* At most one task can still run its body, and the coordinator holds it.
THEOREM SingleFlightHolds == Spec => []SingleFlight
<1>1. IInv => SingleFlight
  BY DEF IInv
<1> QED BY <1>1, Invariance, PTL

\* The client receives revisions in strictly increasing order.
THEOREM ResponsesIncreaseHolds == Spec => []ResponsesIncrease
<1>1. IInv => ResponsesIncrease
  BY DEF IInv
<1> QED BY <1>1, Invariance, PTL

\* Neither the cache nor the client ever gets a partial rendering.
THEOREM OnlyCompleteRenderingsHolds == Spec => []OnlyCompleteRenderings
<1>1. IInv => OnlyCompleteRenderings
  BY DEF IInv
<1> QED BY <1>1, Invariance, PTL

-----------------------------------------------------------------------------
(* The cache stays within its capacity.                                    *)

\* get and put of a complete rendering, the only steps a store ever takes.
LEMMA CacheOperation ==
    ASSUME IInv, CacheBounded, NEW k \in CacheKey,
           store' = Get(store, k) \/ store' = Put(store, k, Lang, CacheMax)
    PROVE  CacheBounded'
<1>1. /\ store \in Seq(Entry) /\ [key |-> k, val |-> Lang] \in Entry
      /\ \A e \in Entry : e = [key |-> e.key, val |-> e.val]
  BY DEF IInv, TypeOK, Entry
<1>2. UniqueKeys(store) /\ Len(store) <= CacheMax
  BY DEF CacheBounded, UniqueKeys
<1>3. CASE store' = Get(store, k)
  <2>1. UniqueKeys(Get(store, k)) /\ Len(Get(store, k)) = Len(store)
    BY <1>1, <1>2, GetUnique
  <2> QED BY <1>2, <1>3, <2>1 DEF CacheBounded, UniqueKeys
<1>4. CASE store' = Put(store, k, Lang, CacheMax)
  <2>1. /\ UniqueKeys(Put(store, k, Lang, CacheMax))
        /\ Len(Put(store, k, Lang, CacheMax)) <= CacheMax
    BY <1>1, <1>2, PutUnique, PutKeeps, DraftAssumption
  <2> QED BY <1>4, <2>1 DEF CacheBounded, UniqueKeys
<1> QED BY <1>3, <1>4

\* A key the cache holds is a text that is not empty.
LEMMA KeysAreTexts ==
    ASSUME store \in Seq([key : CacheKey, val : SUBSET Lang]), NEW k, Holds(store, k)
    PROVE  k \in CacheKey
<1>1. PositionOf(store, k) \in 1..Len(store) /\ store[PositionOf(store, k)].key = k
  BY PositionInStore
<1>2. store[PositionOf(store, k)] \in [key : CacheKey, val : SUBSET Lang]
  BY <1>1, ElementOfSeq
<1> QED BY <1>1, <1>2

\* One step of the connection or of its neighbours is at most one operation.
LEMMA CacheStep == IInv /\ CacheBounded /\ [Next]_vars => CacheBounded'
<1> SUFFICES ASSUME IInv, CacheBounded, [Next]_vars PROVE CacheBounded'
  OBVIOUS
<1>1. CASE UNCHANGED store
  BY <1>1 DEF CacheBounded
<1>2. ASSUME NEW r \in Rev, Start(r) PROVE CacheBounded'
  <2>1. CASE store' = Get(store, source[r]) /\ Holds(store, source[r])
    <3>1. source[r] \in CacheKey
      BY <2>1, KeysAreTexts DEF IInv, TypeOK
    <3> QED BY <2>1, <3>1, CacheOperation
  <2> QED BY <1>1, <1>2, <2>1 DEF Start
<1>3. ASSUME NEW r \in Rev, GatherReturns(r) PROVE CacheBounded'
  <2>1. source[r] \in Text /\ store' = Put(store, source[r], Lang, CacheMax)
    BY <1>3 DEF GatherReturns, IInv, PendingHasSource
  <2> QED BY <2>1, CacheOperation DEF CacheKey
<1>4. ASSUME NEW r \in Rev, GatherRaises(r) PROVE CacheBounded'
  BY <1>1, <1>4 DEF GatherRaises
<1>5. ASSUME NEW key \in CacheKey, Neighbour(key) PROVE CacheBounded'
  BY <1>5, CacheOperation DEF Neighbour
<1>6. ASSUME NEW r \in Rev, NEW l \in Lang, StreamStep(r, l) PROVE CacheBounded'
  BY <1>1, <1>6 DEF StreamStep, Acquire, StreamEnds, StreamFails, StreamAborted, SetCall
<1>7. CASE Receive \/ Disconnect \/ BadMessage \/ UNCHANGED vars
  BY <1>1, <1>7 DEF Receive, Submit, DropStale, Disconnect, BadMessage, vars
<1> QED BY <1>2, <1>3, <1>4, <1>5, <1>6, <1>7 DEF Next, TaskStep

\* The process-wide cache holds at most CacheMax entries and no key twice,
\* whatever this connection and the others look up and store.
THEOREM CacheBoundedHolds == Spec => []CacheBounded
<1>1. Init => CacheBounded
  BY DraftAssumption DEF Init, CacheBounded
<1>2. IInv /\ CacheBounded /\ [Next]_vars => CacheBounded'
  BY CacheStep
<1> QED BY <1>1, <1>2, Invariance, PTL DEF Spec

-----------------------------------------------------------------------------
(* The connection implements RevisionStream.                               *)

\* The answered revisions after one more response.
LEMMA AnsweredAppend ==
    ASSUME wire \in Seq(Response), NEW m \in Response, wire' = Append(wire, m)
    PROVE  /\ AnsweredRevs \in Seq(Rev)
           /\ ToSet(AnsweredRevs) = { x.rev : x \in ToSet(wire) }
           /\ AnsweredRevs' = Append(AnsweredRevs, m.rev)
<1>1. DOMAIN wire = 1..Len(wire) /\ Len(wire) \in Nat
  BY LenProperties
<1>2. \A i \in 1..Len(wire) : wire[i] \in Response
  BY ElementOfSeq
<1>3. /\ AnsweredRevs = [i \in 1..Len(wire) |-> wire[i].rev]
      /\ \A i \in 1..Len(wire) : wire[i].rev \in Rev
  BY <1>1, <1>2 DEF AnsweredRevs, Response
<1>4. AnsweredRevs \in Seq(Rev) /\ Len(AnsweredRevs) = Len(wire)
  BY <1>1, <1>3, IsASeq, LenProperties
<1>5. /\ wire' \in Seq(Response) /\ Len(wire') = Len(wire) + 1
      /\ \A i \in 1..Len(wire) : wire'[i] = wire[i]
      /\ wire'[Len(wire) + 1] = m
  BY AppendProperties
<1>6. DOMAIN wire' = 1..(Len(wire) + 1)
  BY <1>5, LenProperties
<1>7. AnsweredRevs' = [i \in 1..(Len(wire) + 1) |-> wire'[i].rev]
  BY <1>6 DEF AnsweredRevs
<1>8. AnsweredRevs' = Append(AnsweredRevs, m.rev)
  <2> DEFINE n == Append(AnsweredRevs, m.rev)
  <2>1. m.rev \in Rev
    BY DEF Response
  <2>2. /\ n \in Seq(Rev) /\ Len(n) = Len(wire) + 1
        /\ \A i \in 1..Len(wire) : n[i] = AnsweredRevs[i]
        /\ n[Len(wire) + 1] = m.rev
    BY <1>4, <2>1, AppendProperties
  <2> HIDE DEF n
  <2>3. n = [i \in 1..(Len(wire) + 1) |-> n[i]]
    BY <2>2, LenProperties
  <2>4. \A i \in 1..(Len(wire) + 1) : n[i] = wire'[i].rev
    BY <1>1, <1>3, <1>5, <2>2
  <2> QED BY <1>7, <2>3, <2>4 DEF n
<1>9. ToSet(AnsweredRevs) = { x.rev : x \in ToSet(wire) }
  BY <1>1, <1>3 DEF ToSet
<1> QED BY <1>4, <1>8, <1>9

\* Init and every step map to an initial state, a step or a stutter.
LEMMA RefinesInit == Init => Stream!Init
BY DEF Init, Stream!Init, AnsweredRevs

\* A step that writes to the wire answers the newest revision once.
LEMMA RefinesEmit ==
    ASSUME IInv, NEW r \in Rev, Pending(r), NEW langs \in SUBSET Lang,
           Emit(r, langs), UNCHANGED latest
    PROVE  [Stream!Next]_<<latest, AnsweredRevs>>
<1> DEFINE m == [rev |-> r, langs |-> langs]
<1>1. CASE wire' = wire
  BY <1>1 DEF AnsweredRevs
<1>2. CASE wire' = Append(wire, m)
  <2>1. r = latest /\ wire \in Seq(Response) /\ m \in Response
    BY DEF IInv, SingleFlight, TypeOK, Response
  <2>2. \A x \in ToSet(wire) : x.rev # r
    BY DEF IInv, AnsweredIsOver
  <2> HIDE DEF m
  <2>3. /\ ToSet(AnsweredRevs) = { x.rev : x \in ToSet(wire) }
        /\ AnsweredRevs' = Append(AnsweredRevs, m.rev)
    BY <1>2, <2>1, AnsweredAppend
  <2>4. m.rev = r
    BY DEF m
  <2>5. latest >= 0 /\ latest \notin ToSet(AnsweredRevs)
    BY <2>1, <2>2, <2>3, DraftAssumption
  <2>6. AnsweredRevs' = Append(AnsweredRevs, latest) /\ UNCHANGED latest
    BY <2>1, <2>3, <2>4
  <2>7. Stream!Answer
    BY <2>5, <2>6 DEF Stream!Answer, ToSet
  <2> QED BY <2>7 DEF Stream!Next
<1> QED BY <1>1, <1>2 DEF Emit

\* Every step of the connection is a step of the revision stream, or none.
LEMMA RefinesStep == IInv /\ [Next]_vars => [Stream!Next]_<<latest, AnsweredRevs>>
<1> SUFFICES ASSUME IInv, [Next]_vars PROVE [Stream!Next]_<<latest, AnsweredRevs>>
  OBVIOUS
<1>1. ASSUME NEW id \in Rev, NEW text \in Text \cup {Blank}, Submit(id, text)
      PROVE  Stream!Next
  BY <1>1 DEF Submit, AnsweredRevs, Stream!Next, Stream!Accept
<1>2. ASSUME NEW r \in Rev, Start(r)
      PROVE  [Stream!Next]_<<latest, AnsweredRevs>>
  <2>1. CASE Holds(store, source[r]) /\ Emit(r, ValueOf(store, source[r]))
    <3>1. /\ store \in Seq(Entry)
          /\ \A e \in Entry : e = [key |-> e.key, val |-> e.val]
      BY DEF IInv, TypeOK, Entry
    <3>2. [key |-> source[r], val |-> ValueOf(store, source[r])] \in ToSet(store)
      BY <2>1, <3>1, GetKeeps
    <3>3. ValueOf(store, source[r]) = Lang
      BY <3>2 DEF IInv, OnlyCompleteRenderings
    <3> QED BY <1>2, <2>1, <3>3, RefinesEmit DEF Start, Pending
  <2>2. CASE wire' = wire
    BY <1>2, <2>2 DEF Start, AnsweredRevs
  <2> QED BY <1>2, <2>1, <2>2 DEF Start
<1>3. ASSUME NEW r \in Rev, GatherReturns(r)
      PROVE  [Stream!Next]_<<latest, AnsweredRevs>>
  <2>1. Rendered(r) \in SUBSET Lang
    BY DEF Rendered
  <2> QED BY <1>3, <2>1, RefinesEmit DEF GatherReturns, Pending
<1>4. ASSUME NEW r \in Rev, GatherRaises(r)
      PROVE  [Stream!Next]_<<latest, AnsweredRevs>>
  BY <1>4 DEF GatherRaises, AnsweredRevs
<1>5. ASSUME NEW r \in Rev, NEW l \in Lang, StreamStep(r, l)
      PROVE  [Stream!Next]_<<latest, AnsweredRevs>>
  BY <1>5 DEF StreamStep, Acquire, StreamEnds, StreamFails, StreamAborted, SetCall,
              AnsweredRevs
<1>6. CASE Disconnect \/ BadMessage \/ UNCHANGED vars
  BY <1>6 DEF Disconnect, BadMessage, vars, AnsweredRevs
<1>7. ASSUME NEW key \in CacheKey, Neighbour(key)
      PROVE  [Stream!Next]_<<latest, AnsweredRevs>>
  BY <1>7 DEF Neighbour, AnsweredRevs
<1> QED BY <1>1, <1>2, <1>3, <1>4, <1>5, <1>6, <1>7
        DEF Next, Receive, DropStale, TaskStep

\* The connection, tasks, streams and cache included, answers only the newest
\* accepted revision, at most once: it implements RevisionStream.
THEOREM ImplementsRevisionStreamHolds == Spec => ImplementsRevisionStream
<1>1. Init => Stream!Init
  BY RefinesInit
<1>2. IInv /\ [Next]_vars => [Stream!Next]_<<latest, AnsweredRevs>>
  BY RefinesStep
<1> QED BY <1>1, <1>2, Invariance, PTL DEF Spec, ImplementsRevisionStream, Stream!Spec

-----------------------------------------------------------------------------
(* The safety half of AcceptedIsSettled.                                   *)

\* No revision is lost silently: while the connection is open the newest text
\* that has something to translate is being rendered, was answered, or its
\* rendering has failed.
NothingIsLost ==
    conn = "open" /\ latest # -1 /\ source[latest] # Blank =>
        \/ Pending(latest)
        \/ task[latest] = "failed"
        \/ \E m \in ToSet(wire) : m.rev = latest

\* A task that is over, its revision the newest and the socket open, was a blank
\* text, failed or has written its answer.
LEMMA TaskEndsWithAnswer ==
    ASSUME IInv, NothingIsLost, NEW r \in Rev, TaskStep(r)
    PROVE  NothingIsLost'
<1> USE DEF IInv
<1>1. /\ Pending(r) /\ r = latest /\ UNCHANGED <<conn, latest, source>>
      /\ wire \in Seq(Response) /\ task \in [Rev -> TaskState]
  BY DEF TaskStep, Start, GatherReturns, GatherRaises, Pending, SingleFlight, TypeOK
<1>2. CASE task'[r] \in {"gather", "failed"}
  BY <1>1, <1>2 DEF NothingIsLost, Pending
<1>3. CASE source[r] = Blank
  BY <1>1, <1>3 DEF NothingIsLost
<1>4. ASSUME NEW langs, Emit(r, langs) PROVE NothingIsLost'
  <2> SUFFICES ASSUME conn = "open" PROVE \E m \in ToSet(wire') : m.rev = latest
    BY <1>1 DEF NothingIsLost
  <2>1. wire' = Append(wire, [rev |-> r, langs |-> langs])
    BY <1>1, <1>4 DEF Emit
  <2>2. /\ Len(wire) + 1 \in DOMAIN wire'
        /\ wire'[Len(wire) + 1] = [rev |-> r, langs |-> langs]
    BY <1>1, <2>1
  <2>3. [rev |-> r, langs |-> langs].rev = latest
    BY <1>1
  <2> QED BY <2>2, <2>3 DEF ToSet
<1>5. \/ task'[r] \in {"gather", "failed"}
      \/ source[r] = Blank
      \/ \E langs : Emit(r, langs)
  BY <1>1 DEF TaskStep, Start, GatherReturns, GatherRaises, FanOut
<1> QED BY <1>2, <1>3, <1>4, <1>5

\* Every step keeps it.
THEOREM NothingIsLostStep == IInv /\ NothingIsLost /\ [Next]_vars => NothingIsLost'
<1> SUFFICES ASSUME IInv, NothingIsLost, [Next]_vars PROVE NothingIsLost'
  OBVIOUS
<1>1. ASSUME NEW id \in Rev, NEW text \in Text \cup {Blank}, Submit(id, text)
      PROVE  NothingIsLost'
  <2> DEFINE base == [task EXCEPT ![id] = "ready"]
  <2>1. latest' = id /\ id > latest /\ CancelCurrent(base)
    BY <1>1 DEF Submit
  <2>2. base \in [Rev -> TaskState] /\ base[id] = "ready"
    BY DEF IInv, TypeOK, TaskState
  <2> HIDE DEF base
  <2>3. latest \in Int /\ current \in Rev \cup {NoTask} /\ id \in Int
    BY DraftAssumption DEF IInv, TypeOK
  <2>4. current # NoTask /\ Pending(current) => current # id
    BY <2>1, <2>3 DEF IInv, SingleFlight
  <2>5. task'[id] = "ready"
    BY <2>1, <2>2, <2>4 DEF CancelCurrent
  <2> QED BY <2>1, <2>5 DEF NothingIsLost, Pending
<1>2. ASSUME NEW r \in Rev, TaskStep(r) PROVE NothingIsLost'
  BY <1>2, TaskEndsWithAnswer
<1>3. CASE Disconnect \/ BadMessage
  BY <1>3 DEF Disconnect, BadMessage, NothingIsLost
<1>4. CASE UNCHANGED <<conn, latest, source, task, wire>>
  BY <1>4 DEF NothingIsLost, Pending
<1>5. ASSUME NEW r \in Rev, NEW l \in Lang, StreamStep(r, l) PROVE NothingIsLost'
  BY <1>4, <1>5 DEF StreamStep, Acquire, StreamEnds, StreamFails, StreamAborted, SetCall
<1>6. ASSUME NEW key \in CacheKey, Neighbour(key) PROVE NothingIsLost'
  BY <1>4, <1>6 DEF Neighbour
<1> QED BY <1>1, <1>2, <1>3, <1>4, <1>5, <1>6 DEF Next, Receive, DropStale, vars

\* No accepted revision is ever lost silently.
THEOREM NothingIsLostHolds == Spec => []NothingIsLost
<1>1. Init => NothingIsLost
  BY DEF Init, NothingIsLost
<1>2. IInv /\ NothingIsLost /\ [Next]_vars => NothingIsLost'
  BY NothingIsLostStep
<1> QED BY <1>1, <1>2, Invariance, PTL DEF Spec
=============================================================================
