--------------------------- MODULE TableProofs ------------------------------
(***************************************************************************)
(* The two kinds of tables that keep more than one row per pair, for every *)
(* finite set of keys, every set of values and every cache capacity, none  *)
(* and one included.                                                       *)
(*                                                                         *)
(* A dictionary column reads back what was written, and its cache agrees   *)
(* with its tables; a birth id leads to exactly the keys that point to it. *)
(*                                                                         *)
(* The two directions of an index are inverse to each other between        *)
(* operations and a value resolves to one of its keys.  While a batch is   *)
(* inserted the reverse rows lag behind: the inductive invariant says by   *)
(* exactly which keys.                                                     *)
(***************************************************************************)
EXTENDS IndexTable, DictTable, WellFoundedInduction, FiniteSetTheorems, TLAPS

-----------------------------------------------------------------------------
(***************************************************************************)
(* The operations of the cache: which entries they change.                 *)
(***************************************************************************)

CacheType(c, K) ==
  c = [pk |-> c.pk, recent |-> c.recent] /\ c.pk \in [Value -> K \cup {None}]

\* A set of numbers that is not empty has a least element, the one Min chooses.
LEMMA MinInSet ==
  ASSUME NEW S \in SUBSET Nat, S # {}
  PROVE  Min(S) \in S /\ \A y \in S : Min(S) <= y
<1>. DEFINE R == {p \in Nat \X Nat : p[1] < p[2]}
<1>1. IsWellFoundedOn(R, Nat)
  BY NatLessThanWellFounded, Zenon DEF OpToRel
<1>2. ASSUME NEW y \in Nat, NEW x \in Nat, y < x PROVE <<y, x>> \in R
  BY <1>2
<1>. HIDE DEF R
<1>3. PICK x \in S : \A y \in S : ~ (<<y, x>> \in R)
  BY <1>1, WFMin
<1>4. ASSUME NEW y \in S PROVE x <= y
  <2>1. x \in Nat /\ y \in Nat
    OBVIOUS
  <2>2. ~ (y < x)
    BY <1>2, <1>3, <2>1, Zenon
  <2>. QED  BY <2>1, <2>2
<1>. QED  BY <1>4 DEF Min

\* put stores the new entry and keeps each other one or evicts it.
LEMMA PutFacts ==
  ASSUME NEW K, NEW c, CacheType(c, K), NEW v \in Value, NEW k \in K
  PROVE  /\ CacheType(CachePut(c, v, k), K)
         /\ \A w \in Value : \/ CachePut(c, v, k).pk[w] \in {None, c.pk[w]}
                             \/ (w = v /\ CachePut(c, v, k).pk[w] = k)
         /\ LruCapacity # 0 => CachePut(c, v, k).pk[v] = k
<1>1. CASE LruCapacity = 0
  BY <1>1 DEF CachePut
<1>2. CASE LruCapacity # 0
  <2>. DEFINE full == c.pk[v] = None /\ Len(c.recent) = LruCapacity
              pk == IF full THEN [c.pk EXCEPT ![Last(c.recent)] = None] ELSE c.pk
              recent == MoveToFront(IF full THEN Front(c.recent) ELSE c.recent, v)
  <2>1. CachePut(c, v, k) = [pk |-> [pk EXCEPT ![v] = k], recent |-> recent]
    BY <1>2 DEF CachePut
  <2>2. pk \in [Value -> K \cup {None}] /\ \A w \in Value : pk[w] \in {None, c.pk[w]}
    <3>. HIDE DEF full
    <3>. QED  BY DEF CacheType
  <2>. HIDE DEF pk, recent
  <2>. QED  BY <2>1, <2>2 DEF CacheType
<1>. QED  BY <1>1, <1>2

\* A get changes no entry.
LEMMA GetFacts ==
  ASSUME NEW K, NEW c, CacheType(c, K), NEW v \in Value
  PROVE  CacheType(CacheGet(c, v), K) /\ CacheGet(c, v).pk = c.pk
BY DEF CacheType, CacheGet

\* A pop removes the value's entry and no other.
LEMMA PopFacts ==
  ASSUME NEW K, NEW c, CacheType(c, K), NEW v \in Value
  PROVE  /\ CacheType(CachePop(c, v), K)
         /\ CachePop(c, v).pk[v] = None
         /\ \A w \in Value : w # v => CachePop(c, v).pk[w] = c.pk[w]
BY DEF CacheType, CachePop

-----------------------------------------------------------------------------
(***************************************************************************)
(* The table                                                               *)
(***************************************************************************)


\* The birth id of a value, in the deferred rows or in the table.
Birth(v) ==
  IF value_to_pk_batch[v] # None THEN value_to_pk_batch[v] ELSE value_to_dict_pk[v]

\* A key points to a birth id that is not above it and has the key's value; a
\* value is stored only under ids that a key points to.
BirthInv ==
  /\ \A k \in Key : dict_pk_by_key[k] # None =>
       /\ dict_pk_by_key[k] <= k
       /\ written[k] # None /\ value_by_dict_pk[dict_pk_by_key[k]] = written[k]
  /\ \A k \in Key : dict_pk_by_key[k] = None => written[k] = None
  /\ \A id \in Key : value_by_dict_pk[id] # None => \E k \in Key : dict_pk_by_key[k] = id
  /\ \A v \in Value : Birth(v) # None => value_by_dict_pk[Birth(v)] = v

\* The keys of a birth id are in the table or among the deferred rows.
KeysInv ==
  \A id, k \in Key :
    dict_pk_by_key[k] = id <=> k \in dict_pk_to_keys[id] \/ <<id, k>> \in pk_to_keys_batch

\* The keys Run 1 has still to insert are above all keys that are present, and
\* a birth id is deferred for values that have none in the table.
BatchInv ==
  /\ \A j \in Key, k \in todo : dict_pk_by_key[j] # None => j < k
  /\ \A v \in Value : value_to_pk_batch[v] # None => value_to_dict_pk[v] = None
  /\ idle => /\ todo = {} /\ pk_to_keys_batch = {}
             /\ \A v \in Value : value_to_pk_batch[v] = None

\* A cached birth id is the one of the deferred rows or of the table.
CacheInv ==
  /\ CacheType(birth_cache, Key)
  /\ \A v \in Value : birth_cache.pk[v] # None => birth_cache.pk[v] = Birth(v)

IInv == DictTypeOK /\ BirthInv /\ KeysInv /\ BatchInv /\ CacheInv

\* Caching a pair changes no other entry, unless it evicts it.
LEMMA SeedFacts ==
  ASSUME CacheType(birth_cache, Key), NEW v \in Value, NEW id \in Key
  PROVE  /\ CacheType(Seed(v, id), Key)
         /\ \A w \in Value : \/ Seed(v, id).pk[w] \in {None, birth_cache.pk[w]}
                             \/ w = v /\ birth_cache.pk[v] = None /\ Seed(v, id).pk[w] = id
<1>1. CASE birth_cache.pk[v] # None
  BY <1>1, GetFacts DEF Seed
<1>2. CASE birth_cache.pk[v] = None
  <2>1. Seed(v, id) = CachePut(birth_cache, v, id)
    BY <1>2 DEF Seed
  <2>. QED  BY <1>2, <2>1, PutFacts
<1>. QED  BY <1>1, <1>2

\* Empty tables satisfy the inductive invariant.
LEMMA InitIInv == DictInit => IInv
<1>. SUFFICES ASSUME DictInit PROVE IInv
  OBVIOUS
<1>. USE DictAssumption DEF DictInit, NoBatch, EmptyCache
<1>1. DictTypeOK
  BY DEF DictTypeOK
<1>2. BirthInv /\ KeysInv /\ BatchInv
  BY DEF BirthInv, KeysInv, BatchInv, Birth
<1>3. CacheInv
  BY DEF CacheInv, CacheType
<1>. QED  BY <1>1, <1>2, <1>3 DEF IInv

\* A key above all others that gets its value's birth id, or becomes it, changes
\* what no other key reads and leaves cache and tables in agreement, whether the
\* value's row is written at once or deferred.
LEMMA AddKey ==
  ASSUME IInv, NEW k \in Key, NEW v \in Value, Fresh(k),
         NEW id, id = (IF BirthOf(v) = None THEN k ELSE BirthOf(v)),
         dict_pk_by_key' = [dict_pk_by_key EXCEPT ![k] = id],
         value_by_dict_pk' = IF BirthOf(v) = None THEN [value_by_dict_pk EXCEPT ![k] = v]
                                                  ELSE value_by_dict_pk,
         \A w \in Value : Birth(w)' = IF w = v /\ BirthOf(v) = None THEN k ELSE Birth(w),
         birth_cache' = Seed(v, id),
         written' = [written EXCEPT ![k] = v]
  PROVE  id \in Key /\ BirthInv' /\ CacheInv'
<1>. USE DictAssumption
<1>1. /\ CacheType(birth_cache, Key)
      /\ \A w \in Value : birth_cache.pk[w] # None => birth_cache.pk[w] = Birth(w)
      /\ \A w \in Value : Birth(w) \in Key \cup {None}
  BY DEF IInv, DictTypeOK, CacheInv, CacheType, Birth
<1>2. BirthOf(v) # None => BirthOf(v) = Birth(v)
  <2>1. CASE birth_cache.pk[v] # None
    BY <1>1, <2>1 DEF BirthOf
  <2>2. CASE birth_cache.pk[v] = None
    BY <2>2 DEF BirthOf, Birth, IInv, BatchInv
  <2>. QED  BY <2>1, <2>2
<1>3. id \in Key
  BY <1>1, <1>2
<1>4. \A j \in Key : dict_pk_by_key[j] # None => dict_pk_by_key[j] < k /\ dict_pk_by_key[j] \in Key
  <2>. SUFFICES ASSUME NEW j \in Key, dict_pk_by_key[j] # None
                PROVE  dict_pk_by_key[j] < k /\ dict_pk_by_key[j] \in Key
    OBVIOUS
  <2>1. dict_pk_by_key[j] \in Key /\ j < k
    BY DEF IInv, DictTypeOK, Fresh
  <2>2. dict_pk_by_key[j] <= j
    BY DEF IInv, BirthInv
  <2>3. dict_pk_by_key[j] \in Nat /\ j \in Nat /\ k \in Nat
    BY <2>1
  <2>. QED  BY <2>1, <2>2, <2>3
<1>5. value_by_dict_pk[k] = None
  BY <1>4 DEF IInv, DictTypeOK, BirthInv
<1>6. value_by_dict_pk'[id] = v /\ id <= k
  <2>1. CASE BirthOf(v) = None
    BY <2>1 DEF IInv, DictTypeOK
  <2>2. CASE BirthOf(v) # None
    <3>1. value_by_dict_pk[id] = v
      BY <1>2, <2>2 DEF IInv, BirthInv
    <3>2. PICK j \in Key : dict_pk_by_key[j] = id
      BY <1>3, <3>1 DEF IInv, BirthInv
    <3>. QED  BY <1>3, <1>4, <2>2, <3>1, <3>2
  <2>. QED  BY <2>1, <2>2
<1>7. ASSUME NEW j \in Key, j # k, dict_pk_by_key[j] # None
      PROVE  value_by_dict_pk'[dict_pk_by_key[j]] = value_by_dict_pk[dict_pk_by_key[j]]
  <2>1. dict_pk_by_key[j] # k /\ dict_pk_by_key[j] \in Key
    BY <1>4, <1>7
  <2>. QED  BY <2>1 DEF IInv, DictTypeOK
<1>8. BirthInv'
  <2>1. ASSUME NEW j \in Key, dict_pk_by_key'[j] # None
        PROVE  /\ dict_pk_by_key'[j] <= j
               /\ written'[j] # None /\ value_by_dict_pk'[dict_pk_by_key'[j]] = written'[j]
    <3>1. CASE j = k
      BY <1>6, <3>1 DEF IInv, DictTypeOK
    <3>2. CASE j # k
      BY <1>7, <2>1, <3>2 DEF IInv, DictTypeOK, BirthInv
    <3>. QED  BY <3>1, <3>2
  <2>2. \A j \in Key : dict_pk_by_key'[j] = None => written'[j] = None
    BY <1>3 DEF IInv, DictTypeOK, BirthInv
  <2>3. ASSUME NEW i \in Key, value_by_dict_pk'[i] # None
        PROVE  \E j \in Key : dict_pk_by_key'[j] = i
    <3>1. CASE BirthOf(v) = None /\ i = k
      <4>1. dict_pk_by_key'[k] = i
        BY <3>1 DEF IInv, DictTypeOK
      <4>. QED  BY <4>1
    <3>2. CASE ~(BirthOf(v) = None /\ i = k)
      <4>1. value_by_dict_pk[i] # None
        <5>1. CASE BirthOf(v) = None
          BY <2>3, <3>2, <5>1 DEF IInv, DictTypeOK
        <5>. QED  BY <2>3, <5>1
      <4>2. PICK j \in Key : dict_pk_by_key[j] = i
        BY <4>1 DEF IInv, BirthInv
      <4>3. j # k
        BY <4>2 DEF Fresh
      <4>4. dict_pk_by_key'[j] = i
        BY <4>2, <4>3 DEF IInv, DictTypeOK
      <4>. QED  BY <4>4
    <3>. QED  BY <3>1, <3>2
  <2>4. ASSUME NEW w \in Value, Birth(w)' # None
        PROVE  value_by_dict_pk'[Birth(w)'] = w
    <3>1. CASE w = v /\ BirthOf(v) = None
      BY <1>6, <3>1
    <3>2. CASE ~(w = v /\ BirthOf(v) = None)
      <4>1. Birth(w)' = Birth(w) /\ Birth(w) \in Key /\ value_by_dict_pk[Birth(w)] = w
        BY <1>1, <2>4, <3>2 DEF IInv, BirthInv
      <4>2. Birth(w) # k
        BY <1>5, <4>1
      <4>. QED  BY <4>1, <4>2 DEF IInv, DictTypeOK
    <3>. QED  BY <3>1, <3>2
  <2>. QED  BY <2>1, <2>2, <2>3, <2>4 DEF BirthInv
<1>9. CacheInv'
  <2>1. /\ CacheType(birth_cache', Key)
        /\ \A w \in Value : \/ birth_cache'.pk[w] \in {None, birth_cache.pk[w]}
                            \/ w = v /\ birth_cache.pk[v] = None /\ birth_cache'.pk[w] = id
    BY <1>1, <1>3, SeedFacts
  <2>2. ASSUME NEW w \in Value, birth_cache'.pk[w] # None PROVE birth_cache'.pk[w] = Birth(w)'
    <3>1. CASE w = v /\ BirthOf(v) = None
      BY <2>1, <2>2, <3>1 DEF BirthOf
    <3>2. CASE ~(w = v /\ BirthOf(v) = None)
      BY <1>1, <1>2, <2>1, <2>2, <3>2
    <3>. QED  BY <3>1, <3>2
  <2>. QED  BY <2>1, <2>2 DEF CacheInv
<1>. QED  BY <1>3, <1>8, <1>9

\* insert_kv writes all four rows and the cache entry at once.
LEMMA InsertKeepsIInv ==
  ASSUME IInv, NEW k \in Key, NEW v \in Value, dict_insert_kv(k, v)
  PROVE  IInv'
<1>. USE DictAssumption
<1>. DEFINE id == IF BirthOf(v) = None THEN k ELSE BirthOf(v)
<1>1. /\ idle /\ Fresh(k)
      /\ dict_pk_by_key' = [dict_pk_by_key EXCEPT ![k] = id]
      /\ dict_pk_to_keys' = [dict_pk_to_keys EXCEPT ![id] = @ \cup {k}]
      /\ value_by_dict_pk' = IF BirthOf(v) = None THEN [value_by_dict_pk EXCEPT ![k] = v]
                                                  ELSE value_by_dict_pk
      /\ value_to_dict_pk' = IF BirthOf(v) = None THEN [value_to_dict_pk EXCEPT ![v] = k]
                                                  ELSE value_to_dict_pk
      /\ birth_cache' = Seed(v, id)
      /\ written' = [written EXCEPT ![k] = v]
      /\ UNCHANGED <<batch, todo, pk_to_keys_batch, value_to_pk_batch>>
  BY DEF dict_insert_kv, batchVars
<1>. HIDE DEF id
<1>2. todo = {} /\ pk_to_keys_batch = {} /\ \A w \in Value : value_to_pk_batch[w] = None
  BY <1>1 DEF IInv, BatchInv
<1>3. \A w \in Value : Birth(w)' = IF w = v /\ BirthOf(v) = None THEN k ELSE Birth(w)
  BY <1>1, <1>2 DEF Birth, IInv, DictTypeOK
<1>4. id \in Key /\ BirthInv' /\ CacheInv'
  BY <1>1, <1>3, AddKey DEF id
<1>5. DictTypeOK'
  BY <1>1, <1>4 DEF IInv, DictTypeOK, CacheInv, CacheType
<1>6. dict_pk_by_key[k] = None
  BY <1>1 DEF Fresh
<1>7. KeysInv'
  BY <1>1, <1>2, <1>4, <1>6 DEF IInv, DictTypeOK, KeysInv
<1>8. BatchInv'
  BY <1>1, <1>2 DEF IInv, BatchInv, idle
<1>. QED  BY <1>4, <1>5, <1>7, <1>8 DEF IInv

\* One pair of Run 1 writes the rows of its key and the cache entry and defers
\* the rows keyed by birth id and by value.
LEMMA PairKeepsIInv ==
  ASSUME IInv, InsertDictPair
  PROVE  IInv'
<1>. USE DictAssumption
<1>. DEFINE k == Min(todo)
            v == batch[k]
            id == IF BirthOf(v) = None THEN k ELSE BirthOf(v)
<1>1. k \in todo /\ (\A j \in todo : k <= j) /\ k \in Key /\ v \in Value
  <2>1. todo \in SUBSET Nat /\ todo # {}
    BY DEF IInv, DictTypeOK, InsertDictPair
  <2>2. k \in todo /\ \A j \in todo : k <= j
    BY <2>1, MinInSet
  <2>. QED  BY <2>2 DEF IInv, DictTypeOK
<1>2. /\ dict_pk_by_key' = [dict_pk_by_key EXCEPT ![k] = id]
      /\ value_by_dict_pk' = IF BirthOf(v) = None THEN [value_by_dict_pk EXCEPT ![k] = v]
                                                  ELSE value_by_dict_pk
      /\ pk_to_keys_batch' = pk_to_keys_batch \cup {<<id, k>>}
      /\ value_to_pk_batch' = IF BirthOf(v) = None THEN [value_to_pk_batch EXCEPT ![v] = k]
                                                   ELSE value_to_pk_batch
      /\ birth_cache' = Seed(v, id)
      /\ todo' = todo \ {k}
      /\ written' = [written EXCEPT ![k] = v]
      /\ UNCHANGED <<dict_pk_to_keys, value_to_dict_pk, batch>>
  BY DEF InsertDictPair
<1>. HIDE DEF k, v, id
<1>3. Fresh(k) /\ dict_pk_by_key[k] = None
  <2>1. Fresh(k)
    BY <1>1 DEF IInv, BatchInv, Fresh
  <2>. QED  BY <1>1, <2>1 DEF Fresh
<1>4. \A w \in Value : Birth(w)' = IF w = v /\ BirthOf(v) = None THEN k ELSE Birth(w)
  BY <1>1, <1>2 DEF Birth, IInv, DictTypeOK
<1>5. id \in Key /\ BirthInv' /\ CacheInv'
  BY <1>1, <1>2, <1>3, <1>4, AddKey DEF id
<1>6. DictTypeOK'
  BY <1>1, <1>2, <1>5 DEF IInv, DictTypeOK, CacheInv, CacheType
<1>7. KeysInv'
  <2>. SUFFICES ASSUME NEW i \in Key, NEW j \in Key
                PROVE  dict_pk_by_key'[j] = i <=> \/ j \in dict_pk_to_keys'[i]
                                                  \/ <<i, j>> \in pk_to_keys_batch'
    BY DEF KeysInv
  <2>1. dict_pk_by_key[j] = i <=> j \in dict_pk_to_keys[i] \/ <<i, j>> \in pk_to_keys_batch
    BY DEF IInv, KeysInv
  <2>2. <<i, j>> \in pk_to_keys_batch' <=> <<i, j>> \in pk_to_keys_batch \/ (i = id /\ j = k)
    BY <1>2
  <2>3. dict_pk_by_key'[j] = IF j = k THEN id ELSE dict_pk_by_key[j]
    BY <1>1, <1>2 DEF IInv, DictTypeOK
  <2>. QED  BY <1>2, <1>3, <2>1, <2>2, <2>3
<1>8. BatchInv'
  <2>1. ASSUME NEW j \in Key, NEW l \in todo', dict_pk_by_key'[j] # None PROVE j < l
    <3>1. l \in todo /\ l # k /\ l \in Key /\ k <= l
      BY <1>1, <1>2 DEF IInv, DictTypeOK
    <3>2. CASE j = k
      BY <3>1, <3>2
    <3>3. CASE j # k
      BY <1>2, <2>1, <3>1, <3>3 DEF IInv, DictTypeOK, BatchInv
    <3>. QED  BY <3>2, <3>3
  <2>2. ASSUME NEW w \in Value, value_to_pk_batch'[w] # None PROVE value_to_dict_pk'[w] = None
    <3>1. CASE w = v /\ BirthOf(v) = None
      BY <1>2, <3>1 DEF BirthOf
    <3>2. CASE ~(w = v /\ BirthOf(v) = None)
      <4>1. value_to_pk_batch[w] # None
        BY <1>2, <2>2, <3>2 DEF IInv, DictTypeOK
      <4>. QED  BY <1>2, <4>1 DEF IInv, BatchInv
    <3>. QED  BY <3>1, <3>2
  <2>3. ~ idle'
    BY <1>1, <1>2 DEF v, idle, NoBatch
  <2>. QED  BY <2>1, <2>2, <2>3 DEF BatchInv
<1>. QED  BY <1>5, <1>6, <1>7, <1>8 DEF IInv

\* Run 2 writes the deferred rows.
LEMMA DeferredKeepsIInv ==
  ASSUME IInv, InsertDeferred
  PROVE  IInv'
<1>. USE DictAssumption
<1>1. DictTypeOK'
  BY DEF IInv, DictTypeOK, InsertDeferred, Deferred, NoBatch
<1>2. \A v \in Value : Birth(v)' = Birth(v) /\ value_to_pk_batch'[v] = None
  BY DEF InsertDeferred, Birth, IInv, DictTypeOK
<1>3. BirthInv'
  BY <1>2 DEF InsertDeferred, IInv, BirthInv
<1>4. KeysInv'
  BY DEF InsertDeferred, Deferred, IInv, DictTypeOK, KeysInv
<1>5. BatchInv'
  BY <1>2 DEF InsertDeferred, IInv, BatchInv
<1>6. CacheInv'
  BY <1>2 DEF InsertDeferred, IInv, CacheInv
<1>. QED  BY <1>1, <1>3, <1>4, <1>5, <1>6 DEF IInv

\* delete_kv takes the key and, with the last key of a birth id, its value from
\* both tables and from the cache.
LEMMA DeleteKeepsIInv ==
  ASSUME IInv, NEW k \in Key, dict_delete_kv(k)
  PROVE  IInv'
<1>. USE DictAssumption
<1>. DEFINE id == dict_pk_by_key[k]
            v == value_by_dict_pk[id]
            gone == IsLast(id, k)
<1>1. idle /\ id \in Key /\ v \in Value /\ v = written[k]
  BY DEF dict_delete_kv, IInv, DictTypeOK, BirthInv
<1>2. /\ dict_pk_by_key' = [dict_pk_by_key EXCEPT ![k] = None]
      /\ dict_pk_to_keys' = [dict_pk_to_keys EXCEPT ![id] = @ \ {k}]
      /\ value_by_dict_pk' = IF gone THEN [value_by_dict_pk EXCEPT ![id] = None]
                                     ELSE value_by_dict_pk
      /\ value_to_dict_pk' = IF gone THEN [value_to_dict_pk EXCEPT ![v] = None]
                                     ELSE value_to_dict_pk
      /\ birth_cache' = IF gone THEN CachePop(birth_cache, v) ELSE birth_cache
      /\ written' = [written EXCEPT ![k] = None]
      /\ UNCHANGED <<batch, todo, pk_to_keys_batch, value_to_pk_batch>>
  BY <1>1 DEF dict_delete_kv, batchVars, PopValue
<1>3. todo = {} /\ pk_to_keys_batch = {} /\ \A w \in Value : value_to_pk_batch[w] = None
  BY <1>1 DEF IInv, BatchInv
<1>4. gone <=> \A j \in Key : dict_pk_by_key[j] = id => j = k
  BY <1>1, <1>3 DEF IsLast, IInv, DictTypeOK, KeysInv
<1>5. dict_pk_by_key[k] = id /\ value_by_dict_pk[id] = v
  OBVIOUS
<1>. HIDE DEF id, v, gone
<1>6. \A w \in Value : Birth(w)' = IF w = v /\ gone THEN None ELSE Birth(w)
  BY <1>1, <1>2, <1>3 DEF Birth, IInv, DictTypeOK
<1>7. \A w \in Value : Birth(w) \in Key \cup {None}
  BY DEF Birth, IInv, DictTypeOK
<1>8. BirthInv'
  <2>1. ASSUME NEW j \in Key, dict_pk_by_key'[j] # None
        PROVE  /\ dict_pk_by_key'[j] <= j
               /\ written'[j] # None /\ value_by_dict_pk'[dict_pk_by_key'[j]] = written'[j]
    <3>1. j # k /\ dict_pk_by_key'[j] = dict_pk_by_key[j] /\ written'[j] = written[j]
      BY <1>2, <2>1 DEF IInv, DictTypeOK
    <3>2. value_by_dict_pk'[dict_pk_by_key[j]] = value_by_dict_pk[dict_pk_by_key[j]]
      <4>1. CASE gone
        <5>1. dict_pk_by_key[j] # id
          BY <1>4, <3>1, <4>1
        <5>. QED  BY <1>2, <2>1, <3>1, <5>1, <4>1 DEF IInv, DictTypeOK
      <4>. QED  BY <1>2, <4>1
    <3>. QED  BY <2>1, <3>1, <3>2 DEF IInv, BirthInv
  <2>2. \A j \in Key : dict_pk_by_key'[j] = None => written'[j] = None
    BY <1>2 DEF IInv, DictTypeOK, BirthInv
  <2>3. ASSUME NEW i \in Key, value_by_dict_pk'[i] # None
        PROVE  \E j \in Key : dict_pk_by_key'[j] = i
    <3>1. value_by_dict_pk[i] # None /\ ~(gone /\ i = id)
      BY <1>1, <1>2, <2>3 DEF IInv, DictTypeOK
    <3>2. PICK j \in Key : dict_pk_by_key[j] = i /\ j # k
      <4>1. CASE i = id
        BY <1>4, <3>1, <4>1
      <4>2. CASE i # id
        BY <1>5, <3>1, <4>2 DEF IInv, BirthInv
      <4>. QED  BY <4>1, <4>2
    <3>3. dict_pk_by_key'[j] = i
      BY <1>2, <3>2 DEF IInv, DictTypeOK
    <3>. QED  BY <3>3
  <2>4. ASSUME NEW w \in Value, Birth(w)' # None
        PROVE  value_by_dict_pk'[Birth(w)'] = w
    <3>1. Birth(w)' = Birth(w) /\ ~(w = v /\ gone) /\ Birth(w) \in Key
      BY <1>6, <1>7, <2>4
    <3>2. value_by_dict_pk[Birth(w)] = w
      BY <3>1 DEF IInv, BirthInv
    <3>3. CASE gone
      <4>1. Birth(w) # id
        BY <1>5, <3>1, <3>2, <3>3
      <4>. QED  BY <1>1, <1>2, <3>1, <3>2, <3>3, <4>1 DEF IInv, DictTypeOK
    <3>. QED  BY <1>2, <3>1, <3>2, <3>3
  <2>. QED  BY <2>1, <2>2, <2>3, <2>4 DEF BirthInv
<1>9. CacheInv'
  <2>1. /\ CacheType(birth_cache, Key)
        /\ \A w \in Value : birth_cache.pk[w] # None => birth_cache.pk[w] = Birth(w)
    BY DEF IInv, CacheInv
  <2>2. CASE gone
    <3>1. /\ CacheType(birth_cache', Key) /\ birth_cache'.pk[v] = None
          /\ \A w \in Value : w # v => birth_cache'.pk[w] = birth_cache.pk[w]
      BY <1>1, <1>2, <2>1, <2>2, PopFacts
    <3>. QED  BY <1>6, <2>1, <2>2, <3>1 DEF CacheInv
  <2>3. CASE ~gone
    BY <1>2, <1>6, <2>1, <2>3 DEF CacheInv
  <2>. QED  BY <2>2, <2>3
<1>10. DictTypeOK'
  BY <1>1, <1>2, <1>9 DEF IInv, DictTypeOK, CacheInv, CacheType
<1>11. KeysInv'
  BY <1>1, <1>2, <1>3, <1>5 DEF IInv, DictTypeOK, KeysInv
<1>12. BatchInv'
  BY <1>1, <1>2, <1>3 DEF IInv, BatchInv, idle
<1>. QED  BY <1>8, <1>9, <1>10, <1>11, <1>12 DEF IInv

\* Every step of the table keeps the inductive invariant.
LEMMA NextIInv == IInv /\ [DictNext]_dictVars => IInv'
<1>. SUFFICES ASSUME IInv, [DictNext]_dictVars PROVE IInv'
  OBVIOUS
<1>. USE DictAssumption
<1>1. CASE NewDictTransaction
  <2>1. CacheType(EmptyCache, Key) /\ \A v \in Value : EmptyCache.pk[v] = None
    BY DEF EmptyCache, CacheType
  <2>2. birth_cache' = EmptyCache /\ UNCHANGED <<tableVars, batchVars, written>>
    BY <1>1 DEF NewDictTransaction
  <2>3. CacheInv'
    BY <2>1, <2>2 DEF CacheInv
  <2>. QED  BY <2>2, <2>3 DEF tableVars, batchVars, IInv, DictTypeOK, BirthInv, KeysInv, BatchInv,
                              CacheInv, CacheType, Birth, idle
<1>2. ASSUME NEW k \in Key, dict_delete_kv(k) PROVE IInv'
  BY <1>2, DeleteKeepsIInv
<1>3. ASSUME NEW k \in Key, NEW v \in Value, dict_insert_kv(k, v) PROVE IInv'
  BY <1>3, InsertKeepsIInv
<1>4. ASSUME NEW pairs \in [Key -> Value \cup {None}], pairs # NoBatch,
             dict_insert_many_sorted_by_key(pairs)
      PROVE  IInv'
  <2>1. /\ batch' = pairs /\ todo' = {k \in Key : pairs[k] # None}
        /\ \A k \in todo' : Fresh(k)
        /\ UNCHANGED <<dict_pk_to_keys, value_by_dict_pk, value_to_dict_pk, dict_pk_by_key,
                       birth_cache, pk_to_keys_batch, value_to_pk_batch, written>>
    BY <1>4 DEF dict_insert_many_sorted_by_key, tableVars
  <2>2. DictTypeOK'
    BY <2>1 DEF IInv, DictTypeOK
  <2>3. BirthInv' /\ KeysInv' /\ CacheInv'
    BY <2>1 DEF IInv, BirthInv, KeysInv, CacheInv, Birth
  <2>4. BatchInv'
    BY <1>4, <2>1 DEF IInv, BatchInv, idle, Fresh
  <2>. QED  BY <2>2, <2>3, <2>4 DEF IInv
<1>5. CASE InsertDictPair
  BY <1>5, PairKeepsIInv
<1>6. CASE InsertDeferred
  BY <1>6, DeferredKeepsIInv
<1>7. CASE UNCHANGED dictVars
  BY <1>7 DEF dictVars, tableVars, batchVars, IInv, DictTypeOK, BirthInv, KeysInv, BatchInv, CacheInv,
              Birth, idle
<1>. QED  BY <1>1, <1>2, <1>3, <1>4, <1>5, <1>6, <1>7 DEF DictNext

\* The inductive invariant holds after any sequence of operations.
LEMMA SpecIInv == DictSpec => []IInv
BY InitIInv, NextIInv, PTL DEF DictSpec

\* The tables, the cache and a running batch keep their types
\* (table_dict_write.rs).
THEOREM TypeCorrect == DictSpec => []DictTypeOK
<1>1. IInv => DictTypeOK
  BY DEF IInv
<1>. QED  BY SpecIInv, <1>1, PTL

\* Through the birth ids every key reads back the value last written under it,
\* for every cache capacity and every batch (table_dict_read.rs, get_value).
THEOREM ValuesReadBack == DictSpec => []ReadsBack
<1>1. IInv => ReadsBack
  BY DEF IInv, BirthInv, ReadsBack, dict_value
<1>. QED  BY SpecIInv, <1>1, PTL

\* Between operations a cached birth id is the one the table has, whatever was
\* evicted, deleted and stored again (table_dict_write.rs, delete_kv).
THEOREM CacheAgrees == DictSpec => []CacheCoherent
<1>1. IInv => CacheCoherent
  BY DEF IInv, BatchInv, CacheInv, CacheCoherent, Birth
<1>. QED  BY SpecIInv, <1>1, PTL

\* Between operations a birth id leads to exactly the keys that point to it, and the
\* id a value is found under has that value, for every cache capacity and every
\* batch (table_dict_write.rs, Run 1, Run 2 and delete_kv; table_dict_read.rs,
\* dict_keys).
THEOREM BirthsLeadToKeys == DictSpec => []BirthKeysExact
<1>1. IInv => BirthKeysExact
  <2>. SUFFICES ASSUME IInv, idle PROVE
           /\ \A id \in Key : dict_pk_to_keys[id] = {k \in Key : dict_pk_by_key[k] = id}
           /\ \A v \in Value : \A k \in dict_keys(v) : dict_value(k) = v
    BY DEF BirthKeysExact
  <2>. USE DictAssumption
  <2>1. /\ \A v \in Value : value_to_dict_pk[v] = Birth(v)
        /\ \A id, j \in Key : dict_pk_by_key[j] = id <=> j \in dict_pk_to_keys[id]
    BY DEF Birth, IInv, BatchInv, KeysInv
  <2>2. \A id \in Key : dict_pk_to_keys[id] = {k \in Key : dict_pk_by_key[k] = id}
    <3>1. ASSUME NEW id \in Key, NEW k \in dict_pk_to_keys[id] PROVE k \in Key
      BY DEF IInv, DictTypeOK
    <3>2. ASSUME NEW id \in Key PROVE dict_pk_to_keys[id] = {k \in Key : dict_pk_by_key[k] = id}
      BY <2>1, <3>1
    <3>. QED  BY <3>2
  <2>3. ASSUME NEW v \in Value, NEW k \in dict_keys(v) PROVE dict_value(k) = v
    <3>1. value_to_dict_pk[v] # None /\ k \in dict_pk_to_keys[value_to_dict_pk[v]]
      BY DEF dict_keys
    <3>2. PICK id : id = value_to_dict_pk[v]
      OBVIOUS
    <3>3. id \in Key /\ k \in dict_pk_to_keys[id] /\ id = Birth(v)
      BY <2>1, <3>1, <3>2 DEF IInv, DictTypeOK
    <3>4. k \in Key /\ dict_pk_by_key[k] = id
      BY <2>2, <3>3
    <3>. QED  BY <3>3, <3>4 DEF dict_value, IInv, BirthInv
  <2>. QED  BY <2>2, <2>3
<1>. QED  BY SpecIInv, <1>1, PTL

-----------------------------------------------------------------------------
(***************************************************************************)
(* The index table                                                         *)
(***************************************************************************)

\* The reverse rows are those of the keys outside the running batch, Run 1 has
\* written the batch's keys it has passed and none of the others.
IndexBatchInv ==
  /\ \A v \in Value : pk_by_index[v] = {k \in Key : batch[k] = None /\ index_by_pk[k] = v}
  /\ \A k \in Key : batch[k] # None => index_by_pk[k] = (IF k \in todo THEN None ELSE batch[k])

\* A cached key has the value it is cached for.
IndexCacheInv ==
  /\ cache = [pk |-> cache.pk, recent |-> cache.recent]
  /\ \A v \in Value : cache.pk[v] # None => index_by_pk[cache.pk[v]] = v

IndexIInv == TypeOK /\ IndexBatchInv /\ IndexCacheInv

\* An empty table satisfies the inductive invariant.
LEMMA IndexInitIInv == Init => IndexIInv
BY IndexAssumption DEF Init, NoBatch, EmptyCache, IndexIInv, TypeOK, IndexBatchInv, IndexCacheInv

\* insert_kv writes a row and its reverse and caches the new pair.
LEMMA IndexInsertKeepsIInv ==
  ASSUME IndexIInv, NEW k \in Key, NEW v \in Value, insert_kv(k, v)
  PROVE  IndexIInv'
<1>. USE IndexAssumption
<1>1. CacheType(cache, Key)
  BY DEF IndexIInv, TypeOK, IndexCacheInv, CacheType
<1>2. /\ CacheType(cache', Key)
      /\ \A w \in Value : cache'.pk[w] \in {None, cache.pk[w]} \/ (w = v /\ cache'.pk[w] = k)
  BY <1>1, PutFacts DEF insert_kv
<1>3. TypeOK'
  BY <1>2 DEF IndexIInv, TypeOK, insert_kv, CacheType
<1>4. batch = NoBatch /\ batch' = NoBatch
  BY DEF insert_kv, idle
<1>5. IndexBatchInv'
  BY <1>4 DEF IndexIInv, TypeOK, IndexBatchInv, insert_kv, NoBatch
<1>6. IndexCacheInv'
  BY <1>2 DEF IndexIInv, TypeOK, IndexCacheInv, CacheType, insert_kv
<1>. QED  BY <1>3, <1>5, <1>6 DEF IndexIInv

\* One pair of Run 1 writes the row and the cache entry, not the reverse row.
LEMMA IndexPairKeepsIInv ==
  ASSUME IndexIInv, InsertPair
  PROVE  IndexIInv'
<1>. USE IndexAssumption
<1>. DEFINE k == Min(todo)
            v == batch[k]
<1>1. k \in todo /\ k \in Key /\ v \in Value
  BY MinInSet DEF IndexIInv, TypeOK, InsertPair
<1>2. CacheType(cache, Key)
  BY DEF IndexIInv, TypeOK, IndexCacheInv, CacheType
<1>3. /\ index_by_pk' = [index_by_pk EXCEPT ![k] = v]
      /\ cache' = CachePut(cache, v, k)
      /\ todo' = todo \ {k}
      /\ UNCHANGED <<pk_by_index, batch>>
  BY DEF InsertPair
<1>. HIDE DEF k, v
<1>4. /\ CacheType(cache', Key)
      /\ \A w \in Value : cache'.pk[w] \in {None, cache.pk[w]} \/ (w = v /\ cache'.pk[w] = k)
  BY <1>1, <1>2, <1>3, PutFacts
<1>5. batch[k] = v /\ batch[k] # None /\ index_by_pk[k] = None
  BY <1>1 DEF v, IndexIInv, TypeOK, IndexBatchInv
<1>6. TypeOK'
  BY <1>1, <1>3, <1>4 DEF IndexIInv, TypeOK, CacheType
<1>7. IndexBatchInv'
  BY <1>1, <1>3, <1>5 DEF IndexIInv, TypeOK, IndexBatchInv
<1>8. IndexCacheInv'
  BY <1>1, <1>3, <1>4, <1>5 DEF IndexIInv, TypeOK, IndexCacheInv, CacheType
<1>. QED  BY <1>6, <1>7, <1>8 DEF IndexIInv

\* Run 2 adds the reverse rows of the whole batch.
LEMMA IndexReverseKeepsIInv ==
  ASSUME IndexIInv, InsertReverse
  PROVE  IndexIInv'
<1>1. TypeOK'
  BY DEF IndexIInv, TypeOK, InsertReverse, NoBatch
<1>2. IndexBatchInv'
  BY IndexAssumption DEF IndexIInv, TypeOK, IndexBatchInv, InsertReverse, NoBatch
<1>3. IndexCacheInv'
  BY DEF IndexIInv, IndexCacheInv, InsertReverse
<1>. QED  BY <1>1, <1>2, <1>3 DEF IndexIInv

\* delete_kv takes the row, its reverse and the cache entry of its value.
LEMMA IndexDeleteKeepsIInv ==
  ASSUME IndexIInv, NEW k \in Key, delete_kv(k)
  PROVE  IndexIInv'
<1>. USE IndexAssumption
<1>. DEFINE v == index_by_pk[k]
<1>1. v \in Value /\ batch = NoBatch /\ batch' = NoBatch
  BY DEF IndexIInv, TypeOK, delete_kv, idle
<1>2. k \in pk_by_index[v]
  BY <1>1 DEF IndexIInv, IndexBatchInv, NoBatch
<1>3. CacheType(cache, Key)
  BY DEF IndexIInv, TypeOK, IndexCacheInv, CacheType
<1>4. /\ index_by_pk' = [index_by_pk EXCEPT ![k] = None]
      /\ pk_by_index' = [pk_by_index EXCEPT ![v] = @ \ {k}]
      /\ cache' = CachePop(cache, v)
      /\ UNCHANGED <<batch, todo>>
  BY <1>2 DEF delete_kv
<1>. HIDE DEF v
<1>5. /\ CacheType(cache', Key)
      /\ cache'.pk[v] = None
      /\ \A w \in Value : w # v => cache'.pk[w] = cache.pk[w]
  BY <1>1, <1>3, <1>4, PopFacts
<1>6. TypeOK'
  BY <1>1, <1>4, <1>5 DEF IndexIInv, TypeOK, CacheType
<1>7. IndexBatchInv'
  BY <1>1, <1>4 DEF v, IndexIInv, TypeOK, IndexBatchInv, NoBatch
<1>8. IndexCacheInv'
  BY <1>1, <1>4, <1>5 DEF v, IndexIInv, TypeOK, IndexCacheInv, CacheType
<1>. QED  BY <1>6, <1>7, <1>8 DEF IndexIInv

\* Every step of the table keeps the inductive invariant.
LEMMA IndexNextIInv == IndexIInv /\ [Next]_vars => IndexIInv'
<1>. SUFFICES ASSUME IndexIInv, [Next]_vars PROVE IndexIInv'
  OBVIOUS
<1>. USE IndexAssumption
<1>1. CASE NewTransaction
  BY <1>1 DEF NewTransaction, EmptyCache, IndexIInv, TypeOK, IndexBatchInv, IndexCacheInv
<1>2. ASSUME NEW k \in Key, delete_kv(k) PROVE IndexIInv'
  BY <1>2, IndexDeleteKeepsIInv
<1>3. ASSUME NEW k \in Key, NEW v \in Value, insert_kv(k, v) PROVE IndexIInv'
  BY <1>3, IndexInsertKeepsIInv
<1>4. ASSUME NEW pairs \in [Key -> Value \cup {None}], insert_many_sorted_by_key(pairs)
      PROVE  IndexIInv'
  <2>1. TypeOK' /\ IndexCacheInv'
    BY <1>4 DEF insert_many_sorted_by_key, IndexIInv, TypeOK, IndexCacheInv
  <2>2. IndexBatchInv'
    BY <1>4 DEF insert_many_sorted_by_key, idle, NoBatch, IndexIInv, TypeOK, IndexBatchInv
  <2>. QED  BY <2>1, <2>2 DEF IndexIInv
<1>5. CASE InsertPair
  BY <1>5, IndexPairKeepsIInv
<1>6. CASE InsertReverse
  BY <1>6, IndexReverseKeepsIInv
<1>7. ASSUME NEW v \in Value, get_any_for_index(v) PROVE IndexIInv'
  <2>1. CacheType(cache, Key)
    BY DEF IndexIInv, TypeOK, IndexCacheInv, CacheType
  <2>2. CacheType(cache', Key) /\ cache'.pk = cache.pk
    BY <1>7, <2>1, GetFacts DEF get_any_for_index
  <2>. QED  BY <1>7, <2>2 DEF get_any_for_index, CacheType, IndexIInv, TypeOK, IndexBatchInv, IndexCacheInv
<1>8. CASE UNCHANGED vars
  BY <1>8 DEF vars, IndexIInv, TypeOK, IndexBatchInv, IndexCacheInv
<1>. QED  BY <1>1, <1>2, <1>3, <1>4, <1>5, <1>6, <1>7, <1>8 DEF Next

\* The inductive invariant holds after any sequence of operations.
LEMMA IndexSpecIInv == Spec => []IndexIInv
BY IndexInitIInv, IndexNextIInv, PTL DEF Spec

\* The tables, the cache and a running batch keep their types
\* (table_index_write.rs).
THEOREM IndexTypeCorrect == Spec => []TypeOK
<1>1. IndexIInv => TypeOK
  BY DEF IndexIInv
<1>. QED  BY IndexSpecIInv, <1>1, PTL

\* Between operations index_keys returns exactly the keys whose get_value is
\* the value asked for (table_index_read.rs).
THEOREM DirectionsInverse == Spec => []IndexInverse
<1>1. IndexIInv => IndexInverse
  BY DEF IndexIInv, IndexBatchInv, IndexInverse, idle, NoBatch, index_keys, get_value
<1>. QED  BY IndexSpecIInv, <1>1, PTL

\* get_any_for_index gives a key that has the value, and None only when there
\* is none, whatever the cache holds or has evicted (table_index_write.rs).
THEOREM AnyCorrect == Spec => []AnyIsAKey
<1>1. ASSUME IndexIInv, idle, NEW v \in Value
      PROVE  IF AnyForIndex(v) = None THEN index_keys(v) = {} ELSE AnyForIndex(v) \in index_keys(v)
  <2>1. pk_by_index[v] = {k \in Key : index_by_pk[k] = v}
    BY <1>1 DEF IndexIInv, IndexBatchInv, idle, NoBatch
  <2>2. CASE cache.pk[v] # None
    BY <1>1, <2>1, <2>2 DEF IndexIInv, TypeOK, IndexCacheInv, AnyForIndex, index_keys
  <2>3. CASE cache.pk[v] = None /\ pk_by_index[v] = {}
    BY <2>3 DEF AnyForIndex, index_keys
  <2>4. CASE cache.pk[v] = None /\ pk_by_index[v] # {}
    <3>1. Min(pk_by_index[v]) \in pk_by_index[v] /\ pk_by_index[v] \subseteq Key
      <4>1. pk_by_index[v] \in SUBSET Key /\ Key \subseteq Nat
        BY <2>1, IndexAssumption
      <4>. QED  BY <2>4, <4>1, MinInSet
    <3>. QED  BY <2>4, <3>1, IndexAssumption DEF AnyForIndex, index_keys
  <2>. QED  BY <2>2, <2>3, <2>4
<1>2. IndexIInv => AnyIsAKey
  BY <1>1 DEF AnyIsAKey
<1>. QED  BY IndexSpecIInv, <1>2, PTL
=============================================================================
