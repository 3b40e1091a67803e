------------------------- MODULE SqliteStore_proofs -------------------------
(***************************************************************************)
(* Theorems about SqliteStore, for every set of connections, objects,      *)
(* scopes and requests, and every bound on the data revision.              *)
(***************************************************************************)
EXTENDS SqliteStoreAtomicity, FiniteSetTheorems, TLAPS

-----------------------------------------------------------------------------
(* What the helpers return. *)

LEMMA InsertTable ==
    ASSUME NEW f \in Tables, NEW g \in Tables
    PROVE  Insert(f, g) \in Tables
<1> DEFINE ids == DOMAIN f \cup DOMAIN g
<1>1. ids \in SUBSET ObjectIds
  BY DEF Tables, PartialFunctions
<1>2. /\ \A id \in DOMAIN f : f[id] \in Objects
      /\ \A id \in DOMAIN g : g[id] \in Objects
  BY DEF Tables, PartialFunctions
<1>3. Insert(f, g) \in [ids -> Objects]
  BY <1>2 DEF Insert
<1>4. QED
  BY <1>1, <1>3 DEF Tables, PartialFunctions

LEMMA RowsTable ==
    ASSUME NEW t \in Tables, NEW ids \in SUBSET DOMAIN t
    PROVE  Rows(ids, t) \in Tables
BY DEF Rows, Tables, PartialFunctions

LEMMA NoRowsTable == NoRows \in Tables /\ NoRows \in PartialFunctions(Scopes,
                        [complete : BOOLEAN, revision : Revisions])
<1>1. NoRows \in [{} -> Objects] /\ NoRows \in [{} -> [complete : BOOLEAN, revision : Revisions]]
  BY DEF NoRows
<1>2. QED BY <1>1 DEF Tables, PartialFunctions

LEMMA EntriesTable ==
    ASSUME NEW batch \in Batches
    PROVE  normalizeEntries(batch) \in Tables
<1> DEFINE ids == {e.id : e \in batch}
           chosen(id) == CHOOSE e \in batch : e.id = id
<1>1. batch \subseteq [id : ObjectIds, object : Objects]
  BY BatchesAreEntries
<1>2. \A id \in ids : chosen(id) \in batch
  OBVIOUS
<1>3. \A id \in ids : chosen(id).object \in Objects
  BY <1>1, <1>2
<1>4. ids \in SUBSET ObjectIds
  BY <1>1
<1>5. normalizeEntries(batch) \in [ids -> Objects]
  BY <1>3 DEF normalizeEntries
<1>6. QED
  BY <1>4, <1>5 DEF Tables, PartialFunctions

LEMMA CoverageTable ==
    ASSUME NEW declarations \in Declarations, NEW r \in Revisions
    PROVE  normalizeCoverage(declarations, r) \in
              PartialFunctions(Scopes, [complete : BOOLEAN, revision : Revisions])
<1> DEFINE scopes == {d.scope : d \in declarations}
<1>1. scopes \in SUBSET Scopes
  BY DeclarationsAreScoped
<1>2. normalizeCoverage(declarations, r) \in [scopes -> [complete : BOOLEAN, revision : Revisions]]
  BY DEF normalizeCoverage
<1>3. QED
  BY <1>1, <1>2 DEF PartialFunctions

(* What a page wants is a finite set of numbers.                            *)
LEMMA WantedTyped ==
    ASSUME NEW v \in Versions, NEW scope, NEW after
    PROVE  /\ {id \in Selected(scope, v.objects) : id > after} \in SUBSET Nat
           /\ IsFiniteSet({id \in Selected(scope, v.objects) : id > after})
<1>1. DOMAIN v.objects \subseteq ObjectIds
  BY DEF Versions, Tables, PartialFunctions
<1>2. {id \in Selected(scope, v.objects) : id > after} \in SUBSET ObjectIds
  BY <1>1 DEF Selected
<1>3. QED
  BY <1>2, ObjectIdsAreOrdered, FS_Subset

LEMMA IdsReadAreStored ==
    ASSUME NEW r, NEW chunk, NEW t
    PROVE  IdsRead(r, chunk, t) \subseteq DOMAIN t
BY DEF IdsRead, PageIds, FirstIds, Selected

LEMMA NextRevision ==
    ASSUME NEW n \in Revisions, n < MaxRevision
    PROVE  n + 1 \in Revisions /\ n \in Nat /\ MaxRevision \in Nat
BY BoundsAreCounts DEF Revisions

-----------------------------------------------------------------------------
(* ORDER BY object_id LIMIT n: the first ids of a set are those with fewer  *)
(* than n before them.                                                      *)

IdsBefore(ids, i) == {j \in ids : j < i}

\* A bounded set of numbers, if it has one, has a largest ...
LEMMA LargestExists ==
    ASSUME NEW bound \in Nat, NEW S \in SUBSET (0 .. bound), S # {}
    PROVE  \E x \in S : \A y \in S : y <= x
<1> DEFINE less == {pair \in Nat \X Nat : pair[1] < pair[2]}
           distances == {bound - x : x \in S}
<1>1. IsWellFoundedOn(less, Nat)
  BY NatLessThanWellFounded DEF OpToRel
<1>2. distances \subseteq Nat /\ distances # {}
  <2>1. \A x \in S : bound - x \in Nat
    OBVIOUS
  <2>2. PICK x \in S : TRUE
    OBVIOUS
  <2>3. bound - x \in distances
    BY <2>2
  <2>4. QED BY <2>1, <2>3
<1> HIDE DEF less, distances
<1>3. PICK d \in distances : \A e \in distances : <<e, d>> \notin less
  BY <1>1, <1>2, WFMin
<1>4. PICK x \in S : d = bound - x
  BY DEF distances
<1>5. ASSUME NEW y \in S PROVE y <= x
  <2>1. bound - y \in distances /\ <<bound - y, d>> \notin less
    BY <1>3 DEF distances
  <2>2. ~(bound - y < bound - x)
    BY <1>2, <1>4, <2>1 DEF less, distances
  <2>3. QED BY <2>2
<1>6. QED BY <1>5

\* ... and any set of them has a smallest.
LEMMA SmallestExists ==
    ASSUME NEW S \in SUBSET Nat, S # {}
    PROVE  \E x \in S : \A y \in S : x <= y
<1> DEFINE less == {pair \in Nat \X Nat : pair[1] < pair[2]}
<1>1. IsWellFoundedOn(less, Nat)
  BY NatLessThanWellFounded DEF OpToRel
<1>2. \A i, j \in Nat : <<i, j>> \in less <=> i < j
  OBVIOUS
<1> HIDE DEF less
<1>3. PICK x \in S : \A y \in S : <<y, x>> \notin less
  BY <1>1, WFMin
<1>4. \A y \in S : ~(y < x)
  BY <1>2, <1>3
<1>5. QED BY <1>4

LEMMA RankTyped ==
    ASSUME NEW W \in SUBSET Nat, IsFiniteSet(W), NEW i \in Nat
    PROVE  IsFiniteSet(IdsBefore(W, i)) /\ Cardinality(IdsBefore(W, i)) \in Nat
<1>1. IdsBefore(W, i) \in SUBSET W
  BY DEF IdsBefore
<1>2. IsFiniteSet(IdsBefore(W, i))
  BY <1>1, FS_Subset
<1>3. QED
  BY <1>2, FS_CardinalityType

\* A later id has more ids before it.
LEMMA RankGrows ==
    ASSUME NEW W \in SUBSET Nat, IsFiniteSet(W), NEW j \in W, NEW i \in Nat, j < i
    PROVE  Cardinality(IdsBefore(W, j)) + 1 <= Cardinality(IdsBefore(W, i))
<1> DEFINE before == IdsBefore(W, j)
<1>1. IsFiniteSet(before) /\ Cardinality(before) \in Nat
  BY RankTyped
<1>2. j \notin before
  BY DEF IdsBefore
<1>3. IsFiniteSet(before \cup {j}) /\ Cardinality(before \cup {j}) = Cardinality(before) + 1
  BY <1>1, <1>2, FS_AddElement
<1>4. before \cup {j} \in SUBSET IdsBefore(W, i)
  <2>1. \A k \in W : k < j => k < i
    OBVIOUS
  <2>2. QED
    BY <2>1 DEF IdsBefore
<1>5. IsFiniteSet(IdsBefore(W, i))
  BY RankTyped
<1>6. QED
  BY <1>3, <1>4, <1>5, FS_Subset

\* What is missing from the first n ids comes after them.
LEMMA FirstIdsComeFirst ==
    ASSUME NEW W \in SUBSET Nat, IsFiniteSet(W), NEW n \in Nat
    PROVE  \A i \in FirstIds(W, n), j \in W : j < i => j \in FirstIds(W, n)
<1> SUFFICES ASSUME NEW i \in FirstIds(W, n), NEW j \in W, j < i
             PROVE  j \in FirstIds(W, n)
  OBVIOUS
<1>1. i \in W /\ Cardinality(IdsBefore(W, i)) < n
  BY DEF FirstIds, IdsBefore
<1>2. Cardinality(IdsBefore(W, j)) + 1 <= Cardinality(IdsBefore(W, i))
  BY <1>1, RankGrows
<1>3. Cardinality(IdsBefore(W, i)) \in Nat /\ Cardinality(IdsBefore(W, j)) \in Nat
  BY <1>1, RankTyped
<1>4. Cardinality(IdsBefore(W, j)) < n
  BY <1>1, <1>2, <1>3
<1>5. QED
  BY <1>4 DEF FirstIds, IdsBefore

\* If a finite set has more than n ids, one of them has exactly n before it.
LEMMA SomeIdIsNext ==
    ASSUME NEW W \in SUBSET Nat, IsFiniteSet(W), NEW n \in Nat, FirstIds(W, n) # W
    PROVE  \E i \in W : Cardinality(IdsBefore(W, i)) = n
<1> DEFINE rest == W \ FirstIds(W, n)
<1>1. rest \in SUBSET Nat /\ rest # {}
  BY DEF FirstIds
<1>2. PICK i \in rest : \A j \in rest : i <= j
  BY <1>1, SmallestExists
<1>3. i \in W /\ i \in Nat /\ ~(Cardinality(IdsBefore(W, i)) < n)
  BY <1>2 DEF FirstIds, IdsBefore
<1> DEFINE S == IdsBefore(W, i)
<1>4. IsFiniteSet(S) /\ Cardinality(S) \in Nat
  BY <1>3, RankTyped
<1>5. CASE S = {}
  <2>1. Cardinality(S) = 0
    BY <1>5, FS_EmptySet
  <2>2. QED
    BY <1>3, <2>1
<1>6. CASE S # {}
  <2>1. S \in SUBSET (0 .. i)
    <3>1. \A y \in W : y < i => y \in 0 .. i
      BY <1>3
    <3>2. QED
      BY <3>1 DEF IdsBefore
  <2>2. PICK m \in S : \A y \in S : y <= m
    BY <1>3, <1>6, <2>1, LargestExists
  <2>3. m \in W /\ m \in Nat /\ m < i
    BY <2>2 DEF IdsBefore
  <2>4. m \in FirstIds(W, n)
    BY <1>2, <1>3, <2>3
  <2>5. Cardinality(IdsBefore(W, m)) < n
    BY <2>4 DEF FirstIds, IdsBefore
  <2>6. S = IdsBefore(W, m) \cup {m}
    <3>1. \A y \in W : y < i => y <= m
      BY <2>2 DEF IdsBefore
    <3>2. \A y \in W : y < i <=> y < m \/ y = m
      BY <1>3, <2>3, <3>1
    <3>3. QED
      BY <2>3, <3>2 DEF IdsBefore
  <2>7. m \notin IdsBefore(W, m)
    BY DEF IdsBefore
  <2>8. IsFiniteSet(IdsBefore(W, m)) /\ Cardinality(IdsBefore(W, m)) \in Nat
    BY <2>3, RankTyped
  <2>9. Cardinality(S) = Cardinality(IdsBefore(W, m)) + 1
    BY <2>6, <2>7, <2>8, FS_AddElement
  <2>10. QED
    BY <1>3, <1>4, <2>5, <2>8, <2>9
<1>7. QED BY <1>5, <1>6

\* The ids before the next one are the first n, and there are n of them.
LEMMA NextIdFollowsFirst ==
    ASSUME NEW W \in SUBSET Nat, IsFiniteSet(W), NEW n \in Nat,
           NEW i \in W, Cardinality(IdsBefore(W, i)) = n
    PROVE  FirstIds(W, n) = IdsBefore(W, i) /\ i \notin FirstIds(W, n)
<1>1. \A j \in W : j < i => Cardinality(IdsBefore(W, j)) < n
  <2> SUFFICES ASSUME NEW j \in W, j < i PROVE Cardinality(IdsBefore(W, j)) < n
    OBVIOUS
  <2>1. Cardinality(IdsBefore(W, j)) + 1 <= Cardinality(IdsBefore(W, i))
    BY RankGrows
  <2>2. Cardinality(IdsBefore(W, j)) \in Nat
    BY RankTyped
  <2>3. QED BY <2>1, <2>2
<1>2. \A j \in W : i < j => ~(Cardinality(IdsBefore(W, j)) < n)
  <2> SUFFICES ASSUME NEW j \in W, i < j PROVE ~(Cardinality(IdsBefore(W, j)) < n)
    OBVIOUS
  <2>1. Cardinality(IdsBefore(W, i)) + 1 <= Cardinality(IdsBefore(W, j))
    BY RankGrows
  <2>2. Cardinality(IdsBefore(W, j)) \in Nat
    BY RankTyped
  <2>3. QED BY <2>1, <2>2
<1>3. \A j \in W : Cardinality(IdsBefore(W, j)) < n <=> j < i
  <2> SUFFICES ASSUME NEW j \in W PROVE Cardinality(IdsBefore(W, j)) < n <=> j < i
    OBVIOUS
  <2>1. j < i \/ j = i \/ i < j
    OBVIOUS
  <2>2. ~(n < n)
    OBVIOUS
  <2>3. QED
    BY <1>1, <1>2, <2>1, <2>2
<1>4. FirstIds(W, n) = {j \in W : Cardinality(IdsBefore(W, j)) < n}
  BY DEF FirstIds, IdsBefore
<1>5. FirstIds(W, n) = IdsBefore(W, i)
  BY <1>3, <1>4 DEF IdsBefore
<1>6. QED
  BY <1>5 DEF IdsBefore

\* A limit is kept, and met when ids are left.
LEMMA FirstIdsCount ==
    ASSUME NEW W \in SUBSET Nat, IsFiniteSet(W), NEW n \in Nat
    PROVE  /\ Cardinality(FirstIds(W, n)) <= n
           /\ FirstIds(W, n) # W => Cardinality(FirstIds(W, n)) = n
<1>1. CASE FirstIds(W, n) # W
  <2>1. PICK i \in W : Cardinality(IdsBefore(W, i)) = n
    BY <1>1, SomeIdIsNext
  <2>2. QED
    BY <2>1, NextIdFollowsFirst
<1>2. CASE FirstIds(W, n) = W /\ W = {}
  BY <1>2, FS_EmptySet
<1>3. CASE FirstIds(W, n) = W /\ W # {}
  <2> DEFINE ranks == {Cardinality(IdsBefore(W, i)) : i \in W}
  <2>1. Cardinality(W) \in Nat /\ ranks \in SUBSET (0 .. Cardinality(W)) /\ ranks # {}
    <3>1. Cardinality(W) \in Nat
      BY FS_CardinalityType
    <3>2. ASSUME NEW i \in W PROVE Cardinality(IdsBefore(W, i)) \in 0 .. Cardinality(W)
      <4>1. IdsBefore(W, i) \in SUBSET W
        BY DEF IdsBefore
      <4>2. Cardinality(IdsBefore(W, i)) <= Cardinality(W)
        BY <4>1, FS_Subset
      <4>3. QED
        BY <3>1, <4>2, RankTyped
    <3>3. QED
      BY <1>3, <3>1, <3>2
  <2>2. PICK k \in ranks : \A l \in ranks : l <= k
    BY <2>1, LargestExists
  <2>3. PICK m \in W : k = Cardinality(IdsBefore(W, m))
    BY <2>2
  <2> HIDE DEF ranks
  <2>4. ASSUME NEW y \in W, y # m PROVE y < m
    <3>1. CASE m < y
      <4>1. Cardinality(IdsBefore(W, m)) + 1 <= Cardinality(IdsBefore(W, y))
        BY <3>1, RankGrows
      <4>2. Cardinality(IdsBefore(W, y)) <= Cardinality(IdsBefore(W, m))
        BY <2>2, <2>3 DEF ranks
      <4>3. QED
        BY <4>1, <4>2, RankTyped
    <3>2. QED
      BY <2>4, <3>1
  <2>5. W = IdsBefore(W, m) \cup {m} /\ m \notin IdsBefore(W, m)
    <3>1. ~(m < m)
      OBVIOUS
    <3>2. \A y \in W : y < m \/ y = m
      BY <2>4
    <3>3. QED
      BY <3>1, <3>2 DEF IdsBefore
  <2>6. IsFiniteSet(IdsBefore(W, m)) /\ Cardinality(IdsBefore(W, m)) \in Nat
    BY RankTyped
  <2>7. Cardinality(W) = Cardinality(IdsBefore(W, m)) + 1
    BY <2>5, <2>6, FS_AddElement
  <2>8. Cardinality(IdsBefore(W, m)) < n
    BY <1>3 DEF FirstIds, IdsBefore
  <2>9. QED
    BY <1>3, <2>6, <2>7, <2>8
<1>4. QED BY <1>1, <1>2, <1>3

\* The rows a page fetches are one more than its limit; cutting that witness row
\* off leaves the page, and it was there exactly when the page left some.
LEMMA WitnessRowIsCut ==
    ASSUME NEW W \in SUBSET Nat, IsFiniteSet(W), NEW n \in Nat
    PROVE  /\ FirstIds(FirstIds(W, n + 1), n) = FirstIds(W, n)
           /\ FirstIds(W, n) # FirstIds(W, n + 1) <=> FirstIds(W, n) # W
<1> DEFINE F == FirstIds(W, n + 1)
<1>1. F \in SUBSET W
  BY DEF FirstIds
<1>2. \A i \in W : Cardinality(IdsBefore(W, i)) \in Nat
  BY RankTyped
<1>3. \A i \in F : IdsBefore(F, i) = IdsBefore(W, i)
  <2>1. n + 1 \in Nat
    OBVIOUS
  <2>2. \A i \in F, j \in W : j < i => j \in F
    BY <2>1, FirstIdsComeFirst
  <2> HIDE DEF F
  <2>3. QED
    BY <1>1, <2>2 DEF IdsBefore
<1>4. /\ F = {i \in W : Cardinality(IdsBefore(W, i)) < n + 1}
      /\ FirstIds(W, n) = {i \in W : Cardinality(IdsBefore(W, i)) < n}
      /\ FirstIds(F, n) = {i \in F : Cardinality(IdsBefore(F, i)) < n}
  BY DEF FirstIds, IdsBefore
<1> HIDE DEF F
<1>5. \A i \in W : Cardinality(IdsBefore(W, i)) < n => i \in F
  BY <1>2, <1>4
<1>6. FirstIds(F, n) = FirstIds(W, n)
  BY <1>1, <1>3, <1>4, <1>5
<1>7. ASSUME FirstIds(W, n) # W PROVE FirstIds(W, n) # F
  <2>1. PICK i \in W : Cardinality(IdsBefore(W, i)) = n
    BY <1>7, SomeIdIsNext
  <2>2. i \in F
    BY <1>4, <2>1
  <2>3. i \notin FirstIds(W, n)
    BY <1>4, <2>1
  <2>4. QED BY <2>2, <2>3
<1>8. ASSUME FirstIds(W, n) = W PROVE FirstIds(W, n) = F
  BY <1>1, <1>4, <1>5, <1>8
<1>9. QED
  BY <1>6, <1>7, <1>8 DEF F

-----------------------------------------------------------------------------
(* Type correctness.  A call in progress is at a statement of its kind:     *)
(* what UpsertCoverage writes depends on that.                              *)

CallsAreAtTheirStatements ==
    \A c \in Conns :
        /\ pc[c] = "upsert" => call[c] \in SetCoverages
        /\ pc[c] \in {"objects", "coverage", "count"} => call[c] \in Reads

TypeInv == TypeOK /\ CallsAreAtTheirStatements

(* A page request in progress is one of PageRequests.                       *)
LEMMA RequestTyped ==
    ASSUME TypeInv, NEW c \in Conns, call[c].op = "page" 
    PROVE  call[c] \in Pages /\ call[c].page.limit \in Nat
<1>1. call[c] \in Reads \cup SetCoverages \cup {NoCall}
  BY DEF TypeInv, TypeOK, CallsTyped
<1>2. call[c] \in Pages
  BY <1>1 DEF Reads, Finds, Pages, Export, Verify, SetCoverages, NoCall
<1>3. QED
  BY <1>2, PageRequestsAreValid DEF Pages

(* Whatever the answer, a call that returns leaves its connection idle.     *)
LEMMA ReturnTyped ==
    ASSUME TypeInv, NEW c \in Conns, NEW answer, Return(c, answer),
           db'.revision \in Nat, db.revision <= db'.revision
    PROVE  CallsTyped' /\ CallsAreAtTheirStatements'
<1>1. db.revision \in Nat
  BY BoundsAreCounts DEF TypeInv, TypeOK, DatabaseTyped, Versions, Revisions
<1>2. Nothing \in [label : Labels \cup {None}, revision : 0 .. db'.revision,
                  objects : Tables, rest : SUBSET Nat]
  BY NoRowsTable DEF Nothing
<1>3. seen \in [Conns -> [label : Labels \cup {None}, revision : 0 .. db'.revision,
                         objects : Tables, rest : SUBSET Nat]]
  <2>1. 0 .. db.revision \subseteq 0 .. db'.revision
    BY <1>1
  <2>2. QED
    BY <2>1 DEF TypeInv, TypeOK, CallsTyped
<1>4. /\ pc' \in [Conns -> {"idle", "upsert", "objects", "coverage", "count"}]
      /\ call' \in [Conns -> Reads \cup SetCoverages \cup {NoCall}]
      /\ view' \in [Conns -> Versions \cup {NoView}]
  BY DEF TypeInv, TypeOK, CallsTyped, Return
<1>5. seen' \in [Conns -> [label : Labels \cup {None}, revision : 0 .. db'.revision,
                          objects : Tables, rest : SUBSET Nat]]
  BY <1>2, <1>3 DEF Return
<1>6. CallsAreAtTheirStatements'
  BY DEF TypeInv, TypeOK, CallsTyped, CallsAreAtTheirStatements, Return
<1>7. QED
  BY <1>4, <1>5, <1>6 DEF CallsTyped

LEMMA CommitTyped ==
    ASSUME TypeInv, db.revision < MaxRevision,
           NEW label \in Labels, NEW objects \in Tables,
           NEW coverage \in PartialFunctions(Scopes, [complete : BOOLEAN, revision : Revisions]),
           Commit(label, objects, coverage)
    PROVE  DatabaseTyped' /\ db'.revision \in Nat /\ db.revision <= db'.revision
<1>1. db.revision \in Revisions
  BY DEF TypeInv, TypeOK, DatabaseTyped, Versions
<1>2. db.revision + 1 \in Revisions /\ db.revision \in Nat
  BY <1>1, NextRevision
<1>3. db' \in Versions /\ db'.revision = db.revision + 1
  BY <1>2 DEF Commit, Versions
<1>4. {s \in DOMAIN coverage : coverage[s].complete} \subseteq Scopes
  BY DEF PartialFunctions
<1>5. \A r \in 0 .. db.revision : history[r] \in
          [label : Labels, objects : Tables, declared : SUBSET Scopes]
  BY DEF TypeInv, TypeOK, DatabaseTyped
<1>6. history' \in [0 .. db'.revision ->
                       [label : Labels, objects : Tables, declared : SUBSET Scopes]]
  BY <1>2, <1>3, <1>4, <1>5 DEF Commit
<1>7. QED
  BY <1>2, <1>3, <1>6 DEF DatabaseTyped

(* A call that returns without writing. *)
LEMMA ReturnOnlyTyped ==
    ASSUME TypeInv, NEW c \in Conns, NEW answer, Return(c, answer), UNCHANGED <<db, history>>
    PROVE  TypeInv'
<1>1. db.revision \in Nat
  BY BoundsAreCounts DEF TypeInv, TypeOK, DatabaseTyped, Versions, Revisions
<1>2. CallsTyped' /\ CallsAreAtTheirStatements'
  BY <1>1, ReturnTyped
<1>3. DatabaseTyped'
  BY DEF TypeInv, TypeOK, DatabaseTyped
<1>4. QED
  BY <1>2, <1>3 DEF TypeInv, TypeOK

LEMMA ImportTyped ==
    ASSUME TypeInv, NEW c \in Conns, NEW batch \in Batches, NEW declarations \in Declarations,
           NEW replace \in BOOLEAN, NEW label \in Labels \cup {None},
           ImportSnapshot(c, batch, declarations, replace, label)
    PROVE  TypeInv'
<1> DEFINE base == IF replace THEN NoRows ELSE db.objects
           entries == normalizeEntries(batch)
           next == IF label = None THEN db.label ELSE label
           coverage == normalizeCoverage(declarations, db.revision + 1)
<1>1. CASE UNCHANGED <<db, history>> /\ \E answer : Return(c, answer)
  BY <1>1, ReturnOnlyTyped
<1>2. ASSUME db.revision < MaxRevision,
             Commit(next, Insert(entries, base), coverage),
             Return(c, Ended("write", "ok"))
      PROVE  TypeInv'
  <2>1. db.label \in Labels /\ db.objects \in Tables /\ db.revision \in Revisions
    BY DEF TypeInv, TypeOK, DatabaseTyped, Versions
  <2>2. base \in Tables /\ entries \in Tables
    BY <2>1, NoRowsTable, EntriesTable
  <2>3. Insert(entries, base) \in Tables
    BY <2>2, InsertTable
  <2>4. coverage \in PartialFunctions(Scopes, [complete : BOOLEAN, revision : Revisions])
    BY <1>2, <2>1, NextRevision, CoverageTable
  <2>5. next \in Labels
    BY <2>1
  <2>6. DatabaseTyped' /\ db'.revision \in Nat /\ db.revision <= db'.revision
    BY <1>2, <2>3, <2>4, <2>5, CommitTyped
  <2>7. CallsTyped' /\ CallsAreAtTheirStatements'
    BY <1>2, <2>6, ReturnTyped
  <2>8. QED
    BY <2>6, <2>7 DEF TypeInv, TypeOK
<1>3. QED
  BY <1>1, <1>2 DEF ImportSnapshot

LEMMA AppendTyped ==
    ASSUME TypeInv, NEW c \in Conns, NEW batch \in Batches, AppendEntries(c, batch)
    PROVE  TypeInv'
<1> DEFINE objects == Insert(normalizeEntries(batch), db.objects)
<1>1. CASE UNCHANGED <<db, history>> /\ \E answer : Return(c, answer)
  BY <1>1, ReturnOnlyTyped
<1>2. ASSUME db.revision < MaxRevision, Commit(db.label, objects, NoRows),
             Return(c, Ended("write", "ok"))
      PROVE  TypeInv'
  <2>1. db.label \in Labels /\ db.objects \in Tables
    BY DEF TypeInv, TypeOK, DatabaseTyped, Versions
  <2>2. objects \in Tables
    BY <2>1, InsertTable, EntriesTable
  <2>3. DatabaseTyped' /\ db'.revision \in Nat /\ db.revision <= db'.revision
    BY <1>2, <2>1, <2>2, NoRowsTable, CommitTyped
  <2>4. CallsTyped' /\ CallsAreAtTheirStatements'
    BY <1>2, <2>3, ReturnTyped
  <2>5. QED
    BY <2>3, <2>4 DEF TypeInv, TypeOK
<1>3. QED
  BY <1>1, <1>2 DEF AppendEntries

LEMMA UpsertTyped ==
    ASSUME TypeInv, NEW c \in Conns, UpsertCoverage(c)
    PROVE  TypeInv'
<1> DEFINE scope == call[c].scope
           row == [complete |-> call[c].complete, revision |-> seen[c].revision]
           coverage == [s \in DOMAIN db.coverage \cup {scope} |->
                           IF s = scope THEN row ELSE db.coverage[s]]
           Rowset == [complete : BOOLEAN, revision : Revisions]
<1>1. call[c] \in SetCoverages
  BY DEF TypeInv, CallsAreAtTheirStatements, UpsertCoverage
<1>2. scope \in Scopes /\ row.complete \in BOOLEAN
  BY <1>1 DEF SetCoverages
<1>3. db.revision \in Nat /\ db.revision <= MaxRevision /\ MaxRevision \in Nat
  BY BoundsAreCounts DEF TypeInv, TypeOK, DatabaseTyped, Versions, Revisions
<1>4. row.revision \in 0 .. db.revision
  BY DEF TypeInv, TypeOK, CallsTyped
<1>5. row \in Rowset
  BY <1>2, <1>3, <1>4 DEF Revisions
<1>6. coverage \in PartialFunctions(Scopes, Rowset)
  <2>1. DOMAIN db.coverage \cup {scope} \in SUBSET Scopes
    BY <1>2 DEF TypeInv, TypeOK, DatabaseTyped, Versions, PartialFunctions
  <2>2. \A s \in DOMAIN db.coverage : db.coverage[s] \in Rowset
    BY DEF TypeInv, TypeOK, DatabaseTyped, Versions, PartialFunctions
  <2>3. coverage \in [DOMAIN db.coverage \cup {scope} -> Rowset]
    BY <1>5, <2>2
  <2>4. QED
    BY <2>1, <2>3 DEF PartialFunctions
<1>7. db' \in Versions /\ db'.revision = db.revision
  BY <1>6 DEF UpsertCoverage, TypeInv, TypeOK, DatabaseTyped, Versions
<1>8. history' \in [0 .. db.revision ->
                       [label : Labels, objects : Tables, declared : SUBSET Scopes]]
  <2>1. history \in [0 .. db.revision ->
                       [label : Labels, objects : Tables, declared : SUBSET Scopes]]
    BY DEF TypeInv, TypeOK, DatabaseTyped
  <2>2. history[row.revision].declared \cup {scope} \in SUBSET Scopes
    BY <1>2, <1>4, <2>1
  <2>3. QED
    BY <1>4, <2>1, <2>2 DEF UpsertCoverage
<1>9. CallsTyped' /\ CallsAreAtTheirStatements'
  BY <1>3, <1>7, ReturnTyped DEF UpsertCoverage
<1>10. QED
  BY <1>7, <1>8, <1>9 DEF TypeInv, TypeOK, DatabaseTyped

LEMMA ReadRevisionTyped ==
    ASSUME TypeInv, NEW c \in Conns, NEW r \in SetCoverages, ReadRevision(c, r)
    PROVE  TypeInv'
<1>1. db.revision \in Nat
  BY BoundsAreCounts DEF TypeInv, TypeOK, DatabaseTyped, Versions, Revisions
<1>2. DatabaseTyped'
  BY DEF TypeInv, TypeOK, DatabaseTyped, ReadRevision
<1>3. CallsTyped'
  BY <1>1 DEF TypeInv, TypeOK, CallsTyped, ReadRevision
<1>4. CallsAreAtTheirStatements'
  BY DEF TypeInv, TypeOK, CallsTyped, CallsAreAtTheirStatements, ReadRevision
<1>5. QED
  BY <1>2, <1>3, <1>4 DEF TypeInv, TypeOK

LEMMA ReadMetadataTyped ==
    ASSUME TypeInv, NEW c \in Conns, NEW r \in Reads, ReadMetadata(c, r)
    PROVE  TypeInv'
<1>1. db.revision \in Nat /\ db.label \in Labels
  BY BoundsAreCounts DEF TypeInv, TypeOK, DatabaseTyped, Versions, Revisions
<1>2. DatabaseTyped'
  BY DEF TypeInv, TypeOK, DatabaseTyped, ReadMetadata
<1>3. ChunksOf(r) \in SUBSET Nat
  BY BindingIdsAreOrdered DEF ChunksOf, Reads, Finds, Pages, Export, Verify
<1>4. seen' \in [Conns -> [label : Labels \cup {None}, revision : 0 .. db.revision,
                          objects : Tables, rest : SUBSET Nat]]
  BY <1>1, <1>3, NoRowsTable DEF TypeInv, TypeOK, CallsTyped, ReadMetadata
<1>5. /\ pc' \in [Conns -> {"idle", "upsert", "objects", "coverage", "count"}]
      /\ call' \in [Conns -> Reads \cup SetCoverages \cup {NoCall}]
      /\ view' \in [Conns -> Versions \cup {NoView}]
  BY DEF TypeInv, TypeOK, DatabaseTyped, CallsTyped, ReadMetadata
<1>6. CallsAreAtTheirStatements'
  BY DEF TypeInv, TypeOK, CallsTyped, CallsAreAtTheirStatements, ReadMetadata
<1>7. QED
  BY <1>2, <1>4, <1>5, <1>6 DEF TypeInv, TypeOK, CallsTyped, ReadMetadata

(* A transaction's source is its snapshot, so it needs one. *)
SnapshotHeld ==
    \A c \in Conns :
        pc[c] \in {"objects", "coverage", "count"} /\ InTransaction(call[c]) => view[c] # NoView

LEMMA ReadObjectsTyped ==
    ASSUME TypeInv, SnapshotHeld, NEW c \in Conns, ReadObjects(c)
    PROVE  TypeInv'
<1> DEFINE objects == Source(c).objects
           chunk == FirstIds(seen[c].rest, ChunkSize)
           ids == IdsRead(call[c], chunk, objects)
<1>1. Source(c) \in Versions
  BY DEF TypeInv, TypeOK, DatabaseTyped, CallsTyped, SnapshotHeld, ReadObjects, Source
<1>2. objects \in Tables
  BY <1>1 DEF Versions
<1>3. Rows(ids, objects) \in Tables
  BY <1>2, IdsReadAreStored, RowsTable
<1>4. seen[c].objects \in Tables /\ seen[c].rest \in SUBSET Nat
  BY DEF TypeInv, TypeOK, CallsTyped
<1>5. Insert(Rows(ids, objects), seen[c].objects) \in Tables
  BY <1>3, <1>4, InsertTable
<1>6. seen' \in [Conns -> [label : Labels \cup {None}, revision : 0 .. db.revision,
                          objects : Tables, rest : SUBSET Nat]]
  <2>1. PICK t \in Tables, rest \in SUBSET Nat :
            seen' = [seen EXCEPT ![c].objects = t, ![c].rest = rest]
    BY <1>4, <1>5 DEF ReadObjects
  <2>2. QED
    BY <2>1 DEF TypeInv, TypeOK, CallsTyped
<1>7. DatabaseTyped' /\ CallsTyped'
  BY <1>6 DEF TypeInv, TypeOK, DatabaseTyped, CallsTyped, ReadObjects
<1>8. CallsAreAtTheirStatements'
  BY DEF TypeInv, TypeOK, CallsTyped, CallsAreAtTheirStatements, ReadObjects
<1>9. QED
  BY <1>7, <1>8 DEF TypeInv, TypeOK

LEMMA VerifyCoverageTyped ==
    ASSUME TypeInv, NEW c \in Conns, VerifyCoverage(c)
    PROVE  TypeInv'
<1>1. CASE \E answer : Return(c, answer)
  BY <1>1, ReturnOnlyTyped DEF VerifyCoverage
<1>2. CASE pc' = [pc EXCEPT ![c] = "count"] /\ UNCHANGED <<call, view, seen, reply>>
  BY <1>2 DEF VerifyCoverage, TypeInv, TypeOK, DatabaseTyped, CallsTyped, CallsAreAtTheirStatements
<1>3. QED
  BY <1>1, <1>2 DEF VerifyCoverage

-----------------------------------------------------------------------------
(* Why a transaction's reader is safe from every writer.  The database, and *)
(* each snapshot taken of it, is a version that was committed: its label    *)
(* and objects are those of its revision for good, its coverage rows are    *)
(* for revisions up to its own, and those that say complete were declared.  *)
(* A transaction never leaves its snapshot.                                 *)

(* v is what history h, of revisions 0 .. n, says was committed. *)
Faithful(v, n, h) ==
    /\ v.revision \in 0 .. n
    /\ v.label = h[v.revision].label
    /\ v.objects = h[v.revision].objects
    /\ \A s \in DOMAIN v.coverage :
          /\ v.coverage[s].revision \in 0 .. v.revision
          /\ v.coverage[s].complete => s \in h[v.coverage[s].revision].declared

VersionsAreFaithful ==
    /\ Faithful(db, db.revision, history)
    /\ \A c \in Conns : view[c] # NoView => Faithful(view[c], db.revision, history)

(* The rows a page fetches, its witness included.                           *)
PageRows(r, v) == Rows(PageIds(r.scope, v.objects, r.page), v.objects)

TransactionsFollowSnapshots ==
    \A c \in Conns : pc[c] \in {"objects", "coverage", "count"} /\ InTransaction(call[c]) =>
        /\ view[c] # NoView
        /\ seen[c].label = view[c].label
        /\ seen[c].revision = view[c].revision
        /\ seen[c].rest = {}
        /\ pc[c] = "objects" => seen[c].objects = NoRows
        /\ pc[c] = "coverage" /\ call[c].op = "exportSnapshot" =>
               seen[c].objects = view[c].objects
        /\ pc[c] = "coverage" /\ call[c].op = "page" =>
               seen[c].objects = PageRows(call[c], view[c])

(* Only a transaction in progress holds a snapshot.                         *)
SnapshotsAreOfTransactions ==
    \A c \in Conns : view[c] # NoView =>
        pc[c] \in {"objects", "coverage"} /\ InTransaction(call[c])

(* What PagesAreSlicesOfOneRevision says of a page of the content h[...].   *)
GoodPage(page, content) ==
    LET wanted == {id \in Selected(page.call.scope, content.objects) : id > page.call.page.after}
        given == DOMAIN page.objects
        left == wanted \ given
    IN /\ page.label = content.label
       /\ given \subseteq wanted
       /\ \A id \in given : page.objects[id] = content.objects[id]
       /\ \A id \in given, later \in left : id < later
       /\ Cardinality(given) <= page.call.page.limit
       /\ page.hasMore <=> left # {}
       /\ page.hasMore => Cardinality(given) = page.call.page.limit
       /\ page.complete => page.call.scope \in content.declared

(* What the invariants about answers say of one answer a.                   *)
GoodAnswer(a, n, h) ==
    /\ a.status = "ok" /\ a.call.op = "page" => a.revision \in 0 .. n /\ GoodPage(a, h[a.revision])
    /\ a.status = "ok" /\ a.call.op = "exportSnapshot" =>
          /\ a.revision \in 0 .. n
          /\ a.label = h[a.revision].label
          /\ a.objects = h[a.revision].objects
          /\ \A d \in a.coverage : d.complete => d.scope \in h[a.revision].declared
    /\ a.status = "E_STORE_INTEGRITY" => a.call.op \notin {"page", "exportSnapshot"}

AnswersAreGood ==
    /\ reply = [c \in Conns |-> reply[c]]
    /\ \A c \in Conns : GoodAnswer(reply[c], db.revision, history)

SnapshotInv ==
    /\ TypeInv
    /\ VersionsAreFaithful
    /\ TransactionsFollowSnapshots
    /\ SnapshotsAreOfTransactions
    /\ AnswersAreGood

(* History g of revisions 0 .. m continues history h of 0 .. n. *)
Continues(h, n, g, m) ==
    /\ n \in Nat /\ m \in Nat /\ n <= m
    /\ \A r \in 0 .. n : /\ g[r].label = h[r].label
                         /\ g[r].objects = h[r].objects
                         /\ h[r].declared \subseteq g[r].declared

LEMMA FaithfulForGood ==
    ASSUME NEW v, NEW h, NEW n, NEW g, NEW m, Continues(h, n, g, m), Faithful(v, n, h)
    PROVE  Faithful(v, m, g)
BY DEF Continues, Faithful

LEMMA RevisionTyped == ASSUME TypeInv PROVE db.revision \in Nat
BY BoundsAreCounts DEF TypeInv, TypeOK, DatabaseTyped, Versions, Revisions

LEMMA SameHistory ==
    ASSUME TypeInv, UNCHANGED <<db, history>>
    PROVE  Continues(history, db.revision, history', db'.revision)
BY RevisionTyped DEF Continues

(* A commit adds the next revision to the history and alters none. *)
LEMMA CommitContinues ==
    ASSUME TypeInv, NEW label, NEW objects, NEW coverage, Commit(label, objects, coverage)
    PROVE  Continues(history, db.revision, history', db'.revision)
BY RevisionTyped DEF Commit, Continues

(* What a commit writes is faithful if its coverage is for the revision     *)
(* it commits.                                                              *)
LEMMA CommitFaithful ==
    ASSUME TypeInv, NEW label, NEW objects, NEW coverage, Commit(label, objects, coverage),
           \A s \in DOMAIN coverage : coverage[s].revision = db.revision + 1
    PROVE  Faithful(db', db'.revision, history')
<1> DEFINE next == db.revision + 1
<1>1. /\ db'.revision = next /\ db'.label = label
      /\ db'.objects = objects /\ db'.coverage = coverage
  BY DEF Commit
<1>2. next \in 0 .. next
  BY RevisionTyped
<1>3. history'[next] = [label |-> label, objects |-> objects,
                        declared |-> {s \in DOMAIN coverage : coverage[s].complete}]
  BY <1>2 DEF Commit
<1>4. QED
  BY <1>1, <1>2, <1>3 DEF Faithful

(* A declaration is recorded for the revision its first statement read.     *)
LEMMA UpsertFaithful ==
    ASSUME TypeInv, Faithful(db, db.revision, history), NEW c \in Conns, UpsertCoverage(c)
    PROVE  /\ Continues(history, db.revision, history', db'.revision)
           /\ Faithful(db', db'.revision, history')
<1> DEFINE scope == call[c].scope
           row == [complete |-> call[c].complete, revision |-> seen[c].revision]
<1>1. row.revision \in 0 .. db.revision
  BY DEF TypeInv, TypeOK, CallsTyped
<1>2. /\ db'.revision = db.revision /\ db'.label = db.label /\ db'.objects = db.objects
      /\ db'.coverage = [s \in DOMAIN db.coverage \cup {scope} |->
                             IF s = scope THEN row ELSE db.coverage[s]]
  BY DEF UpsertCoverage, TypeInv, TypeOK, DatabaseTyped, Versions
<1>3. /\ history \in [0 .. db.revision ->
                         [label : Labels, objects : Tables, declared : SUBSET Scopes]]
      /\ db.revision \in Nat
  BY RevisionTyped DEF TypeInv, TypeOK, DatabaseTyped
<1>4. \A r \in 0 .. db.revision :
          /\ history'[r].label = history[r].label
          /\ history'[r].objects = history[r].objects
          /\ history[r].declared \subseteq history'[r].declared
  BY <1>1, <1>3 DEF UpsertCoverage
<1>5. row.complete => scope \in history'[row.revision].declared
  BY <1>1, <1>3 DEF UpsertCoverage
<1>6. Continues(history, db.revision, history', db'.revision)
  BY <1>2, <1>3, <1>4 DEF Continues
<1>7. Faithful(db', db'.revision, history')
  <2>1. \A s \in DOMAIN db'.coverage :
            /\ db'.coverage[s].revision \in 0 .. db.revision
            /\ db'.coverage[s].complete =>
                   s \in history'[db'.coverage[s].revision].declared
    <3> SUFFICES ASSUME NEW s \in DOMAIN db'.coverage
                 PROVE  /\ db'.coverage[s].revision \in 0 .. db.revision
                        /\ db'.coverage[s].complete =>
                               s \in history'[db'.coverage[s].revision].declared
      OBVIOUS
    <3>1. CASE s = scope
      BY <3>1, <1>1, <1>2, <1>5
    <3>2. CASE s # scope
      <4>1. s \in DOMAIN db.coverage /\ db'.coverage[s] = db.coverage[s]
        BY <3>2, <1>2
      <4>2. QED
        BY <4>1, <1>4 DEF Faithful
    <3>3. QED
      BY <3>1, <3>2
  <2>2. QED
    BY <1>2, <1>3, <1>4, <2>1 DEF Faithful
<1>8. QED
  BY <1>6, <1>7

LEMMA GoodForGood ==
    ASSUME NEW a, NEW h, NEW n, NEW g, NEW m, Continues(h, n, g, m), GoodAnswer(a, n, h)
    PROVE  GoodAnswer(a, m, g)
BY DEF Continues, GoodAnswer, GoodPage

LEMMA FailureIsGood ==
    ASSUME NEW op, NEW status, NEW n, NEW h,
           status = "E_STORE_INTEGRITY" => op \notin {"page", "exportSnapshot"},
           op \notin {"page", "exportSnapshot"} \/ status # "ok"
    PROVE  GoodAnswer(Ended(op, status), n, h)
BY DEF GoodAnswer, Ended

(* How any step leaves the database and its history. *)
LEMMA DatabaseStep ==
    ASSUME SnapshotInv, [Next]_vars
    PROVE  /\ Continues(history, db.revision, history', db'.revision)
           /\ Faithful(db', db'.revision, history')
<1> USE DEF SnapshotInv
<1>1. CASE UNCHANGED <<db, history>>
  BY <1>1, SameHistory DEF VersionsAreFaithful
<1>2. ASSUME NEW c \in Writers, NEW batch \in Batches, NEW declarations \in Declarations,
             NEW replace \in BOOLEAN, NEW label \in Labels \cup {None},
             ImportSnapshot(c, batch, declarations, replace, label),
             ~ UNCHANGED <<db, history>>
      PROVE  /\ Continues(history, db.revision, history', db'.revision)
             /\ Faithful(db', db'.revision, history')
  <2> DEFINE coverage == normalizeCoverage(declarations, db.revision + 1)
  <2>1. \A s \in DOMAIN coverage : coverage[s].revision = db.revision + 1
    BY DEF normalizeCoverage
  <2>2. PICK l, objects : Commit(l, objects, coverage)
    BY <1>2 DEF ImportSnapshot
  <2>3. QED
    BY <2>1, <2>2, CommitContinues, CommitFaithful
<1>3. ASSUME NEW c \in Writers, NEW batch \in Batches, AppendEntries(c, batch),
             ~ UNCHANGED <<db, history>>
      PROVE  /\ Continues(history, db.revision, history', db'.revision)
             /\ Faithful(db', db'.revision, history')
  <2>1. PICK l, objects : Commit(l, objects, NoRows)
    BY <1>3 DEF AppendEntries
  <2>2. \A s \in DOMAIN NoRows : NoRows[s].revision = db.revision + 1
    BY DEF NoRows
  <2>3. QED
    BY <2>1, <2>2, CommitContinues, CommitFaithful
<1>4. ASSUME NEW c \in Writers, UpsertCoverage(c)
      PROVE  /\ Continues(history, db.revision, history', db'.revision)
             /\ Faithful(db', db'.revision, history')
  BY <1>4, UpsertFaithful DEF VersionsAreFaithful, Conns
<1>5. ASSUME NEW c \in Writers, Write(c)
      PROVE  /\ Continues(history, db.revision, history', db'.revision)
             /\ Faithful(db', db'.revision, history')
  BY <1>1, <1>2, <1>3, <1>4, <1>5 DEF Write, ReadRevision, AccessError
<1>6. ASSUME NEW c \in Readers, Read(c)
      PROVE  UNCHANGED <<db, history>>
  BY <1>6 DEF Read, ReadMetadata, ReadObjects, ReadScopeCoverage, ExportCoverage,
              VerifyCoverage, CountObjects, GetObject, AccessError
<1>7. QED
  BY <1>1, <1>5, <1>6 DEF Next, vars

LEMMA TypeStep ==
    ASSUME SnapshotInv, [Next]_vars
    PROVE  TypeInv'
<1> USE DEF SnapshotInv
<1>1. CASE UNCHANGED vars
  BY <1>1 DEF vars, TypeInv, TypeOK, DatabaseTyped, CallsTyped, CallsAreAtTheirStatements
<1>2. ASSUME NEW c \in Writers, Write(c)
      PROVE  TypeInv'
  <2>1. c \in Conns
    BY DEF Conns
  <2>2. CASE AccessError(c)
    BY <2>1, <2>2, ReturnOnlyTyped DEF AccessError
  <2>3. QED
    BY <1>2, <2>1, <2>2, ImportTyped, AppendTyped, ReadRevisionTyped, UpsertTyped DEF Write
<1>3. ASSUME NEW c \in Readers, Read(c)
      PROVE  TypeInv'
  <2>1. c \in Conns
    BY DEF Conns
  <2>2. SnapshotHeld
    BY DEF TransactionsFollowSnapshots, SnapshotHeld
  <2>3. CASE \/ ReadScopeCoverage(c) \/ ExportCoverage(c) \/ CountObjects(c)
             \/ AccessError(c) \/ \E id \in ObjectIds : GetObject(c, id)
    <3>1. (\E answer : Return(c, answer)) /\ UNCHANGED <<db, history>>
      BY <2>3 DEF ReadScopeCoverage, ExportCoverage, CountObjects, AccessError, GetObject
    <3>2. QED
      BY <2>1, <3>1, ReturnOnlyTyped
  <2>4. QED
    BY <1>3, <2>1, <2>2, <2>3, ReadMetadataTyped, ReadObjectsTyped, VerifyCoverageTyped DEF Read
<1>4. QED
  BY <1>1, <1>2, <1>3 DEF Next

(* A call that returns drops its snapshot; the others keep theirs.          *)
LEMMA ReturnFollows ==
    ASSUME SnapshotInv, NEW c \in Conns, NEW answer, Return(c, answer)
    PROVE  TransactionsFollowSnapshots'
<1>1. /\ pc' = [pc EXCEPT ![c] = "idle"]
      /\ call' = [call EXCEPT ![c] = NoCall]
      /\ view' = [view EXCEPT ![c] = NoView]
      /\ seen' = [seen EXCEPT ![c] = Nothing]
  BY DEF Return
<1>2. /\ DOMAIN pc = Conns /\ DOMAIN call = Conns
      /\ DOMAIN view = Conns /\ DOMAIN seen = Conns
  BY DEF SnapshotInv, TypeInv, TypeOK, CallsTyped
<1>3. QED
  BY <1>1, <1>2 DEF SnapshotInv, TransactionsFollowSnapshots

\* A query for the releases of no binding returns nothing.
LEMMA NothingIsFound ==
    ASSUME NEW r, NEW v, NothingToLookUp(r), r.op = "page"
    PROVE  PageRows(r, v) = NoRows
<1>1. \A id, index : ~Matches(r.scope, id, index)
  BY DEF NothingToLookUp, Matches
<1>2. Selected(r.scope, v.objects) = {}
  BY <1>1 DEF Selected
<1>3. PageIds(r.scope, v.objects, r.page) = {}
  BY <1>2 DEF PageIds, FirstIds
<1>4. QED
  BY <1>3 DEF PageRows, Rows, NoRows

LEMMA ReadMetadataFollows ==
    ASSUME SnapshotInv, NEW c \in Conns, NEW r \in Reads, ReadMetadata(c, r)
    PROVE  TransactionsFollowSnapshots'
<1>1. /\ DOMAIN pc = Conns /\ DOMAIN call = Conns
      /\ DOMAIN view = Conns /\ DOMAIN seen = Conns
  BY DEF SnapshotInv, TypeInv, TypeOK, CallsTyped
<1>2. db # NoView
  BY DEF SnapshotInv, TypeInv, TypeOK, DatabaseTyped, Versions, NoView
<1>3. r.op = "exportSnapshot" => ~NothingToLookUp(r)
  BY DEF NothingToLookUp
<1>4. InTransaction(r) => ChunksOf(r) = {}
  BY DEF InTransaction, ChunksOf
<1>5. ASSUME NEW d \in Conns, d # c
      PROVE  pc'[d] = pc[d] /\ call'[d] = call[d] /\ view'[d] = view[d] /\ seen'[d] = seen[d]
  BY <1>1, <1>5 DEF ReadMetadata
<1>6. /\ call'[c] = r
      /\ pc'[c] = IF NothingToLookUp(r) THEN "coverage" ELSE "objects"
      /\ view'[c] = IF InTransaction(r) THEN db ELSE NoView
      /\ seen'[c] = [label |-> db.label, revision |-> db.revision,
                     objects |-> NoRows, rest |-> ChunksOf(r)]
  BY <1>1 DEF ReadMetadata
<1>7. NothingToLookUp(r) /\ r.op = "page" => seen'[c].objects = PageRows(r, db)
  BY <1>6, NothingIsFound
<1>8. QED
  BY <1>2, <1>3, <1>4, <1>5, <1>6, <1>7 DEF SnapshotInv, TransactionsFollowSnapshots, InTransaction

(* An export's one SELECT reads every object of the snapshot, and a page's  *)
(* the rows of the page.                                                    *)
LEMMA ReadObjectsFollows ==
    ASSUME SnapshotInv, NEW c \in Conns, ReadObjects(c)
    PROVE  TransactionsFollowSnapshots'
<1> DEFINE objects == Source(c).objects
           chunk == FirstIds(seen[c].rest, ChunkSize)
           rest == seen[c].rest \ chunk
           read == Rows(IdsRead(call[c], chunk, objects), objects)
<1>1. /\ DOMAIN pc = Conns /\ DOMAIN call = Conns
      /\ DOMAIN view = Conns /\ DOMAIN seen = Conns
      /\ seen[c] \in [label : Labels \cup {None}, revision : 0 .. db.revision,
                      objects : Tables, rest : SUBSET Nat]
  BY DEF SnapshotInv, TypeInv, TypeOK, CallsTyped
<1>2. /\ seen'[c].label = seen[c].label
      /\ seen'[c].revision = seen[c].revision
      /\ seen'[c].rest = rest
      /\ seen'[c].objects = Insert(read, seen[c].objects)
      /\ view' = view /\ call' = call
      /\ \A d \in Conns : d # c => pc'[d] = pc[d] /\ seen'[d] = seen[d]
  BY <1>1 DEF ReadObjects
<1>3. pc[c] = "objects" /\ pc'[c] = IF rest = {} THEN "coverage" ELSE "objects"
  BY <1>1 DEF ReadObjects
<1>4. InTransaction(call[c]) => rest = {}
  BY <1>3 DEF SnapshotInv, TransactionsFollowSnapshots
<1>5. ASSUME call[c].op = "exportSnapshot"
      PROVE  seen'[c].objects = view[c].objects
  <2>1. InTransaction(call[c]) /\ Source(c) = view[c]
    BY <1>5 DEF InTransaction, Source
  <2>2. view[c] # NoView /\ seen[c].objects = NoRows
    BY <1>3, <2>1 DEF SnapshotInv, TransactionsFollowSnapshots
  <2>3. view[c].objects \in Tables
    BY <2>2 DEF SnapshotInv, TypeInv, TypeOK, CallsTyped, Versions
  <2>4. read = [id \in DOMAIN view[c].objects |-> view[c].objects[id]]
    BY <1>5, <2>1 DEF IdsRead, Rows
  <2>5. read = view[c].objects
    BY <2>3, <2>4 DEF Tables, PartialFunctions
  <2>6. Insert(read, NoRows) = read
    BY <2>4 DEF Insert, NoRows
  <2>7. QED
    BY <1>2, <2>2, <2>5, <2>6
<1>6. ASSUME call[c].op = "page"
      PROVE  seen'[c].objects = PageRows(call[c], view[c])
  <2>1. InTransaction(call[c]) /\ Source(c) = view[c]
    BY <1>6 DEF InTransaction, Source
  <2>2. seen[c].objects = NoRows
    BY <1>3, <2>1 DEF SnapshotInv, TransactionsFollowSnapshots
  <2>3. read = PageRows(call[c], view[c])
    BY <1>6, <2>1 DEF IdsRead, PageRows
  <2>4. Insert(read, NoRows) = read
    BY DEF Insert, NoRows, Rows
  <2>5. QED
    BY <1>2, <2>2, <2>3, <2>4
<1>7. QED
  BY <1>2, <1>3, <1>4, <1>5, <1>6 DEF SnapshotInv, TransactionsFollowSnapshots

LEMMA FollowStep ==
    ASSUME SnapshotInv, [Next]_vars
    PROVE  TransactionsFollowSnapshots'
<1>1. CASE UNCHANGED vars
  BY <1>1 DEF vars, SnapshotInv, TransactionsFollowSnapshots
<1>2. ASSUME NEW c \in Conns, \E answer : Return(c, answer)
      PROVE  TransactionsFollowSnapshots'
  BY <1>2, ReturnFollows
<1>3. ASSUME NEW c \in Conns, NEW r \in SetCoverages, ReadRevision(c, r)
      PROVE  TransactionsFollowSnapshots'
  <2>1. /\ DOMAIN pc = Conns /\ DOMAIN call = Conns /\ DOMAIN seen = Conns
    BY DEF SnapshotInv, TypeInv, TypeOK, CallsTyped
  <2>2. /\ pc'[c] = "upsert" /\ view' = view
        /\ \A d \in Conns : d # c => pc'[d] = pc[d] /\ call'[d] = call[d] /\ seen'[d] = seen[d]
    BY <1>3, <2>1 DEF ReadRevision
  <2>3. QED
    BY <2>2 DEF SnapshotInv, TransactionsFollowSnapshots
<1>4. ASSUME NEW c \in Conns, VerifyCoverage(c), ~ \E answer : Return(c, answer)
      PROVE  TransactionsFollowSnapshots'
  BY <1>4 DEF VerifyCoverage, SnapshotInv, TransactionsFollowSnapshots, InTransaction,
              TypeInv, TypeOK, CallsTyped
<1>5. ASSUME NEW c \in Writers, Write(c)
      PROVE  TransactionsFollowSnapshots'
  <2>1. c \in Conns
    BY DEF Conns
  <2>2. QED
    BY <1>2, <1>3, <1>5, <2>1
    DEF Write, ImportSnapshot, AppendEntries, UpsertCoverage, AccessError
<1>6. ASSUME NEW c \in Readers, Read(c)
      PROVE  TransactionsFollowSnapshots'
  <2>1. c \in Conns
    BY DEF Conns
  <2>2. QED
    BY <1>2, <1>4, <1>6, <2>1, ReadMetadataFollows, ReadObjectsFollows
    DEF Read, ReadScopeCoverage, ExportCoverage, CountObjects, GetObject, AccessError
<1>7. QED
  BY <1>1, <1>5, <1>6 DEF Next

LEMMA HeldStep ==
    ASSUME SnapshotInv, [Next]_vars
    PROVE  SnapshotsAreOfTransactions'
<1>1. /\ DOMAIN pc = Conns /\ DOMAIN call = Conns /\ DOMAIN view = Conns
      /\ SnapshotsAreOfTransactions
  BY DEF SnapshotInv, TypeInv, TypeOK, CallsTyped
<1>2. CASE UNCHANGED vars
  BY <1>1, <1>2 DEF vars, SnapshotsAreOfTransactions
<1>3. ASSUME NEW c \in Conns, NEW answer, Return(c, answer)
      PROVE  SnapshotsAreOfTransactions'
  <2>1. /\ view'[c] = NoView
        /\ \A d \in Conns : d # c => pc'[d] = pc[d] /\ call'[d] = call[d] /\ view'[d] = view[d]
    BY <1>1, <1>3 DEF Return
  <2>2. QED
    BY <1>1, <2>1 DEF SnapshotsAreOfTransactions
<1>4. ASSUME NEW c \in Conns, NEW r, ReadRevision(c, r)
      PROVE  SnapshotsAreOfTransactions'
  <2>1. /\ view' = view /\ pc[c] = "idle"
        /\ \A d \in Conns : d # c => pc'[d] = pc[d] /\ call'[d] = call[d]
    BY <1>1, <1>4 DEF ReadRevision
  <2>2. QED
    BY <1>1, <2>1 DEF SnapshotsAreOfTransactions
<1>5. ASSUME NEW c \in Conns, NEW r, ReadMetadata(c, r)
      PROVE  SnapshotsAreOfTransactions'
  <2>1. /\ view'[c] = (IF InTransaction(r) THEN db ELSE NoView)
        /\ call'[c] = r /\ pc'[c] \in {"objects", "coverage"}
        /\ \A d \in Conns : d # c => pc'[d] = pc[d] /\ call'[d] = call[d] /\ view'[d] = view[d]
    BY <1>1, <1>5 DEF ReadMetadata
  <2>2. QED
    BY <1>1, <2>1 DEF SnapshotsAreOfTransactions
<1>6. ASSUME NEW c \in Conns, ReadObjects(c)
      PROVE  SnapshotsAreOfTransactions'
  <2>1. /\ view' = view /\ call' = call /\ pc'[c] \in {"objects", "coverage"}
        /\ \A d \in Conns : d # c => pc'[d] = pc[d]
        /\ pc[c] = "objects"
    BY <1>1, <1>6 DEF ReadObjects
  <2>2. QED
    BY <1>1, <2>1 DEF SnapshotsAreOfTransactions
<1>7. ASSUME NEW c \in Conns, VerifyCoverage(c), ~ \E answer : Return(c, answer)
      PROVE  SnapshotsAreOfTransactions'
  <2>1. /\ view' = view /\ call' = call /\ call[c].op = "verifyIntegrity"
        /\ \A d \in Conns : d # c => pc'[d] = pc[d]
    BY <1>1, <1>7 DEF VerifyCoverage
  <2>2. view[c] = NoView
    BY <1>1, <2>1 DEF SnapshotsAreOfTransactions, InTransaction
  <2>3. QED
    BY <1>1, <2>1, <2>2 DEF SnapshotsAreOfTransactions
<1>8. ASSUME NEW c \in Writers, Write(c)
      PROVE  SnapshotsAreOfTransactions'
  BY <1>3, <1>4, <1>8 DEF Conns, Write, ImportSnapshot, AppendEntries, UpsertCoverage, AccessError
<1>9. ASSUME NEW c \in Readers, Read(c)
      PROVE  SnapshotsAreOfTransactions'
  BY <1>3, <1>5, <1>6, <1>7, <1>9
  DEF Conns, Read, ReadScopeCoverage, ExportCoverage, CountObjects, GetObject, AccessError
<1>10. QED
  BY <1>2, <1>8, <1>9 DEF Next

LEMMA VersionStep ==
    ASSUME SnapshotInv, [Next]_vars
    PROVE  VersionsAreFaithful'
<1>1. /\ Continues(history, db.revision, history', db'.revision)
      /\ Faithful(db', db'.revision, history')
  BY DatabaseStep
<1>2. DOMAIN view = Conns
  BY DEF SnapshotInv, TypeInv, TypeOK, CallsTyped
<1>3. ASSUME NEW c \in Conns
      PROVE  view'[c] \in {view[c], NoView, db}
  <2>1. ASSUME NEW d \in Conns, NEW answer, Return(d, answer)
        PROVE  view'[c] \in {view[c], NoView, db}
    BY <1>2, <2>1 DEF Return
  <2>2. ASSUME NEW d \in Conns, NEW r \in Reads, ReadMetadata(d, r)
        PROVE  view'[c] \in {view[c], NoView, db}
    BY <1>2, <2>2 DEF ReadMetadata
  <2>3. ASSUME NEW d \in Writers, Write(d)
        PROVE  view'[c] \in {view[c], NoView, db}
    <3>1. d \in Conns
      BY DEF Conns
    <3>2. QED
      BY <2>1, <2>3, <3>1
      DEF Write, ImportSnapshot, AppendEntries, ReadRevision, UpsertCoverage, AccessError
  <2>4. ASSUME NEW d \in Readers, Read(d)
        PROVE  view'[c] \in {view[c], NoView, db}
    <3>1. d \in Conns
      BY DEF Conns
    <3>2. QED
      BY <2>1, <2>2, <2>4, <3>1
      DEF Read, ReadObjects, ReadScopeCoverage, ExportCoverage, VerifyCoverage, CountObjects,
          GetObject, AccessError
  <2>5. QED
    BY <2>3, <2>4 DEF Next, vars
<1>4. ASSUME NEW c \in Conns, view'[c] # NoView
      PROVE  Faithful(view'[c], db'.revision, history')
  <2>1. Faithful(db, db.revision, history)
    BY DEF SnapshotInv, VersionsAreFaithful
  <2>2. view'[c] # NoView /\ view'[c] = view[c] => Faithful(view[c], db.revision, history)
    BY DEF SnapshotInv, VersionsAreFaithful
  <2>3. QED
    BY <1>1, <1>3, <1>4, <2>1, <2>2, FaithfulForGood
<1>5. QED
  BY <1>1, <1>4 DEF VersionsAreFaithful

LEMMA AnswerGiven ==
    ASSUME SnapshotInv, [Next]_vars, NEW c \in Conns, NEW answer,
           reply' = [reply EXCEPT ![c] = answer],
           GoodAnswer(answer, db'.revision, history')
    PROVE  AnswersAreGood'
<1>1. Continues(history, db.revision, history', db'.revision)
  BY DatabaseStep
<1>2. reply = [d \in Conns |-> reply[d]]
  BY DEF SnapshotInv, AnswersAreGood
<1>3. reply'[c] = answer /\ \A d \in Conns : d # c => reply'[d] = reply[d]
  BY <1>2
<1>4. \A d \in Conns : GoodAnswer(reply[d], db.revision, history)
  BY DEF SnapshotInv, AnswersAreGood
<1>5. \A d \in Conns : GoodAnswer(reply'[d], db'.revision, history')
  BY <1>1, <1>3, <1>4, GoodForGood
<1>6. reply' = [d \in Conns |-> reply'[d]]
  BY <1>2
<1>7. QED
  BY <1>5, <1>6 DEF AnswersAreGood

LEMMA NoReplyIsGood == ASSUME NEW n, NEW h PROVE GoodAnswer(NoReply, n, h)
BY DEF GoodAnswer, NoReply, NoCall

(* In a transaction no coverage row is ahead of the metadata.               *)
LEMMA NoneAheadInTransactions ==
    ASSUME SnapshotInv, NEW c \in Conns, pc[c] = "coverage", InTransaction(call[c])
    PROVE  ~ SomeAhead(c, Source(c).coverage)
<1>1. /\ view[c] # NoView /\ seen[c].revision = view[c].revision /\ Source(c) = view[c]
  BY DEF SnapshotInv, TransactionsFollowSnapshots, Source
<1>2. Faithful(view[c], db.revision, history)
  BY <1>1 DEF SnapshotInv, VersionsAreFaithful
<1>3. view[c].revision \in 0 .. db.revision /\ db.revision \in Nat
  BY <1>2, RevisionTyped DEF SnapshotInv, Faithful
<1>4. \A s \in DOMAIN view[c].coverage : ~ Ahead(c, view[c].coverage[s])
  BY <1>1, <1>2, <1>3 DEF Faithful, Ahead
<1>5. QED
  BY <1>1, <1>4 DEF SomeAhead

(* A coverage row as readComplete reads it, and as PageOf does.             *)
RowSaysComplete(row, n) == row.complete /\ row.revision = n
CompleteFor(n) == [complete |-> TRUE, revision |-> n]

LEMMA CompleteRow ==
    ASSUME NEW row \in [complete : BOOLEAN, revision : Revisions], NEW n
    PROVE  RowSaysComplete(row, n) <=> row = CompleteFor(n)
BY DEF RowSaysComplete, CompleteFor

(* What a page makes of its rows is the page of its snapshot.               *)
LEMMA PageIsOfItsSnapshot ==
    ASSUME SnapshotInv, NEW c \in Conns, pc[c] = "coverage", call[c].op = "page"
    PROVE  Envelope(c, Source(c).coverage) = PageOf(call[c], view[c])
<1> DEFINE r == call[c]
           v == view[c]
           wanted == {id \in Selected(r.scope, v.objects) : id > r.page.after}
           given == FirstIds(wanted, r.page.limit)
<1>1. /\ v # NoView /\ seen[c].label = v.label /\ seen[c].revision = v.revision
      /\ seen[c].objects = PageRows(r, v) /\ Source(c) = v
  BY DEF SnapshotInv, TransactionsFollowSnapshots, InTransaction, Source
<1>2. v \in Versions
  BY <1>1 DEF SnapshotInv, TypeInv, TypeOK, CallsTyped
<1>3. wanted \in SUBSET Nat /\ IsFiniteSet(wanted)
  BY <1>2, WantedTyped
<1>4. r.page.limit \in Nat
  BY RequestTyped DEF SnapshotInv
<1>5. DOMAIN seen[c].objects = FirstIds(wanted, r.page.limit + 1)
  BY <1>1 DEF PageRows, Rows, PageIds
<1> DEFINE ids == DOMAIN seen[c].objects
           kept == FirstIds(ids, r.page.limit)
<1>6. kept = given /\ (kept # ids <=> given # wanted)
  <2> HIDE DEF wanted
  <2>1. /\ FirstIds(FirstIds(wanted, r.page.limit + 1), r.page.limit) = given
        /\ given # FirstIds(wanted, r.page.limit + 1) <=> given # wanted
    BY <1>3, <1>4, WitnessRowIsCut
  <2>2. QED
    BY <1>5, <2>1
<1>7. Rows(kept, seen[c].objects) = Rows(given, v.objects)
  <2>1. given \subseteq ids
    BY <1>6 DEF FirstIds
  <2>2. \A id \in ids : seen[c].objects[id] = v.objects[id]
    BY <1>1 DEF PageRows, Rows
  <2>3. QED
    BY <1>6, <2>1, <2>2 DEF Rows
<1>8. readComplete(c, r.scope, v.coverage) <=>
         /\ r.scope \in DOMAIN v.coverage
         /\ v.coverage[r.scope] = CompleteFor(v.revision)
  <2>1. \A s \in DOMAIN v.coverage : v.coverage[s] \in [complete : BOOLEAN, revision : Revisions]
    BY <1>2 DEF Versions, PartialFunctions
  <2>2. readComplete(c, r.scope, v.coverage) <=>
           r.scope \in DOMAIN v.coverage /\ RowSaysComplete(v.coverage[r.scope], v.revision)
    BY <1>1 DEF readComplete, RowSaysComplete
  <2>3. QED
    BY <2>1, <2>2, CompleteRow
<1>9. Envelope(c, v.coverage) =
         [call |-> r, status |-> "ok", label |-> v.label, revision |-> v.revision,
          objects |-> Rows(given, v.objects),
          complete |-> readComplete(c, r.scope, v.coverage), hasMore |-> kept # ids]
  BY <1>1, <1>7 DEF Envelope
<1>10. PageOf(r, v) =
         [call |-> r, status |-> "ok", label |-> v.label, revision |-> v.revision,
          objects |-> Rows(given, v.objects),
          complete |-> /\ r.scope \in DOMAIN v.coverage
                       /\ v.coverage[r.scope] = CompleteFor(v.revision),
          hasMore |-> given # wanted]
  BY DEF PageOf, CompleteFor
<1> HIDE DEF given, wanted, kept, ids
<1>11. (kept # ids) = (given # wanted)
  BY <1>6
<1>12. readComplete(c, r.scope, v.coverage) =
          (/\ r.scope \in DOMAIN v.coverage
           /\ v.coverage[r.scope] = CompleteFor(v.revision))
  <2> HIDE DEF r, v
  <2>1. QED
    BY <1>8, Zenon DEF readComplete
<1>13. QED
  BY <1>1, <1>9, <1>10, <1>11, <1>12, Zenon

(* ... and that page is a slice of the revision of the snapshot.            *)
LEMMA PageIsGood ==
    ASSUME TypeInv, NEW c \in Conns, call[c] \in Pages, NEW v \in Versions, Faithful(v, db.revision, history)
    PROVE  GoodPage(PageOf(call[c], v), history[v.revision])
<1> DEFINE r == call[c]
           wanted == {id \in Selected(r.scope, v.objects) : id > r.page.after}
           given == FirstIds(wanted, r.page.limit)
           page == PageOf(r, v)
<1>1. wanted \in SUBSET Nat /\ IsFiniteSet(wanted)
  BY WantedTyped
<1>2. r.page.limit \in Nat
  BY RequestTyped DEF Pages
<1>3. /\ page.call = r /\ page.label = v.label /\ page.objects = Rows(given, v.objects)
      /\ page.hasMore <=> given # wanted
      /\ page.complete => r.scope \in DOMAIN v.coverage /\ v.coverage[r.scope].complete
                                                       /\ v.coverage[r.scope].revision = v.revision
  <2>1. page.call = r /\ page.label = v.label /\ page.objects = Rows(given, v.objects)
    BY DEF PageOf
  <2>2. page.hasMore <=> given # wanted
    BY Zenon DEF PageOf
  <2>3. page.complete => /\ r.scope \in DOMAIN v.coverage
                         /\ v.coverage[r.scope] = [complete |-> TRUE, revision |-> v.revision]
    BY Zenon DEF PageOf
  <2>4. QED
    BY <2>1, <2>2, <2>3
<1>4. given \subseteq wanted /\ DOMAIN page.objects = given
  BY <1>3 DEF FirstIds, Rows
<1>5. \A id \in given : page.objects[id] = v.objects[id]
  BY <1>3 DEF Rows
<1>6. \A id \in given, later \in wanted \ given : id < later
  BY <1>1, <1>2, <1>4, FirstIdsComeFirst
<1>7. Cardinality(given) <= r.page.limit /\ (given # wanted => Cardinality(given) = r.page.limit)
  BY <1>1, <1>2, FirstIdsCount
<1>8. v.label = history[v.revision].label /\ v.objects = history[v.revision].objects
  BY DEF Faithful
<1>9. page.complete => r.scope \in history[v.revision].declared
  BY <1>3 DEF Faithful
<1> HIDE DEF given, page, wanted
<1>10. wanted \ given # {} <=> given # wanted
  BY <1>4
<1>11. wanted = {id \in Selected(page.call.scope, history[v.revision].objects) : id > page.call.page.after}
  BY <1>3, <1>8 DEF wanted
<1>12. DOMAIN page.objects \subseteq wanted /\ Cardinality(DOMAIN page.objects) <= page.call.page.limit
  BY <1>3, <1>4, <1>7
<1>13. page.hasMore <=> wanted \ DOMAIN page.objects # {}
  BY <1>3, <1>4, <1>10
<1>14. page.hasMore => Cardinality(DOMAIN page.objects) = page.call.page.limit
  BY <1>3, <1>4, <1>7
<1>15. \A id \in DOMAIN page.objects : page.objects[id] = history[v.revision].objects[id]
  BY <1>4, <1>5, <1>8
<1>16. page.label = history[v.revision].label
  BY <1>3, <1>8
<1>17. page.complete => page.call.scope \in history[v.revision].declared
  BY <1>3, <1>9
<1>18. \A id \in DOMAIN page.objects, later \in wanted \ DOMAIN page.objects : id < later
  BY <1>4, <1>6
<1> HIDE DEF r
<1>19. GoodPage(page, history[v.revision])
  BY <1>11, <1>12, <1>13, <1>14, <1>15, <1>16, <1>17, <1>18, Zenon DEF GoodPage
<1>20. QED
  BY <1>19 DEF page, r

LEMMA FoundIsGood ==
    ASSUME SnapshotInv, [Next]_vars, NEW c \in Conns, ReadScopeCoverage(c)
    PROVE  AnswersAreGood'
<1> DEFINE scope == call[c].scope
           coverage == Source(c).coverage
<1>1. CASE scope \in DOMAIN coverage /\ Ahead(c, coverage[scope])
  <2>1. ~ InTransaction(call[c])
    BY <1>1, NoneAheadInTransactions DEF ReadScopeCoverage, SomeAhead
  <2>2. GoodAnswer(Ended(call[c].op, "E_STORE_INTEGRITY"), db'.revision, history')
    BY <2>1, FailureIsGood DEF InTransaction
  <2>3. reply' = [reply EXCEPT ![c] = Ended(call[c].op, "E_STORE_INTEGRITY")]
    BY <1>1 DEF ReadScopeCoverage, Return
  <2>4. QED
    BY <2>2, <2>3, AnswerGiven
<1>2. CASE ~ (scope \in DOMAIN coverage /\ Ahead(c, coverage[scope]))
  <2>1. reply' = [reply EXCEPT ![c] = Envelope(c, coverage)]
    BY <1>2 DEF ReadScopeCoverage, Return
  <2>2. Envelope(c, coverage).status = "ok" /\ Envelope(c, coverage).call = call[c]
    BY DEF Envelope
  <2>3. CASE call[c].op = "page"
    <3>1. /\ view[c] # NoView /\ view[c] \in Versions /\ Faithful(view[c], db.revision, history)
      BY <2>3 DEF ReadScopeCoverage, SnapshotInv, TransactionsFollowSnapshots, InTransaction,
                  VersionsAreFaithful, TypeInv, TypeOK, CallsTyped
    <3>2. Envelope(c, coverage) = PageOf(call[c], view[c])
      BY <2>3, PageIsOfItsSnapshot DEF ReadScopeCoverage
    <3>3. GoodPage(Envelope(c, coverage), history[view[c].revision])
      BY <2>3, <3>1, <3>2, PageIsGood, RequestTyped DEF SnapshotInv
    <3>4. Envelope(c, coverage).revision = view[c].revision
      BY <3>2 DEF PageOf
    <3>5. GoodAnswer(Envelope(c, coverage), db.revision, history)
      BY <2>2, <2>3, <3>1, <3>3, <3>4 DEF GoodAnswer, Faithful
    <3>6. GoodAnswer(Envelope(c, coverage), db'.revision, history')
      BY <3>5 DEF ReadScopeCoverage
    <3>7. QED
      BY <2>1, <3>6, AnswerGiven
  <2>4. CASE call[c].op # "page"
    <3>1. GoodAnswer(Envelope(c, coverage), db'.revision, history')
      BY <2>2, <2>4 DEF GoodAnswer, ReadScopeCoverage
    <3>2. QED
      BY <2>1, <3>1, AnswerGiven
  <2>5. QED BY <2>3, <2>4
<1>3. QED
  BY <1>1, <1>2

LEMMA ExportIsGood ==
    ASSUME SnapshotInv, [Next]_vars, NEW c \in Conns, ExportCoverage(c)
    PROVE  AnswersAreGood'
<1> DEFINE v == view[c]
           fresh == {s \in DOMAIN v.coverage : v.coverage[s].revision = v.revision}
           export == [call |-> Export, status |-> "ok", label |-> v.label, revision |-> v.revision,
                      objects |-> v.objects,
                      coverage |-> {[scope |-> s, complete |-> v.coverage[s].complete] : s \in fresh}]
<1>1. pc[c] = "coverage" /\ call[c].op = "exportSnapshot" /\ InTransaction(call[c])
  BY DEF ExportCoverage, InTransaction
<1>2. /\ v # NoView /\ seen[c].revision = v.revision
      /\ seen[c].label = v.label /\ seen[c].objects = v.objects /\ Source(c) = v
  BY <1>1 DEF SnapshotInv, TransactionsFollowSnapshots, Source
<1>3. ~ SomeAhead(c, Source(c).coverage)
  BY <1>1, NoneAheadInTransactions
<1>4. reply' = [reply EXCEPT ![c] = export]
  BY <1>2, <1>3 DEF ExportCoverage, Return
<1>5. Faithful(v, db.revision, history)
  BY <1>2 DEF SnapshotInv, VersionsAreFaithful
<1>6. GoodAnswer(export, db.revision, history)
  BY <1>5 DEF Faithful, GoodAnswer, Export
<1>7. GoodAnswer(export, db'.revision, history')
  BY <1>6 DEF ExportCoverage
<1>8. QED
  BY <1>4, <1>7, AnswerGiven

LEMMA AnswerStep ==
    ASSUME SnapshotInv, [Next]_vars
    PROVE  AnswersAreGood'
<1>1. ASSUME UNCHANGED reply
      PROVE  AnswersAreGood'
  BY <1>1, DatabaseStep, GoodForGood DEF SnapshotInv, AnswersAreGood
<1>2. ASSUME NEW c \in Conns, NEW op, NEW status, Return(c, Ended(op, status)),
             status = "E_STORE_INTEGRITY" => op \notin {"page", "exportSnapshot"},
             op \notin {"page", "exportSnapshot"} \/ status # "ok"
      PROVE  AnswersAreGood'
  <2>1. GoodAnswer(Ended(op, status), db'.revision, history')
    BY <1>2, FailureIsGood
  <2>2. QED
    BY <1>2, <2>1, AnswerGiven DEF Return
<1>3. ASSUME NEW c \in Conns, reply' = [reply EXCEPT ![c] = NoReply]
      PROVE  AnswersAreGood'
  BY <1>3, NoReplyIsGood, AnswerGiven
<1>4. ASSUME NEW c \in Conns, NEW a, Return(c, a), a.call.op \in {"getObject", "verifyIntegrity"}
      PROVE  AnswersAreGood'
  <2>1. GoodAnswer(a, db'.revision, history')
    BY <1>4 DEF GoodAnswer
  <2>2. QED
    BY <1>4, <2>1, AnswerGiven DEF Return
<1>5. ASSUME NEW c \in Conns, AccessError(c)
      PROVE  AnswersAreGood'
  BY <1>2, <1>5 DEF AccessError
<1>6. ASSUME NEW c \in Writers, Write(c)
      PROVE  AnswersAreGood'
  <2>1. c \in Conns
    BY DEF Conns
  <2>2. CASE \E status : Return(c, Ended("write", status))
    BY <1>2, <2>1, <2>2
  <2>3. CASE \E r \in SetCoverages : ReadRevision(c, r)
    BY <1>3, <2>1, <2>3 DEF ReadRevision
  <2>4. QED
    BY <1>6, <2>2, <2>3, <2>1, <1>5 DEF Write, ImportSnapshot, AppendEntries, UpsertCoverage
<1>7. ASSUME NEW c \in Readers, Read(c)
      PROVE  AnswersAreGood'
  <2>1. c \in Conns
    BY DEF Conns
  <2>2. CASE \E r \in Reads : ReadMetadata(c, r)
    BY <1>3, <2>1, <2>2 DEF ReadMetadata
  <2>3. CASE ReadObjects(c)
    BY <1>1, <2>3 DEF ReadObjects
  <2>4. CASE ReadScopeCoverage(c) \/ ExportCoverage(c)
    BY <2>1, <2>4, FoundIsGood, ExportIsGood
  <2>5. CASE VerifyCoverage(c)
    BY <1>1, <1>2, <2>1, <2>5 DEF VerifyCoverage
  <2>6. CASE CountObjects(c)
    BY <1>4, <2>1, <2>6 DEF CountObjects, Verify
  <2>7. CASE \E id \in ObjectIds : GetObject(c, id)
    BY <1>4, <2>1, <2>7 DEF GetObject
  <2>8. QED
    BY <1>5, <1>7, <2>1, <2>2, <2>3, <2>4, <2>5, <2>6, <2>7 DEF Read
<1>8. QED
  BY <1>1, <1>6, <1>7 DEF Next, vars

-----------------------------------------------------------------------------
LEMMA InitSnapshotInv == Init => SnapshotInv
<1> SUFFICES ASSUME Init PROVE SnapshotInv
  OBVIOUS
<1>1. PICK label \in Labels :
         /\ db = [label |-> label, revision |-> 0, objects |-> NoRows, coverage |-> NoRows]
         /\ history = [r \in {0} |-> [label |-> label, objects |-> NoRows, declared |-> {}]]
  BY DEF Init
<1>2. 0 \in Revisions /\ 0 .. 0 = {0}
  BY BoundsAreCounts DEF Revisions
<1>3. DatabaseTyped
  BY <1>1, <1>2, NoRowsTable DEF DatabaseTyped, Versions
<1>4. CallsTyped
  BY <1>1, <1>2, NoRowsTable DEF Init, CallsTyped, Nothing
<1>5. CallsAreAtTheirStatements /\ TransactionsFollowSnapshots
  BY DEF Init, CallsAreAtTheirStatements, TransactionsFollowSnapshots
<1>6. DOMAIN NoRows = {}
  BY DEF NoRows
<1>7. VersionsAreFaithful
  BY <1>1, <1>2, <1>6 DEF Init, VersionsAreFaithful, Faithful
<1>8. AnswersAreGood
  BY NoReplyIsGood DEF Init, AnswersAreGood
<1>9. SnapshotsAreOfTransactions
  BY DEF Init, SnapshotsAreOfTransactions
<1>10. QED
  BY <1>3, <1>4, <1>5, <1>7, <1>8, <1>9 DEF SnapshotInv, TypeInv, TypeOK

LEMMA SnapshotInvHolds == Spec => []SnapshotInv
<1>1. SnapshotInv /\ [Next]_vars => SnapshotInv'
  BY TypeStep, VersionStep, FollowStep, HeldStep, AnswerStep DEF SnapshotInv
<1>2. QED
  BY InitSnapshotInv, <1>1, PTL DEF Spec

(* Every reachable state of the store is well typed.                        *)
THEOREM TypeCorrect == Spec => []TypeOK
<1>1. SnapshotInv => TypeOK
  BY DEF SnapshotInv, TypeInv
<1>2. QED
  BY SnapshotInvHolds, <1>1, PTL

(* However many processes read and write, no page and no export takes       *)
(* another's write for corruption (readComplete, parseCoverageRow).         *)
THEOREM NoFalseAlarmInTransactions == Spec => []TransactionsNeverReportCorruption
<1>1. SnapshotInv => TransactionsNeverReportCorruption
  BY DEF SnapshotInv, AnswersAreGood, GoodAnswer, TransactionsNeverReportCorruption
<1>2. QED
  BY SnapshotInvHolds, <1>1, PTL

(* However many processes write meanwhile, an export is one data revision   *)
(* with the coverage declared for it (exportSnapshot).                      *)
THEOREM ExportsAreConsistent == Spec => []ExportsAreOneRevision
<1>1. SnapshotInv => ExportsAreOneRevision
  BY DEF SnapshotInv, AnswersAreGood, GoodAnswer, ExportsAreOneRevision, Answered, Committed
<1>2. QED
  BY SnapshotInvHolds, <1>1, PTL

(* However many processes write meanwhile, a page is a slice of one data    *)
(* revision: nothing skipped, the limit kept, hasMore and complete true     *)
(* (findAliasBindingsPage, findAliasReleasesPage,                           *)
(* findCommuneDocumentsPage).                                               *)
THEOREM PagesAreSlices == Spec => []PagesAreSlicesOfOneRevision
<1>1. SnapshotInv => PagesAreSlicesOfOneRevision
  BY DEF SnapshotInv, AnswersAreGood, GoodAnswer, GoodPage, PagesAreSlicesOfOneRevision, Answered, Committed
<1>2. QED
  BY SnapshotInvHolds, <1>1, PTL

\* What moves the revision on is a commit, and nothing else moves the content.
LEMMA RevisionStep ==
    ASSUME SnapshotInv, [Next]_vars
    PROVE  /\ db'.revision \in {db.revision, db.revision + 1}
           /\ db'.revision = db.revision => db'.label = db.label /\ db'.objects = db.objects
<1>1. db.revision \in Nat
  BY RevisionTyped DEF SnapshotInv
<1>2. CASE UNCHANGED db
  BY <1>2
<1>3. CASE \E l, o, k : Commit(l, o, k)
  BY <1>1, <1>3 DEF Commit
<1>4. CASE \E c \in Writers : UpsertCoverage(c)
  BY <1>4 DEF UpsertCoverage, SnapshotInv, TypeInv, TypeOK, DatabaseTyped, Versions
<1>5. ASSUME NEW c \in Writers, Write(c)
      PROVE  UNCHANGED db \/ (\E l, o, k : Commit(l, o, k)) \/ UpsertCoverage(c)
  BY <1>5 DEF Write, ImportSnapshot, AppendEntries, ReadRevision, AccessError
<1>6. ASSUME NEW c \in Readers, Read(c)
      PROVE  UNCHANGED db
  BY <1>6 DEF Read, ReadMetadata, ReadObjects, ReadScopeCoverage, ExportCoverage,
              VerifyCoverage, CountObjects, GetObject, AccessError
<1>7. QED
  BY <1>2, <1>3, <1>4, <1>5, <1>6 DEF Next, vars

(* The data revision tells contents apart: whatever the interleaving, a     *)
(* step that leaves it alone leaves the label and the objects alone         *)
(* (importSnapshot, appendEntries, setCoverage).                            *)
THEOREM RevisionsNameContents == Spec => RevisionNamesOneContent
<1>1. SnapshotInv /\ [Next]_vars =>
         [/\ db'.revision \in {db.revision, db.revision + 1}
          /\ db'.revision = db.revision => db'.label = db.label /\ db'.objects = db.objects]_vars
  BY RevisionStep
<1>2. QED
  BY SnapshotInvHolds, <1>1, PTL DEF Spec, RevisionNamesOneContent

-----------------------------------------------------------------------------
(* SqliteStore implements AtomicStore: a page or an export is decided when  *)
(* its transaction takes its snapshot, and delivered when it returns.       *)

decisions == [c \in Readers |-> Decided(c)]
deliveries == [c \in Readers |-> Delivered(c)]

LEMMA AnswersAreTheSame == \A r, v : Atomic!AnswerOf(r, v) = AnswerOf(r, v)
<1>1. \A scope, id, index : Atomic!Matches(scope, id, index) <=> Matches(scope, id, index)
  BY DEF Atomic!Matches, Matches
<1>2. \A object : Atomic!deriveIndexes(object) = deriveIndexes(object)
  BY DEF Atomic!deriveIndexes, deriveIndexes
<1>3. \A scope, objects : Atomic!Selected(scope, objects) = Selected(scope, objects)
  BY <1>1, <1>2 DEF Atomic!Selected, Selected
<1>4. ASSUME NEW r, NEW v
      PROVE  Atomic!PageOf(r, v) = PageOf(r, v)
  <2> DEFINE wanted == {id \in Selected(r.scope, v.objects) : id > r.page.after}
  <2>1. wanted = {id \in Atomic!Selected(r.scope, v.objects) : id > r.page.after}
    BY <1>3
  <2>2. Atomic!FirstIds(wanted, r.page.limit) = FirstIds(wanted, r.page.limit)
    <3>1. \A S : Atomic!Cardinality(S) = Cardinality(S)
      BY Zenon DEF Atomic!Cardinality, Cardinality
    <3>2. QED
      BY <3>1, Zenon DEF Atomic!FirstIds, FirstIds
  <2>3. \A ids, objects : Atomic!Rows(ids, objects) = Rows(ids, objects)
    BY DEF Atomic!Rows, Rows
  <2> HIDE DEF wanted
  <2>4. Atomic!PageOf(r, v) =
          [call |-> r, status |-> "ok", label |-> v.label, revision |-> v.revision,
           objects |-> Rows(FirstIds(wanted, r.page.limit), v.objects),
           complete |-> /\ r.scope \in DOMAIN v.coverage
                        /\ v.coverage[r.scope] = [complete |-> TRUE, revision |-> v.revision],
           hasMore |-> FirstIds(wanted, r.page.limit) # wanted]
    BY <2>1, <2>2, <2>3, Zenon DEF Atomic!PageOf
  <2>5. PageOf(r, v) =
          [call |-> r, status |-> "ok", label |-> v.label, revision |-> v.revision,
           objects |-> Rows(FirstIds(wanted, r.page.limit), v.objects),
           complete |-> /\ r.scope \in DOMAIN v.coverage
                        /\ v.coverage[r.scope] = [complete |-> TRUE, revision |-> v.revision],
           hasMore |-> FirstIds(wanted, r.page.limit) # wanted]
    BY Zenon DEF PageOf, wanted
  <2>6. QED
    BY <2>4, <2>5, Zenon
<1>5. \A r, v : Atomic!ExportOf(r, v) = ExportOf(r, v)
  BY DEF Atomic!ExportOf, ExportOf
<1>6. QED
  BY <1>4, <1>5 DEF Atomic!AnswerOf, AnswerOf

LEMMA AtomicInit == Init => Atomic!Init
<1> SUFFICES ASSUME Init PROVE Atomic!Init
  OBVIOUS
<1>1. db.revision = 0 /\ db.objects = NoRows /\ db.coverage = NoRows
  BY DEF Init
<1>2. \A c \in Readers : view[c] = NoView /\ reply[c] = NoReply
  BY DEF Init, Conns
<1>3. \A c \in Readers : Decided(c) = NoAnswer /\ Delivered(c) = NoAnswer
  BY <1>2 DEF Decided, Delivered, Answered, NoReply
<1>4. QED
  BY <1>1, <1>3 DEF Atomic!Init, Atomic!NoRows, NoRows

\* What a reader has been decided and delivered is its own business.
LEMMA OthersKeepTheirAnswers ==
    ASSUME NEW c, UNCHANGED <<call[c], view[c], reply[c]>>
    PROVE  Decided(c)' = Decided(c) /\ Delivered(c)' = Delivered(c)
BY DEF Decided, Delivered, Answered

\* Writers commit and declare, and decide nothing.
LEMMA WriterIsAtomic ==
    ASSUME SnapshotInv, NEW w \in Writers, Write(w)
    PROVE  Atomic!CommitRevision \/ Atomic!DeclareCoverage \/ UNCHANGED Atomic!vars
<1>1. /\ DOMAIN call = Conns /\ DOMAIN view = Conns /\ DOMAIN reply = Conns
  BY DEF SnapshotInv, TypeInv, TypeOK, CallsTyped, AnswersAreGood
<1>2. \A c \in Readers : c # w /\ c \in Conns
  BY ConnectionsAreDisjoint DEF Conns
<1>3. ASSUME NEW c \in Readers PROVE UNCHANGED <<call[c], view[c], reply[c]>>
  BY <1>1, <1>2
  DEF Write, ImportSnapshot, AppendEntries, ReadRevision, UpsertCoverage, AccessError, Return
<1>4. UNCHANGED <<decisions, deliveries>>
  BY <1>3, OthersKeepTheirAnswers DEF decisions, deliveries
<1>5. CASE UNCHANGED db
  BY <1>4, <1>5 DEF Atomic!vars, decisions, deliveries
<1>6. ASSUME NEW label, NEW objects, NEW coverage, Commit(label, objects, coverage),
             \A s \in DOMAIN coverage : coverage[s].revision = db.revision + 1
      PROVE  Atomic!CommitRevision
  <2>1. db'.revision = db.revision + 1 /\ db'.coverage = coverage
    BY <1>6 DEF Commit
  <2>2. QED
    BY <1>4, <1>6, <2>1 DEF Atomic!CommitRevision, decisions, deliveries
<1>7. ASSUME NEW batch \in Batches, NEW declarations \in Declarations, NEW replace \in BOOLEAN,
             NEW label \in Labels \cup {None}, ImportSnapshot(w, batch, declarations, replace, label),
             ~UNCHANGED db
      PROVE  Atomic!CommitRevision
  <2> DEFINE coverage == normalizeCoverage(declarations, db.revision + 1)
  <2>1. \A s \in DOMAIN coverage : coverage[s].revision = db.revision + 1
    BY DEF normalizeCoverage
  <2>2. PICK l, objects : Commit(l, objects, coverage)
    BY <1>7 DEF ImportSnapshot
  <2>3. QED
    BY <1>6, <2>1, <2>2
<1>8. ASSUME NEW batch \in Batches, AppendEntries(w, batch), ~UNCHANGED db
      PROVE  Atomic!CommitRevision
  <2>1. PICK l, objects : Commit(l, objects, NoRows)
    BY <1>8 DEF AppendEntries
  <2>2. \A s \in DOMAIN NoRows : NoRows[s].revision = db.revision + 1
    BY DEF NoRows
  <2>3. QED
    BY <1>6, <2>1, <2>2
<1>9. CASE UpsertCoverage(w)
  <2>1. w \in Conns
    BY DEF Conns
  <2>2. call[w] \in SetCoverages /\ seen[w].revision \in 0 .. db.revision
    BY <1>9, <2>1 DEF UpsertCoverage, SnapshotInv, TypeInv, TypeOK, CallsTyped, CallsAreAtTheirStatements
  <2>3. PICK scope \in Scopes, complete \in BOOLEAN :
            call[w].scope = scope /\ call[w].complete = complete
    BY <2>2 DEF SetCoverages
  <2>4. PICK revision \in 0 .. db.revision : seen[w].revision = revision
    BY <2>2
  <2>5. db' = [db EXCEPT !.coverage =
                  [s \in DOMAIN db.coverage \cup {scope} |->
                      IF s = scope THEN [complete |-> complete, revision |-> revision]
                      ELSE db.coverage[s]]]
    BY <1>9, <2>3, <2>4 DEF UpsertCoverage
  <2>6. QED
    BY <1>4, <2>3, <2>4, <2>5 DEF Atomic!DeclareCoverage, decisions, deliveries
<1>10. QED
  BY <1>5, <1>7, <1>8, <1>9 DEF Write, ReadRevision, AccessError

\* The step of a reader changes its own answers only.
LEMMA OneReaderMoves ==
    ASSUME NEW c \in Readers,
           \A d \in Readers : d # c => UNCHANGED <<call[d], view[d], reply[d]>>
    PROVE  /\ decisions' = [decisions EXCEPT ![c] = Decided(c)']
           /\ deliveries' = [deliveries EXCEPT ![c] = Delivered(c)']
<1>1. \A d \in Readers : d # c => Decided(d)' = Decided(d) /\ Delivered(d)' = Delivered(d)
  BY OthersKeepTheirAnswers
<1>2. QED
  BY <1>1 DEF decisions, deliveries

\* A call that ends with no page and no export, or that fails.
LEMMA EndIsAtomic ==
    ASSUME SnapshotInv, NEW c \in Readers, NEW answer, Return(c, answer), UNCHANGED db,
           answer.status = "ok" => answer.call.op \notin {"page", "exportSnapshot"}
    PROVE  Atomic!GiveUp(c)
<1>1. /\ DOMAIN call = Conns /\ DOMAIN view = Conns /\ DOMAIN reply = Conns /\ c \in Conns
  BY DEF SnapshotInv, TypeInv, TypeOK, CallsTyped, AnswersAreGood, Conns
<1>2. /\ view'[c] = NoView /\ reply'[c] = answer
      /\ \A d \in Readers : d # c => UNCHANGED <<call[d], view[d], reply[d]>>
  BY <1>1 DEF Return, Conns
<1>3. Decided(c)' = NoAnswer /\ Delivered(c)' = NoAnswer
  BY <1>2 DEF Decided, Delivered, Answered
<1>4. QED
  BY <1>2, <1>3, OneReaderMoves DEF Atomic!GiveUp, decisions, deliveries

\* A page or an export whose answer is what was decided when it began.
LEMMA DeliveryIsAtomic ==
    ASSUME SnapshotInv, NEW c \in Readers, NEW answer, Return(c, answer), UNCHANGED db,
           view[c] # NoView, answer = AnswerOf(call[c], view[c]),
           answer.status = "ok", answer.call = call[c], call[c].op \in {"page", "exportSnapshot"}
    PROVE  Atomic!Deliver(c)
<1>1. /\ DOMAIN call = Conns /\ DOMAIN view = Conns /\ DOMAIN reply = Conns /\ c \in Conns
  BY DEF SnapshotInv, TypeInv, TypeOK, CallsTyped, AnswersAreGood, Conns
<1>2. /\ view'[c] = NoView /\ reply'[c] = answer
      /\ \A d \in Readers : d # c => UNCHANGED <<call[d], view[d], reply[d]>>
  BY <1>1 DEF Return, Conns
<1>3. Decided(c) = answer /\ Decided(c)' = NoAnswer /\ Delivered(c)' = answer
  BY <1>2 DEF Decided, Delivered, Answered
<1>4. answer # NoAnswer
  BY DEF NoAnswer, NoCall
<1>5. decisions[c] = answer
  BY <1>3 DEF decisions
<1>6. QED
  BY <1>2, <1>3, <1>4, <1>5, OneReaderMoves DEF Atomic!Deliver, decisions, deliveries

LEMMA ReadMetadataIsAtomic ==
    ASSUME SnapshotInv, NEW c \in Readers, NEW r \in Reads, ReadMetadata(c, r)
    PROVE  \/ Atomic!GiveUp(c)
           \/ r.op \in {"page", "exportSnapshot"} /\ Atomic!Decide(c, r)
<1>1. /\ DOMAIN call = Conns /\ DOMAIN view = Conns /\ DOMAIN reply = Conns /\ c \in Conns
  BY DEF SnapshotInv, TypeInv, TypeOK, CallsTyped, AnswersAreGood, Conns
<1>2. /\ pc[c] = "idle" /\ UNCHANGED db
      /\ call'[c] = r /\ reply'[c] = NoReply
      /\ view'[c] = IF InTransaction(r) THEN db ELSE NoView
      /\ \A d \in Readers : d # c => UNCHANGED <<call[d], view[d], reply[d]>>
  BY <1>1 DEF ReadMetadata, Conns
<1>3. Delivered(c)' = NoAnswer
  BY <1>2 DEF Delivered, Answered, NoReply
<1>4. CASE InTransaction(r)
  <2>1. db # NoView
    BY DEF SnapshotInv, TypeInv, TypeOK, DatabaseTyped, Versions, NoView
  <2>2. Decided(c)' = AnswerOf(r, db)
    BY <1>2, <1>4, <2>1 DEF Decided
  <2>3. Decided(c) = NoAnswer
    BY <1>1, <1>2 DEF Decided, SnapshotInv, SnapshotsAreOfTransactions
  <2>4. Decided(c)' = Atomic!AnswerOf(r, db)
    BY <2>2, AnswersAreTheSame
  <2>5. Atomic!Decide(c, r)
    BY <1>2, <1>3, <2>3, <2>4, OneReaderMoves DEF Atomic!Decide, decisions, deliveries
  <2>6. QED
    BY <1>4, <2>5 DEF InTransaction
<1>5. CASE ~InTransaction(r)
  <2>1. Decided(c)' = NoAnswer
    BY <1>2, <1>5 DEF Decided
  <2>2. QED
    BY <1>2, <1>3, <2>1, OneReaderMoves DEF Atomic!GiveUp, decisions, deliveries
<1>6. QED BY <1>4, <1>5

LEMMA FoundIsAtomic ==
    ASSUME SnapshotInv, NEW c \in Readers, ReadScopeCoverage(c)
    PROVE  Atomic!GiveUp(c) \/ Atomic!Deliver(c)
<1>1. c \in Conns /\ pc[c] = "coverage" /\ UNCHANGED db
  BY DEF ReadScopeCoverage, Conns
<1>2. CASE call[c].op = "page"
  <2>1. InTransaction(call[c]) /\ view[c] # NoView
    BY <1>1, <1>2 DEF InTransaction, SnapshotInv, TransactionsFollowSnapshots
  <2>2. ~SomeAhead(c, Source(c).coverage)
    BY <1>1, <2>1, NoneAheadInTransactions
  <2>3. Return(c, Envelope(c, Source(c).coverage))
    BY <2>2 DEF ReadScopeCoverage, SomeAhead
  <2>4. PICK answer : answer = Envelope(c, Source(c).coverage)
    OBVIOUS
  <2>5. answer = PageOf(call[c], view[c]) /\ answer.status = "ok" /\ answer.call = call[c]
    BY <1>1, <1>2, <2>4, PageIsOfItsSnapshot DEF Envelope
  <2>6. answer = AnswerOf(call[c], view[c])
    BY <1>2, <2>5 DEF AnswerOf
  <2>7. QED
    BY <1>1, <1>2, <2>1, <2>3, <2>4, <2>5, <2>6, DeliveryIsAtomic
<1>3. CASE call[c].op # "page"
  <2>1. PICK answer : Return(c, answer) /\ (answer.status = "ok" => answer.call.op = "find")
    BY <1>3 DEF ReadScopeCoverage, Envelope, Ended
  <2>2. QED
    BY <1>1, <2>1, EndIsAtomic
<1>4. QED BY <1>2, <1>3

LEMMA ExportIsAtomic ==
    ASSUME SnapshotInv, NEW c \in Readers, ExportCoverage(c)
    PROVE  Atomic!Deliver(c)
<1>1. /\ c \in Conns /\ pc[c] = "coverage" /\ call[c].op = "exportSnapshot" /\ InTransaction(call[c])
      /\ UNCHANGED db
  BY DEF ExportCoverage, Conns, InTransaction
<1>2. /\ view[c] # NoView /\ Source(c) = view[c]
      /\ seen[c].label = view[c].label /\ seen[c].revision = view[c].revision
      /\ seen[c].objects = view[c].objects
  BY <1>1 DEF SnapshotInv, TransactionsFollowSnapshots, Source
<1>3. ~SomeAhead(c, Source(c).coverage)
  BY <1>1, NoneAheadInTransactions
<1>4. call[c] = Export
  <2>1. call[c] \in Reads \cup SetCoverages \cup {NoCall}
    BY <1>1 DEF SnapshotInv, TypeInv, TypeOK, CallsTyped
  <2>2. QED
    BY <1>1, <2>1 DEF Reads, Finds, Pages, Export, Verify, SetCoverages, NoCall
<1>5. PICK answer : answer = ExportOf(call[c], view[c])
  OBVIOUS
<1>6. Return(c, answer)
  BY <1>2, <1>3, <1>4, <1>5 DEF ExportCoverage, ExportOf
<1>7. answer = AnswerOf(call[c], view[c]) /\ answer.status = "ok" /\ answer.call = call[c]
  BY <1>1, <1>5 DEF AnswerOf, ExportOf
<1>8. QED
  BY <1>1, <1>2, <1>6, <1>7, DeliveryIsAtomic

LEMMA ReaderIsAtomic ==
    ASSUME SnapshotInv, NEW c \in Readers, Read(c)
    PROVE  Atomic!Next \/ UNCHANGED Atomic!vars
<1>1. CASE ReadObjects(c)
  <2>1. \A d \in Readers : UNCHANGED <<call[d], view[d], reply[d]>>
    BY <1>1 DEF ReadObjects
  <2>2. UNCHANGED <<db, decisions, deliveries>>
    BY <1>1, <2>1, OthersKeepTheirAnswers DEF ReadObjects, decisions, deliveries
  <2>3. QED
    BY <2>2 DEF Atomic!vars, decisions, deliveries
<1>2. CASE VerifyCoverage(c) /\ ~ \E answer : Return(c, answer)
  <2>1. \A d \in Readers : UNCHANGED <<call[d], view[d], reply[d]>>
    BY <1>2 DEF VerifyCoverage
  <2>2. UNCHANGED <<db, decisions, deliveries>>
    BY <1>2, <2>1, OthersKeepTheirAnswers DEF VerifyCoverage, decisions, deliveries
  <2>3. QED
    BY <2>2 DEF Atomic!vars, decisions, deliveries
<1>3. CASE \/ VerifyCoverage(c) /\ \E answer : Return(c, answer)
           \/ CountObjects(c) \/ AccessError(c) \/ \E id \in ObjectIds : GetObject(c, id)
  <2>1. PICK answer : /\ Return(c, answer) /\ UNCHANGED db
                      /\ answer.status = "ok" => answer.call.op \in {"verifyIntegrity", "getObject"}
    <3>1. CASE VerifyCoverage(c) /\ \E answer : Return(c, answer)
      <4>1. SomeAhead(c, db.coverage) \/ pc' = [pc EXCEPT ![c] = "count"]
        BY <3>1 DEF VerifyCoverage
      <4>2. pc'[c] = "idle"
        BY <3>1 DEF Return, Conns, SnapshotInv, TypeInv, TypeOK, CallsTyped
      <4>3. pc' # [pc EXCEPT ![c] = "count"]
        BY <4>2 DEF Conns, SnapshotInv, TypeInv, TypeOK, CallsTyped
      <4>4. Return(c, Ended("verifyIntegrity", "E_STORE_INTEGRITY")) /\ UNCHANGED db
        BY <3>1, <4>3 DEF VerifyCoverage
      <4>5. QED
        BY <4>4 DEF Ended
    <3>2. CASE CountObjects(c)
      <4>1. PICK counted : counted = [call |-> Verify, status |-> "ok", revision |-> seen[c].revision,
                                      count |-> Cardinality(DOMAIN db.objects)]
        OBVIOUS
      <4>2. Return(c, counted) /\ UNCHANGED db
        BY <3>2, <4>1, Zenon DEF CountObjects
      <4>3. counted.call.op = "verifyIntegrity"
        BY <4>1 DEF Verify
      <4>4. QED
        BY <4>2, <4>3
    <3>3. CASE AccessError(c)
      <4>1. PICK op : Return(c, Ended(op, "E_STORE_ACCESS")) /\ UNCHANGED db
        BY <3>3, Zenon DEF AccessError
      <4>2. Ended(op, "E_STORE_ACCESS").status # "ok"
        BY DEF Ended
      <4>3. QED
        BY <4>1, <4>2
    <3>4. ASSUME NEW id \in ObjectIds, GetObject(c, id)
          PROVE  \E answer : /\ Return(c, answer) /\ UNCHANGED db
                             /\ answer.status = "ok" =>
                                    answer.call.op \in {"verifyIntegrity", "getObject"}
      <4>1. PICK found : found = [call |-> [op |-> "getObject", id |-> id], status |-> "ok",
                                  object |-> IF id \in DOMAIN db.objects THEN db.objects[id] ELSE None]
        OBVIOUS
      <4>2. Return(c, found) /\ UNCHANGED db
        BY <3>4, <4>1, Zenon DEF GetObject
      <4>3. found.call.op = "getObject"
        BY <4>1
      <4>4. QED
        BY <4>2, <4>3
    <3>5. QED
      BY <1>3, <3>1, <3>2, <3>3, <3>4, Zenon
  <2>2. Atomic!GiveUp(c)
    BY <2>1, EndIsAtomic
  <2>3. QED
    BY <2>2 DEF Atomic!Next
<1>4. ASSUME NEW r \in Reads, ReadMetadata(c, r)
      PROVE  Atomic!Next
  BY <1>4, ReadMetadataIsAtomic DEF Atomic!Next
<1>5. CASE ReadScopeCoverage(c) \/ ExportCoverage(c)
  BY <1>5, FoundIsAtomic, ExportIsAtomic DEF Atomic!Next
<1>6. QED
  BY <1>1, <1>2, <1>3, <1>4, <1>5 DEF Read

(* Pages and exports are linearizable: SqliteStore implements AtomicStore,  *)
(* in which each of them is one function of the database of one instant     *)
(* (db.transaction around the statements of a page or an export).           *)
THEOREM PagesAndExportsAreAtomic == Spec => ImplementsAtomicStore
<1>1. SnapshotInv /\ [Next]_vars => [Atomic!Next]_(Atomic!vars)
  <2> SUFFICES ASSUME SnapshotInv, [Next]_vars PROVE Atomic!Next \/ UNCHANGED Atomic!vars
    OBVIOUS
  <2>1. CASE UNCHANGED vars
    <3>1. UNCHANGED <<db, call, view, reply>>
      BY <2>1 DEF vars
    <3>2. \A d \in Readers : UNCHANGED <<call[d], view[d], reply[d]>>
      BY <3>1
    <3>3. UNCHANGED <<db, decisions, deliveries>>
      BY <3>1, <3>2, OthersKeepTheirAnswers DEF decisions, deliveries
    <3>4. QED
      BY <3>3 DEF Atomic!vars, decisions, deliveries
  <2>2. ASSUME NEW w \in Writers, Write(w) PROVE Atomic!Next \/ UNCHANGED Atomic!vars
    BY <2>2, WriterIsAtomic DEF Atomic!Next
  <2>3. QED
    BY <2>1, <2>2, ReaderIsAtomic DEF Next
<1>2. QED
  BY <1>1, AtomicInit, SnapshotInvHolds, PTL DEF Spec, ImplementsAtomicStore, Atomic!Spec
-----------------------------------------------------------------------------
(* One connection writes, as DEPLOYMENT.md requires.  Then a declaration is *)
(* for the current revision when it is written, so every coverage row is    *)
(* for the current revision, and a find that reads complete:true for the    *)
(* revision it read first has read everything of that revision.             *)

OneWriter == \A v, w \in Writers : v = w

RowsAreCurrent == \A s \in DOMAIN db.coverage : db.coverage[s].revision = db.revision

DeclarationsAreInTime ==
    \A c \in Conns : pc[c] = "upsert" => c \in Writers /\ seen[c].revision = db.revision

\* The releases of some bindings.
Released(bindingIds, objects) ==
    {id \in DOMAIN objects : /\ deriveIndexes(objects[id]).payloadType = "fns.alias.release"
                             /\ deriveIndexes(objects[id]).releaseBinding \in bindingIds}

\* What a find has looked up when the binding ids in rest are left.
LookedUp(p, r, rest, objects) ==
    IF r.scope.method = "releases" THEN Released(r.scope.bindingIds \ rest, objects)
    ELSE IF p = "objects" THEN {} ELSE Selected(r.scope, objects)

\* A find at p, of request r, that has seen s, agrees with version v of the
\* database if v is still the revision it began in.
FindFollows(p, r, s, v) ==
    p \in {"objects", "coverage"} /\ r.op = "find" =>
        /\ s.rest \subseteq ChunksOf(r)
        /\ p = "coverage" => s.rest = {}
        /\ s.revision = v.revision =>
               /\ s.label = v.label
               /\ s.objects = Rows(LookedUp(p, r, s.rest, v.objects), v.objects)

FindsFollowTheRevision == \A c \in Conns : FindFollows(pc[c], call[c], seen[c], db)

\* What CompleteFindsAreExact says of one answer a.
GoodFind(a, n, h) ==
    a.status = "ok" /\ a.call.op = "find" /\ a.complete =>
        /\ a.revision \in 0 .. n
        /\ a.label = h[a.revision].label
        /\ a.objects = Rows(Selected(a.call.scope, h[a.revision].objects), h[a.revision].objects)
        /\ a.call.scope \in h[a.revision].declared

FindsAreGood == \A c \in Conns : GoodFind(reply[c], db.revision, history)

FindInv ==
    /\ SnapshotInv
    /\ RowsAreCurrent
    /\ DeclarationsAreInTime
    /\ FindsFollowTheRevision
    /\ FindsAreGood

LEMMA ReleasesAreSelected ==
    ASSUME NEW s \in Scopes, s.method = "releases", NEW objects, NEW chunk
    PROVE  /\ Selected(s, objects) = Released(s.bindingIds, objects)
           /\ Selected([s EXCEPT !.bindingIds = chunk], objects) = Released(chunk, objects)
<1> DEFINE t == [s EXCEPT !.bindingIds = chunk]
<1>1. t.method = "releases" /\ t.bindingIds = chunk
  BY BindingIdsAreOrdered
<1>2. \A id, index : /\ Matches(s, id, index) <=> /\ index.payloadType = "fns.alias.release"
                                                  /\ index.releaseBinding \in s.bindingIds
                     /\ Matches(t, id, index) <=> /\ index.payloadType = "fns.alias.release"
                                                  /\ index.releaseBinding \in chunk
  <2> HIDE DEF t
  <2>1. QED
    BY <1>1 DEF Matches
<1>3. Selected(s, objects) = Released(s.bindingIds, objects)
  BY <1>2 DEF Selected, Released
<1>4. Selected(t, objects) = Released(chunk, objects)
  <2> HIDE DEF t
  <2>1. QED
    BY <1>2 DEF Selected, Released
<1>5. QED BY <1>3, <1>4

\* The steps of a connection, as far as the others' calls are concerned.
LEMMA WriteMoves ==
    ASSUME SnapshotInv, NEW w \in Writers, Write(w)
    PROVE  /\ \/ pc'[w] = "idle"
              \/ pc'[w] = "upsert" /\ seen'[w].revision = db.revision /\ UNCHANGED db
           /\ \A d \in Conns : d # w =>
                 pc'[d] = pc[d] /\ call'[d] = call[d] /\ seen'[d] = seen[d]
<1>1. /\ DOMAIN pc = Conns /\ DOMAIN call = Conns /\ DOMAIN seen = Conns /\ w \in Conns
      /\ "revision" \in DOMAIN seen[w]
  BY DEF SnapshotInv, TypeInv, TypeOK, CallsTyped, Conns
<1>2. CASE \E answer : Return(w, answer)
  BY <1>1, <1>2 DEF Return
<1>3. CASE \E r \in SetCoverages : ReadRevision(w, r)
  BY <1>1, <1>3 DEF ReadRevision
<1>4. QED
  BY <1>2, <1>3 DEF Write, ImportSnapshot, AppendEntries, UpsertCoverage, AccessError

LEMMA ReadMoves ==
    ASSUME SnapshotInv, NEW c \in Readers, Read(c)
    PROVE  /\ UNCHANGED <<db, history>>
           /\ pc'[c] # "upsert"
           /\ \/ pc'[c] \in {"idle", "count"} \/ ReadObjects(c)
              \/ \E r \in Reads : ReadMetadata(c, r)
           /\ \A d \in Conns : d # c =>
                 pc'[d] = pc[d] /\ call'[d] = call[d] /\ seen'[d] = seen[d]
<1>1. DOMAIN pc = Conns /\ DOMAIN call = Conns /\ DOMAIN seen = Conns /\ c \in Conns
  BY DEF SnapshotInv, TypeInv, TypeOK, CallsTyped, Conns
<1>2. CASE (\E answer : Return(c, answer)) /\ UNCHANGED <<db, history>>
  BY <1>1, <1>2 DEF Return
<1>3. CASE ReadObjects(c)
  BY <1>1, <1>3 DEF ReadObjects
<1>4. ASSUME NEW r \in Reads, ReadMetadata(c, r)
      PROVE  /\ UNCHANGED <<db, history>>
             /\ pc'[c] # "upsert"
             /\ \A d \in Conns : d # c =>
                   pc'[d] = pc[d] /\ call'[d] = call[d] /\ seen'[d] = seen[d]
  BY <1>1, <1>4 DEF ReadMetadata
<1>5. CASE VerifyCoverage(c)
  BY <1>1, <1>2, <1>5 DEF VerifyCoverage
<1>6. QED
  BY <1>2, <1>3, <1>4, <1>5
  DEF Read, ReadScopeCoverage, ExportCoverage, CountObjects, GetObject, AccessError

LEMMA RowsStep ==
    ASSUME SnapshotInv, RowsAreCurrent, DeclarationsAreInTime, [Next]_vars
    PROVE  RowsAreCurrent'
<1>1. CASE UNCHANGED db
  BY <1>1 DEF RowsAreCurrent
<1>2. ASSUME NEW l, NEW o, NEW k, Commit(l, o, k),
             \A s \in DOMAIN k : k[s].revision = db.revision + 1
      PROVE  RowsAreCurrent'
  BY <1>2 DEF Commit, RowsAreCurrent
<1>3. ASSUME NEW w \in Writers, UpsertCoverage(w)
      PROVE  RowsAreCurrent'
  <2>1. w \in Conns /\ pc[w] = "upsert" /\ seen[w].revision = db.revision
    BY <1>3 DEF UpsertCoverage, DeclarationsAreInTime, Conns
  <2>2. /\ db'.revision = db.revision
        /\ db'.coverage = [s \in DOMAIN db.coverage \cup {call[w].scope} |->
                              IF s = call[w].scope
                              THEN [complete |-> call[w].complete, revision |-> seen[w].revision]
                              ELSE db.coverage[s]]
    BY <1>3 DEF UpsertCoverage, SnapshotInv, TypeInv, TypeOK, DatabaseTyped, Versions
  <2>3. QED
    BY <2>1, <2>2 DEF RowsAreCurrent
<1>4. ASSUME NEW w \in Writers, NEW batch, NEW declarations, NEW replace, NEW label,
             ImportSnapshot(w, batch, declarations, replace, label)
      PROVE  RowsAreCurrent'
  <2> DEFINE k == normalizeCoverage(declarations, db.revision + 1)
  <2>1. \A s \in DOMAIN k : k[s].revision = db.revision + 1
    BY DEF normalizeCoverage
  <2>2. UNCHANGED db \/ \E l, o : Commit(l, o, k)
    BY <1>4 DEF ImportSnapshot
  <2>3. QED
    BY <1>1, <1>2, <2>1, <2>2
<1>5. ASSUME NEW w \in Writers, NEW batch, AppendEntries(w, batch)
      PROVE  RowsAreCurrent'
  <2>1. \A s \in DOMAIN NoRows : NoRows[s].revision = db.revision + 1
    BY DEF NoRows
  <2>2. UNCHANGED db \/ \E l, o : Commit(l, o, NoRows)
    BY <1>5 DEF AppendEntries
  <2>3. QED
    BY <1>1, <1>2, <2>1, <2>2
<1>6. ASSUME NEW w \in Writers, Write(w)
      PROVE  RowsAreCurrent'
  BY <1>1, <1>3, <1>4, <1>5, <1>6 DEF Write, ReadRevision, AccessError
<1>7. QED
  BY <1>1, <1>6, ReadMoves DEF Next, vars

\* No other connection commits between the two statements of a setCoverage.
LEMMA InTimeStep ==
    ASSUME OneWriter, SnapshotInv, DeclarationsAreInTime, [Next]_vars
    PROVE  DeclarationsAreInTime'
<1>1. CASE UNCHANGED vars
  BY <1>1 DEF vars, DeclarationsAreInTime
<1>2. ASSUME NEW w \in Writers, Write(w), NEW d \in Conns, pc'[d] = "upsert"
      PROVE  d \in Writers /\ seen'[d].revision = db'.revision
  <2>1. CASE d = w
    BY <1>2, <2>1, WriteMoves
  <2>2. CASE d # w
    BY <1>2, <2>2, WriteMoves DEF OneWriter, DeclarationsAreInTime
  <2>3. QED BY <2>1, <2>2
<1>3. ASSUME NEW c \in Readers, Read(c), NEW d \in Conns, pc'[d] = "upsert"
      PROVE  d \in Writers /\ seen'[d].revision = db'.revision
  BY <1>3, ReadMoves DEF DeclarationsAreInTime
<1>4. QED
  BY <1>1, <1>2, <1>3 DEF Next, DeclarationsAreInTime

\* A find goes on agreeing with a database it is not moved by.
LEMMA OtherFindsFollow ==
    ASSUME FindInv, [Next]_vars, NEW d \in Conns,
           pc'[d] = pc[d], call'[d] = call[d], seen'[d] = seen[d]
    PROVE  FindFollows(pc[d], call[d], seen[d], db)'
<1>1. seen[d].revision \in 0 .. db.revision /\ db.revision \in Nat
  BY RevisionTyped DEF FindInv, SnapshotInv, TypeInv, TypeOK, CallsTyped
<1>2. seen[d].revision = db'.revision =>
         db'.revision = db.revision /\ db'.label = db.label /\ db'.objects = db.objects
  BY <1>1, RevisionStep DEF FindInv
<1>3. FindFollows(pc[d], call[d], seen[d], db)
  BY DEF FindInv, FindsFollowTheRevision
<1>4. QED
  BY <1>2, <1>3 DEF FindFollows

LEMMA FindBegins ==
    ASSUME FindInv, NEW c \in Conns, NEW r \in Reads, ReadMetadata(c, r)
    PROVE  FindFollows(pc[c], call[c], seen[c], db)'
<1>1. /\ call'[c] = r /\ db' = db
      /\ pc'[c] = IF NothingToLookUp(r) THEN "coverage" ELSE "objects"
      /\ seen'[c] = [label |-> db.label, revision |-> db.revision,
                     objects |-> NoRows, rest |-> ChunksOf(r)]
  BY DEF ReadMetadata, FindInv, SnapshotInv, TypeInv, TypeOK, CallsTyped
<1>2. NothingToLookUp(r) /\ r.op = "find" => ChunksOf(r) = {}
  BY DEF NothingToLookUp, ChunksOf
<1>3. r.op = "find" => LookedUp(pc'[c], r, ChunksOf(r), db.objects) = {}
  BY <1>1 DEF LookedUp, Released, ChunksOf, NothingToLookUp
<1>4. NoRows = Rows({}, db.objects)
  BY DEF NoRows, Rows
<1>5. QED
  BY <1>1, <1>2, <1>3, <1>4 DEF FindFollows

LEMMA FindGoesOn ==
    ASSUME FindInv, NEW c \in Conns, ReadObjects(c)
    PROVE  FindFollows(pc[c], call[c], seen[c], db)'
<1> DEFINE r == call[c]
           chunk == FirstIds(seen[c].rest, ChunkSize)
           rest == seen[c].rest \ chunk
           read == IdsRead(r, chunk, db.objects)
<1>1. /\ call'[c] = r /\ db' = db /\ pc[c] = "objects"
      /\ pc'[c] = IF rest = {} THEN "coverage" ELSE "objects"
      /\ seen'[c].label = seen[c].label /\ seen'[c].revision = seen[c].revision
      /\ seen'[c].rest = rest
      /\ seen'[c].objects = Insert(Rows(IdsRead(r, chunk, Source(c).objects), Source(c).objects),
                                   seen[c].objects)
  BY DEF ReadObjects, FindInv, SnapshotInv, TypeInv, TypeOK, CallsTyped
<1> SUFFICES ASSUME r.op = "find" PROVE FindFollows(pc[c], call[c], seen[c], db)'
  BY <1>1 DEF FindFollows
<1>2. Source(c) = db
  BY DEF Source, InTransaction
<1>3. r.scope \in Scopes
  <2>1. r \in Reads
    BY <1>1 DEF FindInv, SnapshotInv, TypeInv, CallsAreAtTheirStatements
  <2>2. QED
    BY <2>1 DEF Reads, Finds, Pages, Export, Verify
<1>4. FindFollows("objects", r, seen[c], db)
  BY <1>1 DEF FindInv, FindsFollowTheRevision
<1>5. chunk \subseteq seen[c].rest /\ seen[c].rest \subseteq ChunksOf(r)
  BY <1>4 DEF FirstIds, FindFollows
<1>6. LookedUp(pc'[c], r, rest, db.objects) = LookedUp("objects", r, seen[c].rest, db.objects) \cup read
  <2>1. CASE r.scope.method = "releases"
    <3>1. read = Released(chunk, db.objects)
      BY <1>3, <2>1, ReleasesAreSelected DEF IdsRead
    <3>2. r.scope.bindingIds \ rest = (r.scope.bindingIds \ seen[c].rest) \cup chunk
      BY <1>5, <2>1 DEF ChunksOf
    <3> HIDE DEF read, rest, chunk, r
    <3>3. Released(r.scope.bindingIds \ rest, db.objects) =
             Released(r.scope.bindingIds \ seen[c].rest, db.objects) \cup Released(chunk, db.objects)
      BY <3>2 DEF Released
    <3>4. QED
      BY <2>1, <3>1, <3>3 DEF LookedUp
  <2>2. CASE r.scope.method # "releases"
    <3>1. read = Selected(r.scope, db.objects)
      BY <2>2 DEF IdsRead
    <3>2. rest = {} /\ pc'[c] = "coverage"
      BY <1>1, <1>5, <2>2 DEF ChunksOf
    <3>3. QED
      BY <2>2, <3>1, <3>2 DEF LookedUp
  <2>3. QED BY <2>1, <2>2
<1>7. \A ids, more : Insert(Rows(more, db.objects), Rows(ids, db.objects)) = Rows(ids \cup more, db.objects)
  BY DEF Insert, Rows
<1>8. seen[c].revision = db.revision =>
         seen'[c].objects = Rows(LookedUp(pc'[c], r, rest, db.objects), db.objects)
  <2> HIDE DEF read
  <2>1. seen'[c].objects = Insert(Rows(read, db.objects), seen[c].objects)
    BY <1>1, <1>2 DEF read
  <2>2. seen[c].revision = db.revision =>
           seen[c].objects = Rows(LookedUp("objects", r, seen[c].rest, db.objects), db.objects)
    BY <1>4 DEF FindFollows
  <2> DEFINE old == LookedUp("objects", r, seen[c].rest, db.objects)
  <2> HIDE DEF old
  <2>3. Insert(Rows(read, db.objects), Rows(old, db.objects)) = Rows(old \cup read, db.objects)
    BY <1>7
  <2>4. LookedUp(pc'[c], r, rest, db.objects) = old \cup read
    BY <1>6 DEF old
  <2>5. seen[c].revision = db.revision => seen[c].objects = Rows(old, db.objects)
    BY <2>2 DEF old
  <2>6. QED
    BY <2>1, <2>3, <2>4, <2>5
<1>9. seen[c].revision = db.revision => seen[c].label = db.label
  BY <1>4 DEF FindFollows
<1>10. rest \subseteq ChunksOf(r) /\ (pc'[c] = "coverage" => rest = {})
  BY <1>1, <1>5
<1> HIDE DEF rest, read, chunk, r
<1>11. QED
  BY <1>1, <1>8, <1>9, <1>10 DEF FindFollows

LEMMA FindsFollowStep ==
    ASSUME FindInv, [Next]_vars
    PROVE  FindsFollowTheRevision'
<1>1. SnapshotInv
  BY DEF FindInv
<1> SUFFICES ASSUME NEW d \in Conns PROVE FindFollows(pc[d], call[d], seen[d], db)'
  BY DEF FindsFollowTheRevision
<1>2. CASE pc'[d] = pc[d] /\ call'[d] = call[d] /\ seen'[d] = seen[d]
  BY <1>2, OtherFindsFollow
<1>3. CASE pc'[d] \notin {"objects", "coverage"}
  BY <1>3 DEF FindFollows
<1>4. CASE UNCHANGED vars
  BY <1>2, <1>4 DEF vars
<1>5. ASSUME NEW w \in Writers, Write(w)
      PROVE  FindFollows(pc[d], call[d], seen[d], db)'
  BY <1>1, <1>2, <1>3, <1>5, WriteMoves
<1>6. ASSUME NEW c \in Readers, Read(c)
      PROVE  FindFollows(pc[d], call[d], seen[d], db)'
  <2>1. CASE d # c
    BY <1>1, <1>2, <1>6, <2>1, ReadMoves
  <2>2. CASE d = c
    BY <1>1, <1>3, <1>6, <2>2, ReadMoves, FindBegins, FindGoesOn
  <2>3. QED BY <2>1, <2>2
<1>7. QED
  BY <1>4, <1>5, <1>6 DEF Next

LEMMA FindIsExact ==
    ASSUME FindInv, NEW c \in Conns, ReadScopeCoverage(c), call[c].op = "find"
    PROVE  GoodFind(Envelope(c, db.coverage), db.revision, history)
<1> DEFINE r == call[c]
           a == Envelope(c, db.coverage)
<1>1. pc[c] = "coverage"
  BY DEF ReadScopeCoverage
<1>2. a.call = r /\ a.label = seen[c].label /\ a.revision = seen[c].revision
      /\ a.objects = Rows(DOMAIN seen[c].objects, seen[c].objects)
  BY DEF Envelope
<1>3. a.complete => readComplete(c, r.scope, db.coverage)
  BY Zenon DEF Envelope
<1> HIDE DEF a
<1> SUFFICES ASSUME a.complete PROVE GoodFind(a, db.revision, history)
  BY DEF a, GoodFind
<1>4. r.scope \in DOMAIN db.coverage /\ db.coverage[r.scope].complete
      /\ db.coverage[r.scope].revision = seen[c].revision
  BY <1>3 DEF readComplete
<1>5. seen[c].revision = db.revision
  BY <1>4 DEF FindInv, RowsAreCurrent
<1>6. FindFollows("coverage", r, seen[c], db)
  BY <1>1 DEF FindInv, FindsFollowTheRevision
<1>7. /\ seen[c].rest = {} /\ seen[c].label = db.label
      /\ seen[c].objects = Rows(LookedUp("coverage", r, {}, db.objects), db.objects)
  BY <1>5, <1>6 DEF FindFollows
<1>8. LookedUp("coverage", r, {}, db.objects) = Selected(r.scope, db.objects)
  <2>1. r \in Reads
    BY <1>1 DEF FindInv, SnapshotInv, TypeInv, CallsAreAtTheirStatements
  <2>2. r.scope \in Scopes
    BY <2>1 DEF Reads, Finds, Pages, Export, Verify
  <2> HIDE DEF r
  <2>3. r.scope.bindingIds \ {} = r.scope.bindingIds
    OBVIOUS
  <2>4. QED
    BY <2>2, <2>3, ReleasesAreSelected DEF LookedUp
<1>9. a.objects = Rows(Selected(r.scope, db.objects), db.objects)
  BY <1>2, <1>7, <1>8 DEF Rows
<1>10. /\ db.revision \in 0 .. db.revision /\ db.label = history[db.revision].label
       /\ db.objects = history[db.revision].objects
       /\ r.scope \in history[db.revision].declared
  BY <1>4, <1>5 DEF FindInv, SnapshotInv, VersionsAreFaithful, Faithful
<1> HIDE DEF r
<1>11. QED
  BY <1>2, <1>5, <1>7, <1>9, <1>10 DEF GoodFind, r

LEMMA GoodFindForGood ==
    ASSUME NEW a, NEW h, NEW n, NEW g, NEW m, Continues(h, n, g, m), GoodFind(a, n, h)
    PROVE  GoodFind(a, m, g)
BY DEF Continues, GoodFind

\* The answer a step gives, if any, is not a find's or is exact.
LEMMA FindAnswered ==
    ASSUME FindInv, [Next]_vars, NEW d \in Conns
    PROVE  reply'[d] = reply[d] \/ GoodFind(reply'[d], db'.revision, history')
<1>1. DOMAIN reply = Conns /\ NoReply.status # "ok"
  BY DEF FindInv, SnapshotInv, AnswersAreGood, NoReply
<1>2. ASSUME NEW c \in Conns, NEW a, Return(c, a), ~(a.status = "ok" /\ a.call.op = "find")
      PROVE  reply'[d] = reply[d] \/ GoodFind(reply'[d], db'.revision, history')
  <2>1. reply'[d] = reply[d] \/ reply'[d] = a
    BY <1>1, <1>2 DEF Return
  <2>2. QED
    BY <1>2, <2>1 DEF GoodFind
<1>3. ASSUME NEW c \in Conns, reply' = [reply EXCEPT ![c] = NoReply]
      PROVE  reply'[d] = reply[d] \/ GoodFind(reply'[d], db'.revision, history')
  <2>1. reply'[d] = reply[d] \/ reply'[d] = NoReply
    BY <1>1, <1>3
  <2>2. QED
    BY <1>1, <2>1 DEF GoodFind
<1>4. ASSUME NEW c \in Conns, NEW op, NEW status, Return(c, Ended(op, status)),
             op # "find" \/ status # "ok"
      PROVE  reply'[d] = reply[d] \/ GoodFind(reply'[d], db'.revision, history')
  <2>1. ~(Ended(op, status).status = "ok" /\ Ended(op, status).call.op = "find")
    BY <1>4 DEF Ended
  <2>2. QED
    BY <1>2, <1>4, <2>1
<1>5. ASSUME NEW c \in Conns, AccessError(c)
      PROVE  reply'[d] = reply[d] \/ GoodFind(reply'[d], db'.revision, history')
  <2>1. PICK op : Return(c, Ended(op, "E_STORE_ACCESS"))
    BY <1>5, Zenon DEF AccessError
  <2>2. QED
    BY <1>4, <2>1
<1>6. ASSUME NEW c \in Readers, ReadScopeCoverage(c)
      PROVE  reply'[d] = reply[d] \/ GoodFind(reply'[d], db'.revision, history')
  <2>1. c \in Conns
    BY DEF Conns
  <2>2. CASE Return(c, Ended(call[c].op, "E_STORE_INTEGRITY"))
    BY <1>4, <2>1, <2>2
  <2>3. CASE Return(c, Envelope(c, Source(c).coverage))
    <3>1. Envelope(c, Source(c).coverage).call = call[c]
      BY DEF Envelope
    <3>2. CASE call[c].op # "find"
      BY <1>2, <2>1, <2>3, <3>1, <3>2
    <3>3. CASE call[c].op = "find"
      <4>1. Source(c) = db
        BY <3>3 DEF Source, InTransaction
      <4>2. GoodFind(Envelope(c, db.coverage), db.revision, history)
        BY <1>6, <2>1, <3>3, FindIsExact
      <4>3. UNCHANGED <<db, history>>
        BY <1>6 DEF ReadScopeCoverage
      <4>4. reply'[d] = reply[d] \/ reply'[d] = Envelope(c, db.coverage)
        BY <1>1, <2>3, <4>1 DEF Return
      <4>5. QED
        BY <4>2, <4>3, <4>4
    <3>4. QED BY <3>2, <3>3
  <2>4. QED
    BY <1>6, <2>2, <2>3 DEF ReadScopeCoverage
<1>7. ASSUME NEW c \in Readers, ExportCoverage(c) \/ CountObjects(c) \/ \E id \in ObjectIds : GetObject(c, id)
      PROVE  \E a : Return(c, a) /\ ~(a.status = "ok" /\ a.call.op = "find")
  <2>1. CASE CountObjects(c)
    <3>1. PICK a : a = [call |-> Verify, status |-> "ok", revision |-> seen[c].revision,
                        count |-> Cardinality(DOMAIN db.objects)]
      OBVIOUS
    <3>2. Return(c, a)
      BY <2>1, <3>1, Zenon DEF CountObjects
    <3>3. a.call.op # "find"
      BY <3>1 DEF Verify
    <3>4. QED BY <3>2, <3>3
  <2>2. ASSUME NEW id \in ObjectIds, GetObject(c, id)
        PROVE  \E a : Return(c, a) /\ ~(a.status = "ok" /\ a.call.op = "find")
    <3>1. PICK a : a = [call |-> [op |-> "getObject", id |-> id], status |-> "ok",
                        object |-> IF id \in DOMAIN db.objects THEN db.objects[id] ELSE None]
      OBVIOUS
    <3>2. Return(c, a)
      BY <2>2, <3>1, Zenon DEF GetObject
    <3>3. a.call.op # "find"
      BY <3>1
    <3>4. QED BY <3>2, <3>3
  <2>3. CASE ExportCoverage(c)
    <3> DEFINE coverage == Source(c).coverage
               fresh == {s \in DOMAIN coverage : coverage[s].revision = seen[c].revision}
    <3>1. PICK a : a = [call |-> Export, status |-> "ok",
                        label |-> seen[c].label, revision |-> seen[c].revision,
                        objects |-> seen[c].objects,
                        coverage |-> {[scope |-> s, complete |-> coverage[s].complete] : s \in fresh}]
      OBVIOUS
    <3>2. Return(c, Ended("exportSnapshot", "E_STORE_INTEGRITY")) \/ Return(c, a)
      BY <2>3, <3>1, Zenon DEF ExportCoverage
    <3>3. a.call.op # "find" /\ Ended("exportSnapshot", "E_STORE_INTEGRITY").status # "ok"
      BY <3>1 DEF Export, Ended
    <3>4. QED BY <3>2, <3>3
  <2>4. QED
    BY <1>7, <2>1, <2>2, <2>3
<1>8. ASSUME NEW w \in Writers, Write(w)
      PROVE  reply'[d] = reply[d] \/ GoodFind(reply'[d], db'.revision, history')
  <2>1. w \in Conns
    BY DEF Conns
  <2>2. CASE \E status : Return(w, Ended("write", status))
    BY <1>4, <2>1, <2>2
  <2>3. CASE \E r \in SetCoverages : ReadRevision(w, r)
    BY <1>3, <2>1, <2>3 DEF ReadRevision
  <2>4. QED
    BY <1>5, <1>8, <2>1, <2>2, <2>3 DEF Write, ImportSnapshot, AppendEntries, UpsertCoverage
<1>9. ASSUME NEW c \in Readers, Read(c)
      PROVE  reply'[d] = reply[d] \/ GoodFind(reply'[d], db'.revision, history')
  <2>1. c \in Conns
    BY DEF Conns
  <2>2. CASE \E r \in Reads : ReadMetadata(c, r)
    BY <1>3, <2>1, <2>2 DEF ReadMetadata
  <2>3. CASE ReadObjects(c)
    BY <2>3 DEF ReadObjects
  <2>4. CASE VerifyCoverage(c)
    BY <1>4, <2>1, <2>4 DEF VerifyCoverage
  <2>5. CASE ExportCoverage(c) \/ CountObjects(c) \/ \E id \in ObjectIds : GetObject(c, id)
    BY <1>2, <1>7, <2>1, <2>5
  <2>6. QED
    BY <1>5, <1>6, <1>9, <2>1, <2>2, <2>3, <2>4, <2>5 DEF Read
<1>10. QED
  BY <1>8, <1>9 DEF Next, vars

LEMMA FindsStep ==
    ASSUME FindInv, [Next]_vars
    PROVE  FindsAreGood'
<1>1. Continues(history, db.revision, history', db'.revision)
  BY DatabaseStep DEF FindInv
<1>2. \A d \in Conns : GoodFind(reply[d], db.revision, history)
  BY DEF FindInv, FindsAreGood
<1>3. \A d \in Conns : GoodFind(reply[d], db'.revision, history')
  BY <1>1, <1>2, GoodFindForGood
<1>4. QED
  BY <1>3, FindAnswered DEF FindsAreGood

LEMMA InitFindInv == Init => FindInv
<1> SUFFICES ASSUME Init PROVE FindInv
  OBVIOUS
<1>1. SnapshotInv
  BY InitSnapshotInv
<1>2. db.coverage = NoRows /\ DOMAIN NoRows = {}
  BY DEF Init, NoRows
<1>3. \A c \in Conns : pc[c] = "idle" /\ reply[c] = NoReply
  BY DEF Init
<1>4. RowsAreCurrent /\ DeclarationsAreInTime
  BY <1>2, <1>3 DEF RowsAreCurrent, DeclarationsAreInTime
<1>5. FindsFollowTheRevision /\ FindsAreGood
  BY <1>3 DEF FindsFollowTheRevision, FindFollows, FindsAreGood, GoodFind, NoReply
<1>6. QED
  BY <1>1, <1>4, <1>5 DEF FindInv

LEMMA FindInvHolds == ASSUME OneWriter PROVE Spec => []FindInv
<1>1. FindInv /\ [Next]_vars => FindInv'
  <2> SUFFICES ASSUME FindInv, [Next]_vars PROVE FindInv'
    OBVIOUS
  <2>1. SnapshotInv'
    BY TypeStep, VersionStep, FollowStep, HeldStep, AnswerStep DEF SnapshotInv, FindInv
  <2>2. RowsAreCurrent' /\ DeclarationsAreInTime'
    BY RowsStep, InTimeStep DEF FindInv
  <2>3. QED
    BY <2>1, <2>2, FindsFollowStep, FindsStep DEF FindInv
<1>2. QED
  BY <1>1, InitFindInv, PTL DEF Spec

(* With one writer, complete:true from a discovery method that reads the    *)
(* metadata, the objects (chunk by chunk) and the coverage in separate      *)
(* statements means that the three are of one revision, declared complete   *)
(* (findAliasBindings, findAliasReleases, findCommuneDocuments).            *)
THEOREM CompleteFindsAreOfOneRevision == ASSUME OneWriter PROVE Spec => []CompleteFindsAreExact
<1>1. FindInv => CompleteFindsAreExact
  BY DEF FindInv, FindsAreGood, GoodFind, CompleteFindsAreExact, Answered, Committed
<1>2. QED
  BY FindInvHolds, <1>1, PTL

=============================================================================
