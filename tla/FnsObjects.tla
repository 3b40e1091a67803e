----------------------------- MODULE FnsObjects -----------------------------
(***************************************************************************)
(* Objects, discovery scopes and import batches of the FNS store: the pure *)
(* functions src/sqlite-store.js applies to a request before it touches    *)
(* the database.  No state.                                                *)
(*                                                                         *)
(* An ObjectId is a number, its place in the code-unit order of the        *)
(* `sha256:...` strings (COLLATE BINARY, compareText).  A representation   *)
(* is abstracted to the payload fields discovery looks at; None marks a    *)
(* field that is absent or not a string, so a JSON value that is not an    *)
(* object is the representation whose fields are all None.                 *)
(***************************************************************************)
EXTENDS Naturals, FiniteSets

CONSTANTS
    ObjectIds,      \* the ids that occur
    Objects,        \* the representations that occur (canonical JSON texts)
    Scopes,         \* the discovery scopes that occur
    None            \* SQL NULL

ASSUME ObjectIdsAreOrdered == ObjectIds \subseteq Nat /\ IsFiniteSet(ObjectIds)
ASSUME BindingIdsAreOrdered ==
    \A s \in Scopes : s.method = "releases" =>
        {"method", "bindingIds"} \subseteq DOMAIN s /\ s.bindingIds \subseteq Nat

-----------------------------------------------------------------------------
(* The index columns stored beside a representation. *)
deriveIndexes(object) ==
    LET when(type, field) == IF object.type = type THEN field ELSE None
    IN  [payloadType    |-> object.type,
         bindContext    |-> when("fns.alias.bind", object.context),
         bindAlias      |-> when("fns.alias.bind", object.alias),
         releaseBinding |-> when("fns.alias.release", object.binding),
         communeContext |-> when("fns.commune.update", object.commune)]

(* The WHERE clause of the three discovery queries; a column that is NULL   *)
(* equals nothing.                                                          *)
Matches(scope, id, index) ==
    CASE scope.method = "bindings" ->
            /\ index.payloadType = "fns.alias.bind"
            /\ index.bindContext = scope.context
            /\ index.bindAlias = scope.alias
      [] scope.method = "releases" ->
            /\ index.payloadType = "fns.alias.release"
            /\ index.releaseBinding \in scope.bindingIds
      [] scope.method = "communeDocuments" ->
            \/ id = scope.context
            \/ /\ index.payloadType = "fns.commune.update"
               /\ index.communeContext = scope.context

(* The rows a discovery query selects from a table of objects. *)
Selected(scope, objects) ==
    {id \in DOMAIN objects : Matches(scope, id, deriveIndexes(objects[id]))}

Rows(ids, objects) == [id \in ids |-> objects[id]]

(* ORDER BY object_id LIMIT n *)
FirstIds(ids, n) == {i \in ids : Cardinality({j \in ids : j < i}) < n}

(* One page of a scope: the rows after page.after (0: from the start),      *)
(* fetched with LIMIT limit + 1: the extra row says that there are more.    *)
PageIds(scope, objects, page) ==
    FirstIds({id \in Selected(scope, objects) : id > page.after}, page.limit + 1)

-----------------------------------------------------------------------------
(* A batch is a set of [id, object] entries; normalizeEntries refuses one   *)
(* that gives an id two representations and otherwise keeps one per id.     *)
Conflicting(batch) == \E e, f \in batch : e.id = f.id /\ e.object # f.object

normalizeEntries(batch) ==
    [id \in {e.id : e \in batch} |-> (CHOOSE e \in batch : e.id = id).object]

(* assertNoStoredConflict for every entry of a normalized batch *)
StoredConflict(entries, objects) ==
    \E id \in DOMAIN entries \cap DOMAIN objects : entries[id] # objects[id]

(* insertEntry for every entry that is not stored yet *)
Insert(entries, objects) ==
    [id \in DOMAIN objects \cup DOMAIN entries |->
        IF id \in DOMAIN objects THEN objects[id] ELSE entries[id]]

(* A set of coverage declarations [scope, complete]; normalizeCoverage      *)
(* refuses one that says both of a scope.                                   *)
ContradictoryCoverage(declarations) ==
    \E d, e \in declarations : d.scope = e.scope /\ d.complete # e.complete

(* Variant: rows for the revision after the one the import commits. *)
normalizeCoverageAhead(declarations, revision) ==
    [scope \in {d.scope : d \in declarations} |->
        [complete |-> [scope |-> scope, complete |-> TRUE] \in declarations,
         revision |-> revision + 1]]

normalizeCoverage(declarations, revision) ==
    [scope \in {d.scope : d \in declarations} |->
        [complete |-> [scope |-> scope, complete |-> TRUE] \in declarations,
         revision |-> revision]]

NoRows == [id \in {} |-> None]
=============================================================================
