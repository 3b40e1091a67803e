------------------------------ MODULE Discovery ------------------------------
(***************************************************************************)
(* Discovery over a store (adapter.js): the bindings of an alias and the   *)
(* documents of its commune are looked up at the same time, then the       *)
(* releases of the bindings found; the three answers are checked and       *)
(* merged into one object store for the synchronous resolver.              *)
(*                                                                         *)
(* Records and completeness are those of memory-store.js, which may change *)
(* between the answers; any other store, such as the SQLite one, may also  *)
(* have its content replaced, throw, or answer with something that is not  *)
(* an envelope.                                                            *)
(***************************************************************************)
EXTENDS FnsObjects

CONSTANTS
    Queries,        \* [context, alias] pairs
    Entries,        \* [id, object] pairs that are put
    Contents,       \* contents that may replace the store's
    Malformed       \* an answer that is no envelope

ASSUME EntriesAreObjects == Entries \subseteq [id : ObjectIds, object : Objects]
ASSUME ContentsAreRows == \A content \in Contents : DOMAIN content \subseteq ObjectIds

VARIABLES
    records,        \* the store: [id -> representation]
    completeness,   \* and what it says of its three methods
    call,           \* the discovery: pc, query and the answers it holds
    result,         \* what discoverFromStore returned last, or None
    start,          \* history: the records when the discovery started; None once they were replaced
    read            \* history: completeness of each method when it answered

vars == <<records, completeness, call, result, start, read>>

Methods == {"bindings", "releases", "communeDocuments"}
NoAnswers == [method \in Methods |-> None]

Init ==
    /\ records = NoRows
    /\ completeness = [method \in Methods |-> TRUE]
    /\ call = [pc |-> "idle", query |-> None, answers |-> NoAnswers]
    /\ result = None
    /\ start = NoRows
    /\ read = completeness

-----------------------------------------------------------------------------
(* The store.                                                               *)

(* Variant: a second representation replaces the first. *)
putReplacing(entry) ==
    /\ records' = [id \in DOMAIN records \cup {entry.id} |->
                      IF id = entry.id THEN entry.object ELSE records[id]]
    /\ UNCHANGED <<completeness, call, result, start, read>>

(* MemoryStore.put; a conflicting representation throws. *)
put(entry) ==
    /\ ~StoredConflict(normalizeEntries({entry}), records)
    /\ records' = Insert(normalizeEntries({entry}), records)
    /\ UNCHANGED <<completeness, call, result, start, read>>

setCompleteness(method, complete) ==
    /\ completeness' = [completeness EXCEPT ![method] = complete]
    /\ UNCHANGED <<records, call, result, start, read>>

(* importSnapshot or a restore of the file behind the store. *)
Replace(content) ==
    /\ records' = content
    /\ start' = None
    /\ UNCHANGED <<completeness, call, result, read>>

(* The scope of a method's lookup, and its answer now. *)
ScopeOf(method, query, bindingIds) ==
    [method |-> method, context |-> query.context, alias |-> query.alias, bindingIds |-> bindingIds]

Envelope(method, scope) ==
    [objects |-> Rows(Selected(scope, records), records), complete |-> completeness[method]]

-----------------------------------------------------------------------------
(* The adapter.                                                             *)

Discover(query) ==
    /\ call.pc = "idle"
    /\ call' = [pc |-> "asked", query |-> query, answers |-> NoAnswers]
    /\ result' = None
    /\ start' = records
    /\ UNCHANGED <<records, completeness, read>>

Give(method, answer) ==
    /\ call' = [call EXCEPT !.answers[method] = answer]
    /\ read' = [read EXCEPT ![method] = completeness[method]]
    /\ UNCHANGED <<records, completeness, result, start>>

(* findAliasBindings and findCommuneDocuments, in either order. *)
Answer(method) ==
    /\ call.pc = "asked" /\ method # "releases" /\ call.answers[method] = None
    /\ \/ Give(method, Envelope(method, ScopeOf(method, call.query, {})))
       \/ Give(method, Malformed)

(* The call rejects: a find threw, or an answer is refused. *)
Fail(code) ==
    /\ result' = [status |-> code]
    /\ call' = [call EXCEPT !.pc = "idle"]
    /\ UNCHANGED <<records, completeness, start, read>>

StoreThrows == call.pc \in {"asked", "found"} /\ Fail("unavailable")

(* Both have answered, and the bindings are normalized. *)
NormalizeBindings ==
    /\ call.pc = "asked"
    /\ \A method \in Methods \ {"releases"} : call.answers[method] # None
    /\ IF call.answers["bindings"] = Malformed THEN Fail("integrity")
       ELSE /\ call' = [call EXCEPT !.pc = "found"]
            /\ UNCHANGED <<records, completeness, result, start, read>>

(* Variant: the releases of all bindings but the last one found. *)
AnswerReleasesButLast ==
    LET ids == DOMAIN call.answers["bindings"].objects IN
    /\ call.pc = "found" /\ call.answers["releases"] = None
    /\ Give("releases", Envelope("releases", ScopeOf("releases", call.query,
                                    {id \in ids : \E other \in ids : id < other})))

(* findAliasReleases of the binding ids. *)
AnswerReleases ==
    /\ call.pc = "found" /\ call.answers["releases"] = None
    /\ \/ Give("releases", Envelope("releases",
                    ScopeOf("releases", call.query, DOMAIN call.answers["bindings"].objects)))
       \/ Give("releases", Malformed)

(* Variant of the test in addCandidate: the later envelope wins. *)
NeverInConflict(answers) == FALSE

(* addCandidate meets two representations of one id. *)
InConflict(answers) ==
    \E m, n \in Methods : StoredConflict(answers[m].objects, answers[n].objects)

(* flatten *)
Flatten(answers) ==
    Insert(answers["bindings"].objects,
           Insert(answers["releases"].objects, answers["communeDocuments"].objects))

(* Variant: the store is asked when the answers are merged. *)
IncompleteNow(answers) == {method \in Methods : ~completeness[method]}

(* storeWarnings *)
Incomplete(answers) == {method \in Methods : ~answers[method].complete}

(* The releases and the commune documents are normalized, and all merged.   *)
(* Only the completeness of the bindings goes to the resolver.              *)
Merge ==
    LET answers == call.answers IN
    /\ call.pc = "found" /\ answers["releases"] # None
    /\ \/ /\ \E method \in Methods : answers[method] = Malformed
          /\ Fail("integrity")
       \/ /\ \A method \in Methods : answers[method] # Malformed
          /\ IF InConflict(answers) THEN Fail("integrity")
             ELSE /\ result' = [status |-> "ok", objectStore |-> Flatten(answers),
                                warned |-> Incomplete(answers),
                                complete |-> answers["bindings"].complete]
                  /\ call' = [call EXCEPT !.pc = "idle"]
                  /\ UNCHANGED <<records, completeness, start, read>>

-----------------------------------------------------------------------------
Adapter ==
    \/ \E query \in Queries : Discover(query)
    \/ \E method \in Methods : Answer(method)
    \/ StoreThrows
    \/ NormalizeBindings
    \/ AnswerReleases
    \/ Merge

Next ==
    \/ Adapter
    \/ \E entry \in Entries : put(entry)
    \/ \E method \in Methods, complete \in BOOLEAN : setCompleteness(method, complete)
    \/ \E content \in Contents : Replace(content)

Spec == Init /\ [][Next]_vars

-----------------------------------------------------------------------------
Resolved == result # None /\ result.status = "ok"
OnlyAdded == start # None

(* The shape of the state; releases are looked up after both first answers. *)
TypeOK ==
    /\ DOMAIN records \subseteq ObjectIds
    /\ start # None => DOMAIN start \subseteq ObjectIds
    /\ {completeness, read} \subseteq [Methods -> BOOLEAN]
    /\ call.pc \in {"idle", "asked", "found"}
    /\ call.pc = "found" => call.answers["bindings"] \notin {None, Malformed}
    /\ call.answers["releases"] # None => call.answers["communeDocuments"] # None

(* While objects are only added, a discovery returns nothing that is not in *)
(* the store and misses nothing of its query that was in the store when it  *)
(* was called: the bindings, the commune's documents and, whatever came     *)
(* between the lookups, every release of every binding it returns.  (A      *)
(* binding that is put under the commune's own id during the discovery may  *)
(* be found by that id alone.)  (discoverFromStore)                         *)
DiscoveryMissesNothing ==
    Resolved /\ OnlyAdded =>
        LET found == result.objectStore
            bindings == Selected(ScopeOf("bindings", call.query, {}), found)
                            \ ({call.query.context} \ DOMAIN start)
        IN /\ \A id \in DOMAIN found : id \in DOMAIN records /\ records[id] = found[id]
           /\ \A method \in Methods :
                 Selected(ScopeOf(method, call.query, bindings), start) \subseteq DOMAIN found

(* While objects are only added, no discovery reports a conflict between    *)
(* the answers it merges: an integrity error then means an answer that is   *)
(* no envelope.  (put, addCandidate)                                        *)
IntegrityErrorsAreTrue ==
    result # None /\ result.status = "integrity" /\ OnlyAdded =>
        \E method \in Methods : call.answers[method] = Malformed

(* Even when the store is replaced between the lookups, what is handed to   *)
(* the resolver agrees with each of the three answers.  (flatten)           *)
MergedAnswersAgree ==
    Resolved =>
        \A method \in Methods : \A id \in DOMAIN call.answers[method].objects :
            result.objectStore[id] = call.answers[method].objects[id]

(* A method is reported incomplete exactly when it was when it answered,    *)
(* though it may be declared complete before the answers are merged; the    *)
(* resolver is told of the bindings' completeness and no other.             *)
(* (storeWarnings, resolveAliasFromStore)                                   *)
IncompletenessIsReported ==
    Resolved =>
        /\ result.warned = {method \in Methods : ~read[method]}
        /\ result.complete <=> "bindings" \notin result.warned
=============================================================================
