--------------------------- MODULE Discovery_proofs ---------------------------
(***************************************************************************)
(* Theorems about the two ways to discover: from a store (Discovery) and   *)
(* over HTTP, page by page (Pagination).                                   *)
(*                                                                         *)
(* What a discovery holds at every step: each answer it was given is, as   *)
(* long as objects are only added, a part of the store that contains all   *)
(* of its scope that was there at the start.  The four properties follow   *)
(* from that, for every query, every content and every order of the        *)
(* answers, of what is put between them and of what is replaced.           *)
(*                                                                         *)
(* What a listing holds at every step: up to the mark of its cursor the    *)
(* client has all that was in its scope all along, and while it lists, the *)
(* scope lies between what was there always and what was there ever.       *)
(***************************************************************************)
EXTENDS Discovery, Pagination, FiniteSetTheorems, WellFoundedInduction, TLAPS

-----------------------------------------------------------------------------
(* The inductive invariant.                                                 *)

Given(method) == call.answers[method] \notin {None, Malformed}
Found(method) == call.answers[method].objects

\* What a method was asked.
Scope(method) ==
    ScopeOf(method, call.query, IF method = "releases" THEN DOMAIN Found("bindings") ELSE {})

Within(part, all) == \A id \in DOMAIN part : id \in DOMAIN all /\ all[id] = part[id]

\* An answer is of the store and of its scope, and misses nothing of the start.
Sound(method) ==
    /\ Within(Found(method), records)
    /\ \A id \in DOMAIN Found(method) : Matches(Scope(method), id, deriveIndexes(records[id]))
    /\ Selected(Scope(method), start) \subseteq DOMAIN Found(method)

CallShape ==
    /\ call = [pc |-> call.pc, query |-> call.query, answers |-> call.answers]
    /\ call.answers = [method \in Methods |-> call.answers[method]]

\* The order of the lookups; what was returned stays until the next discovery.
Progress ==
    /\ result # None => call.pc = "idle"
    /\ call.pc = "found" => call.answers["communeDocuments"] # None
    /\ call.answers["releases"] # None => Given("bindings")

StartIsKept == OnlyAdded => Within(start, records)
AnswersAreDated ==
    \A method \in Methods : Given(method) => call.answers[method].complete = read[method]
AnswersAreSound == OnlyAdded => \A method \in Methods : Given(method) => Sound(method)

DiscoveryInv ==
    /\ TypeOK /\ CallShape /\ Progress
    /\ StartIsKept /\ AnswersAreDated /\ AnswersAreSound
    /\ DiscoveryMissesNothing /\ IntegrityErrorsAreTrue
    /\ MergedAnswersAgree /\ IncompletenessIsReported

-----------------------------------------------------------------------------
(* The operators.                                                           *)

\* A store that only grew still holds what it held ...
LEMMA WithinIsTransitive ==
    ASSUME NEW part, NEW some, NEW all, Within(part, some), Within(some, all)
    PROVE  Within(part, all)
BY DEF Within

LEMMA InsertKeeps ==
    ASSUME NEW entries, NEW objects
    PROVE  Within(objects, Insert(entries, objects))
BY DEF Within, Insert

\* ... and a lookup finds at least what it found before.
LEMMA SelectedGrows ==
    ASSUME NEW scope, NEW part, NEW all, Within(part, all)
    PROVE  Selected(scope, part) \subseteq Selected(scope, all)
BY DEF Selected, Within

\* What one lookup of a store answers.
LEMMA EnvelopeIsSound ==
    ASSUME NEW method, NEW scope
    PROVE  LET found == Envelope(method, scope).objects
           IN  /\ DOMAIN found = Selected(scope, records)
               /\ Within(found, records)
               /\ \A id \in DOMAIN found : Matches(scope, id, deriveIndexes(records[id]))
BY DEF Envelope, Rows, Selected, Within

\* What put stores of an entry.
LEMMA OneEntry ==
    ASSUME NEW entry \in Entries, DOMAIN records \subseteq ObjectIds
    PROVE  DOMAIN Insert(normalizeEntries({entry}), records) \subseteq ObjectIds
<1>1. entry.id \in ObjectIds
  BY EntriesAreObjects
<1>2. DOMAIN normalizeEntries({entry}) = {entry.id}
  BY DEF normalizeEntries
<1>3. QED
  BY <1>1, <1>2 DEF Insert

\* A binding is found by what it says, another document of the commune by its
\* type or its id, and nothing is found both ways but under the commune's id.
LEMMA BindingsAreFoundOnce ==
    ASSUME NEW query, NEW ids, NEW id, NEW index,
           Matches(ScopeOf("bindings", query, {}), id, index), id # query.context
    PROVE  /\ ~Matches(ScopeOf("releases", query, ids), id, index)
           /\ ~Matches(ScopeOf("communeDocuments", query, {}), id, index)
BY DEF Matches, ScopeOf

\* The lookup of releases grows with the bindings it is given.
LEMMA ReleasesGrow ==
    ASSUME NEW query, NEW some, NEW all, some \subseteq all, NEW objects
    PROVE  Selected(ScopeOf("releases", query, some), objects)
               \subseteq Selected(ScopeOf("releases", query, all), objects)
BY DEF Selected, Matches, ScopeOf

\* The other two do not look at them.
LEMMA OthersIgnoreBindings ==
    ASSUME NEW method \in {"bindings", "communeDocuments"}, NEW query, NEW some, NEW all, NEW objects
    PROVE  Selected(ScopeOf(method, query, some), objects) = Selected(ScopeOf(method, query, all), objects)
<1>1. \A id, index : Matches(ScopeOf(method, query, some), id, index)
                         <=> Matches(ScopeOf(method, query, all), id, index)
  BY DEF Matches, ScopeOf
<1>2. QED BY <1>1 DEF Selected

\* Three answers that agree are each a part of what they are merged to, and
\* nothing else is.
LEMMA FlattenMerges ==
    ASSUME NEW answers, ~InConflict(answers)
    PROVE  /\ \A method \in Methods : Within(answers[method].objects, Flatten(answers))
           /\ \A id \in DOMAIN Flatten(answers) :
                 \E method \in Methods : id \in DOMAIN answers[method].objects
BY DEF InConflict, StoredConflict, Flatten, Insert, Within, Methods

-----------------------------------------------------------------------------
(* Steps of the store.                                                      *)

LEMMA DiscoveryInit == Init => DiscoveryInv
<1> SUFFICES ASSUME Init PROVE DiscoveryInv
  OBVIOUS
<1>1. TypeOK
  BY DEF Init, TypeOK, NoRows, NoAnswers, Methods
<1>2. CallShape /\ Progress /\ \A method \in Methods : ~Given(method)
  BY DEF Init, CallShape, Progress, NoAnswers, Given, Methods
<1>3. StartIsKept
  BY DEF Init, StartIsKept, Within
<1>4. QED
  BY <1>1, <1>2, <1>3 DEF Init, DiscoveryInv, AnswersAreDated, AnswersAreSound, Resolved,
     DiscoveryMissesNothing, IntegrityErrorsAreTrue, MergedAnswersAgree, IncompletenessIsReported

\* Whatever is stored, the answers and what was returned stay as they are; as
\* long as nothing was replaced, they stay a part of the store.
LEMMA StoreGrows ==
    ASSUME DiscoveryInv, UNCHANGED <<call, result, start, read>>, Within(records, records')
    PROVE  /\ StartIsKept' /\ AnswersAreSound' /\ DiscoveryMissesNothing'
           /\ CallShape' /\ Progress' /\ AnswersAreDated'
           /\ IntegrityErrorsAreTrue' /\ MergedAnswersAgree' /\ IncompletenessIsReported'
<1>1. StartIsKept'
  BY DEF DiscoveryInv, StartIsKept, OnlyAdded, Within
<1>2. AnswersAreSound'
  <2> SUFFICES ASSUME OnlyAdded, NEW method \in Methods, Given(method) PROVE Sound(method)'
    BY DEF AnswersAreSound, OnlyAdded, Given
  <2>1. Sound(method)
    BY DEF DiscoveryInv, AnswersAreSound
  <2>2. Scope(method)' = Scope(method) /\ Found(method)' = Found(method)
    BY DEF Scope, Found
  <2>3. \A id \in DOMAIN Found(method) : id \in DOMAIN records /\ records'[id] = records[id]
    BY <2>1 DEF Sound, Within
  <2>4. QED
    BY <2>1, <2>2, <2>3 DEF Sound, Within
<1>3. DiscoveryMissesNothing'
  BY DEF DiscoveryInv, DiscoveryMissesNothing, Resolved, OnlyAdded, Within
<1>4. CallShape' /\ Progress' /\ AnswersAreDated'
  BY DEF DiscoveryInv, CallShape, Progress, AnswersAreDated, Given
<1>5. IntegrityErrorsAreTrue' /\ MergedAnswersAgree' /\ IncompletenessIsReported'
  BY DEF DiscoveryInv, IntegrityErrorsAreTrue, MergedAnswersAgree, IncompletenessIsReported,
     Resolved, OnlyAdded
<1>6. QED
  BY <1>1, <1>2, <1>3, <1>4, <1>5

LEMMA PutStep ==
    ASSUME DiscoveryInv, NEW entry \in Entries, put(entry)
    PROVE  DiscoveryInv'
<1>1. Within(records, records')
  BY InsertKeeps DEF put
<1>2. TypeOK'
  BY OneEntry DEF DiscoveryInv, TypeOK, put
<1>3. QED
  BY <1>1, <1>2, StoreGrows DEF put, DiscoveryInv

LEMMA CompletenessStep ==
    ASSUME DiscoveryInv, NEW method \in Methods, NEW complete \in BOOLEAN,
           setCompleteness(method, complete)
    PROVE  DiscoveryInv'
<1>1. Within(records, records')
  BY DEF setCompleteness, Within
<1>2. TypeOK'
  BY DEF DiscoveryInv, TypeOK, setCompleteness
<1>3. QED
  BY <1>1, <1>2, StoreGrows DEF setCompleteness, DiscoveryInv

\* Nothing is promised of what a replaced store has and misses.
LEMMA ReplaceStep ==
    ASSUME DiscoveryInv, NEW content \in Contents, Replace(content)
    PROVE  DiscoveryInv'
<1>1. ~OnlyAdded'
  BY DEF Replace, OnlyAdded
<1>2. TypeOK'
  BY ContentsAreRows DEF DiscoveryInv, TypeOK, Replace
<1>3. CallShape' /\ Progress' /\ AnswersAreDated'
  BY DEF DiscoveryInv, CallShape, Progress, AnswersAreDated, Given, Replace
<1>4. MergedAnswersAgree' /\ IncompletenessIsReported'
  BY DEF DiscoveryInv, MergedAnswersAgree, IncompletenessIsReported, Resolved, Replace
<1>5. QED
  BY <1>1, <1>2, <1>3, <1>4 DEF DiscoveryInv, StartIsKept, AnswersAreSound,
     DiscoveryMissesNothing, IntegrityErrorsAreTrue

-----------------------------------------------------------------------------
(* Steps of the adapter.                                                    *)

\* While a discovery runs nothing has been returned.
LEMMA NothingReturned ==
    ASSUME DiscoveryInv, call.pc # "idle"
    PROVE  result = None
BY DEF DiscoveryInv, Progress

LEMMA DiscoverStep ==
    ASSUME DiscoveryInv, NEW query \in Queries, Discover(query)
    PROVE  DiscoveryInv'
<1>1. /\ result' = None /\ start' = records /\ UNCHANGED <<records, completeness, read>>
      /\ call' = [pc |-> "asked", query |-> query, answers |-> NoAnswers]
  BY DEF Discover
<1>2. \A method \in Methods : call'.answers[method] = None
  BY <1>1 DEF NoAnswers
<1>3. CallShape' /\ Progress' /\ \A method \in Methods : ~Given(method)'
  BY <1>1, <1>2 DEF CallShape, Progress, Given, NoAnswers, Methods
<1>4. TypeOK'
  BY <1>1, <1>2 DEF DiscoveryInv, TypeOK, Methods
<1>5. StartIsKept'
  BY <1>1 DEF StartIsKept, Within
<1>6. QED
  BY <1>1, <1>3, <1>4, <1>5 DEF DiscoveryInv, AnswersAreDated, AnswersAreSound, Resolved,
     DiscoveryMissesNothing, IntegrityErrorsAreTrue, MergedAnswersAgree, IncompletenessIsReported

\* One answer more, of the store as it is, or none that can be read.
LEMMA GiveStep ==
    ASSUME DiscoveryInv, call.pc # "idle",
           NEW method \in Methods, call.answers[method] = None,
           method = "releases" => call.pc = "found",
           NEW answer, answer = Malformed \/ answer = Envelope(method, Scope(method)),
           Give(method, answer)
    PROVE  DiscoveryInv'
<1>1. result = None /\ result' = None
  BY NothingReturned DEF Give
<1>2. /\ UNCHANGED <<records, completeness, start>>
      /\ read' = [read EXCEPT ![method] = completeness[method]]
  BY DEF Give
<1>3. /\ call'.pc = call.pc /\ call'.query = call.query /\ CallShape'
      /\ call'.answers[method] = answer
      /\ \A other \in Methods \ {method} : call'.answers[other] = call.answers[other]
  <2>1. call' = [pc |-> call.pc, query |-> call.query,
                 answers |-> [m \in Methods |-> IF m = method THEN answer ELSE call.answers[m]]]
    BY DEF DiscoveryInv, CallShape, Give
  <2>2. QED
    BY <2>1 DEF CallShape
<1>4. method = "bindings" => call.answers["releases"] = None /\ call.pc # "found"
  BY DEF DiscoveryInv, Progress, Given, TypeOK
<1>5. method = "releases" => Given("bindings") /\ call.answers["communeDocuments"] # None
  BY DEF DiscoveryInv, Progress, Given, TypeOK
<1>6. method = "communeDocuments" => call.answers["releases"] = None /\ call.pc # "found"
  BY DEF DiscoveryInv, Progress, TypeOK
<1>7. TypeOK'
  <2>1. {completeness, read'} \subseteq [Methods -> BOOLEAN]
    BY <1>2 DEF DiscoveryInv, TypeOK
  <2>2. call'.pc = "found" => call'.answers["bindings"] \notin {None, Malformed}
    BY <1>3, <1>4 DEF DiscoveryInv, TypeOK, Methods
  <2>3. call'.answers["releases"] # None => call'.answers["communeDocuments"] # None
    BY <1>3, <1>5, <1>6 DEF DiscoveryInv, TypeOK, Methods
  <2>4. QED
    BY <1>2, <1>3, <2>1, <2>2, <2>3 DEF DiscoveryInv, TypeOK
<1>8. Progress'
  BY <1>1, <1>3, <1>4, <1>5, <1>6 DEF DiscoveryInv, Progress, Given, Methods
<1>9. AnswersAreDated'
  <2> SUFFICES ASSUME NEW m \in Methods, Given(m)' PROVE call'.answers[m].complete = read'[m]
    BY DEF AnswersAreDated
  <2>1. CASE m = method
    BY <1>2, <1>3, <2>1 DEF Given, Envelope, DiscoveryInv, TypeOK
  <2>2. CASE m # method
    BY <1>2, <1>3, <2>2 DEF Given, DiscoveryInv, TypeOK, AnswersAreDated
  <2>3. QED BY <2>1, <2>2
<1>10. AnswersAreSound'
  <2> SUFFICES ASSUME OnlyAdded, NEW m \in Methods, Given(m)' PROVE Sound(m)'
    BY <1>2 DEF AnswersAreSound, OnlyAdded
  <2>1. Scope(m)' = Scope(m)
    BY <1>3, <1>4 DEF Scope, Found, Given, Methods
  <2>2. CASE m = method
    <3>1. Found(m)' = Envelope(method, Scope(method)).objects
      BY <1>3, <2>2 DEF Found, Given
    <3>2. Selected(Scope(m), start) \subseteq DOMAIN Found(m)'
      BY <2>2, <3>1, SelectedGrows, EnvelopeIsSound DEF DiscoveryInv, StartIsKept
    <3>3. QED
      BY <1>2, <2>1, <2>2, <3>1, <3>2, EnvelopeIsSound DEF Sound, Within
  <2>3. CASE m # method
    <3>1. Given(m) /\ Found(m)' = Found(m)
      BY <1>3, <2>3 DEF Found, Given
    <3>2. Sound(m)
      BY <3>1 DEF DiscoveryInv, AnswersAreSound
    <3>3. QED
      BY <1>2, <2>1, <3>1, <3>2 DEF Sound, Within
  <2>4. QED BY <2>2, <2>3
<1>11. StartIsKept'
  BY <1>2 DEF DiscoveryInv, StartIsKept, OnlyAdded, Within
<1>12. QED
  BY <1>1, <1>3, <1>7, <1>8, <1>9, <1>10, <1>11 DEF DiscoveryInv, Resolved,
     DiscoveryMissesNothing, IntegrityErrorsAreTrue, MergedAnswersAgree, IncompletenessIsReported

\* A step that returns, or goes on to the releases, leaves the answers alone.
LEMMA AnswersStay ==
    ASSUME DiscoveryInv, UNCHANGED <<records, completeness, start, read>>,
           NEW pc \in {"idle", "found"}, call' = [call EXCEPT !.pc = pc],
           result' # None => pc = "idle",
           pc = "found" => /\ Given("bindings") /\ call.answers["communeDocuments"] # None
    PROVE  /\ call'.answers = call.answers /\ call'.query = call.query
           /\ TypeOK' /\ CallShape' /\ Progress'
           /\ StartIsKept' /\ AnswersAreDated' /\ AnswersAreSound'
<1>1. call' = [pc |-> pc, query |-> call.query, answers |-> call.answers]
  BY DEF DiscoveryInv, CallShape
<1>2. call'.answers = call.answers /\ call'.query = call.query /\ call'.pc = pc
  BY <1>1
<1>3. TypeOK'
  BY <1>2 DEF DiscoveryInv, TypeOK, Given
<1>4. CallShape' /\ Progress'
  BY <1>1, <1>2 DEF DiscoveryInv, CallShape, Progress, Given
<1>5. StartIsKept' /\ AnswersAreDated'
  BY <1>2 DEF DiscoveryInv, StartIsKept, OnlyAdded, Within, AnswersAreDated, Given
<1>6. AnswersAreSound'
  <2> SUFFICES ASSUME OnlyAdded, NEW m \in Methods, Given(m) PROVE Sound(m)'
    BY <1>2 DEF AnswersAreSound, OnlyAdded, Given
  <2>1. Sound(m)
    BY DEF DiscoveryInv, AnswersAreSound
  <2>2. Scope(m)' = Scope(m) /\ Found(m)' = Found(m)
    BY <1>2 DEF Scope, Found
  <2>3. QED
    BY <2>1, <2>2 DEF Sound, Within
<1>7. QED
  BY <1>2, <1>3, <1>4, <1>5, <1>6

\* A call that rejects reports an integrity error for a reason.
LEMMA FailStep ==
    ASSUME DiscoveryInv, NEW code \in {"unavailable", "integrity"}, Fail(code),
           code = "integrity" => \E method \in Methods : call.answers[method] = Malformed
    PROVE  DiscoveryInv'
<1>1. result' = [status |-> code]
  BY DEF Fail
<1>2. /\ UNCHANGED <<records, completeness, start, read>>
      /\ call' = [call EXCEPT !.pc = "idle"]
  BY DEF Fail
<1>3. /\ call'.answers = call.answers
      /\ TypeOK' /\ CallShape' /\ Progress'
      /\ StartIsKept' /\ AnswersAreDated' /\ AnswersAreSound'
  BY <1>2, AnswersStay
<1>4. ~Resolved'
  BY <1>1 DEF Resolved
<1>5. IntegrityErrorsAreTrue'
  BY <1>1, <1>3 DEF IntegrityErrorsAreTrue
<1>6. QED
  BY <1>3, <1>4, <1>5 DEF DiscoveryInv, DiscoveryMissesNothing, MergedAnswersAgree,
     IncompletenessIsReported

LEMMA NormalizeStep ==
    ASSUME DiscoveryInv, NormalizeBindings
    PROVE  DiscoveryInv'
<1>1. CASE call.answers["bindings"] = Malformed
  <2>1. Fail("integrity")
    BY <1>1 DEF NormalizeBindings
  <2>2. QED BY <1>1, <2>1, FailStep DEF Methods
<1>2. CASE call.answers["bindings"] # Malformed
  <2>1. /\ call.pc = "asked" /\ call' = [call EXCEPT !.pc = "found"]
        /\ UNCHANGED <<records, completeness, result, start, read>>
        /\ Given("bindings") /\ call.answers["communeDocuments"] # None
    BY <1>2 DEF NormalizeBindings, Methods, Given
  <2>2. result = None
    BY <2>1, NothingReturned
  <2>3. /\ TypeOK' /\ CallShape' /\ Progress'
        /\ StartIsKept' /\ AnswersAreDated' /\ AnswersAreSound'
    BY <2>1, <2>2, AnswersStay
  <2>4. QED
    BY <2>1, <2>2, <2>3 DEF DiscoveryInv, Resolved, DiscoveryMissesNothing,
       IntegrityErrorsAreTrue, MergedAnswersAgree, IncompletenessIsReported
<1>3. QED BY <1>1, <1>2

\* Sound answers never conflict, and what they are merged to misses nothing.
LEMMA MergeStep ==
    ASSUME DiscoveryInv, Merge
    PROVE  DiscoveryInv'
<1> DEFINE answers == call.answers
<1>1. call.pc = "found" /\ answers["releases"] # None
  BY DEF Merge
<1>2. CASE \E method \in Methods : answers[method] = Malformed
  <2>1. Fail("integrity")
    BY <1>2 DEF Merge
  <2>2. QED BY <1>2, <2>1, FailStep
<1>3. CASE \A method \in Methods : answers[method] # Malformed
  <2>1. \A method \in Methods : Given(method)
    BY <1>1, <1>3 DEF DiscoveryInv, TypeOK, Progress, Given, Methods
  <2>2. OnlyAdded => ~InConflict(answers)
    BY <2>1 DEF DiscoveryInv, AnswersAreSound, Sound, Within, InConflict, StoredConflict, Found
  <2>3. CASE InConflict(answers)
    <3>1. /\ result' = [status |-> "integrity"] /\ call' = [call EXCEPT !.pc = "idle"]
          /\ UNCHANGED <<records, completeness, start, read>>
      BY <1>3, <2>3 DEF Merge, Fail
    <3>2. /\ TypeOK' /\ CallShape' /\ Progress'
          /\ StartIsKept' /\ AnswersAreDated' /\ AnswersAreSound'
      BY <3>1, AnswersStay
    <3>3. ~OnlyAdded' /\ ~Resolved'
      BY <2>2, <2>3, <3>1 DEF OnlyAdded, Resolved
    <3>4. QED
      BY <3>2, <3>3 DEF DiscoveryInv, DiscoveryMissesNothing, IntegrityErrorsAreTrue,
         MergedAnswersAgree, IncompletenessIsReported
  <2>4. CASE ~InConflict(answers)
    <3>1. /\ result' = [status |-> "ok", objectStore |-> Flatten(answers),
                        warned |-> Incomplete(answers), complete |-> answers["bindings"].complete]
          /\ call' = [call EXCEPT !.pc = "idle"]
          /\ UNCHANGED <<records, completeness, start, read>>
      BY <1>3, <2>4 DEF Merge
    <3>2. /\ call'.answers = answers /\ call'.query = call.query
          /\ TypeOK' /\ CallShape' /\ Progress'
          /\ StartIsKept' /\ AnswersAreDated' /\ AnswersAreSound'
      BY <3>1, AnswersStay
    <3>3. /\ \A method \in Methods : Within(Found(method), Flatten(answers))
          /\ \A id \in DOMAIN Flatten(answers) : \E method \in Methods : id \in DOMAIN Found(method)
      BY <2>4, FlattenMerges DEF Found
    <3>4. MergedAnswersAgree'
      BY <3>1, <3>2, <3>3 DEF MergedAnswersAgree, Within, Found
    <3>5. IncompletenessIsReported'
      <4>1. \A method \in Methods : answers[method].complete = read[method] /\ read[method] \in BOOLEAN
        BY <2>1 DEF DiscoveryInv, AnswersAreDated, TypeOK
      <4>2. QED
        BY <3>1, <4>1 DEF IncompletenessIsReported, Incomplete, Methods
    <3>6. IntegrityErrorsAreTrue'
      BY <3>1 DEF IntegrityErrorsAreTrue
    <3>7. DiscoveryMissesNothing'
      <4> SUFFICES ASSUME OnlyAdded PROVE DiscoveryMissesNothing'
        BY <3>1 DEF DiscoveryMissesNothing, OnlyAdded
      <4> DEFINE found == Flatten(answers)
                 bindings == Selected(ScopeOf("bindings", call.query, {}), found)
                                 \ ({call.query.context} \ DOMAIN start)
      <4>1. \A method \in Methods : Sound(method)
        BY <2>1 DEF DiscoveryInv, AnswersAreSound
      <4>2. Within(found, records)
        BY <3>3, <4>1 DEF Sound, Within
      <4>3. bindings \subseteq DOMAIN Found("bindings")
        <5> SUFFICES ASSUME NEW id \in bindings, id \notin DOMAIN Found("bindings") PROVE FALSE
          OBVIOUS
        <5>1. /\ id \in DOMAIN found
              /\ Matches(ScopeOf("bindings", call.query, {}), id, deriveIndexes(records[id]))
          BY <4>2 DEF Selected, Within
        <5>2. CASE id # call.query.context
          <6>1. PICK method \in Methods \ {"bindings"} : id \in DOMAIN Found(method)
            BY <3>3, <5>1
          <6>2. Matches(Scope(method), id, deriveIndexes(records[id]))
            BY <4>1, <6>1 DEF Sound
          <6>3. QED
            BY <5>1, <5>2, <6>1, <6>2, BindingsAreFoundOnce DEF Scope, Methods
        <5>3. CASE id \in DOMAIN start
          <6>1. records[id] = start[id]
            BY <5>3 DEF DiscoveryInv, StartIsKept, Within
          <6>2. id \in Selected(ScopeOf("bindings", call.query, {}), start)
            BY <5>1, <5>3, <6>1 DEF Selected
          <6>3. Scope("bindings") = ScopeOf("bindings", call.query, {})
            BY DEF Scope
          <6>4. QED
            BY <4>1, <6>2, <6>3 DEF Sound, Methods
        <5>4. QED BY <5>2, <5>3
      <4>4. \A method \in Methods : Selected(Scope(method), start) \subseteq DOMAIN found
        BY <3>3, <4>1 DEF Sound, Within
      <4>5. \A method \in Methods :
               Selected(ScopeOf(method, call.query, bindings), start) \subseteq Selected(Scope(method), start)
        <5>1. Selected(ScopeOf("releases", call.query, bindings), start)
                 \subseteq Selected(Scope("releases"), start)
          BY <4>3, ReleasesGrow DEF Scope
        <5>2. \A method \in Methods \ {"releases"} :
                 Selected(ScopeOf(method, call.query, bindings), start) = Selected(Scope(method), start)
          BY OthersIgnoreBindings DEF Scope, Methods
        <5>3. QED BY <5>1, <5>2
      <4>6. result'.objectStore = found /\ start' = start /\ records' = records /\ call'.query = call.query
        BY <3>1, <3>2
      <4> HIDE DEF found
      <4>7. QED
        BY <4>2, <4>4, <4>5, <4>6 DEF DiscoveryMissesNothing, Within
    <3>8. QED
      BY <3>2, <3>4, <3>5, <3>6, <3>7 DEF DiscoveryInv
  <2>5. QED BY <2>3, <2>4
<1>4. QED BY <1>2, <1>3

-----------------------------------------------------------------------------
(* The theorems.                                                            *)

LEMMA DiscoveryStep == DiscoveryInv /\ [Next]_vars => DiscoveryInv'
<1> SUFFICES ASSUME DiscoveryInv, [Next]_vars PROVE DiscoveryInv'
  OBVIOUS
<1>1. ASSUME NEW method \in Methods, Answer(method) PROVE DiscoveryInv'
  <2>1. PICK answer : Give(method, answer) /\ answer \in {Malformed, Envelope(method, Scope(method))}
    BY <1>1 DEF Answer, Scope
  <2>2. QED
    BY <1>1, <2>1, GiveStep DEF Answer
<1>2. CASE AnswerReleases
  <2>1. PICK answer : /\ Give("releases", answer)
                      /\ answer \in {Malformed, Envelope("releases", Scope("releases"))}
    BY <1>2 DEF AnswerReleases, Scope, Found
  <2>2. QED
    BY <1>2, <2>1, GiveStep DEF AnswerReleases, Methods
<1>3. CASE StoreThrows
  BY <1>3, FailStep DEF StoreThrows
<1>4. CASE UNCHANGED vars
  <2>1. Within(records, records')
    BY <1>4 DEF vars, Within
  <2>2. TypeOK'
    BY <1>4 DEF vars, DiscoveryInv, TypeOK
  <2>3. QED
    BY <1>4, <2>1, <2>2, StoreGrows DEF vars, DiscoveryInv
<1>5. QED
  BY <1>1, <1>2, <1>3, <1>4, DiscoverStep, NormalizeStep, MergeStep, PutStep, CompletenessStep,
     ReplaceStep DEF Next, Adapter

\* The invariant holds in every state of every discovery.
THEOREM DiscoveryInvariant == Spec => []DiscoveryInv
<1>1. QED BY DiscoveryInit, DiscoveryStep, PTL DEF Spec

\* A discovery over a store that only grows returns only what is stored, and
\* all of its query that was stored when it was called, with every release of
\* every binding it returns.
THEOREM DiscoveriesMissNothing == Spec => []DiscoveryMissesNothing
<1>1. DiscoveryInv => DiscoveryMissesNothing
  BY DEF DiscoveryInv
<1>2. QED BY <1>1, DiscoveryInvariant, PTL

\* Over such a store, an integrity error means an answer that is no envelope.
THEOREM IntegrityErrorsHaveCauses == Spec => []IntegrityErrorsAreTrue
<1>1. DiscoveryInv => IntegrityErrorsAreTrue
  BY DEF DiscoveryInv
<1>2. QED BY <1>1, DiscoveryInvariant, PTL

\* Over any store, what is merged agrees with each answer.
THEOREM MergesAgree == Spec => []MergedAnswersAgree
<1>1. DiscoveryInv => MergedAnswersAgree
  BY DEF DiscoveryInv
<1>2. QED BY <1>1, DiscoveryInvariant, PTL

\* Incompleteness is reported as it was at the time of each answer.
THEOREM WarningsAreDated == Spec => []IncompletenessIsReported
<1>1. DiscoveryInv => IncompletenessIsReported
  BY DEF DiscoveryInv
<1>2. QED BY <1>1, DiscoveryInvariant, PTL

-----------------------------------------------------------------------------
(* Pages.  ORDER BY object_id LIMIT n: the first ids of a set are those     *)
(* with fewer than n before them.                                           *)

IdsBefore(ids, i) == {j \in ids : j < i}

\* A bounded set of numbers, if it has one, has a largest ...
LEMMA LargestExists ==
    ASSUME NEW bound \in Nat, NEW S \in SUBSET (0 .. bound), S # {}
    PROVE  \E x \in S : \A y \in S : y <= x
<1> DEFINE less == {pair \in Nat \X Nat : pair[1] < pair[2]}
           distances == {bound - x : x \in S}
<1>1. IsWellFoundedOn(less, Nat)
  BY NatLessThanWellFounded DEF OpToRel
<1>2. distances \subseteq Nat /\ distances # {}
  <2>1. \A x \in S : bound - x \in Nat
    OBVIOUS
  <2>2. PICK x \in S : TRUE
    OBVIOUS
  <2>3. bound - x \in distances
    BY <2>2
  <2>4. QED BY <2>1, <2>3
<1> HIDE DEF less, distances
<1>3. PICK d \in distances : \A e \in distances : <<e, d>> \notin less
  BY <1>1, <1>2, WFMin
<1>4. PICK x \in S : d = bound - x
  BY DEF distances
<1>5. ASSUME NEW y \in S PROVE y <= x
  <2>1. bound - y \in distances /\ <<bound - y, d>> \notin less
    BY <1>3 DEF distances
  <2>2. ~(bound - y < bound - x)
    BY <1>2, <1>4, <2>1 DEF less, distances
  <2>3. QED BY <2>2
<1>6. QED BY <1>5

\* ... and any set of them has a smallest.
LEMMA SmallestExists ==
    ASSUME NEW S \in SUBSET Nat, S # {}
    PROVE  \E x \in S : \A y \in S : x <= y
<1> DEFINE less == {pair \in Nat \X Nat : pair[1] < pair[2]}
<1>1. IsWellFoundedOn(less, Nat)
  BY NatLessThanWellFounded DEF OpToRel
<1>2. \A i, j \in Nat : <<i, j>> \in less <=> i < j
  OBVIOUS
<1> HIDE DEF less
<1>3. PICK x \in S : \A y \in S : <<y, x>> \notin less
  BY <1>1, WFMin
<1>4. \A y \in S : ~(y < x)
  BY <1>2, <1>3
<1>5. QED BY <1>4

LEMMA RankTyped ==
    ASSUME NEW W \in SUBSET Nat, IsFiniteSet(W), NEW i \in Nat
    PROVE  IsFiniteSet(IdsBefore(W, i)) /\ Cardinality(IdsBefore(W, i)) \in Nat
<1>1. IdsBefore(W, i) \in SUBSET W
  BY DEF IdsBefore
<1>2. IsFiniteSet(IdsBefore(W, i))
  BY <1>1, FS_Subset
<1>3. QED
  BY <1>2, FS_CardinalityType

\* A later id has more ids before it.
LEMMA RankGrows ==
    ASSUME NEW W \in SUBSET Nat, IsFiniteSet(W), NEW j \in W, NEW i \in Nat, j < i
    PROVE  Cardinality(IdsBefore(W, j)) + 1 <= Cardinality(IdsBefore(W, i))
<1> DEFINE before == IdsBefore(W, j)
<1>1. IsFiniteSet(before) /\ Cardinality(before) \in Nat
  BY RankTyped
<1>2. j \notin before
  BY DEF IdsBefore
<1>3. IsFiniteSet(before \cup {j}) /\ Cardinality(before \cup {j}) = Cardinality(before) + 1
  BY <1>1, <1>2, FS_AddElement
<1>4. before \cup {j} \in SUBSET IdsBefore(W, i)
  <2>1. \A k \in W : k < j => k < i
    OBVIOUS
  <2>2. QED
    BY <2>1 DEF IdsBefore
<1>5. IsFiniteSet(IdsBefore(W, i))
  BY RankTyped
<1>6. QED
  BY <1>3, <1>4, <1>5, FS_Subset

\* What is missing from the first n ids comes after them.
LEMMA FirstIdsComeFirst ==
    ASSUME NEW W \in SUBSET Nat, IsFiniteSet(W), NEW n \in Nat
    PROVE  \A i \in FirstIds(W, n), j \in W : j < i => j \in FirstIds(W, n)
<1> SUFFICES ASSUME NEW i \in FirstIds(W, n), NEW j \in W, j < i
             PROVE  j \in FirstIds(W, n)
  OBVIOUS
<1>1. i \in W /\ Cardinality(IdsBefore(W, i)) < n
  BY DEF FirstIds, IdsBefore
<1>2. Cardinality(IdsBefore(W, j)) + 1 <= Cardinality(IdsBefore(W, i))
  BY <1>1, RankGrows
<1>3. Cardinality(IdsBefore(W, i)) \in Nat /\ Cardinality(IdsBefore(W, j)) \in Nat
  BY <1>1, RankTyped
<1>4. Cardinality(IdsBefore(W, j)) < n
  BY <1>1, <1>2, <1>3
<1>5. QED
  BY <1>4 DEF FirstIds, IdsBefore

\* Of finitely many ids there is a last one.
LEMMA LastExists ==
    ASSUME NEW G \in SUBSET Nat, IsFiniteSet(G), G # {}
    PROVE  \E i \in G : \A j \in G : j <= i
<1> DEFINE rank(i) == Cardinality(IdsBefore(G, i))
           ranks == {rank(i) : i \in G}
<1>1. Cardinality(G) \in Nat
  BY FS_CardinalityType
<1>2. \A i \in G : rank(i) \in 0 .. Cardinality(G)
  <2>1. SUFFICES ASSUME NEW i \in G PROVE rank(i) \in 0 .. Cardinality(G)
    OBVIOUS
  <2>2. i \in Nat /\ IdsBefore(G, i) \in SUBSET G
    BY DEF IdsBefore
  <2>3. rank(i) \in Nat
    BY <2>2, RankTyped
  <2>4. rank(i) <= Cardinality(G)
    BY <2>2, FS_Subset
  <2>5. QED BY <1>1, <2>3, <2>4
<1>3. ranks \in SUBSET (0 .. Cardinality(G)) /\ ranks # {}
  <2> HIDE DEF rank
  <2>1. QED BY <1>2
<1>4. PICK r \in ranks : \A other \in ranks : other <= r
  BY <1>1, <1>3, LargestExists
<1>5. PICK i \in G : r = rank(i)
  BY DEF ranks
<1>6. ASSUME NEW j \in G, i < j PROVE FALSE
  <2>1. j \in Nat /\ rank(i) + 1 <= rank(j)
    BY <1>6, RankGrows
  <2>2. rank(j) \in ranks
    BY DEF ranks
  <2>3. rank(j) <= rank(i)
    BY <1>4, <1>5, <2>2
  <2>4. rank(i) \in 0 .. Cardinality(G) /\ rank(j) \in 0 .. Cardinality(G)
    BY <1>2
  <2> HIDE DEF rank
  <2>5. QED BY <1>1, <2>1, <2>3, <2>4
<1>7. QED BY <1>6

\* The first n of some ids are some of them.
LEMMA SomeIdIsFirst ==
    ASSUME NEW W \in SUBSET Nat, NEW n \in Nat \ {0}, W # {}
    PROVE  FirstIds(W, n) # {}
<1>1. PICK i \in W : \A j \in W : i <= j
  BY SmallestExists
<1>2. IdsBefore(W, i) = {}
  <2>1. \A j \in W : ~(j < i)
    BY <1>1
  <2>2. QED
    BY <2>1 DEF IdsBefore
<1>3. Cardinality(IdsBefore(W, i)) < n
  BY <1>2, FS_EmptySet
<1>4. QED
  BY <1>1, <1>3 DEF FirstIds, IdsBefore

\* What a page wants and what it gives.
PageWants(r, v) == {id \in Selected(r.scope, v.objects) : id > r.page.after}
PageGiven(r, v) == FirstIds(PageWants(r, v), r.page.limit)

LEMMA PageGives ==
    ASSUME NEW r, NEW v
    PROVE  /\ DOMAIN PageOf(r, v).objects = PageGiven(r, v)
           /\ PageOf(r, v).hasMore <=> PageGiven(r, v) # PageWants(r, v)
           /\ PageOf(r, v).complete \in BOOLEAN
           /\ PageOf(r, v).complete => r.scope \in DOMAIN v.coverage
<1>1. DOMAIN PageOf(r, v).objects = PageGiven(r, v)
  BY DEF PageOf, Rows, PageGiven, PageWants
<1>2. PageOf(r, v).hasMore <=> PageGiven(r, v) # PageWants(r, v)
  BY Zenon DEF PageOf, PageGiven, PageWants
<1>3. PageOf(r, v).complete \in BOOLEAN
  BY Zenon DEF PageOf
<1>4. PageOf(r, v).complete => r.scope \in DOMAIN v.coverage
  BY Zenon DEF PageOf
<1>5. QED
  BY <1>1, <1>2, <1>3, <1>4

\* A page that leaves some gives some; the last it gives is the mark, and no id
\* it wanted up to the mark is left.
LEMMA PageIsFollowed ==
    ASSUME NEW r \in Requests, NEW v, DOMAIN v.objects \subseteq ObjectIds
    PROVE  /\ PageWants(r, v) \subseteq ObjectIds /\ PageGiven(r, v) \subseteq PageWants(r, v)
           /\ PageGiven(r, v) # PageWants(r, v) =>
                 \E mark \in PageGiven(r, v) :
                    /\ \A id \in PageGiven(r, v) : id <= mark
                    /\ \A id \in PageWants(r, v) : id <= mark => id \in PageGiven(r, v)
<1> DEFINE W == PageWants(r, v)
           n == r.page.limit
           G == FirstIds(W, n)
<1>1. W \in SUBSET ObjectIds /\ W \in SUBSET Nat /\ IsFiniteSet(W)
  <2>1. W \in SUBSET ObjectIds
    BY DEF PageWants, Selected
  <2>2. QED
    BY <2>1, ObjectIdsAreOrdered, FS_Subset
<1>2. n \in Nat \ {0} /\ n \in Nat
  BY PageSizesAreValid DEF Requests
<1> HIDE DEF W, n
<1>3. G \subseteq W
  BY DEF FirstIds
<1>4. ASSUME G # W
      PROVE  \E mark \in G : (\A id \in G : id <= mark) /\ \A id \in W : id <= mark => id \in G
  <2>1. W # {}
    BY <1>3, <1>4
  <2>2. G # {}
    BY <1>1, <1>2, <2>1, SomeIdIsFirst
  <2>3. G \in SUBSET Nat /\ IsFiniteSet(G)
    BY <1>1, <1>3, FS_Subset
  <2>5. PICK mark \in G : \A id \in G : id <= mark
    BY <2>2, <2>3, LastExists
  <2>6. \A i \in G, j \in W : j < i => j \in G
    BY <1>1, <1>2, FirstIdsComeFirst
  <2>7. \A id \in W : id <= mark => id \in G
    BY <1>1, <1>3, <2>5, <2>6
  <2>8. QED
    BY <2>5, <2>7
<1>5. QED
  BY <1>1, <1>3, <1>4 DEF W, n, G, PageGiven
-----------------------------------------------------------------------------
(* The invariant of the listing. *)

ListingShape ==
    /\ listing \in [always : SUBSET ObjectIds, ever : SUBSET ObjectIds, declared : BOOLEAN]
    /\ request # None =>
          request.page.after = IF client.cursor = None THEN 0 ELSE client.cursor.after

\* A client follows cursors of its own scope, and one that starts has seen nothing.
CursorsAreTheClients ==
    /\ client.cursor # None => client.cursor.scope = client.scope
    /\ client.pc = "ready" /\ client.cursor = None => client.seen = {}

\* While a client lists, the history keeps up with the database, and only
\* declares what no commit discarded.
HistoryIsCurrent ==
    client.pc = "ready" =>
        /\ listing.always \subseteq Selected(client.scope, db.objects)
        /\ Selected(client.scope, db.objects) \subseteq listing.ever
        /\ ~listing.declared /\ client.scope \in DOMAIN db.coverage =>
              listing.always = listing.ever

CursorsAreDated ==
    client.cursor # None =>
        /\ client.cursor.madeAt <= clock
        /\ client.cursor.expiresAt = (client.cursor.madeAt \div Second) + Ttl

ListingInv ==
    /\ ListingTypeOK /\ ListingShape /\ CursorsAreTheClients /\ HistoryIsCurrent
    /\ CursorsAreDated
    /\ ListingsAreSound /\ FullListingsMissNothing /\ CompleteListingsAreExact

\* What a listing starts with.
Clients == [pc : {"ready", "done", "failed"}, scope : Scopes, limit : Nat \cup {None},
            cursor : Cursors \cup {None}, seen : SUBSET ObjectIds, complete : BOOLEAN]

LEMMA NewListingStarts ==
    ASSUME NEW scope \in Scopes, NEW limit \in Nat \cup {None}
    PROVE  LET new == NewListing(scope, limit) IN
           /\ new \in Clients
           /\ new.pc = "ready" /\ new.scope = scope /\ new.cursor = None /\ new.seen = {}
<1> QED BY DEF NewListing, Clients

LEMMA HistoryStarts ==
    ASSUME NEW scope \in Scopes, NEW objects, DOMAIN objects \subseteq ObjectIds
    PROVE  /\ Selected(scope, objects) \in SUBSET ObjectIds
           /\ [always |-> Selected(scope, objects), ever |-> Selected(scope, objects),
               declared |-> FALSE]
                \in [always : SUBSET ObjectIds, ever : SUBSET ObjectIds, declared : BOOLEAN]
<1>1. Selected(scope, objects) \in SUBSET ObjectIds
  BY DEF Selected
<1>2. QED BY <1>1

LEMMA ListingStarts == ListingInit => ListingInv
<1> SUFFICES ASSUME ListingInit PROVE ListingInv
  OBVIOUS
<1>1. PICK scope \in Scopes, limit \in Limits : client = NewListing(scope, limit)
  BY DEF ListingInit
<1>2. /\ client.pc = "ready" /\ client.scope = scope /\ client.cursor = None /\ client.seen = {}
      /\ client \in Clients
  <2>1. limit \in Nat \cup {None}
    BY PageSizesAreValid
  <2>2. QED BY <1>1, <2>1, NewListingStarts
<1>3. DOMAIN db.objects = {} /\ DOMAIN db.coverage = {} /\ db.revision = 0
      /\ DOMAIN db = {"label", "revision", "objects", "coverage"}
  BY DEF ListingInit, NoRows
<1>4. listing = [always |-> Selected(scope, db.objects), ever |-> Selected(scope, db.objects),
                 declared |-> FALSE]
  BY <1>2, Zenon DEF ListingInit, HistoryFrom
<1>5. /\ listing \in [always : SUBSET ObjectIds, ever : SUBSET ObjectIds, declared : BOOLEAN]
      /\ listing.always = Selected(client.scope, db.objects)
      /\ listing.ever = Selected(client.scope, db.objects)
  <2>1. DOMAIN db.objects \subseteq ObjectIds
    BY <1>3
  <2>2. QED BY <1>2, <1>4, <2>1, HistoryStarts
<1>6. ListingTypeOK
  BY <1>2, <1>3, <1>5 DEF ListingInit, ListingTypeOK, Clients
<1>7. QED
  BY <1>2, <1>5, <1>6 DEF ListingInit, ListingInv, ListingShape, CursorsAreTheClients,
     HistoryIsCurrent, CursorsAreDated, ListingsAreSound, FullListingsMissNothing,
     CompleteListingsAreExact

LEMMA ParseStep ==
    ASSUME ListingInv, NEW scope \in Scopes, Parse(scope)
    PROVE  ListingInv'
<1> USE DEF ListingInv
<1>1. /\ client.pc = "ready" /\ request = None /\ scope = client.scope
      /\ UNCHANGED <<db, clock, secret, client>>
  BY DEF Parse, Accepted, CursorsAreTheClients
<1>2. request' \in Requests /\ request'.scope = client.scope
      /\ request'.page.after = IF client.cursor = None THEN 0 ELSE client.cursor.after
  <2>1. parseLimit(client.limit) \in 1 .. maximumPageSize
    BY PageSizesAreValid DEF Parse, parseLimit
  <2>2. (IF client.cursor = None THEN 0 ELSE client.cursor.after) \in ObjectIds \cup {0}
    BY DEF ListingTypeOK, Cursors
  <2>3. QED
    BY <1>1, <2>1, <2>2 DEF Parse, Requests
<1>3. CASE client.cursor = None
  <2>1. /\ listing' \in [always : SUBSET ObjectIds, ever : SUBSET ObjectIds, declared : BOOLEAN]
        /\ listing'.always = Selected(client.scope, db.objects)
        /\ listing'.ever = Selected(client.scope, db.objects)
    <3>1. DOMAIN db.objects \subseteq ObjectIds
      BY DEF ListingTypeOK
    <3>2. listing' = [always |-> Selected(scope, db.objects), ever |-> Selected(scope, db.objects),
                      declared |-> FALSE]
      BY <1>3, Zenon DEF Parse, HistoryFrom
    <3>3. QED BY <1>1, <3>1, <3>2, HistoryStarts
  <2>2. ListingTypeOK'
    BY <1>1, <1>2, <2>1 DEF ListingTypeOK
  <2>3. QED
    BY <1>1, <1>2, <1>3, <2>1, <2>2 DEF ListingShape, CursorsAreTheClients,
       HistoryIsCurrent, CursorsAreDated, ListingsAreSound, FullListingsMissNothing,
       CompleteListingsAreExact
<1>4. CASE client.cursor # None
  <2>1. listing' = listing
    BY <1>4 DEF Parse
  <2>2. ListingTypeOK'
    BY <1>1, <1>2, <2>1 DEF ListingTypeOK
  <2>3. QED
    BY <1>1, <1>2, <2>1, <2>2 DEF ListingShape, CursorsAreTheClients,
       HistoryIsCurrent, CursorsAreDated, ListingsAreSound, FullListingsMissNothing,
       CompleteListingsAreExact
<1>5. QED BY <1>3, <1>4

LEMMA RefuseStep ==
    ASSUME ListingInv, NEW scope \in Scopes, Refuse(scope)
    PROVE  ListingInv'
<1> USE DEF ListingInv
<1>1. client.pc = "ready" /\ request = None /\ UNCHANGED <<db, clock, secret, request, listing>>
  BY DEF Refuse
<1>2. CASE client' = [client EXCEPT !.limit = None]
  <2>1. /\ client'.pc = client.pc /\ client'.scope = client.scope
        /\ client'.cursor = client.cursor /\ client'.seen = client.seen
        /\ client'.complete = client.complete
        /\ client' \in Clients
    BY <1>2 DEF ListingTypeOK, Clients
  <2>2. QED
    BY <1>1, <2>1 DEF Clients, ListingTypeOK, ListingShape, CursorsAreTheClients,
       HistoryIsCurrent, CursorsAreDated, ListingsAreSound, FullListingsMissNothing,
       CompleteListingsAreExact
<1>3. CASE client' = NewListing(client.scope, client.limit)
  <2>1. /\ client'.pc = "ready" /\ client'.scope = client.scope
        /\ client'.cursor = None /\ client'.seen = {}
        /\ client' \in Clients
    <3>1. client.scope \in Scopes /\ client.limit \in Nat \cup {None}
      BY DEF ListingTypeOK
    <3>2. PICK limit \in Nat \cup {None} : limit = client.limit
      BY <3>1
    <3>3. PICK own \in Scopes : own = client.scope
      BY <3>1
    <3>4. client' = NewListing(own, limit)
      BY <1>3, <3>2, <3>3
    <3>5. QED BY <3>3, <3>4, NewListingStarts
  <2>2. QED
    BY <1>1, <2>1 DEF Clients, ListingTypeOK, ListingShape, CursorsAreTheClients,
       HistoryIsCurrent, CursorsAreDated, ListingsAreSound, FullListingsMissNothing,
       CompleteListingsAreExact
<1>4. CASE client' = client
  BY <1>1, <1>4 DEF ListingTypeOK, ListingShape, CursorsAreTheClients,
     HistoryIsCurrent, CursorsAreDated, ListingsAreSound, FullListingsMissNothing,
     CompleteListingsAreExact
<1>5. QED
  BY <1>2, <1>3, <1>4 DEF Refuse

\* The last id of a page is the mark of its cursor.
LEMMA CursorMarksPage ==
    ASSUME ListingInv, request # None, PageOf(request, db).hasMore
    PROVE  LET cursor == create(request.scope, request.page)
               given == PageGiven(request, db)
           IN /\ cursor \in Cursors
              /\ cursor.scope = request.scope
              /\ cursor.madeAt = clock /\ cursor.expiresAt = (clock \div Second) + Ttl
              /\ cursor.after \in given
              /\ \A id \in given : id <= cursor.after
              /\ \A id \in PageWants(request, db) : id <= cursor.after => id \in given
<1> DEFINE given == PageGiven(request, db)
           wanted == PageWants(request, db)
           mark == CHOOSE id \in given : \A other \in given : other <= id
           cursor == create(request.scope, request.page)
<1>1. request \in Requests /\ DOMAIN db.objects \subseteq ObjectIds
      /\ clock \in Nat /\ secret \in Nat
  BY DEF ListingInv, ListingTypeOK
<1>2. request = [scope |-> request.scope, page |-> request.page] /\ request.scope \in Scopes
  BY <1>1 DEF Requests
<1>3. given # wanted /\ DOMAIN PageOf(request, db).objects = given
  BY PageGives
<1>4. given \subseteq wanted /\ wanted \subseteq ObjectIds
      /\ \E last \in given : /\ \A id \in given : id <= last
                             /\ \A id \in wanted : id <= last => id \in given
  BY <1>1, <1>3, PageIsFollowed
<1>5. cursor = [secret |-> secret, scope |-> request.scope, expiresAt |-> nowSeconds + Ttl,
                madeAt |-> clock, after |-> mark]
  BY <1>2, <1>3, Zenon DEF create
<1> HIDE DEF given, wanted
<1>6. mark \in given /\ \A id \in given : id <= mark
  BY <1>4
<1> HIDE DEF mark
<1>7. \A id \in wanted : id <= mark => id \in given
  <2>1. PICK last \in given : /\ \A id \in given : id <= last
                              /\ \A id \in wanted : id <= last => id \in given
    BY <1>4
  <2>2. last \in Nat /\ mark \in Nat /\ mark <= last /\ last <= mark
    BY <1>4, <1>6, <2>1, ObjectIdsAreOrdered
  <2>3. mark = last
    BY <2>2
  <2>4. QED BY <2>1, <2>3
<1>8. nowSeconds + Ttl \in Nat /\ nowSeconds = clock \div Second
  BY <1>1, ClockHasTicks DEF nowSeconds
<1>9. mark \in ObjectIds
  BY <1>4, <1>6
<1>10. cursor \in Cursors
  BY <1>1, <1>2, <1>5, <1>8, <1>9 DEF Cursors
<1>11. /\ cursor.scope = request.scope /\ cursor.madeAt = clock
       /\ cursor.expiresAt = (clock \div Second) + Ttl /\ cursor.after = mark
  BY <1>5, <1>8
<1> HIDE DEF cursor
<1>12. QED
  BY <1>6, <1>7, <1>10, <1>11 DEF given, wanted, cursor

\* What a client has after a page.
LEMMA PageExtends ==
    ASSUME ListingInv, request # None
    PROVE  LET given == PageGiven(request, db)
               seen == client.seen \cup given
           IN /\ given \in SUBSET ObjectIds
              /\ seen \subseteq listing.ever
              /\ given = PageWants(request, db) => listing.always \subseteq seen
              /\ \A mark \in given :
                    (/\ \A id \in given : id <= mark
                     /\ \A id \in PageWants(request, db) : id <= mark => id \in given)
                    => /\ \A id \in seen : id <= mark
                       /\ \A id \in listing.always : id <= mark => id \in seen
<1> DEFINE given == PageGiven(request, db)
           wanted == PageWants(request, db)
           after == request.page.after
<1>1. /\ request \in Requests /\ DOMAIN db.objects \subseteq ObjectIds
      /\ client.pc = "ready" /\ request.scope = client.scope
      /\ after = IF client.cursor = None THEN 0 ELSE client.cursor.after
      /\ client.seen \subseteq ObjectIds
  BY DEF ListingInv, ListingTypeOK, ListingShape
<1>2. given \subseteq wanted /\ wanted \subseteq ObjectIds
  BY <1>1, PageIsFollowed
<1>3. wanted = {id \in Selected(client.scope, db.objects) : id > after}
  BY <1>1 DEF PageWants
<1>4. /\ listing.always \subseteq Selected(client.scope, db.objects)
      /\ Selected(client.scope, db.objects) \subseteq listing.ever
      /\ Selected(client.scope, db.objects) \subseteq ObjectIds
  <2>1. Selected(client.scope, db.objects) \subseteq DOMAIN db.objects
    BY DEF Selected
  <2>2. QED BY <1>1, <2>1 DEF ListingInv, HistoryIsCurrent
<1>5. after \in Nat
  <2>1. after \in ObjectIds \cup {0}
    BY <1>1 DEF Requests
  <2> HIDE DEF after
  <2>2. ObjectIds \subseteq Nat
    BY ObjectIdsAreOrdered
  <2>3. QED BY <2>1, <2>2
\* Up to the cursor the client has everything, and nothing else.
<1>6. /\ \A id \in client.seen : id <= after
      /\ \A id \in listing.always : id <= after => id \in client.seen
  <2>1. CASE client.cursor = None
    <3>1. client.seen = {} /\ after = 0
      BY <1>1, <2>1 DEF ListingInv, CursorsAreTheClients
    <3>2. \A id \in listing.always : id \in Nat /\ id # 0
      BY <1>4, ObjectIdsAreOrdered, IdsComeAfterTheStart
    <3>3. QED BY <3>1, <3>2
  <2>2. CASE client.cursor # None
    BY <1>1, <2>2 DEF ListingInv, ListingsAreSound
  <2>3. QED BY <2>1, <2>2
<1>7. client.seen \cup given \subseteq listing.ever
  BY <1>2, <1>3, <1>4 DEF ListingInv, ListingsAreSound
<1>8. \A id \in listing.always : id <= after \/ id \in wanted
  <2>1. \A id \in listing.always : id \in Selected(client.scope, db.objects) /\ id \in Nat
    BY <1>4, ObjectIdsAreOrdered
  <2>2. \A id \in Selected(client.scope, db.objects) : id > after => id \in wanted
    BY <1>3
  <2> HIDE DEF after, wanted
  <2>3. QED BY <1>5, <2>1, <2>2
<1>9. \A id \in wanted : id > after /\ id \in Nat
  BY <1>2, <1>3, ObjectIdsAreOrdered
<1> HIDE DEF given, wanted, after
<1>10. given = wanted => listing.always \subseteq client.seen \cup given
  BY <1>6, <1>8
<1>11. ASSUME NEW mark \in given,
              \A id \in given : id <= mark,
              \A id \in wanted : id <= mark => id \in given
       PROVE  /\ \A id \in client.seen \cup given : id <= mark
              /\ \A id \in listing.always : id <= mark => id \in client.seen \cup given
  <2>1. mark > after /\ mark \in Nat
    BY <1>2, <1>9
  <2>2. \A id \in client.seen : id \in Nat
    BY <1>1, ObjectIdsAreOrdered
  <2>3. \A id \in client.seen : id <= mark
    BY <1>5, <1>6, <2>1, <2>2
  <2>4. QED BY <1>6, <1>8, <1>11, <2>3
<1>12. QED
  BY <1>2, <1>7, <1>10, <1>11 DEF given, wanted

LEMMA AnswerStep ==
    ASSUME ListingInv, AnswerPage
    PROVE  ListingInv'
<1> DEFINE given == PageGiven(request, db)
           page == PageOf(request, db)
<1>1. request # None /\ request' = None /\ UNCHANGED <<db, clock, secret, listing>>
  BY DEF AnswerPage
<1>2. /\ given \in SUBSET ObjectIds
      /\ client.seen \cup given \subseteq listing.ever
      /\ given = PageWants(request, db) => listing.always \subseteq client.seen \cup given
  BY <1>1, PageExtends
<1>3. /\ client.pc = "ready" /\ request.scope = client.scope
      /\ client \in Clients /\ listing.always \subseteq listing.ever
  BY <1>1 DEF ListingInv, ListingTypeOK, Clients
<1>4. /\ DOMAIN page.objects = given
      /\ page.hasMore <=> given # PageWants(request, db)
      /\ page.complete \in BOOLEAN
      /\ page.complete => client.scope \in DOMAIN db.coverage
  BY <1>3, PageGives
<1>5. client' = [client EXCEPT
         !.pc = IF page.hasMore THEN "ready" ELSE "done",
         !.cursor = IF page.hasMore THEN create(request.scope, request.page) ELSE None,
         !.seen = @ \cup given,
         !.complete = page.complete]
  BY <1>4, Zenon DEF AnswerPage
<1>6. CASE page.hasMore
  <2> DEFINE cursor == create(request.scope, request.page)
  <2>1. /\ cursor \in Cursors /\ cursor.scope = client.scope
        /\ cursor.madeAt = clock /\ cursor.expiresAt = (clock \div Second) + Ttl
        /\ cursor.after \in given
        /\ \A id \in given : id <= cursor.after
        /\ \A id \in PageWants(request, db) : id <= cursor.after => id \in given
    BY <1>1, <1>3, <1>6, CursorMarksPage
  <2>2. /\ \A id \in client.seen \cup given : id <= cursor.after
        /\ \A id \in listing.always : id <= cursor.after => id \in client.seen \cup given
    BY <1>1, <2>1, PageExtends
  <2>3. client' = [client EXCEPT !.pc = "ready", !.cursor = cursor, !.seen = @ \cup given,
                                 !.complete = page.complete]
    BY <1>5, <1>6, Zenon
  <2> HIDE DEF given, page, cursor
  <2>4. /\ client'.pc = "ready" /\ client'.cursor = cursor /\ client'.scope = client.scope
        /\ client'.seen = client.seen \cup given /\ client' \in Clients
    BY <1>2, <1>3, <1>4, <2>1, <2>3 DEF Clients
  <2>5. client'.cursor # None
    BY <2>1, <2>4, NoneIsNoValue
  <2>6. ListingTypeOK' /\ ListingShape'
    BY <1>1, <1>3, <2>4 DEF ListingInv, ListingTypeOK, ListingShape, Clients
  <2>7. CursorsAreTheClients' /\ HistoryIsCurrent'
    BY <1>1, <1>3, <2>1, <2>4, <2>5 DEF ListingInv, CursorsAreTheClients, HistoryIsCurrent
  <2>8. CursorsAreDated'
    BY <1>1, <2>1, <2>4 DEF ListingInv, ListingTypeOK, CursorsAreDated
  <2>9. ListingsAreSound' /\ FullListingsMissNothing' /\ CompleteListingsAreExact'
    BY <1>1, <1>2, <2>2, <2>4
       DEF ListingsAreSound, FullListingsMissNothing, CompleteListingsAreExact
  <2>10. QED
    BY <2>6, <2>7, <2>8, <2>9 DEF ListingInv
<1>7. CASE ~page.hasMore
  <2>1. client' = [client EXCEPT !.pc = "done", !.cursor = None, !.seen = @ \cup given,
                                 !.complete = page.complete]
    BY <1>5, <1>7, Zenon
  <2>2. listing.always \subseteq client.seen \cup given
    BY <1>2, <1>4, <1>7
  <2> HIDE DEF given, page
  <2>3. /\ client'.pc = "done" /\ client'.cursor = None /\ client'.scope = client.scope
        /\ client'.seen = client.seen \cup given /\ client' \in Clients
        /\ client'.complete = page.complete
    BY <1>2, <1>3, <1>4, <2>1 DEF Clients
  <2>4. ListingTypeOK' /\ ListingShape'
    BY <1>1, <1>3, <2>3 DEF ListingInv, ListingTypeOK, ListingShape, Clients
  <2>5. CursorsAreTheClients' /\ HistoryIsCurrent' /\ CursorsAreDated'
    BY <2>3 DEF CursorsAreTheClients, HistoryIsCurrent, CursorsAreDated
  <2>6. ListingsAreSound' /\ FullListingsMissNothing'
    BY <1>1, <1>2, <2>2, <2>3 DEF ListingsAreSound, FullListingsMissNothing
  <2>7. CompleteListingsAreExact'
    <3>1. page.complete /\ ~listing.declared => listing.always = listing.ever
      BY <1>3, <1>4 DEF ListingInv, HistoryIsCurrent
    <3>2. QED
      BY <1>1, <1>2, <2>2, <2>3, <3>1 DEF CompleteListingsAreExact
  <2>8. QED
    BY <2>4, <2>5, <2>6, <2>7 DEF ListingInv
<1>8. QED BY <1>6, <1>7

LEMMA TooLargeStep ==
    ASSUME ListingInv, TooLarge
    PROVE  ListingInv'
<1> USE DEF ListingInv
<1>1. /\ request # None /\ request' = None /\ UNCHANGED <<db, clock, secret, listing>>
      /\ request \in Requests /\ client \in Clients /\ client.pc = "ready"
  BY DEF TooLarge, ListingTypeOK, Clients
<1>2. /\ client'.pc \in {"ready", "failed"} /\ client'.scope = client.scope
      /\ client'.cursor = client.cursor /\ client'.seen = client.seen
      /\ client'.complete = client.complete /\ client' \in Clients
  <2>1. CASE client' = [client EXCEPT !.pc = "failed"]
    BY <1>1, <2>1 DEF Clients
  <2>2. CASE client' = [client EXCEPT !.limit = request.page.limit - 1]
    <3>1. request.page.limit \in 1 .. maximumPageSize
      BY <1>1 DEF Requests
    <3>2. request.page.limit - 1 \in Nat
      BY <3>1, PageSizesAreValid
    <3>3. QED BY <1>1, <2>2, <3>2 DEF Clients
  <2>3. QED BY <2>1, <2>2 DEF TooLarge
<1>3. ListingTypeOK' /\ ListingShape'
  BY <1>1, <1>2 DEF ListingTypeOK, ListingShape, Clients
<1>4. CursorsAreTheClients' /\ HistoryIsCurrent' /\ CursorsAreDated'
  BY <1>1, <1>2 DEF CursorsAreTheClients, HistoryIsCurrent, CursorsAreDated
<1>5. ListingsAreSound' /\ FullListingsMissNothing' /\ CompleteListingsAreExact'
  BY <1>1, <1>2 DEF ListingsAreSound, FullListingsMissNothing, CompleteListingsAreExact
<1>6. QED BY <1>3, <1>4, <1>5

LEMMA LoseAnswerStep ==
    ASSUME ListingInv, LoseAnswer
    PROVE  ListingInv'
BY DEF LoseAnswer, ListingInv, ListingTypeOK, ListingShape, CursorsAreTheClients,
   HistoryIsCurrent, CursorsAreDated, ListingsAreSound, FullListingsMissNothing,
   CompleteListingsAreExact

LEMMA StartOverStep ==
    ASSUME ListingInv, NEW scope \in Scopes, NEW limit \in Limits, StartOver(scope, limit)
    PROVE  ListingInv'
<1>1. /\ UNCHANGED <<db, clock, secret, request>> /\ request = None
      /\ client' = NewListing(scope, limit)
  BY DEF StartOver, ListingInv, ListingTypeOK
<1>2. /\ client'.pc = "ready" /\ client'.scope = scope /\ client'.cursor = None
      /\ client'.seen = {} /\ client' \in Clients
  <2>1. limit \in Nat \cup {None}
    BY PageSizesAreValid
  <2>2. QED BY <1>1, <2>1, NewListingStarts
<1>3. /\ listing' \in [always : SUBSET ObjectIds, ever : SUBSET ObjectIds, declared : BOOLEAN]
      /\ listing'.always = Selected(scope, db.objects)
      /\ listing'.ever = Selected(scope, db.objects)
  <2>1. DOMAIN db.objects \subseteq ObjectIds
    BY DEF ListingInv, ListingTypeOK
  <2>2. listing' = [always |-> Selected(scope, db.objects), ever |-> Selected(scope, db.objects),
                    declared |-> FALSE]
    BY Zenon DEF StartOver, HistoryFrom
  <2>3. QED BY <2>1, <2>2, HistoryStarts
<1>4. ListingTypeOK' /\ ListingShape'
  BY <1>1, <1>2, <1>3 DEF ListingInv, ListingTypeOK, ListingShape, Clients
<1>5. CursorsAreTheClients' /\ HistoryIsCurrent' /\ CursorsAreDated'
  BY <1>1, <1>2, <1>3 DEF CursorsAreTheClients, HistoryIsCurrent, CursorsAreDated
<1>6. ListingsAreSound' /\ FullListingsMissNothing' /\ CompleteListingsAreExact'
  BY <1>2, <1>3 DEF ListingsAreSound, FullListingsMissNothing, CompleteListingsAreExact
<1>7. QED BY <1>4, <1>5, <1>6 DEF ListingInv

\* A commit: what was there always is still there, and its coverage is no
\* declaration unless an operator made it.
LEMMA CommitStep ==
    ASSUME ListingInv,
           NEW objects, DOMAIN objects \subseteq ObjectIds,
           NEW coverage, NEW declared \in BOOLEAN, declared \/ coverage = {},
           Commit(objects, coverage, declared)
    PROVE  ListingInv'
<1> DEFINE there == Selected(client.scope, objects)
<1>1. /\ UNCHANGED <<clock, secret, request, client>>
      /\ DOMAIN db' = {"label", "revision", "objects", "coverage"}
      /\ db'.revision \in Nat /\ db'.objects = objects
      /\ db'.coverage = normalizeCoverage(coverage, db.revision + 1)
  BY DEF Commit, ListingInv, ListingTypeOK
<1>2. coverage = {} => DOMAIN db'.coverage = {}
  BY <1>1 DEF normalizeCoverage
<1>3. CASE client.pc = "ready"
  <2>1. listing' = [always |-> listing.always \cap there, ever |-> listing.ever \cup there,
                    declared |-> listing.declared \/ declared]
    BY <1>3, Zenon DEF Commit, Observe
  <2>2. there \in SUBSET ObjectIds
    BY DEF Selected
  <2> HIDE DEF there
  <2>3. (listing.declared \/ declared) \in BOOLEAN
    OBVIOUS
  <2>4. /\ listing'.always = listing.always \cap there
        /\ listing'.ever = listing.ever \cup there
        /\ listing'.declared = (listing.declared \/ declared)
    BY <2>1
  <2>5. listing' \in [always : SUBSET ObjectIds, ever : SUBSET ObjectIds, declared : BOOLEAN]
    <3>1. listing.always \in SUBSET ObjectIds /\ listing.ever \in SUBSET ObjectIds
      BY DEF ListingInv, ListingShape
    <3>2. listing.always \cap there \in SUBSET ObjectIds
          /\ listing.ever \cup there \in SUBSET ObjectIds
      BY <2>2, <3>1
    <3>3. QED BY <2>1, <2>3, <3>2
  <2>6. ListingTypeOK' /\ ListingShape'
    BY <1>1, <2>4, <2>5 DEF ListingInv, ListingTypeOK, ListingShape
  <2>7. HistoryIsCurrent'
    <3>1. ~listing'.declared => DOMAIN db'.coverage = {}
      BY <1>2, <2>4
    <3>2. there = Selected(client'.scope, db'.objects)
      BY <1>1 DEF there
    <3>3. /\ listing'.always \subseteq there /\ there \subseteq listing'.ever
      BY <2>4
    <3>4. QED BY <3>1, <3>2, <3>3 DEF HistoryIsCurrent
  <2>8. CursorsAreTheClients' /\ CursorsAreDated'
    BY <1>1 DEF ListingInv, CursorsAreTheClients, CursorsAreDated
  <2>9. ListingsAreSound' /\ FullListingsMissNothing' /\ CompleteListingsAreExact'
    BY <1>1, <1>3, <2>4
       DEF ListingInv, ListingsAreSound, FullListingsMissNothing, CompleteListingsAreExact
  <2>10. QED BY <2>6, <2>7, <2>8, <2>9 DEF ListingInv
<1>4. CASE client.pc # "ready"
  <2>1. listing' = listing
    BY <1>4 DEF Commit, Observe
  <2>2. ListingTypeOK' /\ ListingShape'
    BY <1>1, <2>1 DEF ListingInv, ListingTypeOK, ListingShape
  <2>3. HistoryIsCurrent' /\ CursorsAreTheClients' /\ CursorsAreDated'
    BY <1>1, <1>4, <2>1 DEF ListingInv, HistoryIsCurrent, CursorsAreTheClients, CursorsAreDated
  <2>4. ListingsAreSound' /\ FullListingsMissNothing' /\ CompleteListingsAreExact'
    BY <1>1, <2>1
       DEF ListingInv, ListingsAreSound, FullListingsMissNothing, CompleteListingsAreExact
  <2>5. QED BY <2>2, <2>3, <2>4 DEF ListingInv
<1>5. QED BY <1>3, <1>4

LEMMA AppendStep ==
    ASSUME ListingInv, NEW batch \in Batches, Append(batch)
    PROVE  ListingInv'
<1>1. PICK objects : objects = Insert(normalizeEntries(batch), db.objects)
  OBVIOUS
<1>2. DOMAIN objects \subseteq ObjectIds
  <2>1. DOMAIN normalizeEntries(batch) = {e.id : e \in batch}
    BY DEF normalizeEntries
  <2>2. \A e \in batch : e.id \in ObjectIds
    BY BatchesAreEntries
  <2>3. DOMAIN objects = DOMAIN db.objects \cup DOMAIN normalizeEntries(batch)
    BY <1>1 DEF Insert
  <2>4. DOMAIN db.objects \subseteq ObjectIds
    BY DEF ListingInv, ListingTypeOK
  <2>5. QED BY <2>1, <2>2, <2>3, <2>4
<1>3. Commit(objects, {}, FALSE)
  BY <1>1, Zenon DEF Append
<1>4. QED BY <1>2, <1>3, CommitStep

LEMMA RestoreStep ==
    ASSUME ListingInv, NEW objects \in Archives, NEW scopes \in SUBSET Scopes,
           Restore(objects, scopes)
    PROVE  ListingInv'
<1>1. Commit(objects, {[scope |-> s, complete |-> TRUE] : s \in scopes}, TRUE)
  BY DEF Restore
<1>2. DOMAIN objects \subseteq ObjectIds
  BY ArchivesAreRows
<1>3. QED BY <1>1, <1>2, CommitStep

LEMMA DeclareStep ==
    ASSUME ListingInv, NEW scope \in Scopes, Declare(scope)
    PROVE  ListingInv'
<1>1. /\ UNCHANGED <<clock, secret, request, client>>
      /\ DOMAIN db' = {"label", "revision", "objects", "coverage"}
      /\ db'.revision = db.revision /\ db'.objects = db.objects
  BY DEF Declare, ListingInv, ListingTypeOK
<1>2. /\ listing' \in [always : SUBSET ObjectIds, ever : SUBSET ObjectIds, declared : BOOLEAN]
      /\ listing'.always = listing.always /\ listing'.ever = listing.ever
      /\ client.pc = "ready" => listing'.declared
      /\ client.pc # "ready" => listing' = listing
  BY DEF Declare, Observe, ListingInv, ListingShape
<1>3. ListingTypeOK' /\ ListingShape'
  BY <1>1, <1>2 DEF ListingInv, ListingTypeOK, ListingShape
<1>4. HistoryIsCurrent' /\ CursorsAreTheClients' /\ CursorsAreDated'
  BY <1>1, <1>2 DEF ListingInv, HistoryIsCurrent, CursorsAreTheClients, CursorsAreDated
<1>5. ListingsAreSound' /\ FullListingsMissNothing' /\ CompleteListingsAreExact'
  BY <1>1, <1>2
     DEF ListingInv, ListingsAreSound, FullListingsMissNothing, CompleteListingsAreExact
<1>6. QED BY <1>3, <1>4, <1>5 DEF ListingInv

LEMMA OthersListingStep ==
    ASSUME ListingInv, Rotate \/ Tick \/ UNCHANGED listingVars
    PROVE  ListingInv'
<1>1. /\ UNCHANGED <<db, request, client, listing>>
      /\ clock' \in Nat /\ clock <= clock' /\ secret' \in Nat
  BY DEF Rotate, Tick, listingVars, ListingInv, ListingTypeOK
<1>2. ListingTypeOK' /\ ListingShape'
  BY <1>1 DEF ListingInv, ListingTypeOK, ListingShape
<1>3. HistoryIsCurrent' /\ CursorsAreTheClients'
  BY <1>1 DEF ListingInv, HistoryIsCurrent, CursorsAreTheClients
<1>4. CursorsAreDated'
  BY <1>1 DEF ListingInv, ListingTypeOK, CursorsAreDated, Cursors
<1>5. ListingsAreSound' /\ FullListingsMissNothing' /\ CompleteListingsAreExact'
  BY <1>1 DEF ListingInv, ListingsAreSound, FullListingsMissNothing, CompleteListingsAreExact
<1>6. QED BY <1>2, <1>3, <1>4, <1>5 DEF ListingInv

LEMMA ListingStep == ListingInv /\ [ListingNext]_listingVars => ListingInv'
<1> SUFFICES ASSUME ListingInv, [ListingNext]_listingVars PROVE ListingInv'
  OBVIOUS
<1>1. CASE \E scope \in Scopes : Parse(scope) \/ Refuse(scope) \/ Declare(scope)
  BY <1>1, ParseStep, RefuseStep, DeclareStep
<1>2. CASE Serve
  BY <1>2, AnswerStep, TooLargeStep DEF Serve
<1>3. CASE LoseAnswer
  BY <1>3, LoseAnswerStep
<1>4. CASE \E scope \in Scopes, limit \in Limits : StartOver(scope, limit)
  BY <1>4, StartOverStep
<1>5. CASE \E batch \in Batches : Append(batch)
  BY <1>5, AppendStep
<1>6. CASE \E objects \in Archives, scopes \in SUBSET Scopes : Restore(objects, scopes)
  BY <1>6, RestoreStep
<1>7. CASE Rotate \/ Tick \/ UNCHANGED listingVars
  BY <1>7, OthersListingStep
<1>8. QED
  BY <1>1, <1>2, <1>3, <1>4, <1>5, <1>6, <1>7 DEF ListingNext

\* A cursor is refused for its age in its last second, and not before.
LEMMA CursorsExpireInTime == ListingInv => CursorsLiveTheirLifetime
<1> SUFFICES ASSUME ListingInv, client.cursor # None, client.cursor.secret = secret
             PROVE  LET age == clock - client.cursor.madeAt IN
                    /\ Accepted(client.cursor, client.cursor.scope) => age < Ttl * Second
                    /\ ~Accepted(client.cursor, client.cursor.scope) => age > (Ttl - 1) * Second
  BY DEF CursorsLiveTheirLifetime
<1> DEFINE now == clock \div Second
           made == client.cursor.madeAt \div Second
<1>1. /\ clock \in Nat /\ client.cursor.madeAt \in Nat
      /\ Second \in Nat \ {0} /\ Ttl \in Nat \ {0}
  BY ClockHasTicks DEF ListingInv, ListingTypeOK, Cursors
<1>2. /\ now \in Nat /\ now * Second <= clock /\ clock < (now + 1) * Second
      /\ made \in Nat /\ made * Second <= client.cursor.madeAt
      /\ client.cursor.madeAt < (made + 1) * Second
  BY <1>1
<1>3. Accepted(client.cursor, client.cursor.scope) <=> made + Ttl > now
  BY DEF Accepted, nowSeconds, ListingInv, CursorsAreDated
<1> HIDE DEF now, made
<1>4. CASE made + Ttl > now
  <2>1. now + 1 <= made + Ttl
    BY <1>1, <1>2, <1>4
  <2>2. (now + 1) * Second <= (made + Ttl) * Second
    BY <1>1, <1>2, <2>1
  <2>3. (made + Ttl) * Second = made * Second + Ttl * Second
    BY <1>1, <1>2
  <2>4. QED BY <1>1, <1>2, <1>3, <1>4, <2>2, <2>3
<1>5. CASE ~(made + Ttl > now)
  <2>1. made + Ttl <= now
    BY <1>1, <1>2, <1>5
  <2>2. (made + Ttl) * Second <= now * Second
    BY <1>1, <1>2, <2>1
  <2>3. (made + Ttl) * Second = (made + 1) * Second + (Ttl - 1) * Second
    BY <1>1, <1>2
  <2>4. QED BY <1>1, <1>2, <1>3, <1>5, <2>2, <2>3
<1>6. QED BY <1>4, <1>5

\* The invariant of the listing holds, for every scope, limit, archive, batch
\* and size of an object, and every bound of the clock and the revision.
THEOREM ListingInvariant == ListingSpec => []ListingInv
<1>1. QED BY ListingStarts, ListingStep, PTL DEF ListingSpec

\* Up to the mark of its cursor a client has, once, what was in its scope all
\* along, and nothing that never was in it.
THEOREM ListingsAreAlwaysSound == ListingSpec => []ListingsAreSound
<1>1. ListingInv => ListingsAreSound
  BY DEF ListingInv
<1>2. QED BY <1>1, ListingInvariant, PTL

\* A client that reached the last page missed nothing that was there all along.
THEOREM ListingsMissNothing == ListingSpec => []FullListingsMissNothing
<1>1. ListingInv => FullListingsMissNothing
  BY DEF ListingInv
<1>2. QED BY <1>1, ListingInvariant, PTL

\* Pages of which the last says complete are the scope exactly, unless an
\* operator declared coverage meanwhile.
THEOREM CompleteListingsAreTheScope == ListingSpec => []CompleteListingsAreExact
<1>1. ListingInv => CompleteListingsAreExact
  BY DEF ListingInv
<1>2. QED BY <1>1, ListingInvariant, PTL

\* A cursor lives its lifetime, whatever the lengths of a lifetime and a second.
THEOREM CursorsLive == ListingSpec => []CursorsLiveTheirLifetime
<1>1. QED BY CursorsExpireInTime, ListingInvariant, PTL

-----------------------------------------------------------------------------
(* The database that is listed.                                             *)

\* AtomicStore without its clients: what the writers may do to a database.
Database == INSTANCE AtomicStore
                WITH Clients <- {}, Requests <- {}, NoAnswer <- None,
                     decided <- NoRows, answer <- NoRows

\* An append or a restore is a commit.
LEMMA CommitIsARevision ==
    ASSUME ListingInv, NEW objects, NEW coverage, NEW declared,
           Commit(objects, coverage, declared)
    PROVE  Database!CommitRevision
<1>1. /\ db'.revision = db.revision + 1
      /\ db'.coverage = normalizeCoverage(coverage, db.revision + 1)
  BY DEF Commit, ListingInv, ListingTypeOK
<1>2. \A s \in DOMAIN db'.coverage : db'.coverage[s].revision = db.revision + 1
  BY <1>1 DEF normalizeCoverage
<1>3. QED
  BY <1>1, <1>2 DEF Database!CommitRevision

LEMMA DeclareIsADeclaration ==
    ASSUME ListingInv, NEW scope \in Scopes, Declare(scope)
    PROVE  Database!DeclareCoverage
<1>1. db.revision \in Nat
  BY DEF ListingInv, ListingTypeOK
<1>2. db.revision \in 0 .. db.revision
  BY <1>1
<1>3. PICK revision \in 0 .. db.revision : revision = db.revision
  BY <1>2
<1>4. db' = [db EXCEPT !.coverage =
                [s \in DOMAIN db.coverage \cup {scope} |->
                    IF s = scope THEN [complete |-> TRUE, revision |-> revision]
                    ELSE db.coverage[s]]]
  BY <1>3, Zenon DEF Declare
<1>5. QED
  BY <1>4, Zenon DEF Database!DeclareCoverage

\* The appends, restores and declarations a listing meets are commits and
\* declarations of AtomicStore, which is what SqliteStore implements.
THEOREM ListedDatabaseIsAtomic == ListingSpec => Database!Spec
<1>1. ListingInit => Database!Init
  BY DEF ListingInit, Database!Init, NoRows, Database!NoRows
<1>2. ListingInv /\ [ListingNext]_listingVars => [Database!Next]_(Database!vars)
  <2> SUFFICES ASSUME ListingInv, [ListingNext]_listingVars, db' # db
               PROVE  Database!CommitRevision \/ Database!DeclareCoverage
    BY DEF Database!Next, Database!vars, NoRows
  <2>1. \/ \E scope \in Scopes : Declare(scope)
        \/ \E batch \in Batches : Append(batch)
        \/ \E objects \in Archives, scopes \in SUBSET Scopes : Restore(objects, scopes)
    BY DEF ListingNext, Serve, Parse, Refuse, AnswerPage, TooLarge, LoseAnswer, StartOver,
       Rotate, Tick, listingVars
  <2>2. CASE \E scope \in Scopes : Declare(scope)
    BY <2>2, DeclareIsADeclaration
  <2>3. CASE \E batch \in Batches : Append(batch)
    <3>1. PICK batch \in Batches : Append(batch)
      BY <2>3
    <3>2. PICK objects : objects = Insert(normalizeEntries(batch), db.objects)
      OBVIOUS
    <3>3. Commit(objects, {}, FALSE)
      BY <3>1, <3>2, Zenon DEF Append
    <3>4. QED BY <3>3, CommitIsARevision
  <2>4. CASE \E objects \in Archives, scopes \in SUBSET Scopes : Restore(objects, scopes)
    <3>1. PICK objects \in Archives, scopes \in SUBSET Scopes : Restore(objects, scopes)
      BY <2>4
    <3>2. Commit(objects, {[scope |-> s, complete |-> TRUE] : s \in scopes}, TRUE)
      BY <3>1 DEF Restore
    <3>3. QED BY <3>2, CommitIsARevision
  <2>5. QED BY <2>1, <2>2, <2>3, <2>4
<1>3. QED
  BY <1>1, <1>2, ListingInvariant, PTL DEF ListingSpec, Database!Spec

=============================================================================
