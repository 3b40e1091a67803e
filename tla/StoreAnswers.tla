---------------------------- MODULE StoreAnswers ----------------------------
(***************************************************************************)
(* The answer to a page or an export as one function of one database       *)
(* content v = [label, revision, objects, coverage].                       *)
(***************************************************************************)
EXTENDS FnsObjects

(* The rows of a page: the next page.limit ids of the scope. *)
PageOf(r, v) ==
    LET wanted == {id \in Selected(r.scope, v.objects) : id > r.page.after}
        given == FirstIds(wanted, r.page.limit)
    IN [call |-> r, status |-> "ok", label |-> v.label, revision |-> v.revision,
        objects |-> Rows(given, v.objects),
        complete |-> /\ r.scope \in DOMAIN v.coverage
                     /\ v.coverage[r.scope] = [complete |-> TRUE, revision |-> v.revision],
        hasMore |-> given # wanted]

ExportOf(r, v) ==
    [call |-> r, status |-> "ok", label |-> v.label, revision |-> v.revision,
     objects |-> v.objects,
     coverage |-> {[scope |-> s, complete |-> v.coverage[s].complete] :
                      s \in {t \in DOMAIN v.coverage : v.coverage[t].revision = v.revision}}]

AnswerOf(r, v) == IF r.op = "page" THEN PageOf(r, v) ELSE ExportOf(r, v)
=============================================================================
