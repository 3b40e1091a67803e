----------------------------- MODULE MCDiscovery -----------------------------
(***************************************************************************)
(* Discovery for TLC.  Object 1 is the commune; 2 and 3 bind alias x in    *)
(* it, 4 releases 3; an update of the commune conflicts with 2.  What is   *)
(* put under the commune's id is a binding that is not its content, and 4  *)
(* may release that one.                                                   *)
(***************************************************************************)
EXTENDS Discovery

CONSTANTS x

Document(type, alias, binding, commune, context) ==
    [alias |-> alias, binding |-> binding, commune |-> commune, context |-> context, type |-> type]
Founding == Document("fns.commune.create", None, None, None, None)
Bind == Document("fns.alias.bind", x, None, None, 1)
Release(id) == Document("fns.alias.release", None, id, None, None)
Update == Document("fns.commune.update", None, None, 1, None)

MCObjects == {Founding, Bind, Release(1), Release(2), Release(3), Update}
MCQueries == {[context |-> 1, alias |-> x]}
MCScopes == {[method |-> m, context |-> 1, alias |-> x, bindingIds |-> ids] :
                m \in {"bindings", "releases", "communeDocuments"}, ids \in SUBSET {2, 3}}

Entry(id, object) == [id |-> id, object |-> object]
MCEntries == {Entry(1, Bind), Entry(2, Bind), Entry(3, Bind), Entry(2, Update),
              Entry(4, Release(1)), Entry(4, Release(3))}

\* Id 2 or 3 changes its meaning.
MCContents == {[id \in {1, 2} |-> IF id = 1 THEN Founding ELSE Update],
               [id \in {2, 3} |-> IF id = 2 THEN Bind ELSE Release(2)]}
=============================================================================
