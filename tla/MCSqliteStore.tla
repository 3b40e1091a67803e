---------------------------- MODULE MCSqliteStore ---------------------------
(* Small instances of SqliteStore for TLC. *)
EXTENDS SqliteStoreAtomicity, TLC

CONSTANTS w1, w2, r1

Payload(type, context, alias, binding, commune) ==
    [type |-> type, context |-> context, alias |-> alias,
     binding |-> binding, commune |-> commune]

(* Ids 1 and 2 may be bindings of (9, "a"); id 1 may also bind "b", and id 2 *)
(* release it.  Binding id 0 is not stored and sorts first.                 *)
Bind == Payload("fns.alias.bind", 9, "a", None, None)
BindAgain == Payload("fns.alias.bind", 9, "b", None, None)
Release == Payload("fns.alias.release", None, None, 1, None)

MCObjects == {Bind, BindAgain, Release}

BindingScope == [method |-> "bindings", context |-> 9, alias |-> "a"]
ReleaseScope == [method |-> "releases", bindingIds |-> {0, 1}]
NoBindings == [method |-> "releases", bindingIds |-> {}]

Entry(id, object) == [id |-> id, object |-> object]

Declare(scope, complete) == [scope |-> scope, complete |-> complete]
Page(after, limit) == [after |-> after, limit |-> limit]

(* Two writers: the second batch conflicts with the first on both ids.      *)
WriterBatches == {{Entry(1, Bind), Entry(2, Bind)}, {Entry(1, BindAgain), Entry(2, Release)}}
WriterScopes == {BindingScope}
WriterDeclarations == {{Declare(BindingScope, TRUE)}}
FirstOfTwo == {Page(0, 1)}

(* One writer: an empty batch, one that conflicts with itself, and          *)
(* declarations that contradict each other.                                 *)
SingleBatches ==
    {{}, {Entry(1, Bind)}, {Entry(1, BindAgain), Entry(2, Release)}, {Entry(1, Bind), Entry(1, BindAgain)}}
SingleScopes == {ReleaseScope, NoBindings}
SingleDeclarations ==
    {{Declare(s, TRUE) : s \in SingleScopes}, {Declare(ReleaseScope, TRUE), Declare(ReleaseScope, FALSE)}}

WritersAreAlike == Permutations({w1, w2})
=============================================================================
