---------------------------- MODULE MCPagination ----------------------------
(***************************************************************************)
(* Pagination for TLC: binding documents of alias x and of alias y, the    *)
(* first three ids to x, the fourth to y.                                  *)
(***************************************************************************)
EXTENDS Pagination

CONSTANTS c, x, y

\* Only a large binding document carries the field that bindings do not need.
Document(alias, extra) ==
    [alias |-> alias, binding |-> extra, commune |-> None, context |-> c, type |-> "fns.alias.bind"]
Bind(alias) == Document(alias, None)
Bindings(alias) == [method |-> "bindings", context |-> c, alias |-> alias, bindingIds |-> {}]

Large == Document(x, c)

MCObjects == {Bind(x), Bind(y), Large}
BothScopes == {Bindings(x), Bindings(y)}

\* A binding takes a byte, of y two; Large is more than an answer may have.
MCSize == [object \in Objects |-> IF object = Bind(y) THEN 2 ELSE IF object = Large THEN 3 ELSE 1]

ObjectOf(id) == IF id = 4 THEN Bind(y) ELSE Bind(x)
Entries(ids) == {[id |-> id, object |-> ObjectOf(id)] : id \in ids}
Table(ids) == [id \in ids |-> ObjectOf(id)]

SingleBatches == {Entries({id}) : id \in ObjectIds}
MCArchives == {Table(ObjectIds), [id \in {2, 3} |-> IF id = 3 THEN Large ELSE Bind(x)]}
=============================================================================
