------------------------------ MODULE Mapping ------------------------------
(***************************************************************************)
(* The mapping of a target as `es-log fields' shows it: GetMapping of      *)
(* internal/esclient/client.go flattens the properties tree of each index  *)
(* and gathers, for each path, the type it has in each index;              *)
(* internal/cmd/fields.go makes rows of that.                              *)
(*                                                                         *)
(* A tree is a function from names to nodes, a path a sequence of names.   *)
(* FieldPaths holds the possible paths in the order of their dotted names: *)
(* sorting by name is going through it.                                    *)
(***************************************************************************)
EXTENDS Integers, Sequences, FiniteSets, Functions, Filtering

CONSTANTS
    FieldPaths,
    MaxDepth     \* bound: the length of a path of properties

ASSUME FieldPathsAssumption ==
    /\ FieldPaths \in Seq(Seq(STRING)) /\ IsInjective(FieldPaths)
    /\ \A i \in DOMAIN FieldPaths : FieldPaths[i] # <<>> /\ Len(FieldPaths[i]) <= MaxDepth
    /\ MaxDepth \in Nat

\* mappingNode; "" is the type of a node that declares none.
Node(type, properties, fields) ==
    [type |-> type, properties |-> properties, fields |-> fields]

Nothing == [name \in {} |-> ""]

HasProperties(node) == DOMAIN node.properties # {}

\* The recursion of flattenProperties by its depth: the prefixes it is called
\* with, each with the node whose properties it goes through or that ends it.
Visited(props) ==
    LET visited[n \in 0..MaxDepth] ==
            IF n = 0 THEN {<<<<>>, Node("", props, Nothing)>>}
            ELSE UNION {{<<Append(v[1], name), v[2].properties[name]>> :
                            name \in DOMAIN v[2].properties} : v \in visited[n - 1]}
    IN visited

\* A tree whose names are strings.
IsMapping(props) ==
    \A n \in 0..MaxDepth : \A v \in Visited(props)[n] :
        DOMAIN v[2].properties \subseteq STRING /\ DOMAIN v[2].fields \subseteq STRING

\* What one node without properties adds: its own type and its multi-fields'.
Entries(path, node) ==
    IF HasProperties(node) THEN {}
    ELSE IF node.type # ""
    THEN {<<path, node.type>>} \cup
         {<<Append(path, sub), node.fields[sub].type>> : sub \in DOMAIN node.fields}
    ELSE {<<path, "object">>}

\* flat: the pairs of a path and its type in one index.
flattenProperties(props) ==
    LET visited == Visited(props)
    IN UNION {Entries(v[1], v[2]) : v \in UNION {visited[n] : n \in 1..MaxDepth}}

\* Mutant: the map of a path is made anew for each index.
AddIndexAfresh(byField, index, props) ==
    LET flat == flattenProperties(props)
    IN [path \in DOMAIN byField \cup {e[1] : e \in flat} |->
          IF \E e \in flat : e[1] = path
          THEN [i \in {index} |-> (CHOOSE e \in flat : e[1] = path)[2]]
          ELSE byField[path]]

\* byField after one more index: its types beside those of the indices before.
AddIndex(byField, index, props) ==
    LET flat    == flattenProperties(props)
        Before(path) == IF path \in DOMAIN byField THEN DOMAIN byField[path] ELSE {}
        Now(path)    == {i \in {index} : \E e \in flat : e[1] = path}
    IN [path \in DOMAIN byField \cup {e[1] : e \in flat} |->
          [i \in Before(path) \cup Now(path) |->
              IF i = index THEN (CHOOSE e \in flat : e[1] = path)[2]
                           ELSE byField[path][i]]]

distinctTypes(perIndex) == Range(perIndex)

\* FieldType and fieldRow: the break-down by index is for a conflict only.
FieldRow(path, perIndex) ==
    LET conflict == Cardinality(distinctTypes(perIndex)) > 1
    IN [name |-> path, types |-> distinctTypes(perIndex), conflict |-> conflict,
        byIndex |-> IF conflict THEN perIndex ELSE Nothing]

toFieldRows(byField) ==
    LET paths == Filtered(FieldPaths, DOMAIN byField)
    IN [i \in DOMAIN paths |-> FieldRow(paths[i], byField[paths[i]])]

-----------------------------------------------------------------------------
(***************************************************************************)
(* What a path means in one index, by walking down to it.                  *)
(***************************************************************************)
\* The node at a path of properties, as a set of at most one.
NodeAt(props, path) ==
    LET walk[n \in 0..Len(path)] ==
            IF n = 0 THEN {Node("", props, Nothing)}
            ELSE {node.properties[path[n]] :
                    node \in {m \in walk[n - 1] : path[n] \in DOMAIN m.properties}}
    IN walk[Len(path)]

\* The types a search may meet under a path: that of a leaf, "object" for what
\* has no type of its own, or that of a multi-field.
FieldTypesAt(props, path) ==
    {IF node.type = "" THEN "object" ELSE node.type :
        node \in {n \in NodeAt(props, path) : ~HasProperties(n)}}
    \cup
    {node.fields[path[Len(path)]].type :
        node \in {n \in NodeAt(props, SubSeq(path, 1, Len(path) - 1)) :
                    /\ ~HasProperties(n) /\ n.type # ""
                    /\ path[Len(path)] \in DOMAIN n.fields}}

\* As FieldTypesAt, with the objects that have fields in them as well.
TypesAt(props, path) ==
    FieldTypesAt(props, path) \cup
    {IF node.type = "" THEN "object" ELSE node.type : node \in NodeAt(props, path)}
=============================================================================
