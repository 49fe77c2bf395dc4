-------------------------- MODULE MCConfigRegistry --------------------------
(***************************************************************************)
(* The registry with the conversions of LexicalCast, a few names and a few *)
(* documents.  The names: a.b, which is asked for with two types, a, which *)
(* is a map and leads to a.b, one with the digit nine, one with a capital. *)
(***************************************************************************)
EXTENDS ConfigRegistry, LexicalCast, TLC

CONSTANTS c1, c2

IntT == [kind |-> "int"]
StrT == [kind |-> "string"]
VectorOf(T) == [kind |-> "seq", elem |-> T]
SetOf(T) == [kind |-> "set", elem |-> T]
MapOf(T) == [kind |-> "map", elem |-> T]
SeqNode(s) == [kind |-> "seq", elems |-> s]
MapNode(s) == [kind |-> "map", members |-> s]
M(k, n) == [key |-> k, node |-> n]

MCWords == {"a", "b", "p9", "A"}
MCCharsOf == [w \in MCWords |-> CASE w = "p9" -> {"lower", "nine"}
                                  [] w = "A"  -> {"upper"}
                                  [] OTHER    -> {"lower"}]
MCToLower == [w \in MCWords |-> IF w = "A" THEN "a" ELSE w]

MCRequests == <<
    [name |-> <<"a", "b">>, type |-> IntT, default_val |-> "1",
     by |-> {c1, c2}],
    [name |-> <<"a", "b">>, type |-> VectorOf(StrT), default_val |-> <<Plain("null"), Plain("#c")>>,
     by |-> {c2}],
    [name |-> <<"a">>, type |-> MapOf(SetOf(IntT)),
     default_val |-> [k \in {<<"b">>} |-> {"1", "2"}],
     by |-> {c1}],
    [name |-> <<"p9">>, type |-> IntT, default_val |-> "1",
     by |-> {c1}],
    [name |-> <<"A">>, type |-> StrT, default_val |-> Plain("1"),
     by |-> {c2}] >>

\* A comment, a sequence, half a sequence.
MCNullWords == {"", "~", "null"}
MCStructure == ("#c" :> {Null}) @@ ("[ 1 ]" :> {SeqNode(<<Scalar("1")>>)}) @@ ("[" :> {})
MCQuotation == ("" :> "\"\"") @@ ("~" :> "\"~\"") @@ ("null" :> "\"null\"")
               @@ ("#c" :> "\"#c\"") @@ ("[ 1 ]" :> "\"[ 1 ]\"") @@ ("[" :> "\"[\"")

\*   A: {b: x}    a: {b: ["", ~, "null"]}    p9: 2
\*   a.b: {a: x}  a: {b: 2}
\*   a: {b: [1]}  a.b: "["
MCDocs == {
    MapNode(<<M(<<"A">>, MapNode(<<M(<<"b">>, Scalar("x"))>>)),
              M(<<"a">>, MapNode(<<M(<<"b">>, SeqNode(<<Scalar(""), Null, Scalar("null")>>))>>)),
              M(<<"p9">>, Scalar("2"))>>),
    MapNode(<<M(<<"a", "b">>, MapNode(<<M(<<"a">>, Scalar("x"))>>)),
              M(<<"a">>, MapNode(<<M(<<"b">>, Scalar("2"))>>))>>),
    MapNode(<<M(<<"a">>, MapNode(<<M(<<"b">>, SeqNode(<<Scalar("1")>>))>>)),
              M(<<"a", "b">>, Scalar("["))>>) }

RECURSIVE WithIn(_)
WithIn(node) == {node} \cup
    IF node.kind # "map" THEN {}
    ELSE UNION {WithIn(node.members[i].node) : i \in 1..Len(node.members)}
MCNodes == UNION {WithIn(d) : d \in MCDocs}

RECURSIVE Levels(_)
Levels(node) ==
    IF node.kind # "map" THEN 0
    ELSE 1 + Max({Levels(node.members[i].node) : i \in 1..Len(node.members)})
MCDepth == [node \in MCNodes |-> Levels(node)]

\* The strings within a container.
RECURSIVE Within(_, _)
Within(T, v) ==
    IF T.kind \in {"int", "string"} THEN {}
    ELSE LET elems == InOrder(T, v)
         IN  UNION {IF T.elem.kind = "string" THEN {elems[i]} ELSE Within(T.elem, elems[i]) :
                      i \in 1..Len(elems)}

\* YAML prints a string as it has read it.
Kept(text) == \E node \in Load(text) : Dump(node) = text

\* All that a variable of type T can come to hold.
Held(T) == {r.default_val : r \in {r \in ToSet(Requests) : r.type = T}}
           \cup UNION {FromStr(T, Text(node)) : node \in Nodes}

\* A value of type T comes back from its text exactly if YAML keeps its strings,
\* and a string that it does not keep is empty or the program's own.
ComesBack == [T \in {r.type : r \in ToSet(Requests)} |-> [v \in Held(T) |->
    /\ UNION {FromStr(T, text) : text \in ToStr(T, v)} = {v}
          <=> \A text \in Within(T, v) : Kept(text)
    /\ \A text \in Within(T, v) :
          \/ Kept(text) \/ text = Plain("")
          \/ \E r \in ToSet(Requests) : r.type = T /\ text \in Within(T, r.default_val)]]

\* What a variable holds can be saved with toString and read back with
\* fromString (config.h:307-334), for containers within containers too, exactly
\* if YAML prints every string within the container as it has read it.  It does
\* not for an empty string, a word for null but the tilde, a comment, a sequence
\* spelt in another way, or what is not YAML at all.  Of these a document
\* leaves only the empty string in a variable, where it has a map for a
\* sequence; all others are the program's own.
Restorable == \A id \in DOMAIN objs : ComesBack[objs[id].type][objs[id].m_val]
=============================================================================
