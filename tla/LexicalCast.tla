----------------------------- MODULE LexicalCast -----------------------------
(***************************************************************************)
(* The conversions of sylar/config.h: the class template Lexical_cast from *)
(* and to strings, for scalars and, nested, for containers.                *)
(*                                                                         *)
(* A C++ type is a record: [kind |-> "int"], [kind |-> "string"], or a     *)
(* container ("seq", "set", "map") of elem.  Values of int are numerals,   *)
(* of a string its text; sequences, sets and functions are the values of   *)
(* containers (the keys of a map are strings).                             *)
(*                                                                         *)
(* A YAML::Node is a record too: a scalar with its string s, null, a       *)
(* sequence of nodes, or a map as a sequence of members [key, node] with   *)
(* scalar keys.  A text is either a line, [kind |-> "plain", s |-> ...],   *)
(* or what dumping a sequence or a map prints, for which the node itself   *)
(* stands.  What YAML makes of a line that is not just a scalar of its     *)
(* letters, and which scalars are printed in quotes, is given by constants *)
(* for the lines that occur.                                               *)
(***************************************************************************)
EXTENDS Naturals, SequencesExt

CONSTANTS
    Numerals,   \* the strings that boost::lexical_cast takes for an int
    NullWords,  \* the lines that YAML reads as null: nothing, ~, null, Null, NULL
    Structure,  \* the lines with an indicator (comment, sequence, map) in them:
                \* the set of the node they are read as, empty if they are not YAML
    Quotation   \* the scalars that are printed in quotes, and as what line

Scalar(s) == [kind |-> "scalar", s |-> s]
Null == [kind |-> "null"]
Plain(s) == [kind |-> "plain", s |-> s]

\* A scalar is quoted if it would be read as something else, and a line of
\* quotes is read as what is in them.
ASSUME YamlAssumption ==
    /\ NullWords \cup DOMAIN Structure \subseteq DOMAIN Quotation
    /\ \A s \in DOMAIN Quotation :
        /\ Quotation[s] \notin DOMAIN Quotation
        /\ \A t \in DOMAIN Quotation : Quotation[s] = Quotation[t] => s = t

-----------------------------------------------------------------------------
(* yaml-cpp as the conversions use it.                                     *)

\* operator<< on a node: a scalar, quoted where it must be; null is a tilde.
Dump(node) ==
    CASE node.kind = "scalar" -> Plain(IF node.s \in DOMAIN Quotation
                                       THEN Quotation[node.s] ELSE node.s)
      [] node.kind = "null"   -> Plain("~")
      [] OTHER                -> node

\* YAML::Load: the set of its result, empty if it throws.
Load(text) ==
    IF text.kind # "plain" THEN {text}
    ELSE LET inside == {s \in DOMAIN Quotation : Quotation[s] = text.s}
         IN  CASE text.s \in NullWords        -> {Null}
               [] text.s \in DOMAIN Structure -> Structure[text.s]
               [] inside # {}                 -> {Scalar(s) : s \in inside}
               [] OTHER                       -> {Scalar(text.s)}

\* node[i] for i < node.size(), printed.  A scalar and null have size zero; a
\* map has no member with a number for a key, and what is not there prints
\* as nothing.
Elements(node) ==
    CASE node.kind = "seq" -> [i \in 1..Len(node.elems) |-> Dump(node.elems[i])]
      [] node.kind = "map" -> [i \in 1..Len(node.members) |-> Plain("")]
      [] OTHER             -> <<>>

-----------------------------------------------------------------------------
\* A conversion that may throw is the set of its results: one, or none.
RECURSIVE FromStr(_, _)

\* Mutant of FromVector: the stream is not emptied, and each element is read
\* with those before it.
FromVectorStale(T, texts) ==
    IF Len(texts) > 1 \/ \E i \in 1..Len(texts) : FromStr(T.elem, texts[i]) = {} THEN {}
    ELSE {[i \in 1..Len(texts) |-> CHOOSE v \in FromStr(T.elem, texts[i]) : TRUE]}

\* Lexical_cast<std::string, Container>: every element is printed and
\* converted on its own, and the first that throws ends the conversion.
FromVector(T, texts) ==
    IF \E i \in 1..Len(texts) : FromStr(T.elem, texts[i]) = {} THEN {}
    ELSE {[i \in 1..Len(texts) |-> CHOOSE v \in FromStr(T.elem, texts[i]) : TRUE]}

\* The same for a map: insert keeps the first of two members with a key.  The
\* iterator over a sequence has no first, and asking for its string throws.
FromMap(T, node) ==
    LET At(k) == node.members[SelectInSeq(node.members, LAMBDA e : e.key = k)].node
        Keys  == {node.members[i].key : i \in 1..Len(node.members)}
        Of(n) == FromStr(T.elem, Dump(n))
    IN  CASE node.kind = "map" ->
               IF \E i \in 1..Len(node.members) : Of(node.members[i].node) = {}
               THEN {}
               ELSE {[k \in Keys |-> CHOOSE v \in Of(At(k)) : TRUE]}
          [] node.kind = "seq" -> IF node.elems = <<>> THEN {<<>>} ELSE {}
          [] OTHER -> {<<>>}

\* Lexical_cast<std::string, T>()(text).
FromStr(T, text) ==
    CASE T.kind = "int" ->
           IF text.kind = "plain" /\ text.s \in Numerals THEN {text.s} ELSE {}
      [] T.kind = "string" -> {text}
      [] T.kind = "seq" -> UNION {FromVector(T, Elements(n)) : n \in Load(text)}
      [] T.kind = "set" ->
           {ToSet(v) : v \in UNION {FromVector(T, Elements(n)) : n \in Load(text)}}
      [] T.kind = "map" -> UNION {FromMap(T, n) : n \in Load(text)}

\* The elements of a container, in the order of the iterator.
InOrder(T, val) ==
    CASE T.kind = "seq" -> val
      [] T.kind = "set" -> SetToSeq(val)
      [] T.kind = "map" -> LET keys == SetToSeq(DOMAIN val)
                           IN  [i \in 1..Len(keys) |-> val[keys[i]]]

\* Lexical_cast<T, std::string>()(val): the elements of a container become
\* texts, these are read as nodes, which may throw, and the container's node
\* is printed.
RECURSIVE ToStr(_, _)
ToStr(T, val) ==
    LET elems    == InOrder(T, val)
        Read(i) == UNION {Load(text) : text \in ToStr(T.elem, elems[i])}
        Node(i) == CHOOSE n \in Read(i) : TRUE
        keys     == SetToSeq(DOMAIN val)
    IN  CASE T.kind = "int"    -> {Plain(val)}
          [] T.kind = "string" -> {val}
          [] OTHER ->
               IF \E i \in 1..Len(elems) : Read(i) = {} THEN {}
               ELSE IF T.kind = "map"
               THEN {[kind |-> "map", members |-> [i \in 1..Len(elems) |->
                                          [key |-> keys[i], node |-> Node(i)]]]}
               ELSE {[kind |-> "seq", elems |-> [i \in 1..Len(elems) |-> Node(i)]]}
=============================================================================
