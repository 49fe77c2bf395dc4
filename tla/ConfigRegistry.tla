--------------------------- MODULE ConfigRegistry ---------------------------
(***************************************************************************)
(* sylar::Config (sylar/config.h, config.cpp): the map from names to       *)
(* configuration variables, shared by all threads under one read-write     *)
(* lock; Lookup, which finds or creates; LoadFromYaml, which flattens a    *)
(* document and assigns to the variables it names; Visit.                  *)
(*                                                                         *)
(* A name is the sequence of the words between its dots.  Of the letters   *)
(* of a word only their classes matter.  A variable object is known by the *)
(* name it was created for and the thread that created it: a name once     *)
(* registered stays so, and nobody creates it twice.  The life of a single *)
(* variable (listeners, its own lock) is module ConfigVar; here setValue   *)
(* is one step.  A step is one critical section of the lock, or one call   *)
(* on a variable.                                                          *)
(***************************************************************************)
EXTENDS Naturals, SequencesExt

CONSTANTS
    Clients,           \* threads
    Loaders,           \* those that call LoadFromYaml
    Visitors,          \* those that call Visit
    None,              \* no variable
    Words,             \* what stands between the dots of a name
    CharsOf,           \* classes of the letters of a word
    ToLower,           \* ::tolower on a word
    Nodes,             \* YAML nodes: the documents and all that is in them
    Depth,             \* how many levels of maps are below a node
    Docs,              \* the documents that are loaded
    Requests,          \* the calls of Lookup: name, type, default_val, and by whom
    FromString(_, _),  \* results of Lexical_cast<std::string, T>, see LexicalCast
    Printed(_)         \* operator<< of a YAML node

Names == {Requests[i].name : i \in 1..Len(Requests)}

ASSUME RegistryAssumption ==
    /\ None \notin Clients
    /\ Loaders \subseteq Clients /\ Visitors \subseteq Clients
    /\ ToLower \in [Words -> Words]
    /\ Docs \subseteq Nodes /\ None \notin Docs
    /\ \A i \in 1..Len(Requests) : Requests[i].name \in Seq(Words) \ {<<>>}

\* Documents are trees: a map is deeper than its members.  No key is empty.
ASSUME TreesAssumption ==
    /\ Depth \in [Nodes -> Nat]
    /\ \A node \in Nodes : node.kind = "map" =>
        /\ Len(node.members) \in Nat
        /\ \A i \in 1..Len(node.members) :
            /\ node.members[i].key \in Seq(Words) \ {<<>>}
            /\ node.members[i].node \in Nodes
            /\ Depth[node.members[i].node] < Depth[node]

VARIABLES
    s_datas,    \* name -> who created the variable registered under it, or None
    objs,       \* the variable objects that have been created
    ptr,        \* the pointer each client has got from Lookup, None for nullptr
    pc,         \* where each client is
    req,        \* Lookup: which request, 0 outside of it
    all_nodes,  \* LoadFromYaml: the list, from the entry it has got to
    doc,        \* LoadFromYaml: the document, None outside of it
    seen,       \* Visit: the variables its callback has been called with
    \* history
    contested,  \* names that two threads were creating at the same time
    alone       \* LoadFromYaml: nobody else has changed anything meanwhile

vars == <<s_datas, objs, ptr, pc, req, all_nodes, doc, seen, contested, alone>>

Id(n) == <<n, s_datas[n]>>
Registered == {n \in Names : s_datas[n] # None}

Init ==
    /\ s_datas = [n \in Names |-> None]
    /\ objs = <<>>
    /\ ptr = [c \in Clients |-> None]
    /\ pc = [c \in Clients |-> "idle"]
    /\ req = [c \in Clients |-> 0]
    /\ all_nodes = [c \in Clients |-> <<>>]
    /\ doc = [c \in Clients |-> None]
    /\ seen = [c \in Clients |-> {}]
    /\ contested = {}
    /\ alone = [c \in Clients |-> TRUE]

-----------------------------------------------------------------------------
\* Mutant of WriteFree: Visit does not take the lock.
WriteAlways == TRUE

\* The lock: only Visit holds it, for reading, from one step to the next.
WriteFree == \A c \in Clients : pc[c] # "visit"

(* Letters that find_first_not_of looks for.                               *)
LookupChars == {"lower", "digit", "nine"}
ListChars == {"lower", "digit"}

\* ::tolower leaves a word of such letters as it is.
ASSUME ToLowerAssumption ==
    \A w \in Words : CharsOf[w] \subseteq LookupChars => ToLower[w] = w

ValidName(n, chars) == \A i \in 1..Len(n) : CharsOf[n[i]] \subseteq chars
Lowered(n) == [i \in 1..Len(n) |-> ToLower[n[i]]]

\* Mutant of ListAllMember: members are listed without the prefix.
ListBare(root) ==
    LET List[node \in Nodes] == [prefix \in Seq(Words) |->
          IF ~ValidName(prefix, ListChars) THEN <<>>
          ELSE <<[key |-> prefix, node |-> node]>>
               \o IF node.kind # "map" THEN <<>>
                  ELSE FlattenSeq([i \in 1..Len(node.members) |->
                          List[node.members[i].node][node.members[i].key]])]
    IN  List[root][<<>>]

\* Mutant of ListAllMember: of a map only the members are listed.
ListLeaves(root) ==
    LET List[node \in Nodes] == [prefix \in Seq(Words) |->
          IF ~ValidName(prefix, ListChars) THEN <<>>
          ELSE IF node.kind # "map" THEN <<[key |-> prefix, node |-> node]>>
               ELSE FlattenSeq([i \in 1..Len(node.members) |->
                       List[node.members[i].node][prefix \o node.members[i].key]])]
    IN  List[root][<<>>]

\* ListAllMember("", root): a node under its name, and the members of a map
\* after it; nothing of a node whose name has a letter that is not allowed.
Listed(prefix, node, list) ==
    IF ~ValidName(prefix, ListChars) THEN <<>>
    ELSE <<[key |-> prefix, node |-> node]>>
         \o IF node.kind # "map" THEN <<>>
            ELSE FlattenSeq([i \in 1..Len(node.members) |->
                    list[node.members[i].node][prefix \o node.members[i].key]])

Lists == LET List[node \in Nodes] == [prefix \in Seq(Words) |-> Listed(prefix, node, List)] IN List

ListAllMember(root) == Lists[root][<<>>]

-----------------------------------------------------------------------------
(* Lookup.                                                                 *)

\* dynamic_pointer_cast of the variable registered as n: null if it has
\* another type.
Cast(n, T) == IF objs[Id(n)].type = T THEN Id(n) ELSE None

\* Lookup(name, default_val, description) of a name that is there returns the
\* variable, or nullptr if it has another type; the default does not count.
LookupFound(c, r) ==
    /\ pc[c] = "idle"
    /\ Requests[r].name \in Registered
    /\ ptr' = [ptr EXCEPT ![c] = Cast(Requests[r].name, Requests[r].type)]
    /\ UNCHANGED <<s_datas, objs, pc, req, all_nodes, doc, seen, contested, alone>>

\* Mutant of LookupMissing: a variable of another type counts as missing.
LookupMistyped(c, r) ==
    LET n == Requests[r].name
    IN  /\ pc[c] = "idle"
        /\ n \in Registered => Cast(n, Requests[r].type) = None
        /\ pc' = [pc EXCEPT ![c] = "create"]
        /\ req' = [req EXCEPT ![c] = r]
        /\ contested' = contested
        /\ UNCHANGED <<s_datas, objs, ptr, all_nodes, doc, seen, alone>>

\* Lookup of a name that is not there lets go of the lock before it creates.
LookupMissing(c, r) ==
    LET n == Requests[r].name
    IN  /\ pc[c] = "idle"
        /\ n \notin Registered
        /\ pc' = [pc EXCEPT ![c] = "create"]
        /\ req' = [req EXCEPT ![c] = r]
        /\ contested' = contested \cup
              {n : x \in {x \in Clients : pc[x] = "create" /\ Requests[req[x]].name = n}}
        /\ UNCHANGED <<s_datas, objs, ptr, all_nodes, doc, seen, alone>>

\* A name with other letters is refused: std::invalid_argument.
LookupThrow(c) ==
    /\ pc[c] = "create"
    /\ ~ValidName(Requests[req[c]].name, LookupChars)
    /\ pc' = [pc EXCEPT ![c] = "idle"]
    /\ req' = [req EXCEPT ![c] = 0]
    /\ UNCHANGED <<s_datas, objs, ptr, all_nodes, doc, seen, contested, alone>>

\* What the loaders know of it when client c changes a variable or the map.
NotAlone(c) == alone' = [x \in Clients |-> (alone[x] /\ x = c) \/ doc[x] = None]

\* The variable is made and registered, whatever stands under the name now.
LookupCreate(c) ==
    LET r  == Requests[req[c]]
        id == <<r.name, c>>
    IN  /\ pc[c] = "create"
        /\ ValidName(r.name, LookupChars)
        /\ WriteFree
        /\ objs' = [x \in DOMAIN objs \cup {id} |->
                      IF x = id THEN [m_name |-> Lowered(r.name), type |-> r.type,
                                      m_val |-> r.default_val]
                      ELSE objs[x]]
        /\ s_datas' = [s_datas EXCEPT ![r.name] = c]
        /\ ptr' = [ptr EXCEPT ![c] = id]
        /\ pc' = [pc EXCEPT ![c] = "idle"]
        /\ req' = [req EXCEPT ![c] = 0]
        /\ NotAlone(c)
        /\ UNCHANGED <<all_nodes, doc, seen, contested>>

\* Lookup<T>(name) finds only.
Find(c, r) ==
    /\ pc[c] = "idle"
    /\ ptr' = [ptr EXCEPT ![c] = IF Requests[r].name \in Registered
                                THEN Cast(Requests[r].name, Requests[r].type) ELSE None]
    /\ UNCHANGED <<s_datas, objs, pc, req, all_nodes, doc, seen, contested, alone>>

\* setValue through a pointer, of the value some request of its type gives.
Assign(c, r) ==
    /\ pc[c] = "idle"
    /\ ptr[c] # None
    /\ Requests[r].type = objs[ptr[c]].type
    /\ objs' = [objs EXCEPT ![ptr[c]].m_val = Requests[r].default_val]
    /\ NotAlone(c)
    /\ UNCHANGED <<s_datas, ptr, pc, req, all_nodes, doc, seen, contested>>

-----------------------------------------------------------------------------
(* LoadFromYaml.                                                           *)

\* The list is made without the lock.
LoadFromYaml(c, d) ==
    /\ c \in Loaders
    /\ pc[c] = "idle"
    /\ pc' = [pc EXCEPT ![c] = "load"]
    /\ all_nodes' = [all_nodes EXCEPT ![c] = ListAllMember(d)]
    /\ doc' = [doc EXCEPT ![c] = d]
    /\ UNCHANGED <<s_datas, objs, ptr, req, seen, contested, alone>>

\* LookupBase of the next name; the root, whose name is empty, is skipped, and
\* only what is registered is set.
LoadFind(c) ==
    /\ pc[c] = "load"
    /\ all_nodes[c] # <<>>
    /\ IF Head(all_nodes[c]).key # <<>> /\ Lowered(Head(all_nodes[c]).key) \in Registered
       THEN /\ pc' = [pc EXCEPT ![c] = "apply"]
            /\ all_nodes' = [all_nodes EXCEPT ![c][1] =
                               [key |-> @.key, node |-> @.node, var |-> Id(Lowered(@.key))]]
       ELSE /\ pc' = pc
            /\ all_nodes' = [all_nodes EXCEPT ![c] = Tail(@)]
    /\ UNCHANGED <<s_datas, objs, ptr, req, doc, seen, contested, alone>>

\* The string fromString gets: that of a scalar, or the node printed.
Text(node) ==
    IF node.kind = "scalar" THEN [kind |-> "plain", s |-> node.s] ELSE Printed(node)

\* fromString: the value converted is assigned; an exception is caught and the
\* loop goes on.
LoadApply(c) ==
    LET e   == Head(all_nodes[c])
        new == FromString(objs[e.var].type, Text(e.node))
    IN  /\ pc[c] = "apply"
        /\ IF new = {} THEN UNCHANGED <<objs, alone>>
           ELSE /\ \E v \in new : objs' = [objs EXCEPT ![e.var].m_val = v]
                /\ NotAlone(c)
        /\ pc' = [pc EXCEPT ![c] = "load"]
        /\ all_nodes' = [all_nodes EXCEPT ![c] = Tail(@)]
        /\ UNCHANGED <<s_datas, ptr, req, doc, seen, contested>>

LoadReturn(c) ==
    /\ pc[c] = "load"
    /\ all_nodes[c] = <<>>
    /\ pc' = [pc EXCEPT ![c] = "idle"]
    /\ doc' = [doc EXCEPT ![c] = None]
    /\ alone' = [alone EXCEPT ![c] = TRUE]
    /\ UNCHANGED <<s_datas, objs, ptr, req, all_nodes, seen, contested>>

-----------------------------------------------------------------------------
(* Visit: the callback is called with every variable, the lock held.       *)
Visit(c) ==
    /\ c \in Visitors
    /\ pc[c] = "idle"
    /\ pc' = [pc EXCEPT ![c] = "visit"]
    /\ UNCHANGED <<s_datas, objs, ptr, req, all_nodes, doc, seen, contested, alone>>

VisitCall(c, n) ==
    /\ pc[c] = "visit"
    /\ n \in Registered
    /\ \A id \in seen[c] : id[1] # n
    /\ seen' = [seen EXCEPT ![c] = @ \cup {Id(n)}]
    /\ UNCHANGED <<s_datas, objs, ptr, pc, req, all_nodes, doc, contested, alone>>

VisitReturn(c) ==
    /\ pc[c] = "visit"
    /\ {id[1] : id \in seen[c]} = Registered
    /\ pc' = [pc EXCEPT ![c] = "idle"]
    /\ seen' = [seen EXCEPT ![c] = {}]
    /\ UNCHANGED <<s_datas, objs, ptr, req, all_nodes, doc, contested, alone>>

-----------------------------------------------------------------------------
Step(c) ==
    \/ \E r \in {r \in 1..Len(Requests) : c \in Requests[r].by} :
          LookupFound(c, r) \/ LookupMissing(c, r) \/ Find(c, r) \/ Assign(c, r)
    \/ LookupThrow(c) \/ LookupCreate(c)
    \/ \E d \in Docs : LoadFromYaml(c, d)
    \/ LoadFind(c) \/ LoadApply(c) \/ LoadReturn(c)
    \/ Visit(c) \/ (\E n \in Names : VisitCall(c, n)) \/ VisitReturn(c)

Next == \E c \in Clients : Step(c)

Spec == Init /\ [][Next]_vars

-----------------------------------------------------------------------------
(* What is under a node, without regard to letters: the pairs of a full    *)
(* name and a node, of its members and of what is under them.              *)
Below(node, under) ==
    IF node.kind # "map" THEN {}
    ELSE UNION {LET m == node.members[i]
                IN  {<<m.key, m.node>>} \cup {<<m.key \o e[1], e[2]>> : e \in under[m.node]} :
                  i \in 1..Len(node.members)}

Unders == LET U[node \in Nodes] == Below(node, U) IN U

Under(d) == Unders[d]

\* Every pointer Lookup (config.h:420-478) has handed out is, and stays, to the
\* variable that is registered under its name and bears it, and so to the one
\* that documents are loaded into; unless two threads were in the first Lookup
\* of that name at the same time, each past the search and before the insertion.
PointerRegistered ==
    \A c \in Clients : ptr[c] # None =>
        LET n == ptr[c][1]
        IN  n \in contested \/ (ptr[c] = Id(n) /\ objs[ptr[c]].m_name = n)

\* When LoadFromYaml (config.cpp:61) returns and nobody else has
\* changed anything meanwhile, every registered variable that the document
\* has a node for, in letters ListAllMember takes, has the value of such a node
\* if all of them convert: at any depth, under dotted keys, for a map that is a
\* value as for one that only leads to others, and after nodes that failed.
LoadComplete ==
    \A c \in Clients : pc[c] = "load" /\ all_nodes[c] = <<>> /\ alone[c] =>
        \A n \in {n \in Registered : ValidName(n, ListChars)} :
            LET texts == {Text(e[2]) : e \in {e \in Under(doc[c]) : e[1] = n}}
                T     == objs[Id(n)].type
            IN  texts # {} /\ (\A t \in texts : FromString(T, t) # {})
                => \E t \in texts : objs[Id(n)].m_val \in FromString(T, t)

\* LoadFromYaml changes a variable only to the value of a node that
\* the document has under exactly its name, spelt as it is registered; a node
\* under a name that is refused, or below one, reaches no variable.
OnlyNamed ==
    [][\A c \in Clients : pc[c] = "apply" /\ pc'[c] = "load" =>
          \A id \in DOMAIN objs :
              objs'[id] = objs[id] \/
              \E e \in Under(doc[c]) :
                  e[1] = id[1] /\ objs'[id].m_val \in FromString(objs[id].type, Text(e[2]))
      ]_vars

\* What Visit (config.cpp:91) has shown its callback is what is
\* registered, until it returns: nothing is replaced under the iterator.
VisitSees ==
    \A c \in Clients : pc[c] = "visit" => \A id \in seen[c] : id = Id(id[1])
=============================================================================
