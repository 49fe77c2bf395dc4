------------------------ MODULE ConfigRegistryProofs ------------------------
(***************************************************************************)
(* The registry of configuration variables, for any number of threads,     *)
(* names, documents and conversions: what Lookup hands out is registered,  *)
(* what Visit shows stays so until it returns, and LoadFromYaml sets every *)
(* variable a document names, however deep, and no other.                  *)
(***************************************************************************)
EXTENDS ConfigRegistry, SequenceTheorems, WellFoundedInduction, TLAPS

-----------------------------------------------------------------------------
\* The inductive invariant

Identities == Names \X Clients

RegistryTypeOK ==
    /\ s_datas \in [Names -> Clients \cup {None}]
    /\ ptr \in [Clients -> Identities \cup {None}]
    /\ pc \in [Clients -> {"idle", "create", "load", "apply", "visit"}]
    /\ req \in [Clients -> {0} \cup 1..Len(Requests)]
    /\ seen \in [Clients -> SUBSET Identities]

\* Client c is in the first Lookup of name n, past the search.
Creating(c, n) == pc[c] = "create" /\ Requests[req[c]].name = n

\* Unless a name is contested one thread creates it, and nobody has before.
CreatesAlone ==
    /\ \A c \in Clients : pc[c] = "create" => req[c] \in 1..Len(Requests)
    /\ \A n \in Names \ contested : \A c, d \in Clients :
        Creating(c, n) => n \notin Registered /\ (Creating(d, n) => c = d)

\* A variable object has three fields and bears the name it was created for;
\* what is registered has been created.
ObjectsNamed ==
    /\ objs = [x \in DOMAIN objs |-> objs[x]]
    /\ \A x \in DOMAIN objs :
        objs[x] = [m_name |-> x[1], type |-> objs[x].type, m_val |-> objs[x].m_val]
    /\ \A n \in Registered : Id(n) \in DOMAIN objs

\* A pointer is to a variable of a registered name, and to the one registered
\* unless the name is contested.
PointersFit ==
    \A c \in Clients : ptr[c] # None =>
        /\ ptr[c] \in DOMAIN objs /\ ptr[c][1] \in Registered
        /\ ptr[c][1] \in contested \/ ptr[c] = Id(ptr[c][1])

\* Only Visit has shown anything, and what it has shown is registered.
ShownFits ==
    \A c \in Clients : \A id \in seen[c] :
        pc[c] = "visit" /\ id = Id(id[1]) /\ id[1] \in Registered

\* The inductive invariant.
RegistryInv ==
    RegistryTypeOK /\ CreatesAlone /\ ObjectsNamed /\ PointersFit /\ ShownFits
-----------------------------------------------------------------------------
\* Facts about the operators

\* What Lookup is asked for is one of the names.
LEMMA RequestNamed ==
    ASSUME NEW r \in 1..Len(Requests)
    PROVE  Requests[r].name \in Names
BY DEF Names

\* A name whose letters Lookup takes is spelt as it is registered.
LEMMA LoweredIsSame ==
    ASSUME NEW n \in Seq(Words), ValidName(n, LookupChars)
    PROVE  Lowered(n) = n
<1>1. \A i \in 1..Len(n) : n[i] \in Words /\ ToLower[n[i]] = n[i]
    BY ToLowerAssumption DEF ValidName
<1>2. n = [i \in 1..Len(n) |-> n[i]]
    OBVIOUS
<1> QED
    BY <1>1, <1>2 DEF Lowered

\* A name is a sequence of words, and not the empty one.
LEMMA NameWords == Names \subseteq Seq(Words) \ {<<>>}
BY RegistryAssumption DEF Names

\* A registered variable that is cast is itself or nullptr.
LEMMA CastFits ==
    ASSUME RegistryInv, NEW n \in Registered, NEW T, NEW p, p = Cast(n, T), p # None
    PROVE  /\ p = Id(n) /\ p \in Identities /\ p \in DOMAIN objs /\ p[1] = n
<1>1. p = Id(n)
    BY DEF Cast
<1>2. n \in Names /\ s_datas[n] \in Clients
    BY DEF Registered, RegistryInv, RegistryTypeOK
<1>3. p \in DOMAIN objs
    BY <1>1 DEF RegistryInv, ObjectsNamed
<1> QED
    BY <1>1, <1>2, <1>3 DEF Id, Identities

\* Assigning a value to a variable leaves its name, and every other variable.
LEMMA AssignKeeps ==
    ASSUME RegistryInv, NEW p, NEW v, objs' = [objs EXCEPT ![p].m_val = v],
           s_datas' = s_datas
    PROVE  ObjectsNamed' /\ DOMAIN objs' = DOMAIN objs
<1>1. DOMAIN objs' = DOMAIN objs
    BY DEF RegistryInv, ObjectsNamed
<1>2. \A x \in DOMAIN objs : x # p => objs'[x] = objs[x]
    BY DEF RegistryInv, ObjectsNamed
<1>3. p \in DOMAIN objs => objs'[p] = [objs[p] EXCEPT !.m_val = v]
    BY DEF RegistryInv, ObjectsNamed
<1>4. p \in DOMAIN objs =>
          objs'[p] = [m_name |-> p[1], type |-> objs'[p].type, m_val |-> objs'[p].m_val]
    <2> SUFFICES ASSUME p \in DOMAIN objs
                 PROVE  objs'[p] = [m_name |-> p[1], type |-> objs'[p].type,
                                    m_val |-> objs'[p].m_val]
        OBVIOUS
    <2>1. objs[p] = [m_name |-> p[1], type |-> objs[p].type, m_val |-> objs[p].m_val]
        BY DEF RegistryInv, ObjectsNamed
    <2>2. objs'[p] = [m_name |-> p[1], type |-> objs[p].type, m_val |-> v]
        BY <1>3, <2>1
    <2> QED
        BY <2>2
<1>5. objs' = [x \in DOMAIN objs' |-> objs'[x]]
    BY <1>1 DEF RegistryInv, ObjectsNamed
<1>6. \A n \in Registered' : Id(n)' \in DOMAIN objs'
    BY <1>1 DEF RegistryInv, ObjectsNamed, Registered, Id
<1>7. \A x \in DOMAIN objs' :
          objs'[x] = [m_name |-> x[1], type |-> objs'[x].type, m_val |-> objs'[x].m_val]
    BY <1>1, <1>2, <1>4 DEF RegistryInv, ObjectsNamed
<1> QED
    BY <1>1, <1>5, <1>6, <1>7 DEF ObjectsNamed

-----------------------------------------------------------------------------
\* The initial states, and the steps that touch neither the map nor a pointer

\* The invariant holds when the program starts.
LEMMA InitRegistry == Init => RegistryInv
<1> SUFFICES ASSUME Init PROVE RegistryInv
    OBVIOUS
<1>1. RegistryTypeOK
    BY DEF Init, RegistryTypeOK
<1>2. Registered = {}
    BY DEF Init, Registered
<1>3. CreatesAlone
    BY DEF Init, CreatesAlone, Creating
<1>4. ObjectsNamed
    BY <1>2 DEF Init, ObjectsNamed
<1>5. PointersFit
    BY DEF Init, PointersFit
<1>6. ShownFits
    BY DEF Init, ShownFits
<1> QED
    BY <1>1, <1>3, <1>4, <1>5, <1>6 DEF RegistryInv

\* A step that changes values of variables and moves nobody into Lookup or out
\* of Visit preserves the invariant.
LEMMA ValuesOnly ==
    ASSUME RegistryInv, NEW c \in Clients,
           UNCHANGED <<s_datas, ptr, req, seen, contested>>,
           ObjectsNamed', DOMAIN objs' = DOMAIN objs,
           pc' \in [Clients -> {"idle", "create", "load", "apply", "visit"}],
           \A x \in Clients : x # c => pc'[x] = pc[x],
           pc[c] # "visit", pc'[c] # "create"
    PROVE  RegistryInv'
<1>1. RegistryTypeOK'
    BY DEF RegistryInv, RegistryTypeOK
<1>2. Registered' = Registered /\ \A n : Id(n)' = Id(n)
    BY DEF Registered, Id
<1>3. \A x \in Clients : pc'[x] = "create" => pc[x] = "create"
    OBVIOUS
<1>4. CreatesAlone'
    BY <1>2, <1>3 DEF RegistryInv, CreatesAlone, Creating
<1>5. PointersFit'
    BY <1>2 DEF RegistryInv, PointersFit
<1>6. ShownFits'
    BY <1>2 DEF RegistryInv, ShownFits
<1> QED
    BY <1>1, <1>4, <1>5, <1>6 DEF RegistryInv

\* A step of client c that only moves it between places that are neither in
\* Lookup nor in Visit preserves the invariant.
LEMMA MovesOnly ==
    ASSUME RegistryInv, NEW c \in Clients,
           UNCHANGED <<s_datas, objs, ptr, req, seen, contested>>,
           pc' \in [Clients -> {"idle", "create", "load", "apply", "visit"}],
           \A x \in Clients : x # c => pc'[x] = pc[x],
           pc[c] # "visit", pc'[c] # "create"
    PROVE  RegistryInv'
<1>1. Registered' = Registered /\ \A n : Id(n)' = Id(n)
    BY DEF Registered, Id
<1>2. ObjectsNamed' /\ DOMAIN objs' = DOMAIN objs
    BY <1>1 DEF RegistryInv, ObjectsNamed
<1> QED
    BY <1>2, ValuesOnly

\* LoadFromYaml begins.
LEMMA LoadFromYamlStep ==
    ASSUME RegistryInv, NEW c \in Clients, NEW d, LoadFromYaml(c, d)
    PROVE  RegistryInv'
BY MovesOnly DEF LoadFromYaml, RegistryInv, RegistryTypeOK

\* LoadFromYaml looks a name up.
LEMMA LoadFindStep ==
    ASSUME RegistryInv, NEW c \in Clients, LoadFind(c)
    PROVE  RegistryInv'
<1>1. pc' \in [Clients -> {"idle", "create", "load", "apply", "visit"}]
    BY DEF LoadFind, RegistryInv, RegistryTypeOK
<1>2. pc[c] = "load" /\ pc'[c] # "create" /\ \A x \in Clients : x # c => pc'[x] = pc[x]
    BY DEF LoadFind, RegistryInv, RegistryTypeOK
<1> QED
    BY <1>1, <1>2, MovesOnly DEF LoadFind

\* LoadFromYaml returns.
LEMMA LoadReturnStep ==
    ASSUME RegistryInv, NEW c \in Clients, LoadReturn(c)
    PROVE  RegistryInv'
BY MovesOnly DEF LoadReturn, RegistryInv, RegistryTypeOK

\* Visit takes the lock.
LEMMA VisitStep ==
    ASSUME RegistryInv, NEW c \in Clients, Visit(c)
    PROVE  RegistryInv'
BY MovesOnly DEF Visit, RegistryInv, RegistryTypeOK

\* Lookup refuses a name: the thread is no longer one that creates it.
LEMMA LookupThrowStep ==
    ASSUME RegistryInv, NEW c \in Clients, LookupThrow(c)
    PROVE  RegistryInv'
<1>1. RegistryTypeOK'
    BY DEF LookupThrow, RegistryInv, RegistryTypeOK
<1>2. Registered' = Registered /\ \A n : Id(n)' = Id(n)
    BY DEF LookupThrow, Registered, Id
<1>3. \A x \in Clients : pc'[x] = "create" => x # c /\ pc[x] = "create" /\ req'[x] = req[x]
    BY DEF LookupThrow, RegistryInv, RegistryTypeOK
<1>4. CreatesAlone'
    BY <1>2, <1>3 DEF LookupThrow, RegistryInv, CreatesAlone, Creating
<1>5. ObjectsNamed'
    BY <1>2 DEF LookupThrow, RegistryInv, ObjectsNamed
<1>6. PointersFit'
    BY <1>2 DEF LookupThrow, RegistryInv, PointersFit
<1>7. ShownFits'
    BY <1>2 DEF LookupThrow, RegistryInv, RegistryTypeOK, ShownFits
<1> QED
    BY <1>1, <1>4, <1>5, <1>6, <1>7 DEF RegistryInv

-----------------------------------------------------------------------------
\* Visit

\* Visit shows one more variable.
LEMMA VisitCallStep ==
    ASSUME RegistryInv, NEW c \in Clients, NEW n \in Names, VisitCall(c, n)
    PROVE  RegistryInv'
<1>1. n \in Registered /\ s_datas[n] \in Clients
    BY DEF VisitCall, RegistryInv, RegistryTypeOK, Registered
<1>2. Id(n) \in Identities /\ Id(n)[1] = n
    BY <1>1 DEF Identities, Id
<1>3. seen'[c] = seen[c] \cup {Id(n)} /\ \A x \in Clients : x # c => seen'[x] = seen[x]
    BY DEF VisitCall, RegistryInv, RegistryTypeOK
<1>4. RegistryTypeOK'
    BY <1>2 DEF VisitCall, RegistryInv, RegistryTypeOK
<1>5. Registered' = Registered /\ \A m : Id(m)' = Id(m)
    BY DEF VisitCall, Registered, Id
<1>6. CreatesAlone'
    BY <1>5 DEF VisitCall, RegistryInv, CreatesAlone, Creating
<1>7. ObjectsNamed'
    BY <1>5 DEF VisitCall, RegistryInv, ObjectsNamed
<1>8. PointersFit'
    BY <1>5 DEF VisitCall, RegistryInv, PointersFit
<1>9. ShownFits'
    BY <1>1, <1>2, <1>3, <1>5 DEF VisitCall, RegistryInv, ShownFits
<1> QED
    BY <1>4, <1>6, <1>7, <1>8, <1>9 DEF RegistryInv

\* Visit returns, and has shown nothing.
LEMMA VisitReturnStep ==
    ASSUME RegistryInv, NEW c \in Clients, VisitReturn(c)
    PROVE  RegistryInv'
<1>1. seen'[c] = {} /\ \A x \in Clients : x # c => seen'[x] = seen[x] /\ pc'[x] = pc[x]
    BY DEF VisitReturn, RegistryInv, RegistryTypeOK
<1>2. RegistryTypeOK'
    BY DEF VisitReturn, RegistryInv, RegistryTypeOK
<1>3. Registered' = Registered /\ \A m : Id(m)' = Id(m)
    BY DEF VisitReturn, Registered, Id
<1>4. CreatesAlone'
    BY <1>3 DEF VisitReturn, RegistryInv, RegistryTypeOK, CreatesAlone, Creating
<1>5. ObjectsNamed'
    BY <1>3 DEF VisitReturn, RegistryInv, ObjectsNamed
<1>6. PointersFit'
    BY <1>3 DEF VisitReturn, RegistryInv, PointersFit
<1>7. ShownFits'
    BY <1>1, <1>3 DEF RegistryInv, ShownFits
<1> QED
    BY <1>2, <1>4, <1>5, <1>6, <1>7 DEF RegistryInv

-----------------------------------------------------------------------------
\* Assignments

\* setValue through a pointer.
LEMMA AssignStep ==
    ASSUME RegistryInv, NEW c \in Clients, NEW r, Assign(c, r)
    PROVE  RegistryInv'
<1>1. ObjectsNamed' /\ DOMAIN objs' = DOMAIN objs
    BY AssignKeeps DEF Assign
<1> QED
    BY <1>1, ValuesOnly DEF Assign, RegistryInv, RegistryTypeOK

\* fromString of a node: the value is assigned, or the exception is caught.
LEMMA LoadApplyStep ==
    ASSUME RegistryInv, NEW c \in Clients, LoadApply(c)
    PROVE  RegistryInv'
<1>1. pc[c] = "apply" /\ pc'[c] = "load" /\ \A x \in Clients : x # c => pc'[x] = pc[x]
    BY DEF LoadApply, RegistryInv, RegistryTypeOK
<1>2. pc' \in [Clients -> {"idle", "create", "load", "apply", "visit"}]
    BY DEF LoadApply, RegistryInv, RegistryTypeOK
<1>3. UNCHANGED <<s_datas, ptr, req, seen, contested>>
    BY DEF LoadApply
<1>4. CASE UNCHANGED objs
    BY <1>1, <1>2, <1>3, <1>4, MovesOnly
<1>5. CASE objs' # objs
    <2>1. PICK v : objs' = [objs EXCEPT ![Head(all_nodes[c]).var].m_val = v]
        BY <1>5 DEF LoadApply
    <2>2. ObjectsNamed' /\ DOMAIN objs' = DOMAIN objs
        BY <1>3, <2>1, AssignKeeps
    <2> QED
        BY <1>1, <1>2, <1>3, <2>2, ValuesOnly
<1> QED
    BY <1>4, <1>5

-----------------------------------------------------------------------------
\* Lookup

\* A step that gives client c the pointer to a registered variable, or none,
\* preserves the invariant.
LEMMA PointsOnly ==
    ASSUME RegistryInv, NEW c \in Clients, NEW p, ptr' = [ptr EXCEPT ![c] = p],
           p # None => p \in Identities /\ p \in DOMAIN objs
                       /\ p[1] \in Registered /\ p = Id(p[1]),
           UNCHANGED <<s_datas, objs, pc, req, seen, contested>>
    PROVE  RegistryInv'
<1>1. RegistryTypeOK'
    BY DEF RegistryInv, RegistryTypeOK
<1>2. Registered' = Registered /\ \A n : Id(n)' = Id(n)
    BY DEF Registered, Id
<1>3. ptr'[c] = p /\ \A x \in Clients : x # c => ptr'[x] = ptr[x]
    BY DEF RegistryInv, RegistryTypeOK
<1>4. CreatesAlone'
    BY <1>2 DEF RegistryInv, CreatesAlone, Creating
<1>5. ObjectsNamed'
    BY <1>2 DEF RegistryInv, ObjectsNamed
<1>6. PointersFit'
    BY <1>2, <1>3 DEF RegistryInv, PointersFit
<1>7. ShownFits'
    BY <1>2 DEF RegistryInv, ShownFits
<1> QED
    BY <1>1, <1>4, <1>5, <1>6, <1>7 DEF RegistryInv

\* Lookup of a name that is there.
LEMMA LookupFoundStep ==
    ASSUME RegistryInv, NEW c \in Clients, NEW r, LookupFound(c, r)
    PROVE  RegistryInv'
<1> DEFINE p == Cast(Requests[r].name, Requests[r].type)
<1>1. p # None => /\ p \in Identities /\ p \in DOMAIN objs
                  /\ p[1] \in Registered /\ p = Id(p[1])
    BY CastFits DEF LookupFound
<1>2. /\ ptr' = [ptr EXCEPT ![c] = p]
      /\ UNCHANGED <<s_datas, objs, pc, req, seen, contested>>
    BY DEF LookupFound
<1> HIDE DEF p
<1> QED
    BY <1>1, <1>2, PointsOnly

\* The Lookup that only finds.
LEMMA FindStep ==
    ASSUME RegistryInv, NEW c \in Clients, NEW r, Find(c, r)
    PROVE  RegistryInv'
<1> DEFINE p == IF Requests[r].name \in Registered
                THEN Cast(Requests[r].name, Requests[r].type) ELSE None
<1>1. p # None => /\ p \in Identities /\ p \in DOMAIN objs
                  /\ p[1] \in Registered /\ p = Id(p[1])
    BY CastFits
<1>2. /\ ptr' = [ptr EXCEPT ![c] = p]
      /\ UNCHANGED <<s_datas, objs, pc, req, seen, contested>>
    BY DEF Find
<1> HIDE DEF p
<1> QED
    BY <1>1, <1>2, PointsOnly

\* Lookup of a name that is not there: the thread is the only one that creates
\* it, or the name becomes contested.
LEMMA LookupMissingStep ==
    ASSUME RegistryInv, NEW c \in Clients, NEW r \in 1..Len(Requests), LookupMissing(c, r)
    PROVE  RegistryInv'
<1> DEFINE n == Requests[r].name
<1>1. n \in Names /\ n \notin Registered
    BY RequestNamed DEF LookupMissing
<1>2. /\ pc[c] = "idle" /\ pc'[c] = "create" /\ req'[c] = r
      /\ \A x \in Clients : x # c => pc'[x] = pc[x] /\ req'[x] = req[x]
    BY DEF LookupMissing, RegistryInv, RegistryTypeOK
<1>3. contested \subseteq contested' /\ contested' \subseteq contested \cup {n}
    BY DEF LookupMissing
<1>4. \A x \in Clients : Creating(x, n) => n \in contested'
    BY DEF LookupMissing, Creating
<1>5. RegistryTypeOK'
    BY DEF LookupMissing, RegistryInv, RegistryTypeOK
<1>6. Registered' = Registered /\ \A m : Id(m)' = Id(m)
    BY DEF LookupMissing, Registered, Id
<1>7. CreatesAlone'
    <2>1. \A x \in Clients : pc'[x] = "create" => req'[x] \in 1..Len(Requests)
        BY <1>2 DEF RegistryInv, CreatesAlone
    <2>2. \A m, x : x \in Clients /\ x # c => Creating(x, m)' = Creating(x, m)
        BY <1>2 DEF Creating
    <2>3. \A m : Creating(c, m)' => m = n
        BY <1>2 DEF Creating
    <2>4. ASSUME NEW m \in Names, m \notin contested', NEW x \in Clients, NEW y \in Clients,
                 Creating(x, m)'
          PROVE  m \notin Registered' /\ (Creating(y, m)' => x = y)
        <3>1. m \notin contested
            BY <1>3, <2>4
        <3>2. CASE m = n
            <4>1. x = c
                BY <1>4, <2>2, <2>4, <3>2
            <4>2. Creating(y, m)' => y = c
                BY <1>4, <2>2, <2>4, <3>2
            <4> QED
                BY <1>1, <1>6, <3>2, <4>1, <4>2
        <3>3. CASE m # n
            <4>1. x # c /\ (Creating(y, m)' => y # c)
                BY <2>3, <2>4, <3>3
            <4>2. Creating(x, m) /\ (Creating(y, m)' => Creating(y, m))
                BY <2>2, <2>4, <4>1
            <4> QED
                BY <1>6, <3>1, <4>2 DEF RegistryInv, CreatesAlone
        <3> QED
            BY <3>2, <3>3
    <2> QED
        BY <2>1, <2>4 DEF CreatesAlone
<1>8. ObjectsNamed'
    BY <1>6 DEF LookupMissing, RegistryInv, ObjectsNamed
<1>9. PointersFit'
    BY <1>3, <1>6 DEF LookupMissing, RegistryInv, PointersFit
<1>10. ShownFits'
    BY <1>2, <1>6 DEF LookupMissing, RegistryInv, ShownFits
<1> QED
    BY <1>5, <1>7, <1>8, <1>9, <1>10 DEF RegistryInv

\* The variable is made and registered.  Unless its name is contested nothing
\* was registered under it, so no pointer is to a variable that it replaces;
\* and no Visit is under way.
LEMMA LookupCreateStep ==
    ASSUME RegistryInv, NEW c \in Clients, LookupCreate(c)
    PROVE  RegistryInv'
<1>0. PICK n : n = Requests[req[c]].name
    OBVIOUS
<1> DEFINE id == <<n, c>>
<1>1. n \in Names /\ id \in Identities /\ Creating(c, n)
    BY <1>0, RequestNamed DEF LookupCreate, RegistryInv, CreatesAlone, Creating, Identities
<1>2. /\ ptr'[c] = id /\ pc'[c] = "idle"
      /\ \A x \in Clients : x # c => ptr'[x] = ptr[x] /\ pc'[x] = pc[x] /\ req'[x] = req[x]
    BY <1>0 DEF LookupCreate, RegistryInv, RegistryTypeOK
<1>3. s_datas'[n] = c /\ \A m \in Names : m # n => s_datas'[m] = s_datas[m]
    BY <1>0, <1>1 DEF LookupCreate, RegistryInv, RegistryTypeOK
<1>4. contested' = contested /\ seen' = seen
    BY DEF LookupCreate
<1>5. Registered' = Registered \cup {n}
    BY <1>1, <1>3, RegistryAssumption DEF Registered
<1>6. Id(n)' = id /\ \A m \in Names : m # n => Id(m)' = Id(m)
    BY <1>3 DEF Id
<1>7. RegistryTypeOK'
    <2>1. s_datas' \in [Names -> Clients \cup {None}]
        BY DEF LookupCreate, RegistryInv, RegistryTypeOK
    <2>2. ptr' \in [Clients -> Identities \cup {None}]
        BY <1>0, <1>1 DEF LookupCreate, RegistryInv, RegistryTypeOK
    <2> QED
        BY <2>1, <2>2 DEF LookupCreate, RegistryInv, RegistryTypeOK
<1>8. CreatesAlone'
    <2>1. \A x \in Clients : pc'[x] = "create" => x # c
        BY <1>2
    <2>2. \A m, x : x \in Clients /\ Creating(x, m)' => x # c /\ Creating(x, m)
        BY <1>2, <2>1 DEF Creating
    <2>3. ASSUME NEW m \in Names, m \notin contested', NEW x \in Clients, NEW y \in Clients,
                 Creating(x, m)'
          PROVE  m \notin Registered' /\ (Creating(y, m)' => x = y)
        <3>1. Creating(x, m) /\ x # c /\ (Creating(y, m)' => Creating(y, m))
            BY <2>2, <2>3
        <3>2. m # n
            BY <1>1, <1>4, <2>3, <3>1 DEF RegistryInv, CreatesAlone
        <3> QED
            BY <1>4, <1>5, <2>3, <3>1, <3>2 DEF RegistryInv, CreatesAlone
    <2> QED
        BY <1>2, <2>1, <2>3 DEF RegistryInv, CreatesAlone
<1>9. /\ DOMAIN objs' = DOMAIN objs \cup {id}
      /\ \A x \in DOMAIN objs : x # id => objs'[x] = objs[x]
      /\ objs' = [x \in DOMAIN objs' |-> objs'[x]]
    BY <1>0 DEF LookupCreate
<1>10. ObjectsNamed'
    <2>1. Lowered(n) = n
        BY <1>0, <1>1, NameWords, LoweredIsSame DEF LookupCreate
    <2>2. objs'[id] = [m_name |-> n, type |-> Requests[req[c]].type,
                       m_val |-> Requests[req[c]].default_val]
        BY <1>0, <2>1 DEF LookupCreate
    <2>3. objs'[id] = [m_name |-> id[1], type |-> objs'[id].type, m_val |-> objs'[id].m_val]
        BY <2>2
    <2>4. \A x \in DOMAIN objs' :
              objs'[x] = [m_name |-> x[1], type |-> objs'[x].type, m_val |-> objs'[x].m_val]
        BY <1>9, <2>3 DEF RegistryInv, ObjectsNamed
    <2>5. \A m \in Registered' : Id(m)' \in DOMAIN objs'
        BY <1>5, <1>6, <1>9 DEF RegistryInv, ObjectsNamed, Registered
    <2> QED
        BY <1>9, <2>4, <2>5 DEF ObjectsNamed
<1>11. PointersFit'
    <2>1. ASSUME NEW x \in Clients, ptr'[x] # None
          PROVE  /\ ptr'[x] \in DOMAIN objs' /\ ptr'[x][1] \in Registered'
                 /\ ptr'[x][1] \in contested' \/ ptr'[x] = <<ptr'[x][1], s_datas'[ptr'[x][1]]>>
        <3>1. CASE x = c
            <4>1. ptr'[x] = id /\ id[1] = n
                BY <1>2, <3>1
            <4> QED
                BY <1>3, <1>5, <1>9, <4>1
        <3>2. CASE x # c
            <4>0. PICK m : m = ptr[x][1]
                OBVIOUS
            <4>1. ptr'[x] = ptr[x] /\ ptr[x] # None
                BY <1>2, <2>1, <3>2
            <4>2. /\ ptr[x] \in DOMAIN objs /\ m \in Registered
                  /\ m \in contested \/ ptr[x] = Id(m)
                BY <4>0, <4>1 DEF RegistryInv, PointersFit
            <4>3. m \in Names
                BY <4>2 DEF Registered
            <4>4. m \in contested \/ m # n
                BY <1>1, <4>2 DEF RegistryInv, CreatesAlone
            <4>5. m # n => Id(m)' = Id(m)
                BY <1>6, <4>3
            <4>6. m \in contested' \/ ptr[x] = Id(m)'
                BY <1>4, <4>2, <4>4, <4>5
            <4>7. ptr[x] \in DOMAIN objs' /\ m \in Registered'
                BY <1>5, <1>9, <4>2
            <4> QED
                BY <4>0, <4>1, <4>6, <4>7 DEF Id
        <3> QED
            BY <3>1, <3>2
    <2> QED
        BY <2>1 DEF PointersFit, Id
<1>12. ShownFits'
    <2>1. \A x \in Clients : seen[x] = {}
        BY DEF LookupCreate, WriteFree, RegistryInv, ShownFits
    <2> QED
        BY <1>4, <2>1 DEF ShownFits
<1> QED
    BY <1>7, <1>8, <1>10, <1>11, <1>12 DEF RegistryInv

-----------------------------------------------------------------------------
\* The theorems

\* Every step preserves the invariant.
LEMMA RegistryNext == RegistryInv /\ [Next]_vars => RegistryInv'
<1> SUFFICES ASSUME RegistryInv, [Next]_vars PROVE RegistryInv'
    OBVIOUS
<1>1. CASE UNCHANGED vars
    <2>1. UNCHANGED <<s_datas, objs, ptr, pc, req, seen, contested>>
        BY <1>1 DEF vars
    <2>2. Registered' = Registered /\ \A n : Id(n)' = Id(n)
        BY <2>1 DEF Registered, Id
    <2>3. RegistryTypeOK' /\ CreatesAlone'
        BY <2>1, <2>2 DEF RegistryInv, RegistryTypeOK, CreatesAlone, Creating
    <2>4. ObjectsNamed' /\ PointersFit' /\ ShownFits'
        BY <2>1, <2>2 DEF RegistryInv, ObjectsNamed, PointersFit, ShownFits
    <2> QED
        BY <2>3, <2>4 DEF RegistryInv
<1>2. ASSUME NEW c \in Clients, Step(c)
      PROVE  RegistryInv'
    <2>1. ASSUME NEW r \in 1..Len(Requests),
                 LookupFound(c, r) \/ LookupMissing(c, r) \/ Find(c, r) \/ Assign(c, r)
          PROVE  RegistryInv'
        BY <2>1, LookupFoundStep, LookupMissingStep, FindStep, AssignStep
    <2>2. CASE LookupThrow(c) \/ LookupCreate(c)
        BY <2>2, LookupThrowStep, LookupCreateStep
    <2>3. CASE \E d \in Docs : LoadFromYaml(c, d)
        BY <2>3, LoadFromYamlStep
    <2>4. CASE LoadFind(c) \/ LoadApply(c) \/ LoadReturn(c)
        BY <2>4, LoadFindStep, LoadApplyStep, LoadReturnStep
    <2>5. CASE Visit(c) \/ (\E n \in Names : VisitCall(c, n)) \/ VisitReturn(c)
        BY <2>5, VisitStep, VisitCallStep, VisitReturnStep
    <2> QED
        BY <1>2, <2>1, <2>2, <2>3, <2>4, <2>5 DEF Step
<1> QED
    BY <1>1, <1>2 DEF Next

\* The inductive invariant of the registry (config.h:420-478, config.cpp:61-96).
THEOREM RegistryInvariance == Spec => []RegistryInv
BY InitRegistry, RegistryNext, PTL DEF Spec

\* A pointer that Lookup (config.h:420-478) has handed out is to the variable
\* registered under its name, which bears that name, unless two threads were in
\* the first Lookup of it at once.
THEOREM PointersRegistered == Spec => []PointerRegistered
<1>1. RegistryInv => PointerRegistered
    BY DEF RegistryInv, ObjectsNamed, PointersFit, PointerRegistered
<1> QED
    BY <1>1, RegistryInvariance, PTL

\* What Visit (config.cpp:91) has shown stays registered until it returns.
THEOREM VisitStable == Spec => []VisitSees
<1>1. RegistryInv => VisitSees
    BY DEF RegistryInv, ShownFits, VisitSees
<1> QED
    BY <1>1, RegistryInvariance, PTL

-----------------------------------------------------------------------------
\* Induction over the depth of a node

\* Less-than on the natural numbers is well-founded.
LEMMA NatWF == IsWellFoundedOn(OpToRel(<, Nat), Nat)
BY NatLessThanWellFounded, Zenon

\* A set that has 0 and the successor of each of its numbers has all of them.
LEMMA NatSet ==
    ASSUME NEW S, 0 \in S, \A n \in Nat : n \in S => n + 1 \in S
    PROVE  Nat \subseteq S
<1> SUFFICES ASSUME Nat \ S # {} PROVE FALSE
    OBVIOUS
<1> DEFINE T == Nat \ S
<1>1. PICK x \in T : \A y \in T : ~(<<y, x>> \in OpToRel(<, Nat))
    <2>1. T \subseteq Nat /\ T # {}
        OBVIOUS
    <2> HIDE DEF T
    <2> QED
        BY <2>1, NatWF, WFMin, Zenon
<1>2. x # 0 /\ x - 1 \in Nat
    OBVIOUS
<1>3. x - 1 \in S
    <2>1. x - 1 < x
        BY <1>2
    <2>2. <<x - 1, x>> \in OpToRel(<, Nat)
        BY <1>2, <2>1, Zenon DEF OpToRel
    <2> QED
        BY <1>1, <1>2, <2>2, Zenon
<1> QED
    BY <1>2, <1>3

Members(node) == 1..Len(node.members)

\* A member of a map is a node that is not as deep as the map.
LEMMA MemberType ==
    ASSUME NEW node \in Nodes, node.kind = "map", NEW i \in Members(node)
    PROVE  /\ Len(node.members) \in Nat
           /\ node.members[i].key \in Seq(Words) /\ node.members[i].node \in Nodes
           /\ Depth[node.members[i].node] \in Nat /\ Depth[node] \in Nat
           /\ Depth[node.members[i].node] < Depth[node]
BY TreesAssumption DEF Members

\* A set of nodes that has every node whose members it has, has all of them.
LEMMA NodeSet ==
    ASSUME NEW S,
           \A node \in Nodes :
               (node.kind = "map" => \A i \in Members(node) : node.members[i].node \in S)
               => node \in S
    PROVE  Nodes \subseteq S
<1> DEFINE L == {m \in Nat : \A node \in Nodes : Depth[node] < m => node \in S}
<1>1. 0 \in L
    BY TreesAssumption
<1>2. ASSUME NEW m \in Nat, m \in L
      PROVE  m + 1 \in L
    <2> SUFFICES ASSUME NEW node \in Nodes, Depth[node] < m + 1
                 PROVE  node \in S
        OBVIOUS
    <2>1. ASSUME node.kind = "map", NEW i \in Members(node)
          PROVE  node.members[i].node \in S
        <3>1. node.members[i].node \in Nodes /\ Depth[node.members[i].node] < m
            BY <2>1, MemberType
        <3> QED
            BY <1>2, <3>1
    <2> QED
        BY <2>1
<1>3. Nat \subseteq L
    <2> HIDE DEF L
    <2> QED
        BY <1>1, <1>2, NatSet
<1>4. ASSUME NEW node \in Nodes
      PROVE  node \in S
    <2>1. Depth[node] + 1 \in Nat /\ Depth[node] < Depth[node] + 1
        BY TreesAssumption
    <2> QED
        BY <1>3, <2>1
<1> QED
    BY <1>4

-----------------------------------------------------------------------------
\* The sequence FlattenSeq makes

\* What is in a sequence followed by another.
LEMMA ConcatHas ==
    ASSUME NEW T, NEW s \in Seq(T), NEW t \in Seq(T), NEW e
    PROVE  Contains(s \o t, e) <=> Contains(s, e) \/ Contains(t, e)
<1>1. /\ Len(s \o t) = Len(s) + Len(t)
      /\ \A i \in 1..Len(s) : (s \o t)[i] = s[i]
      /\ \A i \in 1..Len(t) : (s \o t)[Len(s) + i] = t[i]
    OBVIOUS
<1>2. ASSUME Contains(s \o t, e)
      PROVE  Contains(s, e) \/ Contains(t, e)
    <2>1. PICK i \in 1..Len(s \o t) : (s \o t)[i] = e
        BY <1>2 DEF Contains
    <2>2. CASE i <= Len(s)
        BY <1>1, <2>1, <2>2 DEF Contains
    <2>3. CASE i > Len(s)
        <3>1. i - Len(s) \in 1..Len(t) /\ Len(s) + (i - Len(s)) = i
            BY <1>1, <2>3
        <3> QED
            BY <1>1, <2>1, <3>1 DEF Contains
    <2> QED
        BY <2>2, <2>3
<1>3. Contains(s, e) => Contains(s \o t, e)
    BY <1>1 DEF Contains
<1>4. ASSUME Contains(t, e)
      PROVE  Contains(s \o t, e)
    <2>1. PICK i \in 1..Len(t) : t[i] = e
        BY <1>4 DEF Contains
    <2>2. Len(s) + i \in 1..Len(s \o t)
        BY <1>1
    <2> QED
        BY <1>1, <2>1, <2>2 DEF Contains
<1> QED
    BY <1>2, <1>3, <1>4

\* FlattenSeq has the elements of all of them.
LEMMA FlattenHas ==
    ASSUME NEW T, NEW ss \in Seq(Seq(T))
    PROVE  /\ FlattenSeq(ss) \in Seq(T)
           /\ \A e : Contains(FlattenSeq(ss), e) <=> \E i \in 1..Len(ss) : Contains(ss[i], e)
<1> DEFINE N == Len(ss)
<1>0. CASE N = 0
    <2>1. ss = <<>> /\ <<>> \in Seq(T)
        BY <1>0, EmptySeq
    <2>2. FlattenSeq(ss) = <<>>
        BY <1>0, <2>1 DEF FlattenSeq
    <2>3. \A e : ~Contains(<<>>, e)
        <3>1. Len(<<>>) = 0
            OBVIOUS
        <3> QED
            BY <3>1 DEF Contains
    <2>4. 1..Len(ss) = {}
        BY <1>0
    <2> QED
        BY <2>1, <2>2, <2>3, <2>4, Zenon
<1>1. CASE N # 0
    <2> DEFINE Val(F, i) == IF i = 1 THEN ss[i] ELSE F[i - 1] \o ss[i]
               Up(F, m) == \A i \in 1..N : i <= m => F[i] = Val(F, i)
               Has(F, i) == /\ F[i] \in Seq(T)
                            /\ \A e : Contains(F[i], e) <=> \E j \in 1..i : Contains(ss[j], e)
               L == {m \in Nat : \E F : F = [i \in 1..N |-> F[i]] /\ Up(F, m)}
    <2>1. 0 \in L
        <3> DEFINE F == [i \in 1..N |-> <<>>]
        <3>1. F = [i \in 1..N |-> F[i]]
            BY Zenon
        <3>2. Up(F, 0)
            OBVIOUS
        <3> HIDE DEF F, Up
        <3> QED
            BY <3>1, <3>2
    <2>2. ASSUME NEW m \in Nat, m \in L
          PROVE  m + 1 \in L
        <3>1. PICK F : F = [i \in 1..N |-> F[i]] /\ Up(F, m)
            BY <2>2
        <3> DEFINE G == [i \in 1..N |-> IF i = m + 1 THEN Val(F, i) ELSE F[i]]
        <3>2. G = [i \in 1..N |-> G[i]]
            BY Zenon
        <3>3. Up(G, m + 1)
            <4> SUFFICES ASSUME NEW i \in 1..N, i <= m + 1
                         PROVE  G[i] = Val(G, i)
                OBVIOUS
            <4>1. i # 1 => i - 1 \in 1..N /\ G[i - 1] = F[i - 1]
                OBVIOUS
            <4>2. Val(F, i) = Val(G, i)
                <5> HIDE DEF G
                <5> QED
                    BY <4>1
            <4>3. G[i] = Val(F, i)
                <5>1. CASE i = m + 1
                    BY <5>1
                <5>2. CASE i # m + 1
                    <6>1. i <= m /\ G[i] = F[i]
                        BY <5>2
                    <6> HIDE DEF G, Val
                    <6> QED
                        BY <3>1, <6>1
                <5> QED
                    BY <5>1, <5>2
            <4> QED
                BY <4>2, <4>3
        <3> HIDE DEF G, Up
        <3> QED
            BY <3>2, <3>3
    <2>3. N \in L
        <3> HIDE DEF L
        <3> QED
            BY <2>1, <2>2, NatSet
    <2>4. \E F : F = [i \in 1..N |-> Val(F, i)]
        <3>1. PICK F : F = [i \in 1..N |-> F[i]] /\ Up(F, N)
            BY <2>3
        <3>2. \A i \in 1..N : F[i] = Val(F, i)
            <4> HIDE DEF Val
            <4> QED
                BY <3>1
        <3> HIDE DEF Up
        <3> QED
            BY <3>1, <3>2, Zenon
    <2>5. PICK F : F = [i \in 1..N |-> Val(F, i)] /\ FlattenSeq(ss) = F[N]
        <3> DEFINE C == CHOOSE F : F = [i \in 1..N |-> Val(F, i)]
        <3>1. C = [i \in 1..N |-> Val(C, i)]
            BY <2>4, Zenon
        <3>2. FlattenSeq(ss) = C[N]
            BY <1>1, Zenon DEF FlattenSeq
        <3> HIDE DEF C
        <3> QED
            BY <3>1, <3>2
    <2> DEFINE K == {m \in Nat : \A i \in 1..N : i <= m => Has(F, i)}
    <2>6. 0 \in K
        OBVIOUS
    <2>7. ASSUME NEW m \in Nat, m \in K
          PROVE  m + 1 \in K
        <3>1. ASSUME m + 1 \in 1..N
              PROVE  Has(F, m + 1)
            <4>1. F[m + 1] = Val(F, m + 1) /\ ss[m + 1] \in Seq(T)
                <5>1. \A i \in 1..N : F[i] = Val(F, i)
                    BY <2>5, Zenon
                <5>2. ss[m + 1] \in Seq(T)
                    BY <3>1
                <5> QED
                    BY <3>1, <5>1, <5>2, Zenon
            <4>2. CASE m = 0
                <5>1. F[m + 1] = ss[1] /\ 1..m + 1 = {1}
                    BY <4>1, <4>2
                <5> QED
                    BY <4>1, <4>2, <5>1
            <4>3. CASE m # 0
                <5>1. m \in 1..N
                    BY <3>1, <4>3
                <5>2. Has(F, m)
                    <6> HIDE DEF Has
                    <6> QED
                        BY <2>7, <5>1
                <5>3. F[m + 1] = F[m] \o ss[m + 1]
                    <6>1. PICK k : k = m + 1
                        OBVIOUS
                    <6>2. k # 1 /\ k - 1 = m
                        BY <4>3, <6>1
                    <6>3. Val(F, k) = F[k - 1] \o ss[k]
                        BY <6>2
                    <6> HIDE DEF Val
                    <6> QED
                        BY <4>1, <6>1, <6>2, <6>3
                <5>4. \A e : Contains(F[m + 1], e)
                               <=> Contains(F[m], e) \/ Contains(ss[m + 1], e)
                    BY <4>1, <5>2, <5>3, ConcatHas
                <5>5. \A j : j \in 1..m + 1 <=> j \in 1..m \/ j = m + 1
                    OBVIOUS
                <5>6. F[m + 1] \in Seq(T)
                    BY <4>1, <5>2, <5>3
                <5> QED
                    BY <5>2, <5>4, <5>5, <5>6, Zenon
            <4> QED
                BY <4>2, <4>3
        <3> SUFFICES ASSUME NEW i \in 1..N, i <= m + 1
                     PROVE  Has(F, i)
            OBVIOUS
        <3>2. i <= m \/ i = m + 1
            OBVIOUS
        <3> HIDE DEF Has
        <3> QED
            BY <2>7, <3>1, <3>2
    <2>8. N \in K
        <3> HIDE DEF K
        <3> QED
            BY <2>6, <2>7, NatSet
    <2>9. Has(F, N)
        <3> HIDE DEF Has
        <3> QED
            BY <1>1, <2>8
    <2> QED
        BY <2>5, <2>9
<1> QED
    BY <1>0, <1>1

-----------------------------------------------------------------------------
\* Recursion over the members of nodes

\* F and G give the members of a node the same.
AgreeBelow(node, F, G) ==
    node.kind = "map" =>
        \A i \in Members(node) : F[node.members[i].node] = G[node.members[i].node]

\* P gives a value to a node from what is given to its members.
DependsBelow(P, V) ==
    /\ P \in [Nodes -> [[Nodes -> V] -> V]]
    /\ \A node \in Nodes : \A F, G \in [Nodes -> V] :
          AgreeBelow(node, F, G) => P[node][F] = P[node][G]

\* A value for each node that depends on those of its members can be defined.
LEMMA NodeRecursion ==
    ASSUME NEW V, NEW v0 \in V, NEW P, DependsBelow(P, V)
    PROVE  \E F \in [Nodes -> V] : \A node \in Nodes : F[node] = P[node][F]
<1> DEFINE Good(F, m) == \A node \in Nodes : Depth[node] < m => F[node] = P[node][F]
           L == {m \in Nat : \E F \in [Nodes -> V] : Good(F, m)}
<1>0. /\ P \in [Nodes -> [[Nodes -> V] -> V]]
      /\ \A node \in Nodes : \A F, G \in [Nodes -> V] :
            AgreeBelow(node, F, G) => P[node][F] = P[node][G]
    BY DEF DependsBelow
<1>1. 0 \in L
    <2>1. [node \in Nodes |-> v0] \in [Nodes -> V]
        OBVIOUS
    <2>2. \A F : Good(F, 0)
        BY TreesAssumption
    <2> HIDE DEF Good
    <2> QED
        BY <2>1, <2>2
<1>2. ASSUME NEW m \in Nat, NEW F \in [Nodes -> V], Good(F, m)
      PROVE  \E G \in [Nodes -> V] : Good(G, m + 1)
    <2> DEFINE G == [node \in Nodes |-> IF Depth[node] = m THEN P[node][F] ELSE F[node]]
    <2>1. G \in [Nodes -> V]
        BY <1>0
    <2>2. \A node \in Nodes : /\ Depth[node] = m => G[node] = P[node][F]
                              /\ Depth[node] # m => G[node] = F[node]
        OBVIOUS
    <2> HIDE DEF G
    <2>3. ASSUME NEW node \in Nodes, Depth[node] < m + 1
          PROVE  G[node] = P[node][G]
        <3>1. ASSUME node.kind = "map", NEW i \in Members(node)
              PROVE  F[node.members[i].node] = G[node.members[i].node]
            <4>1. node.members[i].node \in Nodes /\ Depth[node.members[i].node] # m
                BY <2>3, <3>1, MemberType
            <4> QED
                BY <2>2, <4>1
        <3>2. P[node][F] = P[node][G]
            BY <1>0, <2>1, <3>1 DEF AgreeBelow
        <3>3. G[node] = P[node][F]
            <4>1. CASE Depth[node] = m
                BY <2>2, <4>1
            <4>2. CASE Depth[node] # m
                <5>1. Depth[node] < m
                    BY <2>3, <4>2, TreesAssumption
                <5> QED
                    BY <1>2, <2>2, <4>2, <5>1
            <4> QED
                BY <4>1, <4>2
        <3> QED
            BY <3>2, <3>3
    <2> QED
        BY <2>1, <2>3
<1>3. Nat \subseteq L
    <2>1. \A m \in Nat : m \in L => m + 1 \in L
        <3> HIDE DEF Good
        <3> QED
            BY <1>2
    <2> HIDE DEF L
    <2> QED
        BY <1>1, <2>1, NatSet
<1>4. ASSUME NEW m \in Nat, NEW F \in [Nodes -> V], NEW G \in [Nodes -> V],
             Good(F, m), Good(G, m), NEW node \in Nodes, Depth[node] < m
      PROVE  F[node] = G[node]
    <2> DEFINE S == {x \in Nodes : Depth[x] < m => F[x] = G[x]}
    <2>1. ASSUME NEW x \in Nodes,
                 x.kind = "map" => \A i \in Members(x) : x.members[i].node \in S
          PROVE  x \in S
        <3> SUFFICES ASSUME Depth[x] < m PROVE F[x] = G[x]
            OBVIOUS
        <3>1. ASSUME x.kind = "map", NEW i \in Members(x)
              PROVE  F[x.members[i].node] = G[x.members[i].node]
            <4>1. Depth[x.members[i].node] < m
                BY <3>1, MemberType
            <4> QED
                BY <2>1, <3>1, <4>1
        <3>2. P[x][F] = P[x][G]
            BY <1>0, <3>1 DEF AgreeBelow
        <3> QED
            BY <1>4, <3>2
    <2> HIDE DEF S
    <2>2. node \in S
        BY <2>1, NodeSet
    <2> QED
        BY <1>4, <2>2 DEF S
<1> DEFINE H(m) == CHOOSE F \in [Nodes -> V] : Good(F, m)
           R == [node \in Nodes |-> H(Depth[node] + 1)[node]]
<1>5. \A m \in Nat : H(m) \in [Nodes -> V] /\ Good(H(m), m)
    <2>1. \A m \in Nat : \E F \in [Nodes -> V] : Good(F, m)
        <3> HIDE DEF Good
        <3> QED
            BY <1>3
    <2> HIDE DEF Good
    <2> QED
        BY <2>1, Zenon
<1> HIDE DEF H
<1>6. R \in [Nodes -> V] /\ \A node \in Nodes : R[node] = H(Depth[node] + 1)[node]
    <2>1. \A node \in Nodes : H(Depth[node] + 1)[node] \in V
        BY <1>5, TreesAssumption
    <2> QED
        BY <2>1
<1> HIDE DEF R
<1>7. ASSUME NEW node \in Nodes
      PROVE  R[node] = P[node][R]
    <2> DEFINE F == H(Depth[node] + 1)
    <2>1. /\ Depth[node] + 1 \in Nat /\ Depth[node] < Depth[node] + 1
          /\ F \in [Nodes -> V] /\ Good(F, Depth[node] + 1)
        <3>1. Depth[node] + 1 \in Nat /\ Depth[node] < Depth[node] + 1
            BY TreesAssumption
        <3> HIDE DEF Good
        <3> QED
            BY <1>5, <3>1
    <2> HIDE DEF F
    <2>2. ASSUME node.kind = "map", NEW i \in Members(node)
          PROVE  F[node.members[i].node] = R[node.members[i].node]
        <3> DEFINE x == node.members[i].node
        <3>1. /\ x \in Nodes /\ Depth[x] + 1 \in Nat /\ Depth[x] < Depth[x] + 1
              /\ Depth[x] + 1 < Depth[node] + 1
            BY <2>2, MemberType
        <3> HIDE DEF x
        <3>2. Good(F, Depth[x] + 1)
            BY <2>1, <3>1, TreesAssumption
        <3>3. H(Depth[x] + 1) \in [Nodes -> V] /\ Good(H(Depth[x] + 1), Depth[x] + 1)
            <4> HIDE DEF Good
            <4> QED
                BY <1>5, <3>1
        <3>4. F[x] = H(Depth[x] + 1)[x]
            <4> HIDE DEF Good
            <4> QED
                BY <1>4, <2>1, <3>1, <3>2, <3>3
        <3> QED
            BY <1>6, <3>1, <3>4 DEF x
    <2>3. P[node][F] = P[node][R]
        BY <1>0, <1>6, <2>1, <2>2 DEF AgreeBelow
    <2>4. R[node] = F[node]
        BY <1>6 DEF F
    <2> QED
        BY <2>1, <2>3, <2>4
<1> QED
    BY <1>6, <1>7

-----------------------------------------------------------------------------
\* What is under a node

Reaches == Seq(Words) \X Nodes

\* e comes from member m of a map.
FromMember(m, U, e) ==
    e = <<m.key, m.node>> \/ \E w \in U[m.node] : e = <<m.key \o w[1], w[2]>>

\* What Below gives, member by member.
LEMMA BelowHas ==
    ASSUME NEW node \in Nodes, NEW U, NEW e
    PROVE  e \in Below(node, U) <=>
           /\ node.kind = "map"
           /\ \E i \in Members(node) : FromMember(node.members[i], U, e)
<1> DEFINE B(m) == {<<m.key, m.node>>} \cup {<<m.key \o w[1], w[2]>> : w \in U[m.node]}
           C == {B(node.members[i]) : i \in Members(node)}
<1>1. \A m : e \in B(m) <=> FromMember(m, U, e)
    BY DEF FromMember
<1>2. Below(node, U) = IF node.kind # "map" THEN {} ELSE UNION C
    BY Zenon DEF Below, Members
<1> HIDE DEF B
<1>3. e \in UNION C <=> \E i \in Members(node) : e \in B(node.members[i])
    BY Zenon
<1> HIDE DEF C
<1>4. CASE node.kind = "map"
    BY <1>1, <1>2, <1>3, <1>4
<1>5. CASE node.kind # "map"
    BY <1>2, <1>5
<1> QED
    BY <1>4, <1>5

\* Below depends on what is under the members.
LEMMA BelowAgrees ==
    ASSUME NEW node \in Nodes, NEW U, NEW W, AgreeBelow(node, U, W)
    PROVE  Below(node, U) = Below(node, W)
<1>1. ASSUME node.kind = "map", NEW i \in Members(node), NEW e
      PROVE  FromMember(node.members[i], U, e) <=> FromMember(node.members[i], W, e)
    <2>1. U[node.members[i].node] = W[node.members[i].node]
        BY <1>1 DEF AgreeBelow
    <2> QED
        BY <2>1, Zenon DEF FromMember
<1>2. \A e : e \in Below(node, U) <=> e \in Below(node, W)
    BY <1>1, BelowHas, Zenon
<1> QED
    BY <1>2, Zenon

\* Below gives pairs of a name and a node.
LEMMA BelowType ==
    ASSUME NEW node \in Nodes, NEW U,
           node.kind = "map" => \A i \in Members(node) : U[node.members[i].node] \subseteq Reaches
    PROVE  Below(node, U) \subseteq Reaches
<1> SUFFICES ASSUME NEW e \in Below(node, U) PROVE e \in Reaches
    OBVIOUS
<1>1. node.kind = "map" /\ \E i \in Members(node) : FromMember(node.members[i], U, e)
    BY BelowHas
<1>2. PICK i \in Members(node) : FromMember(node.members[i], U, e)
    BY <1>1
<1>3. /\ node.members[i].key \in Seq(Words) /\ node.members[i].node \in Nodes
      /\ U[node.members[i].node] \subseteq Reaches
    BY <1>1, MemberType
<1>4. ASSUME NEW w \in U[node.members[i].node], e = <<node.members[i].key \o w[1], w[2]>>
      PROVE  e \in Reaches
    <2>1. w[1] \in Seq(Words) /\ w[2] \in Nodes
        BY <1>3 DEF Reaches
    <2>2. node.members[i].key \o w[1] \in Seq(Words)
        BY <1>3, <2>1
    <2> QED
        BY <1>4, <2>1, <2>2 DEF Reaches
<1>5. e = <<node.members[i].key, node.members[i].node>> => e \in Reaches
    BY <1>3 DEF Reaches
<1> QED
    BY <1>2, <1>4, <1>5, Zenon DEF FromMember

\* The recursion of Unders has a solution.
LEMMA UndersIs == \A node \in Nodes : Unders[node] = Below(node, Unders)
<1> DEFINE V == SUBSET Reaches
           P == [node \in Nodes |-> [U \in [Nodes -> V] |-> Below(node, U)]]
<1>1. \A node \in Nodes : \A U \in [Nodes -> V] : Below(node, U) \in V
    <2> SUFFICES ASSUME NEW node \in Nodes, NEW U \in [Nodes -> V]
                 PROVE  Below(node, U) \subseteq Reaches
        OBVIOUS
    <2>1. ASSUME node.kind = "map", NEW i \in Members(node)
          PROVE  U[node.members[i].node] \subseteq Reaches
        <3>1. node.members[i].node \in Nodes
            BY <2>1, MemberType
        <3> QED
            BY <3>1
    <2> QED
        BY <2>1, BelowType
<1>2. {} \in V
    OBVIOUS
<1> HIDE DEF V
<1>3. P \in [Nodes -> [[Nodes -> V] -> V]]
    BY <1>1
<1>4. \A node \in Nodes : \A U \in [Nodes -> V] : P[node][U] = Below(node, U)
    OBVIOUS
<1> HIDE DEF P
<1>5. DependsBelow(P, V)
    <2>1. \A node \in Nodes : \A U, W : AgreeBelow(node, U, W) => Below(node, U) = Below(node, W)
        BY BelowAgrees
    <2> SUFFICES ASSUME NEW node \in Nodes, NEW U \in [Nodes -> V], NEW W \in [Nodes -> V],
                        AgreeBelow(node, U, W)
                 PROVE  P[node][U] = P[node][W]
        BY <1>3, Zenon DEF DependsBelow
    <2> QED
        BY <1>4, <2>1
<1>6. \E U \in [Nodes -> V] : \A node \in Nodes : U[node] = P[node][U]
    BY <1>2, <1>5, NodeRecursion
<1>7. \E U : U = [node \in Nodes |-> Below(node, U)]
    <2>1. PICK U \in [Nodes -> V] : \A node \in Nodes : U[node] = P[node][U]
        BY <1>6
    <2>2. \A node \in Nodes : U[node] = Below(node, U)
        BY <1>4, <2>1
    <2>3. U = [node \in Nodes |-> U[node]]
        OBVIOUS
    <2> QED
        BY <2>2, <2>3, Zenon
<1>8. Unders = CHOOSE U : U = [node \in Nodes |-> Below(node, U)]
    BY Zenon DEF Unders
<1>9. Unders = [node \in Nodes |-> Below(node, Unders)]
    BY <1>7, <1>8, Zenon
<1> QED
    BY <1>9, Zenon

\* What is under a node is a pair of a name and a node.
LEMMA UnderType ==
    ASSUME NEW node \in Nodes
    PROVE  Under(node) \subseteq Reaches
<1> DEFINE S == {x \in Nodes : Unders[x] \subseteq Reaches}
<1>1. ASSUME NEW x \in Nodes,
             x.kind = "map" => \A i \in Members(x) : x.members[i].node \in S
      PROVE  x \in S
    BY <1>1, UndersIs, BelowType
<1> HIDE DEF S
<1>2. node \in S
    BY <1>1, NodeSet
<1> QED
    BY <1>2 DEF S, Under

-----------------------------------------------------------------------------
\* The list

Entries == [key : Seq(Words), node : Nodes]
Rows == [Seq(Words) -> Seq(Entries)]

\* What is listed of the members.
OfMembers(prefix, node, list) ==
    [i \in 1..Len(node.members) |-> list[node.members[i].node][prefix \o node.members[i].key]]

\* The lists of the members are lists of entries.
LEMMA OfMembersType ==
    ASSUME NEW node \in Nodes, NEW prefix \in Seq(Words), NEW list, node.kind = "map",
           \A i \in Members(node) : list[node.members[i].node] \in Rows
    PROVE  OfMembers(prefix, node, list) \in Seq(Seq(Entries))
<1>1. Len(node.members) \in Nat
    BY TreesAssumption
<1>2. ASSUME NEW i \in Members(node)
      PROVE  list[node.members[i].node][prefix \o node.members[i].key] \in Seq(Entries)
    <2>1. node.members[i].key \in Seq(Words)
        BY MemberType
    <2>2. prefix \o node.members[i].key \in Seq(Words)
        BY <2>1
    <2> QED
        BY <2>2 DEF Rows
<1> DEFINE v(i) == list[node.members[i].node][prefix \o node.members[i].key]
<1>3. \A i \in 1..Len(node.members) : v(i) \in Seq(Entries)
    BY <1>2 DEF Members
<1> HIDE DEF v
<1>4. [i \in 1..Len(node.members) |-> v(i)] \in Seq(Seq(Entries))
    BY <1>1, <1>3
<1> QED
    BY <1>4 DEF OfMembers, v

\* Listed in terms of it.
LEMMA ListedIs ==
    ASSUME NEW node, NEW prefix, NEW list
    PROVE  Listed(prefix, node, list) =
               IF ~ValidName(prefix, ListChars) THEN <<>>
               ELSE <<[key |-> prefix, node |-> node]>>
                    \o IF node.kind # "map" THEN <<>>
                       ELSE FlattenSeq(OfMembers(prefix, node, list))
BY DEF Listed, OfMembers

\* Listed gives a list of entries.
LEMMA ListedType ==
    ASSUME NEW node \in Nodes, NEW prefix \in Seq(Words), NEW list,
           node.kind = "map" => \A i \in Members(node) : list[node.members[i].node] \in Rows
    PROVE  Listed(prefix, node, list) \in Seq(Entries)
<1>1. <<>> \in Seq(Entries)
    OBVIOUS
<1>2. <<[key |-> prefix, node |-> node]>> \in Seq(Entries)
    BY DEF Entries
<1>3. node.kind = "map" => FlattenSeq(OfMembers(prefix, node, list)) \in Seq(Entries)
    BY OfMembersType, FlattenHas
<1> DEFINE t == IF node.kind # "map" THEN <<>> ELSE FlattenSeq(OfMembers(prefix, node, list))
<1>4. t \in Seq(Entries)
    BY <1>1, <1>3
<1>5. Listed(prefix, node, list) =
          IF ~ValidName(prefix, ListChars) THEN <<>>
          ELSE <<[key |-> prefix, node |-> node]>> \o t
    BY ListedIs
<1> HIDE DEF t
<1>6. <<[key |-> prefix, node |-> node]>> \o t \in Seq(Entries)
    BY <1>2, <1>4
<1> QED
    BY <1>1, <1>5, <1>6, Zenon

\* Listed depends on the lists of the members.
LEMMA ListedAgrees ==
    ASSUME NEW node \in Nodes, NEW F, NEW G, AgreeBelow(node, F, G), NEW prefix
    PROVE  Listed(prefix, node, F) = Listed(prefix, node, G)
<1>1. node.kind = "map" => OfMembers(prefix, node, F) = OfMembers(prefix, node, G)
    BY DEF OfMembers, AgreeBelow, Members
<1> QED
    BY <1>1, ListedIs

\* The recursion of Lists has a solution.
LEMMA ListsIs ==
    \A node \in Nodes : Lists[node] = [prefix \in Seq(Words) |-> Listed(prefix, node, Lists)]
<1> DEFINE Row(node, F) == [prefix \in Seq(Words) |-> Listed(prefix, node, F)]
           P == [node \in Nodes |-> [F \in [Nodes -> Rows] |-> Row(node, F)]]
<1>1. \A node \in Nodes : \A F \in [Nodes -> Rows] : Row(node, F) \in Rows
    <2> SUFFICES ASSUME NEW node \in Nodes, NEW F \in [Nodes -> Rows], NEW prefix \in Seq(Words)
                 PROVE  Listed(prefix, node, F) \in Seq(Entries)
        BY DEF Rows
    <2>1. node.kind = "map" => \A i \in Members(node) : F[node.members[i].node] \in Rows
        BY MemberType
    <2> QED
        BY <2>1, ListedType
<1>2. [prefix \in Seq(Words) |-> <<>>] \in Rows
    <2>1. <<>> \in Seq(Entries)
        OBVIOUS
    <2> QED
        BY <2>1 DEF Rows
<1>3. \A node \in Nodes : \A F, G : AgreeBelow(node, F, G) => Row(node, F) = Row(node, G)
    BY ListedAgrees
<1> HIDE DEF Row
<1>4. P \in [Nodes -> [[Nodes -> Rows] -> Rows]]
    BY <1>1
<1>5. \A node \in Nodes : \A F \in [Nodes -> Rows] : P[node][F] = Row(node, F)
    OBVIOUS
<1> HIDE DEF P
<1>6. DependsBelow(P, Rows)
    <2> SUFFICES ASSUME NEW node \in Nodes, NEW F \in [Nodes -> Rows], NEW G \in [Nodes -> Rows],
                        AgreeBelow(node, F, G)
                 PROVE  P[node][F] = P[node][G]
        BY <1>4, Zenon DEF DependsBelow
    <2> QED
        BY <1>3, <1>5
<1>7. \E F \in [Nodes -> Rows] : \A node \in Nodes : F[node] = P[node][F]
    BY <1>2, <1>6, NodeRecursion
<1>8. \E F : F = [node \in Nodes |-> Row(node, F)]
    <2>1. PICK F \in [Nodes -> Rows] : \A node \in Nodes : F[node] = P[node][F]
        BY <1>7
    <2>2. \A node \in Nodes : F[node] = Row(node, F)
        BY <1>5, <2>1
    <2>3. F = [node \in Nodes |-> F[node]]
        OBVIOUS
    <2> QED
        BY <2>2, <2>3, Zenon
<1>9. Lists = CHOOSE F : F = [node \in Nodes |-> Row(node, F)]
    BY Zenon DEF Lists, Row
<1>10. Lists = [node \in Nodes |-> Row(node, Lists)]
    BY <1>8, <1>9, Zenon
<1> QED
    BY <1>10, Zenon DEF Row

-----------------------------------------------------------------------------
\* What the list has

\* A node and what is under it.
Reached(node) == {<<<<>>, node>>} \cup Under(node)

\* What ListAllMember lists under a prefix: what is reached, in letters it takes.
IsListed(prefix, node, key, n) ==
    /\ ValidName(key, ListChars)
    /\ \E u \in Reached(node) : key = prefix \o u[1] /\ n = u[2]

\* What is reached has a name and is a node.
LEMMA ReachedType ==
    ASSUME NEW node \in Nodes, NEW u \in Reached(node)
    PROVE  u = <<u[1], u[2]>> /\ u[1] \in Seq(Words) /\ u[2] \in Nodes
<1>1. <<>> \in Seq(Words)
    OBVIOUS
<1>2. u = <<<<>>, node>> \/ u \in Reaches
    BY UnderType DEF Reached
<1>3. CASE u = <<<<>>, node>>
    BY <1>1, <1>3
<1>4. CASE u \in Reaches
    BY <1>4 DEF Reaches
<1> QED
    BY <1>2, <1>3, <1>4

\* u is reached by way of member m of a map.
ByMember(m, u) == \E w \in Reached(m.node) : u = <<m.key \o w[1], w[2]>>

\* What is under a map is what its members reach.
LEMMA UnderHas ==
    ASSUME NEW node \in Nodes, NEW u
    PROVE  u \in Under(node) <=>
           node.kind = "map" /\ \E i \in Members(node) : ByMember(node.members[i], u)
<1>1. u \in Under(node) <=>
          node.kind = "map" /\ \E i \in Members(node) : FromMember(node.members[i], Unders, u)
    BY UndersIs, BelowHas DEF Under
<1>2. ASSUME node.kind = "map", NEW i \in Members(node)
      PROVE  FromMember(node.members[i], Unders, u) <=> ByMember(node.members[i], u)
    <2> DEFINE key == node.members[i].key
               x == node.members[i].node
    <2>1. key \o <<>> = key
        BY <1>2, MemberType
    <2>2. FromMember(node.members[i], Unders, u)
          <=> u = <<key, x>> \/ \E w \in Under(x) : u = <<key \o w[1], w[2]>>
        BY Zenon DEF FromMember, Under
    <2>3. \A w : w \in Reached(x) <=> w = <<<<>>, x>> \/ w \in Under(x)
        BY Zenon DEF Reached
    <2> HIDE DEF key, x
    <2>4. <<<<>>, x>>[1] = <<>> /\ <<<<>>, x>>[2] = x
        OBVIOUS
    <2>5. (\E w \in Reached(x) : u = <<key \o w[1], w[2]>>)
          <=> u = <<key \o <<>>, x>> \/ \E w \in Under(x) : u = <<key \o w[1], w[2]>>
        BY <2>3, <2>4, Zenon
    <2> QED
        BY <2>1, <2>2, <2>5, Zenon DEF key, x, ByMember
<1> QED
    BY <1>1, <1>2, Zenon

\* If a name has only letters that are taken, so has what it begins with.
LEMMA ValidPrefix ==
    ASSUME NEW p \in Seq(Words), NEW q \in Seq(Words), NEW chars, ValidName(p \o q, chars)
    PROVE  ValidName(p, chars)
<1>1. Len(p) <= Len(p \o q) /\ \A i \in 1..Len(p) : (p \o q)[i] = p[i] /\ i \in 1..Len(p \o q)
    OBVIOUS
<1> QED
    BY <1>1 DEF ValidName

\* Names can be put together in either order.
LEMMA WordsAssociative ==
    \A p, q, r \in Seq(Words) : p \o (q \o r) = (p \o q) \o r
BY ConcatAssociative

\* What is listed is the node itself and what is listed of its members.
LEMMA IsListedHas ==
    ASSUME NEW node \in Nodes, NEW prefix \in Seq(Words), NEW key, NEW n
    PROVE  IsListed(prefix, node, key, n) <=>
           \/ ValidName(prefix, ListChars) /\ key = prefix /\ n = node
           \/ /\ node.kind = "map"
              /\ \E i \in Members(node) :
                    IsListed(prefix \o node.members[i].key, node.members[i].node, key, n)
<1>1. prefix \o <<>> = prefix
    OBVIOUS
<1>2. <<<<>>, node>>[1] = <<>> /\ <<<<>>, node>>[2] = node
    OBVIOUS
<1>3. \A u : u \in Reached(node) <=> u = <<<<>>, node>> \/ u \in Under(node)
    BY Zenon DEF Reached
<1>4. IsListed(prefix, node, key, n) <=>
          \/ ValidName(prefix, ListChars) /\ key = prefix /\ n = node
          \/ /\ ValidName(key, ListChars)
             /\ \E u \in Under(node) : key = prefix \o u[1] /\ n = u[2]
    <2>1. (\E u \in Reached(node) : key = prefix \o u[1] /\ n = u[2]) <=>
              \/ key = prefix \o <<>> /\ n = node
              \/ \E u \in Under(node) : key = prefix \o u[1] /\ n = u[2]
        BY <1>2, <1>3, Zenon
    <2> QED
        BY <1>1, <2>1 DEF IsListed
<1>5. ASSUME node.kind = "map", NEW i \in Members(node),
             NEW w \in Reached(node.members[i].node)
      PROVE  prefix \o (node.members[i].key \o w[1]) = (prefix \o node.members[i].key) \o w[1]
    <2>1. node.members[i].key \in Seq(Words) /\ node.members[i].node \in Nodes
        BY <1>5, MemberType
    <2>2. w[1] \in Seq(Words)
        BY <1>5, <2>1, ReachedType
    <2> QED
        BY <2>1, <2>2, WordsAssociative
<1>6. (\E u \in Under(node) : key = prefix \o u[1] /\ n = u[2]) <=>
          /\ node.kind = "map"
          /\ \E i \in Members(node) : \E w \in Reached(node.members[i].node) :
                key = (prefix \o node.members[i].key) \o w[1] /\ n = w[2]
    <2>1. ASSUME NEW u \in Under(node), key = prefix \o u[1], n = u[2]
          PROVE  /\ node.kind = "map"
                 /\ \E i \in Members(node) : \E w \in Reached(node.members[i].node) :
                       key = (prefix \o node.members[i].key) \o w[1] /\ n = w[2]
        <3>1. node.kind = "map" /\ \E i \in Members(node) : ByMember(node.members[i], u)
            BY UnderHas
        <3>2. PICK i \in Members(node) : ByMember(node.members[i], u)
            BY <3>1
        <3>3. PICK w \in Reached(node.members[i].node) :
                  u = <<node.members[i].key \o w[1], w[2]>>
            BY <3>2, Zenon DEF ByMember
        <3>4. u[1] = node.members[i].key \o w[1] /\ u[2] = w[2]
            BY <3>3
        <3>5. key = (prefix \o node.members[i].key) \o w[1] /\ n = w[2]
            BY <1>5, <2>1, <3>1, <3>4
        <3> QED
            BY <3>1, <3>5
    <2>2. ASSUME node.kind = "map", NEW i \in Members(node),
                 NEW w \in Reached(node.members[i].node),
                 key = (prefix \o node.members[i].key) \o w[1], n = w[2]
          PROVE  \E u \in Under(node) : key = prefix \o u[1] /\ n = u[2]
        <3> DEFINE u == <<node.members[i].key \o w[1], w[2]>>
        <3>1. u \in Under(node)
            <4>1. ByMember(node.members[i], u)
                BY Zenon DEF ByMember
            <4> QED
                BY <2>2, <4>1, UnderHas
        <3>2. key = prefix \o u[1] /\ n = u[2]
            BY <1>5, <2>2
        <3> QED
            BY <3>1, <3>2
    <2> QED
        BY <2>1, <2>2
<1> QED
    BY <1>4, <1>6, Zenon DEF IsListed

\* The list has every node that is reached, under its name, and no other entry.
ListFits(node) ==
    \A prefix \in Seq(Words) :
        /\ Lists[node][prefix] \in Seq(Entries)
        /\ \A key, n : Contains(Lists[node][prefix], [key |-> key, node |-> n])
                       <=> IsListed(prefix, node, key, n)

\* What FlattenSeq makes of the members' lists.
LEMMA MembersListed ==
    ASSUME NEW node \in Nodes, node.kind = "map", NEW prefix \in Seq(Words),
           \A i \in Members(node) : ListFits(node.members[i].node)
    PROVE  /\ FlattenSeq(OfMembers(prefix, node, Lists)) \in Seq(Entries)
           /\ \A key, n :
                 Contains(FlattenSeq(OfMembers(prefix, node, Lists)), [key |-> key, node |-> n])
                 <=> \E i \in Members(node) :
                       IsListed(prefix \o node.members[i].key, node.members[i].node, key, n)
<1> DEFINE ss == OfMembers(prefix, node, Lists)
<1>1. ASSUME NEW i \in Members(node)
      PROVE  /\ ss[i] \in Seq(Entries)
             /\ \A key, n : Contains(ss[i], [key |-> key, node |-> n])
                  <=> IsListed(prefix \o node.members[i].key, node.members[i].node, key, n)
    <2>1. prefix \o node.members[i].key \in Seq(Words)
        BY MemberType
    <2>2. ss[i] = Lists[node.members[i].node][prefix \o node.members[i].key]
        BY DEF OfMembers, Members
    <2> HIDE DEF ss
    <2> QED
        BY <2>1, <2>2, Zenon DEF ListFits
<1>2. ss \in Seq(Seq(Entries)) /\ 1..Len(ss) = Members(node)
    <2>1. Len(node.members) \in Nat
        BY TreesAssumption
    <2>2. ss = [i \in 1..Len(node.members) |-> ss[i]]
        BY Zenon DEF OfMembers
    <2>3. \A i \in 1..Len(node.members) : ss[i] \in Seq(Entries)
        BY <1>1 DEF Members
    <2> HIDE DEF ss
    <2>4. ss \in [1..Len(node.members) -> Seq(Entries)]
        BY <2>2, <2>3
    <2> QED
        BY <2>1, <2>4 DEF Members
<1> HIDE DEF ss
<1>3. /\ FlattenSeq(ss) \in Seq(Entries)
      /\ \A e : Contains(FlattenSeq(ss), e) <=> \E i \in 1..Len(ss) : Contains(ss[i], e)
    BY <1>2, FlattenHas
<1>4. \A key, n : Contains(FlattenSeq(ss), [key |-> key, node |-> n])
          <=> \E i \in Members(node) : Contains(ss[i], [key |-> key, node |-> n])
    BY <1>2, <1>3, Zenon
<1> QED
    BY <1>1, <1>3, <1>4, Zenon DEF ss

\* A list of a single entry.
LEMMA SingleHas ==
    ASSUME NEW a, NEW e
    PROVE  Contains(<<a>>, e) <=> e = a
<1>1. Len(<<a>>) = 1 /\ <<a>>[1] = a
    OBVIOUS
<1>2. \A i : i \in 1..1 <=> i = 1
    OBVIOUS
<1> QED
    BY <1>1, <1>2 DEF Contains

\* ListAllMember lists exactly what is reached and has a name it takes.
LEMMA ListHas ==
    ASSUME NEW node \in Nodes
    PROVE  ListFits(node)
<1> DEFINE S == {x \in Nodes : ListFits(x)}
<1>1. ASSUME NEW x \in Nodes,
             x.kind = "map" => \A i \in Members(x) : x.members[i].node \in S
      PROVE  x \in S
    <2> SUFFICES ASSUME NEW prefix \in Seq(Words)
                 PROVE  /\ Lists[x][prefix] \in Seq(Entries)
                        /\ \A key, n : Contains(Lists[x][prefix], [key |-> key, node |-> n])
                                       <=> IsListed(prefix, x, key, n)
        BY DEF ListFits
    <2> DEFINE rest == IF x.kind # "map" THEN <<>> ELSE FlattenSeq(OfMembers(prefix, x, Lists))
    <2>1. Lists[x][prefix] = IF ~ValidName(prefix, ListChars) THEN <<>>
                             ELSE <<[key |-> prefix, node |-> x]>> \o rest
        <3>1. Lists[x][prefix] = Listed(prefix, x, Lists)
            BY ListsIs, Zenon
        <3> QED
            BY <3>1, ListedIs
    <2>2. <<>> \in Seq(Entries) /\ \A e : ~Contains(<<>>, e)
        <3>1. Len(<<>>) = 0
            OBVIOUS
        <3> QED
            BY <3>1 DEF Contains
    <2>3. /\ rest \in Seq(Entries)
          /\ \A key, n : Contains(rest, [key |-> key, node |-> n]) <=>
                /\ x.kind = "map"
                /\ \E i \in Members(x) :
                      IsListed(prefix \o x.members[i].key, x.members[i].node, key, n)
        <3>1. CASE x.kind = "map"
            <4>1. rest = FlattenSeq(OfMembers(prefix, x, Lists))
                BY <3>1
            <4>2. \A i \in Members(x) : ListFits(x.members[i].node)
                BY <1>1, <3>1
            <4> HIDE DEF rest
            <4> QED
                BY <3>1, <4>1, <4>2, MembersListed
        <3>2. CASE x.kind # "map"
            <4>1. rest = <<>>
                BY <3>2
            <4> HIDE DEF rest
            <4> QED
                BY <2>2, <3>2, <4>1, Zenon
        <3> QED
            BY <3>1, <3>2
    <2> HIDE DEF rest
    <2>4. CASE ~ValidName(prefix, ListChars)
        <3>1. Lists[x][prefix] = <<>>
            BY <2>1, <2>4
        <3>2. ASSUME NEW key, NEW n, IsListed(prefix, x, key, n)
              PROVE  FALSE
            <4>1. PICK u \in Reached(x) : key = prefix \o u[1] /\ n = u[2]
                BY <3>2 DEF IsListed
            <4>2. u[1] \in Seq(Words)
                BY ReachedType
            <4>3. ValidName(prefix \o u[1], ListChars)
                BY <3>2, <4>1 DEF IsListed
            <4> QED
                BY <2>4, <4>2, <4>3, ValidPrefix
        <3> QED
            BY <2>2, <3>1, <3>2, Zenon
    <2>5. CASE ValidName(prefix, ListChars)
        <3> DEFINE first == [key |-> prefix, node |-> x]
        <3>1. Lists[x][prefix] = <<first>> \o rest
            BY <2>1, <2>5
        <3>2. <<first>> \in Seq(Entries)
            BY DEF Entries
        <3>3. \A key, n : [key |-> key, node |-> n] = first <=> key = prefix /\ n = x
            OBVIOUS
        <3> HIDE DEF first
        <3>4. Lists[x][prefix] \in Seq(Entries)
            BY <2>3, <3>1, <3>2
        <3>5. \A e : Contains(Lists[x][prefix], e) <=> e = first \/ Contains(rest, e)
            <4> SUFFICES ASSUME NEW e
                         PROVE  Contains(Lists[x][prefix], e) <=> e = first \/ Contains(rest, e)
                OBVIOUS
            <4>1. Contains(<<first>> \o rest, e) <=> Contains(<<first>>, e) \/ Contains(rest, e)
                BY <2>3, <3>2, ConcatHas
            <4>2. Contains(<<first>>, e) <=> e = first
                BY SingleHas
            <4> QED
                BY <3>1, <4>1, <4>2, Zenon
        <3>6. \A key, n : Contains(Lists[x][prefix], [key |-> key, node |-> n]) <=>
                  (key = prefix /\ n = x) \/ Contains(rest, [key |-> key, node |-> n])
            BY <3>3, <3>5, Zenon
        <3>7. \A key, n : IsListed(prefix, x, key, n) <=>
                  \/ key = prefix /\ n = x
                  \/ /\ x.kind = "map"
                     /\ \E i \in Members(x) :
                           IsListed(prefix \o x.members[i].key, x.members[i].node, key, n)
            BY <2>5, IsListedHas
        <3> QED
            BY <2>3, <3>4, <3>6, <3>7, Zenon
    <2> QED
        BY <2>4, <2>5
<1> HIDE DEF S
<1>2. node \in S
    BY <1>1, NodeSet
<1> QED
    BY <1>2 DEF S

\* What LoadFromYaml goes through: a list of the nodes of the document that
\* have a name it takes, and of all of them.
LEMMA LoadedList ==
    ASSUME NEW d \in Nodes
    PROVE  /\ ListAllMember(d) \in Seq(Entries)
           /\ \A key, n : Contains(ListAllMember(d), [key |-> key, node |-> n])
                          <=> ValidName(key, ListChars) /\ <<key, n>> \in Reached(d)
<1>1. <<>> \in Seq(Words)
    OBVIOUS
<1>2. /\ ListAllMember(d) \in Seq(Entries)
      /\ \A key, n : Contains(ListAllMember(d), [key |-> key, node |-> n])
                     <=> IsListed(<<>>, d, key, n)
    BY <1>1, ListHas DEF ListFits, ListAllMember
<1>3. ASSUME NEW key, NEW n
      PROVE  (\E u \in Reached(d) : key = <<>> \o u[1] /\ n = u[2]) <=> <<key, n>> \in Reached(d)
    <2>1. \A u \in Reached(d) : u = <<u[1], u[2]>> /\ <<>> \o u[1] = u[1]
        <3> SUFFICES ASSUME NEW u \in Reached(d) PROVE u = <<u[1], u[2]>> /\ <<>> \o u[1] = u[1]
            OBVIOUS
        <3>1. u = <<u[1], u[2]>> /\ u[1] \in Seq(Words)
            BY ReachedType
        <3> QED
            BY <3>1, ConcatEmptySeq
    <2>2. <<key, n>>[1] = key /\ <<key, n>>[2] = n
        OBVIOUS
    <2> QED
        BY <2>1, <2>2, Zenon
<1>4. \A key, n : IsListed(<<>>, d, key, n) <=>
                   ValidName(key, ListChars) /\ <<key, n>> \in Reached(d)
    BY <1>3, Zenon DEF IsListed
<1> QED
    BY <1>2, <1>4, Zenon

-----------------------------------------------------------------------------
\* The inductive invariant of LoadFromYaml

\* What LoadFromYaml has in its list: entries, and the variable found for one.
LoadEntries == Entries \cup [key : Seq(Words), node : Nodes, var : Identities]

LoadTypeOK ==
    /\ doc \in [Clients -> Docs \cup {None}]
    /\ alone \in [Clients -> BOOLEAN]
    /\ all_nodes \in [Clients -> Seq(LoadEntries)]

Loading(c) == pc[c] \in {"load", "apply"}

\* Every entry is of a node of the document, and has a name that is taken.
EntriesFit(list, d) ==
    \A i \in 1..Len(list) :
        ValidName(list[i].key, ListChars) /\ <<list[i].key, list[i].node>> \in Reached(d)

\* The variable LoadFromYaml has found has the name of the entry, and is the
\* one registered unless somebody else has changed something.
FoundFits(c, e) ==
    /\ e.key # <<>>
    /\ e.var \in DOMAIN objs /\ e.var[1] = e.key
    /\ alone[c] => e.var = Id(e.key)

\* What fromString can get for name n; the variable has such a value.
Texts(d, n) == {Text(e[2]) : e \in {e \in Under(d) : e[1] = n}}
HasValue(var, texts) ==
    texts # {} /\ (\A t \in texts : FromString(var.type, t) # {})
    => \E t \in texts : var.m_val \in FromString(var.type, t)

\* A node of that name is still to come.
Waiting(list, n) == \E i \in 1..Len(list) : list[i].key = n

\* Every variable has the value of a node of its name, or one is to come.
Accounted(c) ==
    \A n \in Registered : ValidName(n, ListChars) =>
        HasValue(objs[Id(n)], Texts(doc[c], n)) \/ Waiting(all_nodes[c], n)

LoadFits(c) ==
    /\ ~Loading(c) => doc[c] = None /\ alone[c]
    /\ Loading(c) =>
        /\ doc[c] # None
        /\ EntriesFit(all_nodes[c], doc[c])
        /\ pc[c] = "apply" => all_nodes[c] # <<>> /\ FoundFits(c, Head(all_nodes[c]))
        /\ alone[c] => Accounted(c)

LoadInv == LoadTypeOK /\ \A c \in Clients : LoadFits(c)

-----------------------------------------------------------------------------
\* Lists of entries

\* An entry has a name and a node.
LEMMA EntryType ==
    ASSUME NEW e \in LoadEntries
    PROVE  e.key \in Seq(Words) /\ e.node \in Nodes
BY DEF LoadEntries, Entries

\* What remains after the first entry.
LEMMA TailFits ==
    ASSUME NEW list \in Seq(LoadEntries), list # <<>>, NEW d, EntriesFit(list, d)
    PROVE  /\ Head(list) \in LoadEntries /\ Tail(list) \in Seq(LoadEntries)
           /\ Head(list) = list[1] /\ 1 \in 1..Len(list)
           /\ EntriesFit(Tail(list), d)
           /\ \A n : Waiting(list, n) => n = Head(list).key \/ Waiting(Tail(list), n)
<1>1. /\ Len(Tail(list)) = Len(list) - 1 /\ Len(list) \in Nat \ {0}
      /\ \A i \in 1..Len(Tail(list)) : Tail(list)[i] = list[i + 1] /\ i + 1 \in 1..Len(list)
      /\ Head(list) = list[1]
    OBVIOUS
<1>2. Head(list) \in LoadEntries /\ Tail(list) \in Seq(LoadEntries) /\ 1 \in 1..Len(list)
    OBVIOUS
<1>3. EntriesFit(Tail(list), d)
    BY <1>1 DEF EntriesFit
<1>4. ASSUME NEW n, Waiting(list, n), n # Head(list).key
      PROVE  Waiting(Tail(list), n)
    <2>1. PICK i \in 1..Len(list) : list[i].key = n
        BY <1>4 DEF Waiting
    <2>2. i # 1
        BY <1>1, <1>4, <2>1
    <2>3. i - 1 \in 1..Len(Tail(list)) /\ i - 1 + 1 = i
        BY <1>1, <2>2
    <2>4. Tail(list)[i - 1] = list[i]
        BY <1>1, <2>3
    <2> QED
        BY <2>1, <2>3, <2>4 DEF Waiting
<1> QED
    BY <1>1, <1>2, <1>3, <1>4

\* The first entry of a list gets a variable.
LEMMA FoundList ==
    ASSUME NEW list \in Seq(LoadEntries), list # <<>>, NEW d, EntriesFit(list, d),
           NEW var \in Identities, NEW new,
           new = [list EXCEPT ![1] = [key |-> @.key, node |-> @.node, var |-> var]]
    PROVE  /\ new \in Seq(LoadEntries) /\ new # <<>>
           /\ Head(new).key = Head(list).key /\ Head(new).var = var
           /\ EntriesFit(new, d)
           /\ \A n : Waiting(list, n) => Waiting(new, n)
<1> DEFINE e == [key |-> list[1].key, node |-> list[1].node, var |-> var]
<1>1. list[1] \in LoadEntries /\ Len(list) \in Nat \ {0} /\ Head(list) = list[1]
    OBVIOUS
<1>2. e \in LoadEntries
    BY <1>1, EntryType DEF LoadEntries
<1>3. new = [list EXCEPT ![1] = e]
    BY Zenon
<1>4. e.key = list[1].key /\ e.node = list[1].node /\ e.var = var
    OBVIOUS
<1> HIDE DEF e
<1>5. /\ new \in Seq(LoadEntries) /\ Len(new) = Len(list) /\ new[1] = e
      /\ \A i \in 1..Len(list) : i # 1 => new[i] = list[i]
    BY <1>1, <1>2, <1>3, ExceptSeq
<1>6. \A i \in 1..Len(list) : new[i].key = list[i].key /\ new[i].node = list[i].node
    BY <1>4, <1>5
<1>7. new # <<>> /\ Head(new) = e
    BY <1>1, <1>5
<1>8. EntriesFit(new, d)
    BY <1>5, <1>6 DEF EntriesFit
<1>9. \A n : Waiting(list, n) => Waiting(new, n)
    BY <1>5, <1>6 DEF Waiting
<1> QED
    BY <1>1, <1>4, <1>5, <1>7, <1>8, <1>9

\* A name ListAllMember takes is spelt as it is registered.
LEMMA ListedLowered ==
    ASSUME NEW key \in Seq(Words), ValidName(key, ListChars)
    PROVE  Lowered(key) = key
<1>1. ValidName(key, LookupChars)
    BY DEF ValidName, ListChars, LookupChars
<1> QED
    BY <1>1, LoweredIsSame

\* The list LoadFromYaml begins with.
LEMMA BeginFits ==
    ASSUME NEW d \in Docs
    PROVE  /\ ListAllMember(d) \in Seq(LoadEntries)
           /\ EntriesFit(ListAllMember(d), d)
           /\ \A n : ValidName(n, ListChars) =>
                  Texts(d, n) = {} \/ Waiting(ListAllMember(d), n)
<1> DEFINE list == ListAllMember(d)
<1>0. d \in Nodes
    BY RegistryAssumption
<1>1. /\ list \in Seq(Entries)
      /\ \A key, n : Contains(list, [key |-> key, node |-> n])
                     <=> ValidName(key, ListChars) /\ <<key, n>> \in Reached(d)
    BY <1>0, LoadedList
<1> HIDE DEF list
<1>2. list \in Seq(LoadEntries)
    <2>1. Entries \subseteq LoadEntries
        BY DEF LoadEntries
    <2> HIDE DEF Entries
    <2> QED
        BY <1>1, <2>1
<1>3. ASSUME NEW i \in 1..Len(list)
      PROVE  ValidName(list[i].key, ListChars) /\ <<list[i].key, list[i].node>> \in Reached(d)
    <2>1. list[i] \in Entries
        BY <1>1
    <2>2. list[i] = [key |-> list[i].key, node |-> list[i].node]
        BY <2>1 DEF Entries
    <2>3. Contains(list, list[i])
        BY Zenon DEF Contains
    <2> QED
        BY <1>1, <2>2, <2>3, Zenon
<1>4. ASSUME NEW n, ValidName(n, ListChars), Texts(d, n) # {}
      PROVE  Waiting(list, n)
    <2>1. PICK u \in Under(d) : u[1] = n
        BY <1>4, Zenon DEF Texts
    <2>2. u \in Reached(d)
        BY DEF Reached
    <2>3. u = <<n, u[2]>>
        BY <1>0, <2>1, <2>2, ReachedType
    <2>4. Contains(list, [key |-> n, node |-> u[2]])
        BY <1>1, <1>4, <2>2, <2>3, Zenon
    <2>5. [key |-> n, node |-> u[2]].key = n
        OBVIOUS
    <2> QED
        BY <2>4, <2>5, Zenon DEF Contains, Waiting
<1> QED
    BY <1>2, <1>3, <1>4 DEF EntriesFit, list

-----------------------------------------------------------------------------
\* Steps of other clients

\* A client whose own state a step leaves alone is not affected if nothing is
\* changed.
LEMMA LoadStays ==
    ASSUME NEW x \in Clients, LoadFits(x), UNCHANGED <<s_datas, objs>>,
           doc'[x] = doc[x], all_nodes'[x] = all_nodes[x], alone'[x] <=> alone[x],
           pc'[x] = pc[x] \/ (~Loading(x) /\ ~Loading(x)')
    PROVE  LoadFits(x)'
<1>1. Registered' = Registered /\ \A n : Id(n)' = Id(n)
    BY DEF Registered, Id
<1>2. Loading(x)' <=> Loading(x)
    BY DEF Loading
<1>3. CASE ~Loading(x)
    BY <1>2, <1>3 DEF LoadFits
<1>4. CASE Loading(x)
    <2>1. pc'[x] = pc[x]
        BY <1>4
    <2>2. Accounted(x) => Accounted(x)'
        BY <1>1 DEF Accounted
    <2>3. \A e : FoundFits(x, e) => FoundFits(x, e)'
        BY <1>1 DEF FoundFits
    <2> QED
        BY <1>2, <1>4, <2>1, <2>2, <2>3 DEF LoadFits
<1> QED
    BY <1>3, <1>4

\* A client is no longer alone when another has changed something.
LEMMA LoadDisturbed ==
    ASSUME NEW c \in Clients, NEW x \in Clients, LoadFits(x), NotAlone(c),
           Loading(x) => x # c, DOMAIN objs \subseteq DOMAIN objs',
           doc'[x] = doc[x], all_nodes'[x] = all_nodes[x],
           pc'[x] = pc[x] \/ (~Loading(x) /\ ~Loading(x)')
    PROVE  LoadFits(x)'
<1>1. alone'[x] <=> (alone[x] /\ x = c) \/ doc[x] = None
    BY Zenon DEF NotAlone
<1>2. Loading(x)' <=> Loading(x)
    BY DEF Loading
<1>3. CASE ~Loading(x)
    BY <1>1, <1>2, <1>3 DEF LoadFits
<1>4. CASE Loading(x)
    <2>1. pc'[x] = pc[x] /\ ~alone'[x]
        BY <1>1, <1>4 DEF LoadFits
    <2>2. \A e : FoundFits(x, e) => FoundFits(x, e)'
        BY <2>1 DEF FoundFits
    <2> QED
        BY <1>2, <1>4, <2>1, <2>2 DEF LoadFits
<1> QED
    BY <1>3, <1>4

\* Who is alone is known of every client.
LEMMA NotAloneType ==
    ASSUME NEW c, NotAlone(c)
    PROVE  alone' \in [Clients -> BOOLEAN]
BY Zenon DEF NotAlone

\* A step that only moves client c, and between places outside of LoadFromYaml.
LEMMA QuietStep ==
    ASSUME RegistryInv, LoadInv, NEW c \in Clients, NEW place,
           pc[c] \in {"idle", "create", "visit"}, place \in {"idle", "create", "visit"},
           pc' = [pc EXCEPT ![c] = place],
           UNCHANGED <<s_datas, objs, all_nodes, doc, alone>>
    PROVE  LoadInv'
<1>1. LoadTypeOK'
    BY DEF LoadInv, LoadTypeOK
<1>2. ASSUME NEW x \in Clients
      PROVE  LoadFits(x)'
    <2>1. LoadFits(x)
        BY DEF LoadInv
    <2>2. pc'[x] = pc[x] \/ (~Loading(x) /\ ~Loading(x)')
        BY DEF Loading, RegistryInv, RegistryTypeOK
    <2>3. alone'[x] <=> alone[x]
        OBVIOUS
    <2> QED
        BY <2>1, <2>2, <2>3, LoadStays
<1> QED
    BY <1>1, <1>2 DEF LoadInv

\* A step of client c outside of LoadFromYaml that changes a variable or the map.
LEMMA DisturbingStep ==
    ASSUME RegistryInv, LoadInv, NEW c \in Clients, pc[c] \in {"idle", "create"},
           NotAlone(c), DOMAIN objs \subseteq DOMAIN objs',
           pc' = [pc EXCEPT ![c] = "idle"], UNCHANGED <<all_nodes, doc>>
    PROVE  LoadInv'
<1>1. LoadTypeOK'
    BY NotAloneType DEF LoadInv, LoadTypeOK
<1>2. ASSUME NEW x \in Clients
      PROVE  LoadFits(x)'
    <2>1. LoadFits(x)
        BY DEF LoadInv
    <2>2. pc'[x] = pc[x] \/ (~Loading(x) /\ ~Loading(x)')
        BY DEF Loading, RegistryInv, RegistryTypeOK
    <2>3. Loading(x) => x # c
        BY DEF Loading
    <2> QED
        BY <2>1, <2>2, <2>3, LoadDisturbed
<1> QED
    BY <1>1, <1>2 DEF LoadInv

\* The steps of Lookup that find or refuse, and those of Visit.
LEMMA OutsideStep ==
    ASSUME RegistryInv, LoadInv, NEW c \in Clients, NEW r,
           \/ LookupFound(c, r) \/ LookupMissing(c, r) \/ Find(c, r) \/ LookupThrow(c)
           \/ Visit(c) \/ VisitReturn(c) \/ \E n \in Names : VisitCall(c, n)
    PROVE  LoadInv'
<1>0. pc = [pc EXCEPT ![c] = pc[c]]
    BY DEF RegistryInv, RegistryTypeOK
<1>1. CASE LookupFound(c, r) \/ Find(c, r)
    BY <1>0, <1>1, QuietStep DEF LookupFound, Find
<1>2. CASE LookupMissing(c, r)
    BY <1>2, QuietStep DEF LookupMissing
<1>3. CASE LookupThrow(c)
    BY <1>3, QuietStep DEF LookupThrow
<1>4. CASE Visit(c)
    BY <1>4, QuietStep DEF Visit
<1>5. CASE VisitReturn(c)
    BY <1>5, QuietStep DEF VisitReturn
<1>6. CASE \E n \in Names : VisitCall(c, n)
    BY <1>0, <1>6, QuietStep DEF VisitCall
<1> QED
    BY <1>1, <1>2, <1>3, <1>4, <1>5, <1>6

\* Lookup registers a variable.
LEMMA CreateLoads ==
    ASSUME RegistryInv, LoadInv, NEW c \in Clients, LookupCreate(c)
    PROVE  LoadInv'
<1>1. DOMAIN objs \subseteq DOMAIN objs'
    BY DEF LookupCreate
<1> QED
    BY <1>1, DisturbingStep DEF LookupCreate

\* setValue through a pointer.
LEMMA AssignLoads ==
    ASSUME RegistryInv, LoadInv, NEW c \in Clients, NEW r, Assign(c, r)
    PROVE  LoadInv'
<1>0. pc = [pc EXCEPT ![c] = "idle"]
    BY DEF Assign, RegistryInv, RegistryTypeOK
<1>1. DOMAIN objs \subseteq DOMAIN objs'
    BY AssignKeeps DEF Assign
<1> QED
    BY <1>0, <1>1, DisturbingStep DEF Assign

-----------------------------------------------------------------------------
\* The steps of LoadFromYaml

\* LoadFromYaml begins: everything is still to come.
LEMMA BeginLoads ==
    ASSUME RegistryInv, LoadInv, NEW c \in Clients, NEW d \in Docs, LoadFromYaml(c, d)
    PROVE  LoadInv'
<1>1. /\ ListAllMember(d) \in Seq(LoadEntries)
      /\ EntriesFit(ListAllMember(d), d)
      /\ \A n : ValidName(n, ListChars) => Texts(d, n) = {} \/ Waiting(ListAllMember(d), n)
    BY BeginFits
<1>2. /\ pc'[c] = "load" /\ all_nodes'[c] = ListAllMember(d) /\ doc'[c] = d
      /\ \A x \in Clients : x # c =>
            pc'[x] = pc[x] /\ all_nodes'[x] = all_nodes[x] /\ doc'[x] = doc[x]
    BY DEF LoadFromYaml, RegistryInv, RegistryTypeOK, LoadInv, LoadTypeOK
<1>3. LoadTypeOK'
    BY <1>1 DEF LoadFromYaml, LoadInv, LoadTypeOK
<1>4. Accounted(c)'
    <2> SUFFICES ASSUME NEW n, ValidName(n, ListChars)
                 PROVE  HasValue(objs[Id(n)], Texts(d, n))' \/ Waiting(ListAllMember(d), n)
        BY <1>2 DEF Accounted
    <2>1. CASE Texts(d, n) = {}
        BY <2>1 DEF HasValue
    <2>2. CASE Waiting(ListAllMember(d), n)
        BY <2>2
    <2> QED
        BY <1>1, <2>1, <2>2
<1>5. LoadFits(c)'
    <2>1. d # None
        BY RegistryAssumption
    <2> QED
        BY <1>1, <1>2, <1>4, <2>1 DEF LoadFits, Loading
<1>6. ASSUME NEW x \in Clients, x # c
      PROVE  LoadFits(x)'
    <2>1. LoadFits(x) /\ (alone'[x] <=> alone[x])
        BY DEF LoadInv, LoadFromYaml
    <2> QED
        BY <1>2, <1>6, <2>1, LoadStays DEF LoadFromYaml
<1> QED
    BY <1>3, <1>5, <1>6 DEF LoadInv

\* LoadFromYaml returns.
LEMMA ReturnLoads ==
    ASSUME RegistryInv, LoadInv, NEW c \in Clients, LoadReturn(c)
    PROVE  LoadInv'
<1>1. /\ pc'[c] = "idle" /\ doc'[c] = None
      /\ \A x \in Clients : x # c => pc'[x] = pc[x] /\ doc'[x] = doc[x]
    BY DEF LoadReturn, RegistryInv, RegistryTypeOK, LoadInv, LoadTypeOK
<1>2. alone'[c] /\ \A x \in Clients : x # c => (alone'[x] <=> alone[x])
    <2>1. alone \in [Clients -> BOOLEAN] /\ alone' = [alone EXCEPT ![c] = TRUE]
        BY DEF LoadReturn, LoadInv, LoadTypeOK
    <2> QED
        BY <2>1, Zenon
<1>3. LoadTypeOK'
    <2>1. alone' \in [Clients -> BOOLEAN]
        BY Zenon DEF LoadReturn, LoadInv, LoadTypeOK
    <2> QED
        BY <2>1 DEF LoadReturn, LoadInv, LoadTypeOK
<1>4. LoadFits(c)'
    BY <1>1, <1>2 DEF LoadFits, Loading
<1>5. ASSUME NEW x \in Clients, x # c
      PROVE  LoadFits(x)'
    <2>1. LoadFits(x)
        BY DEF LoadInv
    <2> QED
        BY <1>1, <1>2, <1>5, <2>1, LoadStays DEF LoadReturn
<1> QED
    BY <1>3, <1>4, <1>5 DEF LoadInv

\* A variable that is found, or an entry that is skipped.
LEMMA FindLoads ==
    ASSUME RegistryInv, LoadInv, NEW c \in Clients, LoadFind(c)
    PROVE  LoadInv'
<1> DEFINE list == all_nodes[c]
           key == Head(list).key
<1>1. /\ list \in Seq(LoadEntries) /\ list # <<>> /\ EntriesFit(list, doc[c])
      /\ doc[c] # None /\ (alone[c] => Accounted(c)) /\ Loading(c)
    BY DEF LoadFind, LoadInv, LoadTypeOK, LoadFits, Loading
<1>2. /\ Head(list) \in LoadEntries /\ Tail(list) \in Seq(LoadEntries)
      /\ Head(list) = list[1] /\ 1 \in 1..Len(list)
      /\ EntriesFit(Tail(list), doc[c])
      /\ \A n : Waiting(list, n) => n = key \/ Waiting(Tail(list), n)
    BY <1>1, TailFits
<1>3. key \in Seq(Words) /\ Lowered(key) = key
    <2>1. key \in Seq(Words)
        BY <1>2, EntryType
    <2>2. ValidName(key, ListChars)
        BY <1>1, <1>2 DEF EntriesFit
    <2> QED
        BY <2>1, <2>2, ListedLowered
<1>4. Registered' = Registered /\ \A n : Id(n)' = Id(n)
    BY DEF LoadFind, Registered, Id
<1>5. UNCHANGED <<s_datas, objs, doc, alone>>
    BY DEF LoadFind
<1>6. ASSUME NEW x \in Clients, x # c, pc'[x] = pc[x], all_nodes'[x] = all_nodes[x]
      PROVE  LoadFits(x)'
    <2>1. LoadFits(x)
        BY DEF LoadInv
    <2> QED
        BY <1>5, <1>6, <2>1, LoadStays
<1>7. ASSUME \A n : Waiting(list, n) => n \notin Registered \/ Waiting(all_nodes'[c], n)
      PROVE  alone'[c] => Accounted(c)'
    BY <1>1, <1>4, <1>5, <1>7 DEF Accounted
<1>8. CASE key # <<>> /\ Lowered(key) \in Registered
    <2> DEFINE new == [list EXCEPT ![1] = [key |-> @.key, node |-> @.node, var |-> Id(key)]]
    <2>1. Id(key) \in Identities /\ Id(key) \in DOMAIN objs /\ Id(key)[1] = key
        BY <1>3, <1>8 DEF RegistryInv, RegistryTypeOK, ObjectsNamed, Registered, Id, Identities
    <2>2. /\ new \in Seq(LoadEntries) /\ new # <<>>
          /\ Head(new).key = key /\ Head(new).var = Id(key)
          /\ EntriesFit(new, doc[c])
          /\ \A n : Waiting(list, n) => Waiting(new, n)
        BY <1>1, <2>1, FoundList
    <2>3. pc' = [pc EXCEPT ![c] = "apply"] /\ all_nodes' = [all_nodes EXCEPT ![c] = new]
        <3>1. /\ pc' = [pc EXCEPT ![c] = "apply"]
              /\ all_nodes' = [all_nodes EXCEPT ![c][1] =
                     [key |-> @.key, node |-> @.node, var |-> Id(Lowered(@.key))]]
            BY <1>8 DEF LoadFind
        <3>2. Id(Lowered(list[1].key)) = Id(key)
            BY <1>2, <1>3
        <3> QED
            BY <3>1, <3>2
    <2> HIDE DEF new
    <2>4. /\ pc'[c] = "apply" /\ all_nodes'[c] = new
          /\ \A x \in Clients : x # c => pc'[x] = pc[x] /\ all_nodes'[x] = all_nodes[x]
        BY <2>3 DEF RegistryInv, RegistryTypeOK, LoadInv, LoadTypeOK
    <2>5. LoadTypeOK'
        BY <1>5, <2>2, <2>3 DEF LoadInv, LoadTypeOK
    <2>6. FoundFits(c, Head(all_nodes[c]))'
        <3>1. PICK h : h = Head(new)
            OBVIOUS
        <3>2. Head(all_nodes'[c]) = h
            BY <2>4, <3>1
        <3>3. /\ h.key # <<>> /\ h.var = Id(h.key)'
              /\ h.var \in DOMAIN objs' /\ h.var[1] = h.key
            BY <1>4, <1>5, <1>8, <2>1, <2>2, <3>1
        <3> QED
            BY <3>2, <3>3 DEF FoundFits
    <2>7. alone'[c] => Accounted(c)'
        BY <1>7, <2>2, <2>4
    <2>8. LoadFits(c)'
        BY <1>1, <1>5, <2>2, <2>4, <2>6, <2>7 DEF LoadFits, Loading
    <2> QED
        BY <1>6, <2>4, <2>5, <2>8 DEF LoadInv
<1>9. CASE ~(key # <<>> /\ Lowered(key) \in Registered)
    <2>1. pc' = pc /\ all_nodes' = [all_nodes EXCEPT ![c] = Tail(list)]
        BY <1>9 DEF LoadFind
    <2>2. /\ pc'[c] = "load" /\ all_nodes'[c] = Tail(list)
          /\ \A x \in Clients : x # c => pc'[x] = pc[x] /\ all_nodes'[x] = all_nodes[x]
        BY <2>1 DEF LoadFind, LoadInv, LoadTypeOK
    <2>3. LoadTypeOK'
        BY <1>2, <1>5, <2>1 DEF LoadInv, LoadTypeOK
    <2>4. key \notin Registered
        BY <1>3, <1>9, NameWords DEF Registered
    <2>5. alone'[c] => Accounted(c)'
        BY <1>2, <1>7, <2>2, <2>4
    <2>6. LoadFits(c)'
        BY <1>1, <1>2, <1>5, <2>2, <2>5 DEF LoadFits, Loading
    <2> QED
        BY <1>6, <2>2, <2>3, <2>6 DEF LoadInv
<1> QED
    BY <1>8, <1>9

\* The variable found is set to the value of a node of the document that has
\* exactly its name, or left as it is if that does not convert.
LEMMA ApplyDoes ==
    ASSUME RegistryInv, LoadInv, NEW c \in Clients, LoadApply(c)
    PROVE  LET e   == Head(all_nodes[c])
               new == FromString(objs[e.var].type, Text(e.node))
           IN  /\ <<e.key, e.node>> \in Under(doc[c])
               /\ e.var \in DOMAIN objs /\ e.var[1] = e.key
               /\ alone[c] => e.var = Id(e.key)
               /\ \A id \in DOMAIN objs : id # e.var => objs'[id] = objs[id]
               /\ objs'[e.var].type = objs[e.var].type
               /\ new = {} => objs'[e.var] = objs[e.var]
               /\ new # {} => objs'[e.var].m_val \in new
<1> DEFINE e == Head(all_nodes[c])
           new == FromString(objs[e.var].type, Text(e.node))
<1>1. /\ all_nodes[c] \in Seq(LoadEntries) /\ all_nodes[c] # <<>>
      /\ EntriesFit(all_nodes[c], doc[c]) /\ FoundFits(c, e)
    BY DEF LoadApply, LoadInv, LoadTypeOK, LoadFits, Loading
<1>2. <<e.key, e.node>> \in Reached(doc[c]) /\ e.key # <<>>
    <2>1. e = all_nodes[c][1] /\ 1 \in 1..Len(all_nodes[c])
        BY <1>1
    <2> HIDE DEF e
    <2> QED
        BY <1>1, <2>1 DEF EntriesFit, FoundFits
<1>3. new = {} => objs' = objs
    BY DEF LoadApply
<1>4. new # {} => \E v \in new : objs' = [objs EXCEPT ![e.var].m_val = v]
    BY DEF LoadApply
<1>5. e.var \in DOMAIN objs /\ e.var[1] = e.key /\ (alone[c] => e.var = Id(e.key))
    BY <1>1 DEF FoundFits
<1> HIDE DEF e, new
<1>6. <<e.key, e.node>> \in Under(doc[c])
    BY <1>2 DEF Reached
<1>7. CASE new = {}
    BY <1>3, <1>5, <1>6, <1>7 DEF e, new
<1>8. CASE new # {}
    <2>1. PICK v \in new : objs' = [objs EXCEPT ![e.var].m_val = v]
        BY <1>4, <1>8
    <2>2. objs = [x \in DOMAIN objs |-> objs[x]]
        BY DEF RegistryInv, ObjectsNamed
    <2>3. objs'[e.var] = [objs[e.var] EXCEPT !.m_val = v]
        BY <1>5, <2>1, <2>2
    <2>4. objs[e.var] = [m_name |-> e.var[1], type |-> objs[e.var].type, m_val |-> objs[e.var].m_val]
        BY <1>5 DEF RegistryInv, ObjectsNamed
    <2>5. objs'[e.var].type = objs[e.var].type /\ objs'[e.var].m_val = v
        BY <2>3, <2>4
    <2>6. \A id \in DOMAIN objs : id # e.var => objs'[id] = objs[id]
        BY <2>1, <2>2
    <2> QED
        BY <1>5, <1>6, <1>8, <2>5, <2>6 DEF e, new
<1> QED
    BY <1>7, <1>8

\* An entry is applied: its variable has the value of a node of that name, if
\* all of them convert.
LEMMA ApplyLoads ==
    ASSUME RegistryInv, LoadInv, NEW c \in Clients, LoadApply(c)
    PROVE  LoadInv'
<1> DEFINE list == all_nodes[c]
           e == Head(list)
           new == FromString(objs[e.var].type, Text(e.node))
<1>1. /\ list \in Seq(LoadEntries) /\ list # <<>> /\ EntriesFit(list, doc[c])
      /\ doc[c] # None /\ (alone[c] => Accounted(c)) /\ Loading(c)
    BY DEF LoadApply, LoadInv, LoadTypeOK, LoadFits, Loading
<1>2. /\ Tail(list) \in Seq(LoadEntries) /\ EntriesFit(Tail(list), doc[c])
      /\ \A n : Waiting(list, n) => n = e.key \/ Waiting(Tail(list), n)
    BY <1>1, TailFits
<1>3. /\ <<e.key, e.node>> \in Under(doc[c])
      /\ e.var \in DOMAIN objs /\ e.var[1] = e.key
      /\ alone[c] => e.var = Id(e.key)
      /\ \A id \in DOMAIN objs : id # e.var => objs'[id] = objs[id]
      /\ objs'[e.var].type = objs[e.var].type
      /\ new = {} => objs'[e.var] = objs[e.var]
      /\ new # {} => objs'[e.var].m_val \in new
    BY ApplyDoes
<1>4. /\ pc'[c] = "load" /\ all_nodes'[c] = Tail(list)
      /\ \A x \in Clients : x # c => pc'[x] = pc[x] /\ all_nodes'[x] = all_nodes[x]
    BY DEF LoadApply, RegistryInv, RegistryTypeOK, LoadInv, LoadTypeOK
<1>5. UNCHANGED <<s_datas, doc>>
    BY DEF LoadApply
<1>6. Registered' = Registered /\ \A n : Id(n)' = Id(n)
    BY <1>5 DEF Registered, Id
<1>7. (new = {} /\ UNCHANGED <<objs, alone>>) \/ NotAlone(c)
    BY DEF LoadApply
<1>8. DOMAIN objs' = DOMAIN objs
    <2>1. CASE new = {}
        BY <2>1 DEF LoadApply
    <2>2. CASE new # {}
        <3>1. PICK v : objs' = [objs EXCEPT ![e.var].m_val = v]
            BY <2>2 DEF LoadApply
        <3> QED
            BY <3>1
    <2> QED
        BY <2>1, <2>2
<1>9. alone'[c] => alone[c]
    <2>1. NotAlone(c) => (alone'[c] <=> (alone[c] /\ c = c) \/ doc[c] = None)
        BY Zenon DEF NotAlone
    <2> QED
        BY <1>1, <1>7, <2>1
<1> HIDE DEF new, e, list
<1>10. LoadTypeOK'
    <2>1. alone' \in [Clients -> BOOLEAN]
        BY <1>7, NotAloneType DEF LoadInv, LoadTypeOK
    <2>2. all_nodes' \in [Clients -> Seq(LoadEntries)]
        BY <1>2 DEF LoadApply, LoadInv, LoadTypeOK, list
    <2> QED
        BY <1>5, <2>1, <2>2 DEF LoadInv, LoadTypeOK
<1>11. ASSUME alone'[c]
       PROVE  Accounted(c)'
    <2>1. Accounted(c) /\ e.var = Id(e.key)
        BY <1>1, <1>3, <1>9, <1>11
    <2> SUFFICES ASSUME NEW n \in Registered, ValidName(n, ListChars)
                 PROVE  HasValue(objs'[Id(n)], Texts(doc[c], n)) \/ Waiting(Tail(list), n)
        BY <1>4, <1>5, <1>6 DEF Accounted, HasValue
    <2>2. CASE n = e.key
        <3>1. Text(e.node) \in Texts(doc[c], n)
            <4>1. <<e.key, e.node>>[1] = n /\ <<e.key, e.node>>[2] = e.node
                BY <2>2
            <4> QED
                BY <1>3, <4>1, Zenon DEF Texts
        <3>2. new # {} => objs'[Id(n)].m_val \in FromString(objs'[Id(n)].type, Text(e.node))
            BY <1>3, <2>1, <2>2 DEF new
        <3>3. new = FromString(objs'[Id(n)].type, Text(e.node))
            BY <1>3, <2>1, <2>2 DEF new
        <3> QED
            BY <3>1, <3>2, <3>3 DEF HasValue
    <2>3. CASE n # e.key
        <3>1. Id(n) \in DOMAIN objs /\ Id(n) # e.var
            <4>1. Id(n)[1] = n /\ Id(n) \in DOMAIN objs
                BY DEF RegistryInv, ObjectsNamed, Id
            <4> QED
                BY <1>3, <2>3, <4>1
        <3>2. objs'[Id(n)] = objs[Id(n)]
            BY <1>3, <3>1
        <3>3. HasValue(objs[Id(n)], Texts(doc[c], n)) \/ Waiting(list, n)
            BY <2>1 DEF Accounted, list
        <3> QED
            BY <1>2, <2>3, <3>2, <3>3
    <2> QED
        BY <2>2, <2>3
<1>12. LoadFits(c)'
    BY <1>1, <1>2, <1>4, <1>5, <1>11 DEF LoadFits, Loading
<1>13. ASSUME NEW x \in Clients, x # c
       PROVE  LoadFits(x)'
    <2>1. LoadFits(x)
        BY DEF LoadInv
    <2>2. CASE new = {} /\ UNCHANGED <<objs, alone>>
        BY <1>4, <1>5, <1>13, <2>1, <2>2, LoadStays
    <2>3. CASE NotAlone(c)
        <3>1. doc'[x] = doc[x] /\ DOMAIN objs \subseteq DOMAIN objs'
            BY <1>5, <1>8
        <3> QED
            BY <1>4, <1>13, <2>1, <2>3, <3>1, LoadDisturbed
    <2> QED
        BY <1>7, <2>2, <2>3
<1> QED
    BY <1>10, <1>12, <1>13 DEF LoadInv

-----------------------------------------------------------------------------
\* The theorems about LoadFromYaml

\* Nobody is loading when the program starts.
LEMMA LoadInitial == Init => LoadInv
<1> SUFFICES ASSUME Init PROVE LoadInv
    OBVIOUS
<1>1. <<>> \in Seq(LoadEntries)
    OBVIOUS
<1>2. all_nodes \in [Clients -> Seq(LoadEntries)] /\ doc \in [Clients -> Docs \cup {None}]
    BY <1>1 DEF Init
<1>3. alone \in [Clients -> BOOLEAN] /\ \A c \in Clients : alone[c]
    BY Zenon DEF Init
<1>4. \A c \in Clients : LoadFits(c)
    BY <1>3 DEF Init, LoadFits, Loading
<1> QED
    BY <1>2, <1>3, <1>4 DEF LoadInv, LoadTypeOK

\* Every step preserves the invariant.
LEMMA LoadNext == RegistryInv /\ LoadInv /\ [Next]_vars => LoadInv'
<1> SUFFICES ASSUME RegistryInv, LoadInv, [Next]_vars PROVE LoadInv'
    OBVIOUS
<1>1. CASE UNCHANGED vars
    <2>1. UNCHANGED <<s_datas, objs, pc, all_nodes, doc, alone>>
        BY <1>1 DEF vars
    <2>2. LoadTypeOK'
        BY <2>1 DEF LoadInv, LoadTypeOK
    <2>3. \A x \in Clients : LoadFits(x)'
        BY <2>1, LoadStays DEF LoadInv
    <2> QED
        BY <2>2, <2>3 DEF LoadInv
<1>2. ASSUME NEW c \in Clients, Step(c)
      PROVE  LoadInv'
    <2>1. ASSUME NEW r \in 1..Len(Requests),
                 LookupFound(c, r) \/ LookupMissing(c, r) \/ Find(c, r) \/ Assign(c, r)
          PROVE  LoadInv'
        BY <2>1, OutsideStep, AssignLoads
    <2>2. CASE LookupThrow(c) \/ LookupCreate(c)
        BY <2>2, OutsideStep, CreateLoads
    <2>3. CASE \E d \in Docs : LoadFromYaml(c, d)
        BY <2>3, BeginLoads
    <2>4. CASE LoadFind(c) \/ LoadApply(c) \/ LoadReturn(c)
        BY <2>4, FindLoads, ApplyLoads, ReturnLoads
    <2>5. CASE Visit(c) \/ (\E n \in Names : VisitCall(c, n)) \/ VisitReturn(c)
        BY <2>5, OutsideStep
    <2> QED
        BY <1>2, <2>1, <2>2, <2>3, <2>4, <2>5 DEF Step
<1> QED
    BY <1>1, <1>2 DEF Next

\* The inductive invariant of LoadFromYaml (config.cpp:35-85).
THEOREM LoadInvariance == Spec => []LoadInv
<1>1. Init => RegistryInv /\ LoadInv
    BY InitRegistry, LoadInitial
<1>2. RegistryInv /\ LoadInv /\ [Next]_vars => (RegistryInv /\ LoadInv)'
    BY RegistryNext, LoadNext
<1> QED
    BY <1>1, <1>2, PTL DEF Spec

\* When LoadFromYaml (config.cpp:61) returns and nobody else has changed
\* anything meanwhile, every registered variable that the document has a node
\* for has the value of such a node, if all of them convert.
THEOREM LoadCompletes == Spec => []LoadComplete
<1>1. LoadInv => LoadComplete
    <2> SUFFICES ASSUME LoadInv, NEW c \in Clients, pc[c] = "load", all_nodes[c] = <<>>,
                        alone[c], NEW n \in Registered, ValidName(n, ListChars)
                 PROVE  HasValue(objs[Id(n)], Texts(doc[c], n))
        BY DEF LoadComplete, HasValue, Texts
    <2>1. ~Waiting(all_nodes[c], n)
        BY DEF Waiting
    <2>2. HasValue(objs[Id(n)], Texts(doc[c], n)) \/ Waiting(all_nodes[c], n)
        BY DEF LoadInv, LoadFits, Loading, Accounted
    <2> QED
        BY <2>1, <2>2
<1> QED
    BY <1>1, LoadInvariance, PTL

\* A step of LoadFromYaml that applies an entry changes a variable only to the
\* value of a node of its name.
NamedStep ==
    \A c \in Clients : pc[c] = "apply" /\ pc'[c] = "load" =>
        \A id \in DOMAIN objs :
            objs'[id] = objs[id] \/
            \E e \in Under(doc[c]) :
                e[1] = id[1] /\ objs'[id].m_val \in FromString(objs[id].type, Text(e[2]))

\* Every step is such a step.
LEMMA StepNamed == RegistryInv /\ LoadInv /\ [Next]_vars => NamedStep
<1> SUFFICES ASSUME RegistryInv, LoadInv, [Next]_vars, NEW c \in Clients,
                    pc[c] = "apply", pc'[c] = "load", NEW id \in DOMAIN objs
             PROVE  objs'[id] = objs[id] \/
                    \E e \in Under(doc[c]) :
                        e[1] = id[1] /\ objs'[id].m_val \in FromString(objs[id].type, Text(e[2]))
    BY DEF NamedStep
<1>1. LoadApply(c)
    <2>1. PICK x \in Clients : Step(x)
        BY DEF Next, vars
    <2>2. x # c => pc'[c] = pc[c]
        BY <2>1 DEF Step, LookupFound, LookupMissing, Find, Assign, LookupThrow, LookupCreate,
                    LoadFromYaml, LoadFind, LoadApply, LoadReturn, Visit, VisitCall, VisitReturn,
                    RegistryInv, RegistryTypeOK
    <2>3. Step(c)
        BY <2>1, <2>2
    <2> QED
        BY <2>3 DEF Step, LookupFound, LookupMissing, Find, Assign, LookupThrow, LookupCreate,
                    LoadFromYaml, LoadFind, LoadReturn, Visit, VisitCall, VisitReturn
<1> DEFINE e == Head(all_nodes[c])
<1>2. /\ <<e.key, e.node>> \in Under(doc[c]) /\ e.var[1] = e.key
      /\ id # e.var => objs'[id] = objs[id]
      /\ id = e.var => \/ objs'[id] = objs[id]
                       \/ objs'[id].m_val \in FromString(objs[id].type, Text(e.node))
    BY <1>1, ApplyDoes
<1> HIDE DEF e
<1>3. <<e.key, e.node>>[1] = e.key /\ <<e.key, e.node>>[2] = e.node
    OBVIOUS
<1> QED
    BY <1>2, <1>3, Zenon

\* LoadFromYaml (config.cpp:61) changes a variable only to the value of a node
\* that the document has under exactly its name.
THEOREM LoadOnlyNamed == Spec => OnlyNamed
<1>1. RegistryInv /\ LoadInv /\ [Next]_vars => [NamedStep]_vars
    BY StepNamed
<1> QED
    BY <1>1, RegistryInvariance, LoadInvariance, PTL DEF Spec, OnlyNamed, NamedStep

=============================================================================
