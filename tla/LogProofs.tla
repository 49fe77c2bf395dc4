------------------------------ MODULE LogProofs ------------------------------
(***************************************************************************)
(* Theorems about Log, for any number of loaders, clients, logger names    *)
(* and configurations: what holds however loads overlap, and what a logger *)
(* and a log statement meet as long as they do not.                        *)
(***************************************************************************)
EXTENDS Log, SequenceTheorems, WellFoundedInduction, TLAPS

-----------------------------------------------------------------------------
\* The inductive invariants

\* What the variable "logs" can be: it is empty or a configuration that parses.
Configurations == {Defines(doc) : doc \in {x \in Documents : Parses(x)}} \cup {{}}

\* Appenders that the manager's constructor, a client or the listener makes.
Appenders == {StdoutLogAppender}
             \cup {Appender(a) : a \in UNION {Range(d.appenders) : d \in AllDefines}}
Entries == [by : Clients \cup {"config"}, a : Appenders]
Objects == [name : Names, level : Levels, appenders : Seq(Entries)]

\* A loader's locals, and what d, id and added are while a definition is applied
\* and id while a logger is erased.
Applying == {"level", "clear", "add"}
Places == Applying \cup {"idle", "define", "erase", "eraseClear", "write"}
LoaderLocals == [pc : Places, new : Configurations, todo : SUBSET Names,
                 d : AllDefines \cup {<<>>}, id : Nat, added : Nat, gone : SUBSET Names]
LocalsFit(c) ==
    /\ ld[c].todo \subseteq NamesOf(ld[c].new)
    /\ NamesOf(ld[c].new) \subseteq known
    /\ ld[c].pc \in Applying =>
        /\ ld[c].d \in ld[c].new
        /\ m_loggers[ld[c].d.name] = ld[c].id /\ ld[c].id # 0
        /\ ld[c].added <= Len(ld[c].d.appenders)
    /\ ld[c].pc = "eraseClear" => ld[c].id \in 1..Len(objects)
    /\ ld[c].pc \notin {"erase", "eraseClear"} => ld[c].gone = {}

ManagerTypeOK ==
    /\ objects \in Seq(Objects)
    /\ m_loggers \in [Names -> 0..Len(objects)]
    /\ ld \in [Loaders -> LoaderLocals]
    /\ held \in [Clients -> 0..Len(objects)]
    /\ m_val \in Configurations /\ wanted \in Configurations
    /\ known \subseteq Names /\ missed \subseteq Names
    /\ NamesOf(m_val) \cup NamesOf(wanted) \subseteq known

ClientTypeOK ==
    /\ cpc \in [Clients -> {"idle", "log", "output", "skip"}]
    /\ lev \in [Clients -> DEBUG..FATAL] /\ ev \in [Clients -> DEBUG..FATAL]
    /\ fresh \in [Clients -> BOOLEAN]
    /\ disturbed \in BOOLEAN

\* Every object is registered, under its name.
Managed ==
    /\ \A i \in 1..Len(objects) : m_loggers[objects[i].name] = i
    /\ \A n \in Names : m_loggers[n] # 0 => objects[m_loggers[n]].name = n

\* It holds however loads overlap.
ManagerInv ==
    /\ ManagerTypeOK /\ ClientTypeOK /\ Managed
    /\ \A c \in Loaders : LocalsFit(c)

\* Loader c has still to apply or to erase n.
Pending(c, n) ==
    \/ n \in ld[c].todo /\ n \in Changed(m_val, ld[c].new)
    \/ ld[c].pc \in Applying /\ n = ld[c].d.name
    \/ /\ n \in Gone(m_val, ld[c].new)
       /\ \/ ld[c].todo \cap Changed(m_val, ld[c].new) # {}
          \/ ld[c].pc \in Applying
          \/ n \in ld[c].gone
          \/ ld[c].pc = "eraseClear" /\ m_loggers[n] = ld[c].id

\* The only load under way is of the last configuration; what it has done so far.
LoadFits(c) ==
    /\ wanted = ld[c].new
    /\ ld[c].gone \subseteq Gone(m_val, ld[c].new)
    /\ ld[c].pc \in {"level", "clear"} => ld[c].added = 0
    /\ ld[c].pc \in {"clear", "add"} => objects[ld[c].id].level = ld[c].d.level
    /\ ld[c].pc = "add" =>
        Configured(ld[c].d.name) = SubSeq(AppendersOf(ld[c].d), 1, ld[c].added)
    /\ ld[c].pc = "eraseClear" =>
        /\ objects[ld[c].id].level = UNKNOW
        /\ objects[ld[c].id].name \in Gone(m_val, ld[c].new)
    /\ ld[c].pc = "write" => ld[c].todo = {}

\* Every logger that is known and whose change has not been overlooked follows
\* the last configuration, or a load still has to see to it.
Applied ==
    \A n \in known :
        /\ m_loggers[n] # 0 \/ \E c \in Setting : Pending(c, n)
        /\ n \in missed \/ Follows(n) \/ \E c \in Setting : Pending(c, n)

\* Without a load the value of the variable is what was loaded last, but for
\* what operator== overlooks.
Settled ==
    Setting = {} =>
        /\ SameSet(wanted, m_val)
        /\ \A n \in NamesOf(wanted) \ missed : Find(wanted, n) = Find(m_val, n)

\* It holds until two loads overlap.
LoadInv ==
    disturbed \/ /\ \A b, c \in Setting : b = c
                 /\ \A c \in Setting : LoadFits(c)
                 /\ \A n \in NamesOf(m_val) : m_loggers[n] # 0
                 /\ Applied /\ Settled /\ NoMixture

\* A log statement that no load overlaps has seen the level the logger still has.
StatementFit(t) ==
    cpc[t] # "idle" /\ fresh[t] =>
        /\ Setting = {} /\ held[t] # 0
        /\ cpc[t] = "output" => lev[t] >= objects[held[t]].level
        /\ cpc[t] = "skip" => lev[t] < objects[held[t]].level
StatementFits == \A t \in Clients : StatementFit(t)

LogProofInv == ManagerInv /\ LoadInv /\ StatementFits

-----------------------------------------------------------------------------
\* Induction, and the sequences a selection gives

\* Less-than on the natural numbers is well-founded.
LEMMA NatWF == IsWellFoundedOn(OpToRel(<, Nat), Nat)
BY NatLessThanWellFounded, Zenon

\* A set that has 0 and the successor of each of its numbers has all of them.
LEMMA NatSet ==
    ASSUME NEW S, 0 \in S, \A n \in Nat : n \in S => n + 1 \in S
    PROVE  Nat \subseteq S
<1> SUFFICES ASSUME Nat \ S # {} PROVE FALSE
  OBVIOUS
<1> DEFINE T == Nat \ S
<1>1. PICK x \in T : \A y \in T : ~(<<y, x>> \in OpToRel(<, Nat))
  <2>1. T \subseteq Nat /\ T # {}
    OBVIOUS
  <2> HIDE DEF T
  <2> QED
    BY <2>1, NatWF, WFMin, Zenon
<1>2. x # 0 /\ x - 1 \in Nat
  OBVIOUS
<1>3. x - 1 \in S
  <2>1. x - 1 < x
    BY <1>2
  <2>2. <<x - 1, x>> \in OpToRel(<, Nat)
    BY <1>2, <2>1, Zenon DEF OpToRel
  <2> QED
    BY <1>1, <1>2, <2>2, Zenon
<1> QED
  BY <1>2, <1>3

\* A set that has the empty sequence and with a sequence those that are one
\* longer has all of them.
LEMMA SeqSet ==
    ASSUME NEW T, NEW Z, <<>> \in Z,
           \A s \in Seq(T) : \A e \in T : s \in Z => Append(s, e) \in Z
    PROVE  Seq(T) \subseteq Z
<1> DEFINE L == {n \in Nat : \A s \in Seq(T) : Len(s) = n => s \in Z}
<1>1. 0 \in L
  <2>1. \A s \in Seq(T) : Len(s) = 0 => s = <<>>
    OBVIOUS
  <2> QED
    BY <2>1
<1>2. ASSUME NEW n \in Nat, n \in L
      PROVE  n + 1 \in L
  <2>1. SUFFICES ASSUME NEW s \in Seq(T), Len(s) = n + 1
                 PROVE  s \in Z
    BY <1>2
  <2>2. SubSeq(s, 1, n) \in Seq(T) /\ Len(SubSeq(s, 1, n)) = n /\ s[n + 1] \in T
    BY <2>1
  <2>3. s = Append(SubSeq(s, 1, n), s[n + 1])
    BY <2>1, <2>2
  <2> QED
    BY <1>2, <2>2, <2>3
<1>3. Nat \subseteq L
  <2> HIDE DEF L
  <2> QED
    BY <1>1, <1>2, NatSet
<1> QED
  BY <1>3

\* The recursion in Selected has a solution.
LEMMA SelectedRun ==
    ASSUME NEW T, NEW s \in Seq(T), NEW S
    PROVE  \E F : /\ F[0] = <<>>
                  /\ \A k \in 1..Len(s) :
                        F[k] = IF s[k] \in S THEN Append(F[k - 1], s[k]) ELSE F[k - 1]
                  /\ Selected(s, S) = F[Len(s)]
<1> DEFINE Step(F, k) == IF k = 0 THEN <<>>
                         ELSE IF s[k] \in S THEN Append(F[k - 1], s[k]) ELSE F[k - 1]
           L == {m \in Nat : \E F : F = [k \in 0..m |-> Step(F, k)]}
<1>1. 0 \in L
  <2>1. LET F == [k \in 0..0 |-> <<>>] IN F = [k \in 0..0 |-> Step(F, k)]
    OBVIOUS
  <2> QED
    BY <2>1
<1>2. ASSUME NEW m \in Nat, m \in L
      PROVE  m + 1 \in L
  <2>1. PICK F : F = [k \in 0..m |-> Step(F, k)]
    BY <1>2
  <2> DEFINE G == [k \in 0..(m + 1) |-> IF k = m + 1 THEN Step(F, m + 1) ELSE F[k]]
  <2>2. \A k \in 0..(m + 1) : G[k] = Step(G, k)
    <3> SUFFICES ASSUME NEW k \in 0..(m + 1) PROVE G[k] = Step(G, k)
      OBVIOUS
    <3>1. CASE k = m + 1
      BY <3>1, <2>1
    <3>2. CASE k # m + 1
      <4>1. k \in 0..m /\ G[k] = F[k]
        BY <3>2
      <4>2. F[k] = Step(F, k)
        BY <4>1, <2>1
      <4>3. k # 0 => G[k - 1] = F[k - 1]
        BY <4>1
      <4> QED
        BY <4>1, <4>2, <4>3
    <3> QED
      BY <3>1, <3>2
  <2>3. G = [k \in 0..(m + 1) |-> G[k]]
    OBVIOUS
  <2>4. G = [k \in 0..(m + 1) |-> Step(G, k)]
    <3> HIDE DEF Step, G
    <3> QED
      BY <2>2, <2>3
  <2> HIDE DEF Step, G
  <2> QED
    BY <2>4
<1>3. Nat \subseteq L
  <2> HIDE DEF L
  <2> QED
    BY <1>1, <1>2, NatSet
<1>4. \E F : F = [k \in 0..Len(s) |-> Step(F, k)]
  BY <1>3
<1> DEFINE Sel[k \in 0..Len(s)] ==
               IF k = 0 THEN <<>>
               ELSE IF s[k] \in S THEN Append(Sel[k - 1], s[k]) ELSE Sel[k - 1]
<1>5. Sel = CHOOSE F : F = [k \in 0..Len(s) |-> Step(F, k)]
  BY DEF Sel
<1>6. Selected(s, S) = Sel[Len(s)]
  BY DEF Selected
<1> HIDE DEF Sel
<1>7. Sel = [k \in 0..Len(s) |-> Step(Sel, k)]
  BY <1>4, <1>5
<1>8. \A k \in 0..Len(s) : Sel[k] = Step(Sel, k)
  <2> HIDE DEF Step
  <2> QED
    BY <1>7
<1>9. \A k \in 1..Len(s) : k # 0 /\ k \in 0..Len(s)
  OBVIOUS
<1>10. 0 \in 0..Len(s)
  OBVIOUS
<1> QED
  BY <1>6, <1>8, <1>9, <1>10

\* What is selected from nothing, and from one entry more.
LEMMA SelectedEmpty ==
    ASSUME NEW S
    PROVE  Selected(<<>>, S) = <<>>
<1>1. ASSUME NEW s \in Seq(Nat), Len(s) = 0
      PROVE  Selected(s, S) = <<>>
  <2>1. PICK F : /\ F[0] = <<>>
                 /\ \A k \in 1..Len(s) :
                      F[k] = IF s[k] \in S THEN Append(F[k - 1], s[k]) ELSE F[k - 1]
                 /\ Selected(s, S) = F[Len(s)]
    BY SelectedRun
  <2> QED
    BY <1>1, <2>1
<1>2. <<>> \in Seq(Nat) /\ Len(<<>>) = 0
  OBVIOUS
<1> QED
  BY <1>1, <1>2, Zenon

\* Selecting from a sequence that is one longer.
LEMMA SelectedAppend ==
    ASSUME NEW T, NEW s \in Seq(T), NEW e \in T, NEW S
    PROVE  Selected(Append(s, e), S) =
               IF e \in S THEN Append(Selected(s, S), e) ELSE Selected(s, S)
<1> DEFINE r == Append(s, e)
<1>1. PICK F : /\ F[0] = <<>>
               /\ \A k \in 1..Len(s) :
                    F[k] = IF s[k] \in S THEN Append(F[k - 1], s[k]) ELSE F[k - 1]
               /\ Selected(s, S) = F[Len(s)]
  BY SelectedRun
<1>2. /\ r \in Seq(T) /\ Len(r) = Len(s) + 1 /\ Len(s) \in Nat
      /\ r[Len(s) + 1] = e /\ \A k \in 1..Len(s) : r[k] = s[k]
  OBVIOUS
<1> HIDE DEF r
<1>3. PICK G : /\ G[0] = <<>>
               /\ \A k \in 1..Len(r) :
                    G[k] = IF r[k] \in S THEN Append(G[k - 1], r[k]) ELSE G[k - 1]
               /\ Selected(r, S) = G[Len(r)]
  BY <1>2, SelectedRun
<1> DEFINE L == {k \in Nat : k <= Len(s) => F[k] = G[k]}
<1>4. 0 \in L
  BY <1>1, <1>2, <1>3
<1>5. ASSUME NEW k \in Nat, k \in L
      PROVE  k + 1 \in L
  <2> SUFFICES ASSUME k + 1 <= Len(s) PROVE F[k + 1] = G[k + 1]
    OBVIOUS
  <2>1. F[k] = G[k] /\ r[k + 1] = s[k + 1]
    BY <1>2, <1>5
  <2>2. F[k + 1] = IF s[k + 1] \in S THEN Append(F[k], s[k + 1]) ELSE F[k]
    BY <1>1, <1>2
  <2>3. G[k + 1] = IF r[k + 1] \in S THEN Append(G[k], r[k + 1]) ELSE G[k]
    BY <1>3, <1>2
  <2> QED
    BY <2>1, <2>2, <2>3
<1>6. F[Len(s)] = G[Len(s)]
  <2>1. Nat \subseteq L
    <3> HIDE DEF L
    <3> QED
      BY <1>4, <1>5, NatSet
  <2> QED
    BY <1>2, <2>1
<1>7. G[Len(r)] = IF e \in S THEN Append(G[Len(s)], e) ELSE G[Len(s)]
  BY <1>2, <1>3
<1> QED
  BY <1>1, <1>3, <1>6, <1>7 DEF r

\* A selection is a sequence of members of T that are in S.
LEMMA SelectedType ==
    ASSUME NEW T, NEW S, NEW s \in Seq(T)
    PROVE  Selected(s, S) \in Seq(T \cap S)
<1> DEFINE Z == {r \in Seq(T) : Selected(r, S) \in Seq(T \cap S)}
<1>1. <<>> \in Z
  <2>1. <<>> \in Seq(T) /\ <<>> \in Seq(T \cap S)
    OBVIOUS
  <2> QED
    BY <2>1, SelectedEmpty, Zenon
<1>2. ASSUME NEW r \in Seq(T), NEW e \in T, r \in Z
      PROVE  Append(r, e) \in Z
  <2>1. Selected(Append(r, e), S) =
            IF e \in S THEN Append(Selected(r, S), e) ELSE Selected(r, S)
    BY SelectedAppend
  <2>2. Selected(r, S) \in Seq(T \cap S) /\ Append(r, e) \in Seq(T)
    BY <1>2
  <2>3. Selected(Append(r, e), S) \in Seq(T \cap S)
    <3>1. CASE e \in S
      <4>1. Selected(Append(r, e), S) = Append(Selected(r, S), e) /\ e \in T \cap S
        BY <2>1, <3>1, Zenon
      <4> QED
        BY <2>2, <4>1
    <3>2. CASE e \notin S
      BY <2>1, <2>2, <3>2, Zenon
    <3> QED
      BY <3>1, <3>2
  <2> QED
    BY <2>2, <2>3
<1>3. Seq(T) \subseteq Z
  <2> HIDE DEF Z
  <2> QED
    BY <1>1, <1>2, SeqSet
<1> QED
  BY <1>3

\* Only what S says of the members of the sequence matters.
LEMMA SelectedAgree ==
    ASSUME NEW T, NEW s \in Seq(T), NEW S, NEW R,
           \A e \in T : e \in S <=> e \in R
    PROVE  Selected(s, S) = Selected(s, R)
<1> DEFINE Z == {r \in Seq(T) : Selected(r, S) = Selected(r, R)}
<1>1. <<>> \in Z
  <2>1. Selected(<<>>, S) = <<>> /\ Selected(<<>>, R) = <<>>
    BY SelectedEmpty
  <2> QED
    BY <2>1
<1>2. ASSUME NEW r \in Seq(T), NEW e \in T, r \in Z
      PROVE  Append(r, e) \in Z
  <2>1. /\ Selected(Append(r, e), S) =
               IF e \in S THEN Append(Selected(r, S), e) ELSE Selected(r, S)
        /\ Selected(Append(r, e), R) =
               IF e \in R THEN Append(Selected(r, R), e) ELSE Selected(r, R)
    BY SelectedAppend
  <2>2. Selected(r, S) = Selected(r, R) /\ Append(r, e) \in Seq(T)
    BY <1>2
  <2>3. Selected(Append(r, e), S) = Selected(Append(r, e), R)
    <3>1. e \in S <=> e \in R
      OBVIOUS
    <3>2. CASE e \in S
      BY <2>1, <2>2, <3>1, <3>2, Zenon
    <3>3. CASE e \notin S
      BY <2>1, <2>2, <3>1, <3>3, Zenon
    <3> QED
      BY <3>2, <3>3
  <2> QED
    BY <2>2, <2>3, Zenon
<1>3. Seq(T) \subseteq Z
  <2> HIDE DEF Z
  <2> QED
    BY <1>1, <1>2, SeqSet
<1> QED
  BY <1>3

\* The members of the sequence may be told from their type alone.
LEMMA SelectedRange ==
    ASSUME NEW T, NEW s \in Seq(T), NEW S
    PROVE  Selected(s, S \cap Range(s)) = Selected(s, S)
<1>1. s \in Seq(Range(s))
  BY DEF Range
<1> QED
  BY <1>1, SelectedAgree

\* Where everything is in S, everything is selected.
LEMMA SelectedAll ==
    ASSUME NEW T, NEW s \in Seq(T)
    PROVE  Selected(s, T) = s
<1> DEFINE Z == {r \in Seq(T) : Selected(r, T) = r}
<1>1. <<>> \in Z
  BY SelectedEmpty
<1>2. ASSUME NEW r \in Seq(T), NEW e \in T, r \in Z
      PROVE  Append(r, e) \in Z
  BY <1>2, SelectedAppend
<1>3. Seq(T) \subseteq Z
  <2> HIDE DEF Z
  <2> QED
    BY <1>1, <1>2, SeqSet
<1> QED
  BY <1>3

\* A selection goes through a concatenation part by part.
LEMMA SelectedConcat ==
    ASSUME NEW T, NEW S, NEW s \in Seq(T), NEW t \in Seq(T)
    PROVE  Selected(s \o t, S) = Selected(s, S) \o Selected(t, S)
<1> DEFINE Z == {r \in Seq(T) : Selected(s \o r, S) = Selected(s, S) \o Selected(r, S)}
<1>1. <<>> \in Z
  <2>1. <<>> \in Seq(T) /\ Selected(s, S) \in Seq(T \cap S)
    BY SelectedType
  <2>2. s \o <<>> = s /\ Selected(s, S) \o <<>> = Selected(s, S)
    BY <2>1, ConcatEmptySeq
  <2> QED
    BY <2>1, <2>2, SelectedEmpty, Zenon
<1>2. ASSUME NEW r \in Seq(T), NEW e \in T, r \in Z
      PROVE  Append(r, e) \in Z
  <2>1. s \o Append(r, e) = Append(s \o r, e) /\ s \o r \in Seq(T)
    OBVIOUS
  <2>2. Selected(s \o Append(r, e), S) =
            IF e \in S THEN Append(Selected(s \o r, S), e) ELSE Selected(s \o r, S)
    BY <2>1, SelectedAppend
  <2>3. Selected(Append(r, e), S) =
            IF e \in S THEN Append(Selected(r, S), e) ELSE Selected(r, S)
    BY SelectedAppend
  <2>4. ASSUME e \in S
        PROVE  Selected(s \o Append(r, e), S) = Selected(s, S) \o Selected(Append(r, e), S)
    <3> DEFINE x == Selected(s, S)
               y == Selected(r, S)
    <3>1. x \in Seq(T \cap S) /\ y \in Seq(T \cap S) /\ e \in T \cap S
      BY <2>4, SelectedType
    <3>2. Selected(s \o r, S) = x \o y
      BY <1>2
    <3> HIDE DEF x, y
    <3>3. Append(x \o y, e) = x \o Append(y, e)
      <4>1. x \o y \in Seq(T \cap S) /\ <<e>> \in Seq(T \cap S)
        BY <3>1
      <4>2. Append(x \o y, e) = (x \o y) \o <<e>>
        BY <3>1, <4>1, AppendIsConcat
      <4>3. Append(y, e) = y \o <<e>>
        BY <3>1, AppendIsConcat
      <4> QED
        BY <3>1, <4>1, <4>2, <4>3, ConcatAssociative
    <3>4. Selected(s \o Append(r, e), S) = Append(x \o y, e)
      BY <2>2, <2>4, <3>2, Zenon
    <3>5. Selected(Append(r, e), S) = Append(y, e)
      BY <2>3, <2>4, Zenon DEF y
    <3> QED
      BY <3>3, <3>4, <3>5, Zenon DEF x
  <2>5. ASSUME e \notin S
        PROVE  Selected(s \o Append(r, e), S) = Selected(s, S) \o Selected(Append(r, e), S)
    BY <1>2, <2>2, <2>3, <2>5, Zenon
  <2>6. Append(r, e) \in Seq(T)
    OBVIOUS
  <2> QED
    BY <2>4, <2>5, <2>6, Zenon
<1>3. Seq(T) \subseteq Z
  <2> HIDE DEF Z
  <2> QED
    BY <1>1, <1>2, SeqSet
<1> QED
  BY <1>3

\* An entry that is not selected may be taken out before.
LEMMA SelectedRemove ==
    ASSUME NEW T, NEW s \in Seq(T), NEW S, NEW i \in 1..Len(s), s[i] \notin S
    PROVE  /\ RemoveAt(s, i) \in Seq(T)
           /\ Selected(RemoveAt(s, i), S) = Selected(s, S)
<1> DEFINE a == SubSeq(s, 1, i - 1)
           b == SubSeq(s, i + 1, Len(s))
<1>1. a \in Seq(T) /\ b \in Seq(T) /\ s[i] \in T
  OBVIOUS
<1>2. SubSeq(s, 1, i) = Append(a, s[i])
  BY SubSeqRecursiveSecond
<1>3. s = SubSeq(s, 1, i) \o b
  <2>1. s = SubSeq(s, 1, Len(s))
    OBVIOUS
  <2>2. SubSeq(s, 1, i) \o b = SubSeq(s, 1, Len(s))
    BY ConcatAdjacentSubSeq
  <2> QED
    BY <2>1, <2>2
<1>4. RemoveAt(s, i) = a \o b
  BY DEF RemoveAt
<1> HIDE DEF a, b
<1> DEFINE c == Append(a, s[i])
<1>5. c \in Seq(T) /\ Selected(c, S) = Selected(a, S)
  BY <1>1, SelectedAppend
<1>6. s = c \o b
  BY <1>2, <1>3, AppendIsConcat
<1> HIDE DEF c
<1>7. Selected(c \o b, S) = Selected(c, S) \o Selected(b, S)
  BY <1>1, <1>5, SelectedConcat
<1>8. a \o b \in Seq(T) /\ Selected(a \o b, S) = Selected(a, S) \o Selected(b, S)
  BY <1>1, SelectedConcat
<1> QED
  BY <1>4, <1>5, <1>6, <1>7, <1>8

-----------------------------------------------------------------------------
\* The appenders of a logger that come from the configuration

Configs == {e \in Entries : e.by = "config"}

\* FromConfig with a selection that does not depend on the logger.
LEMMA FromConfigDef ==
    ASSUME NEW s \in Seq(Entries)
    PROVE  /\ Selected(s, Configs) \in Seq(Entries)
           /\ FromConfig(s) = [k \in DOMAIN Selected(s, Configs) |-> Selected(s, Configs)[k].a]
<1>1. {e \in Range(s) : e.by = "config"} = Configs \cap Range(s)
  BY DEF Range, Configs
<1>2. From("config", s) = Selected(s, Configs)
  BY <1>1, SelectedRange DEF From
<1>3. Selected(s, Configs) \in Seq(Entries)
  <2>1. Selected(s, Configs) \in Seq(Entries \cap Configs)
    BY SelectedType
  <2>2. Entries \cap Configs \subseteq Entries
    OBVIOUS
  <2> QED
    BY <2>1, <2>2, SeqMonotonic
<1> QED
  BY <1>2, <1>3 DEF FromConfig

\* The appenders a logger has from the configuration are appenders.
LEMMA FromConfigType ==
    ASSUME NEW s \in Seq(Entries)
    PROVE  FromConfig(s) \in Seq(Appenders)
<1> DEFINE r == Selected(s, Configs)
<1>1. r \in Seq(Entries) /\ FromConfig(s) = [k \in DOMAIN r |-> r[k].a]
  BY FromConfigDef
<1> HIDE DEF r
<1>2. \A k \in 1..Len(r) : r[k].a \in Appenders
  <2>1. \A k \in 1..Len(r) : r[k] \in Entries
    BY <1>1
  <2> QED
    BY <2>1 DEF Entries
<1>3. DOMAIN r = 1..Len(r) /\ Len(r) \in Nat
  BY <1>1
<1> QED
  BY <1>1, <1>2, <1>3, IsASeq

\* A new logger has none.
LEMMA FromConfigEmpty == FromConfig(<<>>) = <<>>
<1>1. ASSUME NEW s \in Seq(Entries), Selected(s, Configs) = <<>>
      PROVE  FromConfig(s) = <<>>
  <2>1. FromConfig(s) = [k \in DOMAIN <<>> |-> <<>>[k].a]
    BY <1>1, FromConfigDef, Zenon
  <2> QED
    BY <2>1
<1>2. <<>> \in Seq(Entries)
  OBVIOUS
<1> QED
  BY <1>1, <1>2, SelectedEmpty, Zenon

\* addAppender adds one if it is the listener that calls it.
LEMMA FromConfigAppend ==
    ASSUME NEW s \in Seq(Entries), NEW e \in Entries
    PROVE  FromConfig(Append(s, e)) =
               IF e.by = "config" THEN Append(FromConfig(s), e.a) ELSE FromConfig(s)
<1> DEFINE r == Selected(s, Configs)
           q == Selected(Append(s, e), Configs)
<1>1. r \in Seq(Entries) /\ FromConfig(s) = [k \in DOMAIN r |-> r[k].a]
  BY FromConfigDef
<1>2. Append(s, e) \in Seq(Entries)
  OBVIOUS
<1>3. FromConfig(Append(s, e)) = [k \in DOMAIN q |-> q[k].a]
  BY <1>2, FromConfigDef
<1>4. q = IF e \in Configs THEN Append(r, e) ELSE r
  BY SelectedAppend
<1>5. e \in Configs <=> e.by = "config"
  BY DEF Configs
<1> HIDE DEF r, q
<1>6. CASE e.by = "config"
  <2>1. q = Append(r, e)
    BY <1>4, <1>5, <1>6
  <2>2. /\ DOMAIN q = 1..(Len(r) + 1) /\ DOMAIN r = 1..Len(r) /\ Len(r) \in Nat
        /\ q[Len(r) + 1] = e /\ \A k \in 1..Len(r) : q[k] = r[k]
    BY <1>1, <2>1
  <2> DEFINE f == FromConfig(s)
             g == [k \in 1..(Len(r) + 1) |-> q[k].a]
  <2>3. f \in Seq(Appenders) /\ Len(f) = Len(r) /\ \A k \in 1..Len(r) : f[k] = r[k].a
    <3>1. f = [k \in 1..Len(r) |-> r[k].a]
      BY <1>1, <2>2
    <3>2. f \in Seq(Appenders)
      BY FromConfigType
    <3> QED
      BY <2>2, <3>1, <3>2
  <2>4. e.a \in Appenders
    BY DEF Entries
  <2>5. /\ Append(f, e.a) \in Seq(Appenders) /\ Len(Append(f, e.a)) = Len(r) + 1
        /\ Append(f, e.a)[Len(r) + 1] = e.a
        /\ \A k \in 1..Len(r) : Append(f, e.a)[k] = r[k].a
    <3> HIDE DEF f
    <3> QED
      BY <2>3, <2>4, AppendProperties
  <2>6. FromConfig(Append(s, e)) = g
    BY <1>3, <2>2
  <2>7. g = Append(f, e.a)
    <3> DEFINE h == Append(f, e.a)
    <3>1. DOMAIN h = 1..(Len(r) + 1) /\ h = [k \in DOMAIN h |-> h[k]]
      BY <2>5
    <3>2. \A k \in 1..(Len(r) + 1) : h[k] = q[k].a
      BY <2>2, <2>5
    <3> HIDE DEF h
    <3>3. h = g
      BY <3>1, <3>2
    <3> QED
      BY <3>3 DEF h
  <2> QED
    BY <1>6, <2>6, <2>7, Zenon
<1>7. CASE e.by # "config"
  BY <1>1, <1>3, <1>4, <1>5, <1>7
<1> QED
  BY <1>6, <1>7

\* delAppender leaves them if a client calls it.
LEMMA FromConfigRemove ==
    ASSUME NEW s \in Seq(Entries), NEW e \in Entries, e.by # "config"
    PROVE  /\ RemoveFirst(s, e) \in Seq(Entries)
           /\ FromConfig(RemoveFirst(s, e)) = FromConfig(s)
<1>1. CASE \E i \in 1..Len(s) : s[i] = e
  <2> DEFINE I == {i \in 1..Len(s) : s[i] = e}
             m == Min(I)
  <2>1. m \in I
    <3>1. I \subseteq Nat /\ I # {}
      BY <1>1
    <3> HIDE DEF I
    <3>2. PICK x \in I : \A y \in I : ~(<<y, x>> \in OpToRel(<, Nat))
      BY <3>1, NatWF, WFMin, Zenon
    <3>3. \A y \in I : ~(y < x)
      BY <3>1, <3>2, Zenon DEF OpToRel
    <3>4. \A y \in I : x =< y
      BY <3>1, <3>3
    <3> QED
      BY <3>4 DEF Min
  <2>2. RemoveFirst(s, e) = RemoveAt(s, m)
    BY <1>1, <2>1 DEF RemoveFirst, SelectInSeq
  <2>3. m \in 1..Len(s) /\ s[m] = e
    BY <2>1
  <2> HIDE DEF m
  <2>4. s[m] \notin Configs
    BY <2>3 DEF Configs
  <2>5. RemoveAt(s, m) \in Seq(Entries)
        /\ Selected(RemoveAt(s, m), Configs) = Selected(s, Configs)
    BY <2>3, <2>4, SelectedRemove
  <2>6. FromConfig(RemoveAt(s, m)) = FromConfig(s)
    <3> DEFINE r == RemoveAt(s, m)
    <3> HIDE DEF r
    <3>1. ASSUME NEW q \in Seq(Entries), Selected(q, Configs) = Selected(s, Configs)
          PROVE  FromConfig(q) = FromConfig(s)
      BY <3>1, FromConfigDef, Zenon
    <3> QED
      BY <2>5, <3>1, Zenon
  <2> QED
    BY <2>2, <2>5, <2>6
<1>2. CASE ~\E i \in 1..Len(s) : s[i] = e
  BY <1>2 DEF RemoveFirst
<1> QED
  BY <1>1, <1>2

\* The tests of the appenders' levels and the origins of the appenders may be
\* looked at in either order.
LEMMA FromConfigSelected ==
    ASSUME NEW l \in Nat, NEW s \in Seq(Entries),
           \A x \in Appenders : x.level \in Nat
    PROVE  FromConfig(Selected(s, {e \in Range(s) : l >= e.a.level})) =
               Selected(FromConfig(s), {x \in Range(FromConfig(s)) : x.level <= l})
<1> DEFINE E == {e \in Entries : l >= e.a.level}
           A == {x \in Appenders : x.level <= l}
           Z == {r \in Seq(Entries) : FromConfig(Selected(r, E)) = Selected(FromConfig(r), A)}
<1>1. <<>> \in Z
  <2>1. <<>> \in Seq(Entries)
    OBVIOUS
  <2> QED
    BY <2>1, SelectedEmpty, FromConfigEmpty, Zenon
<1>2. ASSUME NEW r \in Seq(Entries), NEW e \in Entries, r \in Z
      PROVE  Append(r, e) \in Z
  <2> DEFINE f == FromConfig(r)
             q == Selected(r, E)
  <2>1. f \in Seq(Appenders) /\ e.a \in Appenders /\ Append(r, e) \in Seq(Entries)
    <3>1. f \in Seq(Appenders)
      BY FromConfigType
    <3>2. e.a \in Appenders
      BY DEF Entries
    <3>3. Append(r, e) \in Seq(Entries)
      OBVIOUS
    <3> QED
      BY <3>1, <3>2, <3>3
  <2>2. q \in Seq(Entries) /\ FromConfig(q) = Selected(f, A)
    <3>1. q \in Seq(Entries \cap E)
      BY SelectedType
    <3>2. Entries \cap E \subseteq Entries
      OBVIOUS
    <3> HIDE DEF q
    <3>3. q \in Seq(Entries)
      BY <3>1, <3>2, SeqMonotonic
    <3> QED
      BY <1>2, <3>3 DEF q
  <2>3. Selected(Append(r, e), E) = IF e \in E THEN Append(q, e) ELSE q
    BY SelectedAppend
  <2>4. FromConfig(Append(r, e)) = IF e.by = "config" THEN Append(f, e.a) ELSE f
    BY FromConfigAppend
  <2>5. FromConfig(Append(q, e)) =
            IF e.by = "config" THEN Append(FromConfig(q), e.a) ELSE FromConfig(q)
    BY <2>2, FromConfigAppend
  <2>6. e \in E <=> e.a \in A
    <3>1. e.a.level \in Nat
      BY <2>1
    <3> QED
      BY <2>1, <3>1
  <2>7. Selected(Append(f, e.a), A) = IF e.a \in A THEN Append(Selected(f, A), e.a)
                                                   ELSE Selected(f, A)
    <3> HIDE DEF A, f
    <3>1. \A g \in Seq(Appenders) : \A x \in Appenders :
            Selected(Append(g, x), A) = IF x \in A THEN Append(Selected(g, A), x)
                                                   ELSE Selected(g, A)
      BY SelectedAppend
    <3> QED
      BY <2>1, <3>1, Zenon
  <2> HIDE DEF E, A, f, q
  <2>8. FromConfig(Selected(Append(r, e), E)) = Selected(FromConfig(Append(r, e)), A)
    <3>1. CASE e \in E /\ e.by = "config"
      BY <2>2, <2>3, <2>4, <2>5, <2>6, <2>7, <3>1, Zenon
    <3>2. CASE e \notin E /\ e.by = "config"
      BY <2>2, <2>3, <2>4, <2>5, <2>6, <2>7, <3>2, Zenon
    <3>3. CASE e \in E /\ e.by # "config"
      BY <2>2, <2>3, <2>4, <2>5, <2>6, <2>7, <3>3, Zenon
    <3>4. CASE e \notin E /\ e.by # "config"
      BY <2>2, <2>3, <2>4, <2>5, <2>6, <2>7, <3>4, Zenon
    <3> QED
      BY <3>1, <3>2, <3>3, <3>4
  <2> QED
    BY <2>1, <2>8
<1>3. Seq(Entries) \subseteq Z
  <2> HIDE DEF Z
  <2> QED
    BY <1>1, <1>2, SeqSet
<1>4. Selected(s, {e \in Range(s) : l >= e.a.level}) = Selected(s, E)
  <2>1. {e \in Range(s) : l >= e.a.level} = E \cap Range(s)
    BY DEF Range
  <2> QED
    BY <2>1, SelectedRange
<1>5. Selected(FromConfig(s), {x \in Range(FromConfig(s)) : x.level <= l})
          = Selected(FromConfig(s), A)
  <2> DEFINE f == FromConfig(s)
  <2>1. f \in Seq(Appenders)
    BY FromConfigType
  <2> HIDE DEF f
  <2>2. {x \in Range(f) : x.level <= l} = A \cap Range(f)
    BY <2>1 DEF Range
  <2> HIDE DEF A
  <2> QED
    BY <2>1, <2>2, SelectedRange DEF f
<1> QED
  BY <1>3, <1>4, <1>5

-----------------------------------------------------------------------------
\* Definitions

\* LevelFromString: always a level.
LEMMA LevelFromStringType == \A str : LevelFromString(str) \in Levels
<1> TAKE str
<1> DEFINE Fits(l) == str \in Initial[l]
<1>1. CASE \E l \in DEBUG..FATAL : Fits(l)
  <2>1. LevelFromString(str) = CHOOSE l \in DEBUG..FATAL : Fits(l)
    BY <1>1, Zenon DEF LevelFromString
  <2> HIDE DEF Fits
  <2>2. LevelFromString(str) \in DEBUG..FATAL
    BY <1>1, <2>1
  <2> QED
    BY <2>2 DEF Levels, DEBUG, FATAL, UNKNOW
<1>2. CASE ~\E l \in DEBUG..FATAL : Fits(l)
  <2>1. LevelFromString(str) = UNKNOW
    BY <1>2, Zenon DEF LevelFromString
  <2> QED
    BY <2>1 DEF Levels, FATAL, UNKNOW
<1> QED
  BY <1>1, <1>2

\* A definition read from a node has as many appenders as the node has that are
\* not skipped, each made of one of them.
LEMMA LogDefineShape ==
    ASSUME NEW node, node.appenders \in Seq(Range(node.appenders))
    PROVE  LET d == LogDefineOf(node) IN
           /\ d.name = node.name /\ d.level \in Levels
           /\ d = [name |-> d.name, level |-> d.level, appenders |-> d.appenders]
           /\ Len(d.appenders) \in Nat /\ DOMAIN d.appenders = 1..Len(d.appenders)
           /\ d.appenders = [k \in 1..Len(d.appenders) |-> d.appenders[k]]
           /\ \A k \in 1..Len(d.appenders) :
                \E n : Accepted(n) /\ d.appenders[k] = LogAppenderDefine(n)
<1> DEFINE R == Range(node.appenders)
           A == {n \in R : Accepted(n)}
           kept == Selected(node.appenders, A)
           d == LogDefineOf(node)
           f == [k \in DOMAIN kept |-> LogAppenderDefine(kept[k])]
<1>1. d = [name |-> node.name, level |-> LevelFromString(Present(node.level)),
           appenders |-> f]
  BY Zenon DEF LogDefineOf
<1>2. kept \in Seq(A)
  <2> HIDE DEF R
  <2>1. kept \in Seq(R \cap A)
    BY SelectedType DEF R
  <2>2. R \cap A = A
    OBVIOUS
  <2> HIDE DEF kept, A
  <2> QED
    BY <2>1, <2>2
<1> HIDE DEF d, kept
<1>3. d.name = node.name /\ d.level \in Levels /\ d.appenders = f
      /\ d = [name |-> d.name, level |-> d.level, appenders |-> d.appenders]
  <2> HIDE DEF f
  <2> QED
    BY <1>1, LevelFromStringType
<1>4. \A k \in 1..Len(kept) : kept[k] \in A
  <2> HIDE DEF A
  <2> QED
    BY <1>2
<1>5. DOMAIN kept = 1..Len(kept) /\ Len(kept) \in Nat
  <2> HIDE DEF A
  <2> QED
    BY <1>2
<1>6. f \in Seq({LogAppenderDefine(n) : n \in A})
  <2>1. \A k \in 1..Len(kept) : LogAppenderDefine(kept[k]) \in {LogAppenderDefine(n) : n \in A}
    BY <1>4
  <2> QED
    BY <1>5, <2>1, IsASeq
<1>7. Len(f) = Len(kept) /\ DOMAIN f = 1..Len(f)
  BY <1>5, <1>6
<1>8. \A k \in 1..Len(f) : Accepted(kept[k]) /\ f[k] = LogAppenderDefine(kept[k])
  BY <1>4, <1>5, <1>7
<1>9. f = [k \in 1..Len(f) |-> f[k]]
  BY <1>5, <1>7
<1> HIDE DEF f
<1> QED
  BY <1>3, <1>5, <1>7, <1>8, <1>9 DEF d

\* Definitions of a configuration are read from nodes with a name.
LEMMA DefineNode ==
    ASSUME NEW d \in AllDefines
    PROVE  \E node : /\ d = LogDefineOf(node) /\ node.name \in Names
                     /\ node.appenders \in Seq(Range(node.appenders))
<1>1. PICK doc \in Documents : Parses(doc) /\ d \in Defines(doc)
  BY DEF AllDefines
<1>2. PICK i \in DOMAIN doc : d = LogDefineOf(doc[i])
  BY <1>1, Zenon DEF Defines
<1>3. doc[i] \in Range(doc) /\ doc[i].name # 0
  BY <1>1 DEF Range, Parses
<1>4. doc[i].name \in Names /\ doc[i].appenders \in Seq(Range(doc[i].appenders))
  BY <1>3, LogAssumption
<1> QED
  BY <1>2, <1>4

\* The appender a definition makes is one the type invariant allows.
LEMMA AppenderType ==
    ASSUME NEW n, Accepted(n)
    PROVE  LET a == LogAppenderDefine(n) IN
           /\ a.type \in {1, 2} /\ a.level \in Levels
           /\ Appender(a).type = a.type /\ Appender(a).level = a.level
           /\ a.type = 1 => Appender(a).fileName # ""
<1> DEFINE a == LogAppenderDefine(n)
<1>1. a.type \in {1, 2} /\ a.level \in Levels
  BY LevelFromStringType DEF LogAppenderDefine
<1> HIDE DEF a
<1>2. Appender(a).type = a.type /\ Appender(a).level = a.level
  BY DEF Appender, FileLogAppender
<1>3. a.type = 1 => Appender(a).fileName # ""
  BY DEF Appender, FileLogAppender
<1> QED
  BY <1>1, <1>2, <1>3 DEF a

\* The fields of an appender.
LEMMA AppendersType ==
    ASSUME NEW x \in Appenders
    PROVE  /\ x.type \in {1, 2} /\ x.level \in Levels /\ x.level \in Nat
           /\ x.type = 1 => x.fileName # ""
<1>1. \A l \in Levels : l \in Nat
  BY DEF Levels, UNKNOW, FATAL
<1>2. CASE x = StdoutLogAppender
  <2>1. x.type = 2 /\ x.level = 1
    BY <1>2 DEF StdoutLogAppender, DEBUG
  <2>2. x.level \in Levels
    BY <2>1 DEF Levels, UNKNOW, FATAL
  <2> QED
    BY <1>1, <2>1, <2>2
<1>3. CASE x # StdoutLogAppender
  <2>1. PICK d \in AllDefines : \E a \in Range(d.appenders) : x = Appender(a)
    BY <1>3 DEF Appenders
  <2>2. PICK a \in Range(d.appenders) : x = Appender(a)
    BY <2>1
  <2>3. PICK node : /\ d = LogDefineOf(node)
                    /\ node.appenders \in Seq(Range(node.appenders))
    BY DefineNode
  <2>4. PICK k \in 1..Len(d.appenders) : a = d.appenders[k]
    BY <2>3, LogDefineShape DEF Range
  <2>5. PICK n : Accepted(n) /\ a = LogAppenderDefine(n)
    BY <2>3, <2>4, LogDefineShape
  <2>6. /\ a.type \in {1, 2} /\ a.level \in Levels
        /\ x.type = a.type /\ x.level = a.level
        /\ a.type = 1 => x.fileName # ""
    BY <2>2, <2>5, AppenderType, Zenon
  <2> QED
    BY <1>1, <2>6
<1> QED
  BY <1>2, <1>3

\* What the definitions of a logger are, and the appenders they make.
LEMMA DefineType ==
    ASSUME NEW d \in AllDefines
    PROVE  /\ d.name \in Names /\ d.level \in Levels
           /\ d = [name |-> d.name, level |-> d.level, appenders |-> d.appenders]
           /\ Len(d.appenders) \in Nat
           /\ AppendersOf(d) \in Seq(Appenders) /\ Len(AppendersOf(d)) = Len(d.appenders)
<1>1. PICK node : /\ d = LogDefineOf(node) /\ node.name \in Names
                  /\ node.appenders \in Seq(Range(node.appenders))
  BY DefineNode
<1>2. /\ d.name = node.name /\ d.level \in Levels
      /\ d = [name |-> d.name, level |-> d.level, appenders |-> d.appenders]
      /\ Len(d.appenders) \in Nat /\ DOMAIN d.appenders = 1..Len(d.appenders)
  BY <1>1, LogDefineShape
<1>3. \A k \in 1..Len(d.appenders) : Appender(d.appenders[k]) \in Appenders
  BY <1>2 DEF Appenders, Range
<1>4. AppendersOf(d) = [k \in 1..Len(d.appenders) |-> Appender(d.appenders[k])]
  BY <1>2, Zenon DEF AppendersOf
<1>5. AppendersOf(d) \in Seq(Appenders)
  BY <1>2, <1>3, <1>4, IsASeq
<1>6. Len(AppendersOf(d)) = Len(d.appenders)
  BY <1>2, <1>4, <1>5
<1> QED
  BY <1>1, <1>2, <1>5, <1>6

\* A configuration has one definition for a name.
LEMMA ConfigurationType ==
    ASSUME NEW D \in Configurations
    PROVE  /\ D \subseteq AllDefines /\ NamesOf(D) \subseteq Names
           /\ \A d, e \in D : d.name = e.name => d = e
           /\ \A n \in NamesOf(D) : Find(D, n) \in D /\ Find(D, n).name = n
           /\ \A d \in D : d.name \in NamesOf(D) /\ Find(D, d.name) = d
<1>1. D \subseteq AllDefines
  BY DEF Configurations, AllDefines
<1>2. NamesOf(D) \subseteq Names
  BY <1>1, DefineType DEF NamesOf
<1>3. ASSUME NEW d \in D, NEW e \in D, d.name = e.name
      PROVE  d = e
  <2>1. PICK doc \in Documents : D = Defines(doc)
    BY DEF Configurations
  <2> DEFINE I == {j \in DOMAIN doc : \A h \in 1..(j - 1) : doc[h].name # doc[j].name}
  <2>2. PICK i \in I : d = LogDefineOf(doc[i])
    BY <2>1, Zenon DEF Defines
  <2>3. PICK j \in I : e = LogDefineOf(doc[j])
    BY <2>1, Zenon DEF Defines
  <2>4. doc \in Seq(Range(doc))
    BY LogAssumption
  <2>5. DOMAIN doc = 1..Len(doc) /\ Len(doc) \in Nat
    BY <2>4
  <2>6. d.name = doc[i].name /\ e.name = doc[j].name
    BY <2>2, <2>3 DEF LogDefineOf
  <2>7. ~(i < j) /\ ~(j < i)
    <3>1. i \in 1..Len(doc) /\ j \in 1..Len(doc)
      BY <2>5
    <3>2. doc[i].name = doc[j].name
      BY <1>3, <2>6
    <3>3. i \notin 1..(j - 1)
      BY <3>2
    <3>4. j \notin 1..(i - 1)
      BY <3>2
    <3> QED
      BY <2>5, <3>1, <3>3, <3>4
  <2>8. i = j
    BY <2>5, <2>7
  <2> QED
    BY <2>2, <2>3, <2>8
<1>4. ASSUME NEW n \in NamesOf(D)
      PROVE  Find(D, n) \in D /\ Find(D, n).name = n
  <2>1. \E d \in D : d.name = n
    BY DEF NamesOf
  <2> QED
    BY <2>1 DEF Find
<1>5. ASSUME NEW d \in D
      PROVE  d.name \in NamesOf(D) /\ Find(D, d.name) = d
  <2>1. d.name \in NamesOf(D)
    BY DEF NamesOf
  <2> QED
    BY <2>1, <1>3, <1>4
<1> QED
  BY <1>1, <1>2, <1>3, <1>4, <1>5

-----------------------------------------------------------------------------
\* What the operations of Logger and LoggerManager do to the objects

\* Object id takes another level and other appenders and keeps its name.
Replaced(id, level, appenders) ==
    /\ objects' \in Seq(Objects) /\ Len(objects') = Len(objects)
    /\ \A i \in 1..Len(objects) : i # id => objects'[i] = objects[i]
    /\ objects'[id].name = objects[id].name
    /\ objects'[id].level = level /\ objects'[id].appenders = appenders

\* An object with a new level or new appenders, as the steps below need it.
LEMMA ReplacedStep ==
    ASSUME objects \in Seq(Objects), NEW id \in 1..Len(objects), NEW o \in Objects,
           o.name = objects[id].name, objects' = [objects EXCEPT ![id] = o]
    PROVE  Replaced(id, o.level, o.appenders)
<1>1. /\ objects' \in Seq(Objects) /\ Len(objects') = Len(objects)
      /\ \A i \in 1..Len(objects) : i # id => objects'[i] = objects[i]
      /\ objects'[id] = o
  OBVIOUS
<1> QED
  BY <1>1 DEF Replaced

\* setLevel replaces the level.
LEMMA SetLevelStep ==
    ASSUME objects \in Seq(Objects), NEW id \in 1..Len(objects), NEW level \in Levels,
           SetLevel(id, level)
    PROVE  Replaced(id, level, objects[id].appenders)
<1> DEFINE o == [objects[id] EXCEPT !.level = level]
<1>1. objects[id] \in Objects
  OBVIOUS
<1>2. /\ o \in Objects /\ o.name = objects[id].name /\ o.level = level
      /\ o.appenders = objects[id].appenders
  BY <1>1 DEF Objects
<1>3. objects' = [objects EXCEPT ![id] = o]
  BY Zenon DEF SetLevel
<1> HIDE DEF o
<1> QED
  BY <1>2, <1>3, ReplacedStep

\* addAppender and clearAppenders replace the appenders.
LEMMA AppendersStep ==
    ASSUME objects \in Seq(Objects), NEW id \in 1..Len(objects),
           NEW appenders \in Seq(Entries),
           objects' = [objects EXCEPT ![id].appenders = appenders]
    PROVE  Replaced(id, objects[id].level, appenders)
<1> DEFINE o == [objects[id] EXCEPT !.appenders = appenders]
<1>1. objects[id] \in Objects
  OBVIOUS
<1>2. /\ o \in Objects /\ o.name = objects[id].name /\ o.level = objects[id].level
      /\ o.appenders = appenders
  BY <1>1 DEF Objects
<1>3. objects' = [objects EXCEPT ![id] = o]
  BY Zenon
<1> HIDE DEF o
<1> QED
  BY <1>2, <1>3, ReplacedStep

\* The logger that is registered, or a new one.
LEMMA GetLoggerStep ==
    ASSUME ManagerInv, NEW n \in Names, GetLogger(n)
    PROVE  /\ objects' \in Seq(Objects) /\ Len(objects) <= Len(objects')
           /\ \A i \in 1..Len(objects) : objects'[i] = objects[i]
           /\ m_loggers' \in [Names -> 0..Len(objects')]
           /\ \A m \in Names : m # n \/ m_loggers[m] # 0 => m_loggers'[m] = m_loggers[m]
           /\ m_loggers'[n] \in 1..Len(objects')
           /\ m_loggers[n] = 0 => objects'[m_loggers'[n]].appenders = <<>>
           /\ Managed'
<1> DEFINE o == Logger(n, DEBUG, <<>>)
<1>1. /\ objects \in Seq(Objects) /\ m_loggers \in [Names -> 0..Len(objects)]
      /\ Len(objects) \in Nat /\ Managed
  BY DEF ManagerInv, ManagerTypeOK
<1>2. CASE m_loggers[n] # 0
  <2>1. UNCHANGED <<objects, m_loggers>>
    BY <1>2, Zenon DEF GetLogger, manager
  <2>2. m_loggers[n] \in 1..Len(objects)
    BY <1>1, <1>2
  <2>3. Managed'
    BY <1>1, <2>1 DEF Managed
  <2> QED
    BY <1>1, <1>2, <2>1, <2>2, <2>3
<1>3. CASE m_loggers[n] = 0
  <2>1. /\ objects' = Append(objects, o)
        /\ m_loggers' = [m_loggers EXCEPT ![n] = Len(objects) + 1]
    BY <1>3, Zenon DEF GetLogger
  <2>2. o \in Objects /\ o.name = n /\ o.appenders = <<>>
    BY DEF Objects, Logger, Levels, DEBUG, UNKNOW, FATAL
  <2> HIDE DEF o
  <2>3. /\ objects' \in Seq(Objects) /\ Len(objects') = Len(objects) + 1
        /\ \A i \in 1..Len(objects) : objects'[i] = objects[i]
        /\ objects'[Len(objects) + 1] = o
    BY <1>1, <2>1, <2>2
  <2>4. /\ m_loggers' \in [Names -> 0..Len(objects')]
        /\ \A m \in Names : m # n => m_loggers'[m] = m_loggers[m]
        /\ m_loggers'[n] = Len(objects) + 1
    BY <1>1, <2>1, <2>3
  <2>5. \A i \in 1..Len(objects) : objects[i].name \in Names /\ objects[i].name # n
    <3>1. \A i \in 1..Len(objects) : objects[i] \in Objects
      BY <1>1
    <3>2. \A i \in 1..Len(objects) : m_loggers[objects[i].name] = i
      BY <1>1 DEF Managed
    <3> QED
      BY <1>3, <3>1, <3>2 DEF Objects
  <2>6. Managed'
    <3>1. \A i \in 1..Len(objects') : m_loggers'[objects'[i].name] = i
      <4> SUFFICES ASSUME NEW i \in 1..Len(objects')
                   PROVE  m_loggers'[objects'[i].name] = i
        OBVIOUS
      <4>1. CASE i = Len(objects) + 1
        BY <4>1, <2>2, <2>3, <2>4
      <4>2. CASE i # Len(objects) + 1
        <5>1. i \in 1..Len(objects)
          BY <4>2, <2>3, <1>1
        <5>2. m_loggers[objects[i].name] = i
          BY <1>1, <5>1 DEF Managed
        <5> QED
          BY <2>3, <2>4, <2>5, <5>1, <5>2
      <4> QED
        BY <4>1, <4>2
    <3>2. \A m \in Names : m_loggers'[m] # 0 => objects'[m_loggers'[m]].name = m
      <4> SUFFICES ASSUME NEW m \in Names, m_loggers'[m] # 0
                   PROVE  objects'[m_loggers'[m]].name = m
        OBVIOUS
      <4>1. CASE m = n
        BY <4>1, <2>2, <2>3, <2>4
      <4>2. CASE m # n
        <5>1. m_loggers'[m] = m_loggers[m] /\ m_loggers[m] \in 1..Len(objects)
          BY <1>1, <2>4, <4>2
        <5>2. objects[m_loggers[m]].name = m
          BY <1>1, <5>1 DEF Managed
        <5> QED
          BY <2>3, <5>1, <5>2
      <4> QED
        BY <4>1, <4>2
    <3> QED
      BY <3>1, <3>2 DEF Managed
  <2>7. m_loggers'[n] \in 1..Len(objects')
    BY <1>1, <2>3, <2>4
  <2> QED
    BY <1>1, <1>3, <2>2, <2>3, <2>4, <2>6, <2>7
<1> QED
  BY <1>2, <1>3

-----------------------------------------------------------------------------
\* ManagerInv is inductive

\* What ManagerInv says of a loader's locals.
LEMMA LocalsType ==
    ASSUME ManagerInv, NEW c \in Loaders
    PROVE  /\ ld[c] \in LoaderLocals /\ ld[c].pc \in Places
           /\ ld[c].new \in Configurations
           /\ ld[c].todo \subseteq NamesOf(ld[c].new) /\ ld[c].todo \subseteq Names
           /\ ld[c].gone \subseteq Names
           /\ ld[c].id \in Nat /\ ld[c].added \in Nat
           /\ ld[c].pc \in Applying =>
                /\ ld[c].d \in ld[c].new /\ ld[c].d \in AllDefines
                /\ ld[c].id = m_loggers[ld[c].d.name] /\ ld[c].id \in 1..Len(objects)
           /\ ld[c].pc = "eraseClear" => ld[c].id \in 1..Len(objects)
<1>1. /\ ld[c] \in LoaderLocals /\ LocalsFit(c)
      /\ m_loggers \in [Names -> 0..Len(objects)] /\ objects \in Seq(Objects)
  BY DEF ManagerInv, ManagerTypeOK
<1>2. /\ ld[c].pc \in Places /\ ld[c].new \in Configurations
      /\ ld[c].todo \subseteq Names /\ ld[c].gone \subseteq Names
      /\ ld[c].id \in Nat /\ ld[c].added \in Nat
  BY <1>1 DEF LoaderLocals
<1>3. ld[c].pc \in Applying =>
         /\ ld[c].d \in ld[c].new
         /\ m_loggers[ld[c].d.name] = ld[c].id /\ ld[c].id # 0
  BY <1>1 DEF LocalsFit
<1>4. ld[c].pc \in Applying => ld[c].d \in AllDefines /\ ld[c].d.name \in Names
  BY <1>2, <1>3, ConfigurationType, DefineType
<1>5. ld[c].pc \in Applying => ld[c].id \in 1..Len(objects)
  BY <1>1, <1>3, <1>4
<1>6. /\ ld[c].todo \subseteq NamesOf(ld[c].new)
      /\ ld[c].pc = "eraseClear" => ld[c].id \in 1..Len(objects)
  BY <1>1 DEF LocalsFit
<1> QED
  BY <1>1, <1>2, <1>3, <1>4, <1>5, <1>6

\* The locals of a loader that takes no step still fit.
LEMMA LocalsFrame ==
    ASSUME ManagerInv, NEW b \in Loaders, ld'[b] = ld[b], known \subseteq known',
           Len(objects') \in Nat, Len(objects) <= Len(objects'),
           \A m \in Names : m_loggers[m] # 0 => m_loggers'[m] = m_loggers[m]
    PROVE  LocalsFit(b)'
<1>1. LocalsFit(b) /\ Len(objects) \in Nat
  BY DEF ManagerInv, ManagerTypeOK
<1>2. ld[b].pc \in Applying =>
        /\ ld[b].d \in ld[b].new /\ ld[b].d.name \in Names
        /\ m_loggers[ld[b].d.name] = ld[b].id /\ ld[b].id # 0
        /\ ld[b].added <= Len(ld[b].d.appenders)
  BY <1>1, LocalsType, DefineType DEF LocalsFit
<1> QED
  BY <1>1, <1>2 DEF LocalsFit

\* Replacing an object leaves the manager as it is.
LEMMA ReplacedManaged ==
    ASSUME ManagerInv, NEW id \in 1..Len(objects), NEW level, NEW appenders,
           Replaced(id, level, appenders), UNCHANGED m_loggers
    PROVE  /\ objects' \in Seq(Objects) /\ Len(objects) <= Len(objects')
           /\ m_loggers' \in [Names -> 0..Len(objects')]
           /\ \A m \in Names : m_loggers[m] # 0 => m_loggers'[m] = m_loggers[m]
           /\ Managed'
<1>1. /\ objects \in Seq(Objects) /\ m_loggers \in [Names -> 0..Len(objects)]
      /\ Len(objects) \in Nat /\ Managed
  BY DEF ManagerInv, ManagerTypeOK
<1>2. /\ objects' \in Seq(Objects) /\ Len(objects') = Len(objects)
      /\ \A i \in 1..Len(objects) : objects'[i].name = objects[i].name
  BY DEF Replaced
<1>3. \A m \in Names : m_loggers[m] # 0 => m_loggers[m] \in 1..Len(objects)
  BY <1>1
<1>4. Managed'
  BY <1>1, <1>2, <1>3 DEF Managed
<1> QED
  BY <1>1, <1>2, <1>4

\* A step of a loader inside of setValue keeps ManagerInv if what it does to the
\* objects and to its own locals is in order.
LEMMA LoaderStep ==
    ASSUME ManagerInv, NEW c \in Loaders, NEW r \in LoaderLocals,
           ld' = [ld EXCEPT ![c] = r], UNCHANGED <<LoaderOnly, client>>,
           objects' \in Seq(Objects), Len(objects) <= Len(objects'),
           m_loggers' \in [Names -> 0..Len(objects')],
           \A m \in Names : m_loggers[m] # 0 => m_loggers'[m] = m_loggers[m],
           Managed', LocalsFit(c)'
    PROVE  ManagerInv'
<1>1. ManagerTypeOK /\ ClientTypeOK
  BY DEF ManagerInv
<1>2. ld' \in [Loaders -> LoaderLocals]
  BY <1>1 DEF ManagerTypeOK
<1>3. held' \in [Clients -> 0..Len(objects')]
  <2>1. held \in [Clients -> 0..Len(objects)] /\ Len(objects) \in Nat /\ held' = held
    BY <1>1 DEF ManagerTypeOK, client
  <2> QED
    BY <2>1
<1>4. ManagerTypeOK'
  BY <1>1, <1>2, <1>3 DEF ManagerTypeOK, LoaderOnly
<1>5. ClientTypeOK'
  BY <1>1 DEF ClientTypeOK, client, LoaderOnly
<1>6. ASSUME NEW b \in Loaders
      PROVE  LocalsFit(b)'
  <2>1. b # c => ld'[b] = ld[b]
    BY <1>1 DEF ManagerTypeOK
  <2>2. known' = known /\ Len(objects') \in Nat
    BY DEF LoaderOnly
  <2> QED
    BY <2>1, <2>2, LocalsFrame
<1> QED
  BY <1>4, <1>5, <1>6 DEF ManagerInv

\* So it does if it leaves the objects alone.
LEMMA LoaderStepOnly ==
    ASSUME ManagerInv, NEW c \in Loaders, NEW r \in LoaderLocals,
           ld' = [ld EXCEPT ![c] = r], UNCHANGED <<LoaderOnly, manager, client>>,
           LocalsFit(c)'
    PROVE  ManagerInv'
<1>1. /\ objects \in Seq(Objects) /\ m_loggers \in [Names -> 0..Len(objects)]
      /\ Len(objects) \in Nat /\ Managed
  BY DEF ManagerInv, ManagerTypeOK
<1>2. objects' = objects /\ m_loggers' = m_loggers
  BY DEF manager
<1>3. Managed'
  BY <1>1, <1>2 DEF Managed
<1>4. UNCHANGED <<LoaderOnly, client>>
  OBVIOUS
<1>5. /\ objects' \in Seq(Objects) /\ Len(objects) <= Len(objects')
      /\ m_loggers' \in [Names -> 0..Len(objects')]
      /\ \A m \in Names : m_loggers[m] # 0 => m_loggers'[m] = m_loggers[m]
  BY <1>1, <1>2
<1> QED
  BY <1>3, <1>4, <1>5, LoaderStep

\* The manager starts with its root logger.
LEMMA ManagerInitial == Init => ManagerInv
<1> SUFFICES ASSUME Init PROVE ManagerInv
  OBVIOUS
<1> DEFINE e == Entry("config", StdoutLogAppender)
           o == Logger(Root, DEBUG, <<e>>)
<1>1. e \in Entries
  BY DEF Entry, Entries, Appenders
<1>2. o \in Objects /\ o.name = Root
  BY <1>1, LogAssumption DEF Logger, Objects, Levels, DEBUG, UNKNOW, FATAL
<1>3. objects = <<o>>
  BY Zenon DEF Init
<1> HIDE DEF o
<1>4. objects \in Seq(Objects) /\ Len(objects) = 1 /\ objects[1] = o
  BY <1>2, <1>3
<1>5. m_loggers \in [Names -> 0..1] /\ \A n \in Names : m_loggers[n] # 0 <=> n = Root
  BY DEF Init
<1>6. {} \in Configurations
  BY DEF Configurations
<1>7. Idle \in LoaderLocals
  BY <1>6 DEF Idle, LoaderLocals, Places
<1>8. ld \in [Loaders -> LoaderLocals] /\ \A c \in Loaders : ld[c] = Idle
  BY <1>7 DEF Init
<1>9. Managed
  <2>1. m_loggers[Root] = 1
    BY LogAssumption DEF Init
  <2> QED
    BY <1>2, <1>4, <1>5, <2>1 DEF Managed
<1>10. \A c \in Loaders : LocalsFit(c)
  <2>1. NamesOf({}) = {}
    BY DEF NamesOf
  <2>2. ASSUME NEW c \in Loaders
        PROVE  /\ ld[c].pc = "idle" /\ ld[c].new = {} /\ ld[c].todo = {} /\ ld[c].gone = {}
    BY <1>8 DEF Idle
  <2> QED
    BY <2>1, <2>2 DEF LocalsFit, Applying
<1>11. ManagerTypeOK
  BY <1>4, <1>5, <1>6, <1>8 DEF Init, ManagerTypeOK, NamesOf
<1>12. ClientTypeOK
  <2>1. lev \in [Clients -> DEBUG..FATAL] /\ ev \in [Clients -> DEBUG..FATAL]
    <3>1. lev = [t \in Clients |-> DEBUG] /\ ev = [t \in Clients |-> DEBUG]
      BY Zenon DEF Init
    <3> QED
      BY <3>1 DEF DEBUG, FATAL
  <2>4. disturbed \in BOOLEAN
    BY Zenon DEF Init
  <2>2. fresh \in [Clients -> BOOLEAN]
    BY Zenon DEF Init
  <2>3. cpc \in [Clients -> {"idle", "log", "output", "skip"}]
    BY DEF Init
  <2> QED
    BY <2>1, <2>2, <2>3, <2>4, Zenon DEF ClientTypeOK
<1> QED
  BY <1>9, <1>10, <1>11, <1>12 DEF ManagerInv

\* The steps of a loader, one by one.
LEMMA LoadKeeps ==
    ASSUME ManagerInv, NEW c \in Loaders, NEW doc \in Documents, Load(c, doc)
    PROVE  ManagerInv'
<1> DEFINE new == Defines(doc)
           r == [Idle EXCEPT !.pc = "define", !.new = new, !.todo = NamesOf(new)]
           lost == Changed(m_val, new)
                   \cup IF Changed(m_val, new) = {} THEN {} ELSE Gone(m_val, new)
<1>1. /\ ManagerTypeOK /\ ClientTypeOK /\ Managed
      /\ objects \in Seq(Objects) /\ Len(objects) \in Nat
  BY DEF ManagerInv, ManagerTypeOK
<1>2. /\ Parses(doc)
      /\ ld' = IF SameSet(new, m_val) THEN ld ELSE [ld EXCEPT ![c] = r]
      /\ wanted' = new /\ known' = known \cup NamesOf(new)
      /\ missed' = (missed \cup Overlooked(m_val, new)) \ lost
      /\ disturbed' = (disturbed \/ Setting # {})
      /\ fresh' = [t \in Clients |-> cpc[t] = "idle"]
      /\ UNCHANGED <<m_val, manager, held, cpc, lev, ev>>
  BY Zenon DEF Load
<1>3. new \in Configurations /\ NamesOf(new) \subseteq Names
  <2>1. new \in Configurations
    BY <1>2, Zenon DEF Configurations
  <2> HIDE DEF new
  <2> QED
    BY <2>1, ConfigurationType
<1> HIDE DEF new, lost
<1>4. r \in LoaderLocals
  BY <1>3 DEF Idle, LoaderLocals, Places
<1>5. ld' \in [Loaders -> LoaderLocals] /\ \A b \in Loaders : b # c => ld'[b] = ld[b]
  <2> HIDE DEF r
  <2>1. ld \in [Loaders -> LoaderLocals]
    BY <1>1 DEF ManagerTypeOK
  <2> QED
    BY <1>2, <1>4, <2>1
<1>6. Overlooked(m_val, new) \subseteq Names
  <2>1. NamesOf(m_val) \subseteq Names
    BY <1>1, ConfigurationType DEF ManagerTypeOK
  <2> QED
    BY <1>3, <2>1 DEF Overlooked, Gone
<1>7. ManagerTypeOK'
  <2>1. /\ objects' = objects /\ m_loggers' = m_loggers /\ m_val' = m_val /\ held' = held
        /\ known' = known \cup NamesOf(new) /\ wanted' = new
        /\ missed' = (missed \cup Overlooked(m_val, new)) \ lost
    BY <1>2 DEF manager
  <2>2. objects' \in Seq(Objects) /\ m_loggers' \in [Names -> 0..Len(objects')]
        /\ held' \in [Clients -> 0..Len(objects')]
    BY <1>1, <2>1 DEF ManagerTypeOK
  <2>3. m_val' \in Configurations /\ wanted' \in Configurations
    BY <1>1, <1>3, <2>1 DEF ManagerTypeOK
  <2>4. missed \subseteq Names /\ known \subseteq Names /\ NamesOf(m_val) \subseteq known
    BY <1>1 DEF ManagerTypeOK
  <2>5. known' \subseteq Names /\ missed' \subseteq Names
        /\ NamesOf(m_val)' \cup NamesOf(wanted)' \subseteq known'
    BY <1>3, <1>6, <2>1, <2>4 DEF NamesOf
  <2> QED
    BY <1>5, <2>2, <2>3, <2>5 DEF ManagerTypeOK
<1>8. ClientTypeOK'
  <2>1. fresh' \in [Clients -> BOOLEAN]
    BY <1>2, Zenon
  <2>2. disturbed' \in BOOLEAN
    BY <1>2, Zenon
  <2>3. cpc' = cpc /\ lev' = lev /\ ev' = ev
    BY <1>2
  <2> QED
    BY <1>1, <2>1, <2>2, <2>3, Zenon DEF ClientTypeOK
<1>9. Managed'
  BY <1>1, <1>2 DEF Managed, manager
<1>10. ASSUME NEW b \in Loaders
       PROVE  LocalsFit(b)'
  <2>1. /\ known \subseteq known' /\ Len(objects') \in Nat /\ Len(objects) <= Len(objects')
        /\ \A m \in Names : m_loggers[m] # 0 => m_loggers'[m] = m_loggers[m]
    BY <1>1, <1>2 DEF manager
  <2>2. CASE ld'[b] = ld[b]
    BY <2>1, <2>2, LocalsFrame
  <2>3. CASE ld'[b] # ld[b]
    <3>1. ld'[c] = r /\ b = c
      <4> HIDE DEF r
      <4> QED
        BY <1>1, <1>2, <1>5, <2>3 DEF ManagerTypeOK
    <3>2. ld'[c].pc = "define" /\ ld'[c].new = new /\ ld'[c].todo = NamesOf(new)
          /\ ld'[c].gone = {}
      BY <3>1 DEF Idle
    <3> QED
      BY <1>2, <3>1, <3>2 DEF LocalsFit, Applying, NamesOf
  <2> QED
    BY <2>2, <2>3
<1> QED
  BY <1>7, <1>8, <1>9, <1>10 DEF ManagerInv

\* The listener passes a definition that has not changed.
LEMMA SkipDefineKeeps ==
    ASSUME ManagerInv, NEW c \in Loaders, SkipDefine(c)
    PROVE  ManagerInv'
<1>1. PICK n \in ld[c].todo : ld' = [ld EXCEPT ![c].todo = @ \ {n}]
  BY DEF SkipDefine
<1> DEFINE r == [ld[c] EXCEPT !.todo = @ \ {n}]
<1>2. /\ ld[c] \in LoaderLocals /\ ld[c].pc = "define" /\ LocalsFit(c)
      /\ ld \in [Loaders -> LoaderLocals]
      /\ UNCHANGED <<LoaderOnly, manager, client>>
  BY LocalsType DEF SkipDefine, ManagerInv, ManagerTypeOK
<1>3. r \in LoaderLocals /\ ld' = [ld EXCEPT ![c] = r]
  BY <1>1, <1>2 DEF LoaderLocals
<1>4. ld'[c] = r
  BY <1>2, <1>3
<1>5. LocalsFit(c)'
  BY <1>2, <1>4 DEF LocalsFit, Applying, LoaderOnly, NamesOf, LoaderLocals
<1> HIDE DEF r
<1> QED
  BY <1>2, <1>3, <1>5, LoaderStepOnly

\* The listener gets the logger of a changed definition.
LEMMA GetDefineKeeps ==
    ASSUME ManagerInv, NEW c \in Loaders, GetDefine(c)
    PROVE  ManagerInv'
<1>1. PICK n \in ld[c].todo :
        /\ GetLogger(n)
        /\ ld' = [ld EXCEPT ![c] = [ld[c] EXCEPT !.pc = "level", !.todo = @ \ {n},
                                                 !.d = Find(ld[c].new, n),
                                                 !.id = m_loggers'[n], !.added = 0]]
  BY Zenon DEF GetDefine
<1>2. /\ ld[c] \in LoaderLocals /\ ld[c].pc = "define" /\ LocalsFit(c)
      /\ ld \in [Loaders -> LoaderLocals] /\ ld[c].new \in Configurations
      /\ ld[c].todo \subseteq NamesOf(ld[c].new)
      /\ UNCHANGED <<LoaderOnly, client>>
  BY LocalsType DEF GetDefine, ManagerInv, ManagerTypeOK
<1>3. /\ n \in Names /\ n \in NamesOf(ld[c].new)
      /\ Find(ld[c].new, n) \in ld[c].new /\ Find(ld[c].new, n).name = n
      /\ Find(ld[c].new, n) \in AllDefines
      /\ Len(Find(ld[c].new, n).appenders) \in Nat
  BY <1>2, ConfigurationType, DefineType
<1>4. /\ objects' \in Seq(Objects) /\ Len(objects) <= Len(objects')
      /\ m_loggers' \in [Names -> 0..Len(objects')]
      /\ \A m \in Names : m_loggers[m] # 0 => m_loggers'[m] = m_loggers[m]
      /\ m_loggers'[n] \in 1..Len(objects')
      /\ Managed'
  BY <1>1, <1>3, GetLoggerStep
<1>5. PICK r : r = [ld[c] EXCEPT !.pc = "level", !.todo = @ \ {n},
                                 !.d = Find(ld[c].new, n),
                                 !.id = m_loggers'[n], !.added = 0]
  OBVIOUS
<1>6. r \in LoaderLocals
  <2>1. "level" \in Places /\ ld[c].todo \ {n} \in SUBSET Names /\ m_loggers'[n] \in Nat
    BY <1>2, <1>4 DEF LoaderLocals, Places, Applying
  <2> QED
    BY <1>2, <1>3, <1>5, <2>1 DEF LoaderLocals
<1>7. ld' = [ld EXCEPT ![c] = r] /\ ld'[c] = r
  <2>1. ld' = [ld EXCEPT ![c] = r]
    BY <1>1, <1>5, Zenon
  <2> QED
    BY <1>2, <2>1
<1>8. /\ r.pc = "level" /\ r.new = ld[c].new /\ r.todo = ld[c].todo \ {n}
      /\ r.d = Find(ld[c].new, n) /\ r.id = m_loggers'[n] /\ r.added = 0
      /\ r.gone = ld[c].gone
  BY <1>2, <1>5 DEF LoaderLocals
<1>9. NamesOf(ld[c].new) \subseteq known' /\ ld[c].gone = {}
  BY <1>2 DEF LocalsFit, LoaderOnly
<1>10. LocalsFit(c)'
  BY <1>2, <1>3, <1>4, <1>7, <1>8, <1>9 DEF LocalsFit, Applying, NamesOf
<1> QED
  BY <1>2, <1>4, <1>6, <1>7, <1>10, LoaderStep

\* The steps that replace an object and leave m_loggers.
LEMMA ReplaceKeeps ==
    ASSUME ManagerInv, NEW c \in Loaders, NEW id \in 1..Len(objects), NEW level,
           NEW appenders, Replaced(id, level, appenders),
           NEW r \in LoaderLocals, ld' = [ld EXCEPT ![c] = r],
           UNCHANGED <<LoaderOnly, m_loggers, client>>, LocalsFit(c)'
    PROVE  ManagerInv'
<1>1. /\ objects' \in Seq(Objects) /\ Len(objects) <= Len(objects')
      /\ m_loggers' \in [Names -> 0..Len(objects')]
      /\ \A m \in Names : m_loggers[m] # 0 => m_loggers'[m] = m_loggers[m]
      /\ Managed'
  BY ReplacedManaged
<1>2. UNCHANGED <<LoaderOnly, client>>
  OBVIOUS
<1> QED
  BY <1>1, <1>2, LoaderStep

\* What they do to the object they are about.
LEMMA ApplyLevelDoes ==
    ASSUME ManagerInv, NEW c \in Loaders, ApplyLevel(c)
    PROVE  Replaced(ld[c].id, ld[c].d.level, objects[ld[c].id].appenders)
<1>1. ld[c].id \in 1..Len(objects) /\ ld[c].d \in AllDefines /\ objects \in Seq(Objects)
  BY LocalsType DEF ApplyLevel, Applying, ManagerInv, ManagerTypeOK
<1>2. ld[c].d.level \in Levels /\ SetLevel(ld[c].id, ld[c].d.level)
  BY <1>1, DefineType DEF ApplyLevel
<1> QED
  BY <1>1, <1>2, SetLevelStep

\* clearAppenders in the listener leaves no appender.
LEMMA ClearDoes ==
    ASSUME ManagerInv, NEW c \in Loaders, ApplyClear(c) \/ EraseClear(c)
    PROVE  Replaced(ld[c].id, objects[ld[c].id].level, <<>>)
<1>1. ld[c].id \in 1..Len(objects) /\ objects \in Seq(Objects)
  BY LocalsType DEF ApplyClear, EraseClear, Applying, ManagerInv, ManagerTypeOK
<1>2. objects' = [objects EXCEPT ![ld[c].id].appenders = <<>>]
  BY Zenon DEF ApplyClear, EraseClear, ClearAppenders
<1>3. <<>> \in Seq(Entries)
  OBVIOUS
<1> QED
  BY <1>1, <1>2, <1>3, AppendersStep

\* addAppender in the listener adds the next one of the definition.
LEMMA ApplyAppenderDoes ==
    ASSUME ManagerInv, NEW c \in Loaders, ApplyAppender(c)
    PROVE  /\ Entry("config", AppendersOf(ld[c].d)[ld[c].added + 1]) \in Entries
           /\ Replaced(ld[c].id, objects[ld[c].id].level,
                       Append(objects[ld[c].id].appenders,
                              Entry("config", AppendersOf(ld[c].d)[ld[c].added + 1])))
<1> DEFINE e == Entry("config", AppendersOf(ld[c].d)[ld[c].added + 1])
<1>1. /\ ld[c].id \in 1..Len(objects) /\ ld[c].d \in AllDefines /\ ld[c].added \in Nat
      /\ objects \in Seq(Objects)
  BY LocalsType DEF ApplyAppender, Applying, ManagerInv, ManagerTypeOK
<1>2. ld[c].added < Len(ld[c].d.appenders)
  BY DEF ApplyAppender
<1>3. AppendersOf(ld[c].d)[ld[c].added + 1] \in Appenders
  <2>1. AppendersOf(ld[c].d) \in Seq(Appenders)
        /\ Len(AppendersOf(ld[c].d)) = Len(ld[c].d.appenders)
    BY <1>1, DefineType
  <2>2. ld[c].added + 1 \in 1..Len(AppendersOf(ld[c].d))
    BY <1>1, <1>2, <2>1
  <2> QED
    BY <2>1, <2>2
<1>4. e \in Entries
  BY <1>3 DEF Entry, Entries
<1>5. objects' = [objects EXCEPT ![ld[c].id].appenders = Append(@, e)]
  BY Zenon DEF ApplyAppender, AddAppender
<1> HIDE DEF e
<1>6. objects[ld[c].id].appenders \in Seq(Entries)
  <2>1. objects[ld[c].id] \in Objects
    BY <1>1
  <2> QED
    BY <2>1 DEF Objects
<1>7. Append(objects[ld[c].id].appenders, e) \in Seq(Entries)
  BY <1>4, <1>6
<1>8. objects' = [objects EXCEPT ![ld[c].id].appenders =
                                       Append(objects[ld[c].id].appenders, e)]
  BY <1>5
<1> QED
  BY <1>1, <1>4, <1>7, <1>8, AppendersStep DEF e

\* The steps that apply a definition to its logger.
LEMMA ApplyKeeps ==
    ASSUME ManagerInv, NEW c \in Loaders,
           ApplyLevel(c) \/ ApplyClear(c) \/ ApplyAppender(c)
    PROVE  ManagerInv'
<1>1. /\ ld[c] \in LoaderLocals /\ ld[c].pc \in Applying /\ LocalsFit(c)
      /\ ld \in [Loaders -> LoaderLocals]
      /\ ld[c].id \in 1..Len(objects) /\ ld[c].added \in Nat
      /\ ld[c].d \in AllDefines
      /\ UNCHANGED <<LoaderOnly, m_loggers, client>>
  BY LocalsType DEF ApplyLevel, ApplyClear, ApplyAppender, Applying, ManagerInv,
                    ManagerTypeOK
<1>2. Len(ld[c].d.appenders) \in Nat
  BY <1>1, DefineType
<1>3. PICK r : /\ ld' = [ld EXCEPT ![c] = r] /\ r \in LoaderLocals
               /\ r.pc \in Applying /\ r.new = ld[c].new /\ r.todo = ld[c].todo
               /\ r.d = ld[c].d /\ r.id = ld[c].id /\ r.gone = ld[c].gone
               /\ r.added <= Len(r.d.appenders)
  <2>1. CASE ApplyLevel(c)
    <3> DEFINE r == [ld[c] EXCEPT !.pc = "clear"]
    <3>1. ld' = [ld EXCEPT ![c] = r]
      BY <2>1 DEF ApplyLevel
    <3>2. /\ r \in LoaderLocals
          /\ r.pc \in Applying /\ r.new = ld[c].new /\ r.todo = ld[c].todo
          /\ r.d = ld[c].d /\ r.id = ld[c].id /\ r.gone = ld[c].gone
          /\ r.added <= Len(ld[c].d.appenders)
      BY <1>1, <3>1 DEF LoaderLocals, Applying, Places, LocalsFit
    <3> HIDE DEF r
    <3> QED
      BY <3>1, <3>2
  <2>2. CASE ApplyClear(c)
    <3> DEFINE r == [ld[c] EXCEPT !.pc = "add"]
    <3>1. ld' = [ld EXCEPT ![c] = r]
      BY <2>2 DEF ApplyClear
    <3>2. /\ r \in LoaderLocals
          /\ r.pc \in Applying /\ r.new = ld[c].new /\ r.todo = ld[c].todo
          /\ r.d = ld[c].d /\ r.id = ld[c].id /\ r.gone = ld[c].gone
          /\ r.added <= Len(ld[c].d.appenders)
      BY <1>1, <3>1 DEF LoaderLocals, Applying, Places, LocalsFit
    <3> HIDE DEF r
    <3> QED
      BY <3>1, <3>2
  <2>3. CASE ApplyAppender(c)
    <3> DEFINE r == [ld[c] EXCEPT !.added = @ + 1]
    <3>1. ld' = [ld EXCEPT ![c] = r] /\ ld[c].added < Len(ld[c].d.appenders)
      BY <2>3 DEF ApplyAppender
    <3>2. /\ r \in LoaderLocals
          /\ r.pc \in Applying /\ r.new = ld[c].new /\ r.todo = ld[c].todo
          /\ r.d = ld[c].d /\ r.id = ld[c].id /\ r.gone = ld[c].gone
          /\ r.added <= Len(ld[c].d.appenders)
      <4>1. ld[c].added + 1 \in Nat /\ ld[c].added + 1 <= Len(ld[c].d.appenders)
        BY <1>1, <1>2, <3>1
      <4>2. /\ r.added = ld[c].added + 1 /\ r.pc = ld[c].pc /\ r.new = ld[c].new
            /\ r.todo = ld[c].todo /\ r.d = ld[c].d /\ r.id = ld[c].id
            /\ r.gone = ld[c].gone
        BY <1>1 DEF LoaderLocals
      <4>3. r \in LoaderLocals
        BY <1>1, <4>1 DEF LoaderLocals
      <4> QED
        BY <1>1, <4>1, <4>2, <4>3
    <3> HIDE DEF r
    <3> QED
      BY <3>1, <3>2
  <2> QED
    BY <2>1, <2>2, <2>3
<1>4. ld'[c] = r
  BY <1>1, <1>3
<1>5. LocalsFit(c)'
  <2>1. r.pc \notin {"erase", "eraseClear"} /\ ld[c].pc \notin {"erase", "eraseClear"}
    BY <1>1, <1>3 DEF Applying
  <2> QED
    BY <1>1, <1>3, <1>4, <2>1 DEF LocalsFit, LoaderOnly, NamesOf
<1>6. \E level, appenders : Replaced(ld[c].id, level, appenders)
  BY ApplyLevelDoes, ClearDoes, ApplyAppenderDoes
<1> QED
  BY <1>1, <1>3, <1>5, <1>6, ReplaceKeeps

\* The listener goes on to the next definition.
LEMMA ApplyDoneKeeps ==
    ASSUME ManagerInv, NEW c \in Loaders, ApplyDone(c)
    PROVE  ManagerInv'
<1>1. PICK g : /\ g = Gone(m_val, ld[c].new)
               /\ ld' = [ld EXCEPT ![c] =
                            [Idle EXCEPT !.pc = IF g = {} THEN "define" ELSE "erase",
                                         !.new = ld[c].new, !.todo = ld[c].todo,
                                         !.gone = g]]
  BY Zenon DEF ApplyDone
<1>2. /\ ld[c] \in LoaderLocals /\ LocalsFit(c) /\ ld \in [Loaders -> LoaderLocals]
      /\ ld[c].new \in Configurations /\ ld[c].todo \subseteq Names
      /\ m_val \in Configurations
      /\ UNCHANGED <<LoaderOnly, manager, client>>
  BY LocalsType DEF ApplyDone, ManagerInv, ManagerTypeOK
<1>3. g \subseteq Names
  BY <1>1, <1>2, ConfigurationType DEF Gone
<1>4. PICK r : r = [Idle EXCEPT !.pc = IF g = {} THEN "define" ELSE "erase",
                                !.new = ld[c].new, !.todo = ld[c].todo, !.gone = g]
  OBVIOUS
<1>5. ld' = [ld EXCEPT ![c] = r]
  BY <1>1, <1>4, Zenon
<1>6. /\ r.pc = IF g = {} THEN "define" ELSE "erase"
      /\ r.new = ld[c].new /\ r.todo = ld[c].todo /\ r.gone = g
  BY <1>4 DEF Idle
<1>7. r \in LoaderLocals
  <2>1. (IF g = {} THEN "define" ELSE "erase") \in Places
    BY DEF Places
  <2> QED
    BY <1>2, <1>3, <1>4, <2>1 DEF Idle, LoaderLocals
<1>8. ld'[c] = r
  BY <1>2, <1>5
<1>9. LocalsFit(c)'
  BY <1>2, <1>6, <1>8 DEF LocalsFit, Applying, LoaderOnly, NamesOf
<1> QED
  BY <1>2, <1>5, <1>7, <1>9, LoaderStepOnly

\* What the first half of eraseLogger does: if the logger is registered, its
\* level is UNKNOW.
LEMMA EraseLevelDoes ==
    ASSUME ManagerInv, NEW c \in Loaders, EraseLevel(c)
    PROVE  \E n \in ld[c].gone : \E r \in LoaderLocals :
            /\ n \in Names /\ ld' = [ld EXCEPT ![c] = r] /\ ld'[c] = r
            /\ r.new = ld[c].new /\ r.todo = ld[c].todo /\ r.gone = ld[c].gone \ {n}
            /\ \/ /\ m_loggers[n] = 0 /\ UNCHANGED objects
                  /\ r.pc = IF r.gone = {} THEN "define" ELSE "erase"
               \/ /\ m_loggers[n] \in 1..Len(objects)
                  /\ Replaced(m_loggers[n], UNKNOW, objects[m_loggers[n]].appenders)
                  /\ r.pc = "eraseClear" /\ r.id = m_loggers[n]
<1>1. PICK n \in ld[c].gone :
        IF m_loggers[n] = 0
        THEN /\ ld' = [ld EXCEPT ![c].gone = @ \ {n},
                                 ![c].pc = IF ld[c].gone = {n} THEN "define" ELSE "erase"]
             /\ UNCHANGED objects
        ELSE /\ SetLevel(m_loggers[n], UNKNOW)
             /\ ld' = [ld EXCEPT ![c].gone = @ \ {n}, ![c].id = m_loggers[n],
                                 ![c].pc = "eraseClear"]
  BY Zenon DEF EraseLevel
<1>2. /\ ld[c] \in LoaderLocals /\ ld \in [Loaders -> LoaderLocals]
      /\ ld[c].gone \subseteq Names /\ objects \in Seq(Objects)
      /\ m_loggers \in [Names -> 0..Len(objects)] /\ Len(objects) \in Nat
      /\ ld[c].pc = "erase"
  BY LocalsType DEF ManagerInv, ManagerTypeOK, EraseLevel
<1>3. ld[c].gone = {n} <=> ld[c].gone \ {n} = {}
  OBVIOUS
<1>4. CASE m_loggers[n] = 0
  <2>1. PICK r : r = [ld[c] EXCEPT !.gone = @ \ {n},
                          !.pc = IF ld[c].gone = {n} THEN "define" ELSE "erase"]
    OBVIOUS
  <2>2. ld' = [ld EXCEPT ![c] = r] /\ UNCHANGED objects
    BY <1>1, <1>4, <2>1
  <2>3. (IF ld[c].gone = {n} THEN "define" ELSE "erase") \in Places
    BY DEF Places
  <2>4. r \in LoaderLocals
    BY <1>2, <2>1, <2>3 DEF LoaderLocals
  <2>5. /\ r.new = ld[c].new /\ r.todo = ld[c].todo /\ r.gone = ld[c].gone \ {n}
        /\ r.pc = IF ld[c].gone = {n} THEN "define" ELSE "erase"
    BY <1>2, <2>1 DEF LoaderLocals
  <2>6. ld'[c] = r
    BY <1>2, <2>2
  <2> QED
    BY <1>2, <1>3, <1>4, <2>2, <2>4, <2>5, <2>6
<1>5. CASE m_loggers[n] # 0
  <2>1. PICK r : r = [ld[c] EXCEPT !.gone = @ \ {n}, !.id = m_loggers[n],
                                   !.pc = "eraseClear"]
    OBVIOUS
  <2>2. ld' = [ld EXCEPT ![c] = r] /\ SetLevel(m_loggers[n], UNKNOW)
    BY <1>1, <1>5, <2>1
  <2>3. m_loggers[n] \in 1..Len(objects) /\ m_loggers[n] \in Nat
    BY <1>2, <1>5
  <2>4. r \in LoaderLocals
    BY <1>2, <2>1, <2>3 DEF LoaderLocals, Places
  <2>5. /\ r.new = ld[c].new /\ r.todo = ld[c].todo /\ r.gone = ld[c].gone \ {n}
        /\ r.pc = "eraseClear" /\ r.id = m_loggers[n]
    BY <1>2, <2>1 DEF LoaderLocals
  <2>6. ld'[c] = r
    BY <1>2, <2>2
  <2>7. Replaced(m_loggers[n], UNKNOW, objects[m_loggers[n]].appenders)
    BY <1>2, <2>2, <2>3, SetLevelStep DEF Levels, UNKNOW, FATAL
  <2> QED
    BY <1>2, <2>2, <2>3, <2>4, <2>5, <2>6, <2>7
<1> QED
  BY <1>4, <1>5

\* The listener takes the level from a logger that is not defined any more.
LEMMA EraseLevelKeeps ==
    ASSUME ManagerInv, NEW c \in Loaders, EraseLevel(c)
    PROVE  ManagerInv'
<1>1. PICK n \in ld[c].gone, r \in LoaderLocals :
            /\ n \in Names /\ ld' = [ld EXCEPT ![c] = r] /\ ld'[c] = r
            /\ r.new = ld[c].new /\ r.todo = ld[c].todo /\ r.gone = ld[c].gone \ {n}
            /\ \/ /\ m_loggers[n] = 0 /\ UNCHANGED objects
                  /\ r.pc = IF r.gone = {} THEN "define" ELSE "erase"
               \/ /\ m_loggers[n] \in 1..Len(objects)
                  /\ Replaced(m_loggers[n], UNKNOW, objects[m_loggers[n]].appenders)
                  /\ r.pc = "eraseClear" /\ r.id = m_loggers[n]
  BY EraseLevelDoes
<1>2. UNCHANGED <<LoaderOnly, m_loggers, client>> /\ LocalsFit(c)
  BY DEF EraseLevel, ManagerInv
<1>3. CASE /\ m_loggers[n] = 0 /\ UNCHANGED objects
           /\ r.pc = IF r.gone = {} THEN "define" ELSE "erase"
  <2>1. LocalsFit(c)'
    BY <1>1, <1>2, <1>3 DEF LocalsFit, Applying, LoaderOnly, NamesOf
  <2>2. UNCHANGED <<LoaderOnly, manager, client>>
    BY <1>2, <1>3 DEF manager
  <2> QED
    BY <1>1, <2>1, <2>2, LoaderStepOnly
<1>4. CASE /\ m_loggers[n] \in 1..Len(objects)
           /\ Replaced(m_loggers[n], UNKNOW, objects[m_loggers[n]].appenders)
           /\ r.pc = "eraseClear" /\ r.id = m_loggers[n]
  <2>1. LocalsFit(c)'
    BY <1>1, <1>2, <1>4 DEF LocalsFit, Applying, LoaderOnly, NamesOf, Replaced
  <2> QED
    BY <1>1, <1>2, <1>4, <2>1, ReplaceKeeps
<1> QED
  BY <1>1, <1>3, <1>4

\* The listener takes its appenders, too.
LEMMA EraseClearKeeps ==
    ASSUME ManagerInv, NEW c \in Loaders, EraseClear(c)
    PROVE  ManagerInv'
<1>1. PICK r : r = [ld[c] EXCEPT !.pc = IF ld[c].gone = {} THEN "define" ELSE "erase",
                                 !.id = 0]
  OBVIOUS
<1>2. ld' = [ld EXCEPT ![c] = r]
  BY <1>1, Zenon DEF EraseClear
<1>3. /\ ld[c] \in LoaderLocals /\ ld \in [Loaders -> LoaderLocals] /\ LocalsFit(c)
      /\ ld[c].id \in 1..Len(objects)
      /\ UNCHANGED <<LoaderOnly, m_loggers, client>>
  BY LocalsType DEF ManagerInv, ManagerTypeOK, EraseClear
<1>4. /\ r.new = ld[c].new /\ r.todo = ld[c].todo /\ r.gone = ld[c].gone
      /\ r.pc = IF ld[c].gone = {} THEN "define" ELSE "erase"
  BY <1>1, <1>3 DEF LoaderLocals
<1>5. r \in LoaderLocals
  <2>1. (IF ld[c].gone = {} THEN "define" ELSE "erase") \in Places
    BY DEF Places
  <2> QED
    BY <1>1, <1>3, <2>1 DEF LoaderLocals
<1>6. ld'[c] = r
  BY <1>2, <1>3
<1>7. LocalsFit(c)'
  BY <1>3, <1>4, <1>6 DEF LocalsFit, Applying, LoaderOnly, NamesOf
<1> QED
  BY <1>2, <1>3, <1>5, <1>7, ClearDoes, ReplaceKeeps

\* The listener returns.
LEMMA ListenerDoneKeeps ==
    ASSUME ManagerInv, NEW c \in Loaders, ListenerDone(c)
    PROVE  ManagerInv'
<1> DEFINE r == [ld[c] EXCEPT !.pc = "write"]
<1>1. /\ ld[c] \in LoaderLocals /\ ld \in [Loaders -> LoaderLocals] /\ LocalsFit(c)
      /\ ld[c].pc = "define" /\ ld' = [ld EXCEPT ![c] = r]
      /\ UNCHANGED <<LoaderOnly, manager, client>>
  BY LocalsType DEF ManagerInv, ManagerTypeOK, ListenerDone
<1>2. r \in LoaderLocals
  BY <1>1 DEF LoaderLocals, Places
<1>3. LocalsFit(c)'
  BY <1>1 DEF LocalsFit, LoaderLocals, Applying, LoaderOnly, NamesOf
<1> HIDE DEF r
<1> QED
  BY <1>1, <1>2, <1>3, LoaderStepOnly

\* setValue writes the new definitions.
LEMMA WriteKeeps ==
    ASSUME ManagerInv, NEW c \in Loaders, Write(c)
    PROVE  ManagerInv'
<1>1. /\ ManagerTypeOK /\ ClientTypeOK /\ Managed /\ LocalsFit(c)
      /\ objects \in Seq(Objects) /\ Len(objects) \in Nat
      /\ ld \in [Loaders -> LoaderLocals] /\ ld[c].new \in Configurations
  BY LocalsType DEF ManagerInv, ManagerTypeOK
<1>2. /\ m_val' = ld[c].new /\ ld' = [ld EXCEPT ![c] = Idle]
      /\ UNCHANGED <<wanted, known, missed, loads, disturbed, manager, client>>
  BY DEF Write
<1>3. {} \in Configurations
  BY DEF Configurations
<1>4. Idle \in LoaderLocals
  BY <1>3 DEF Idle, LoaderLocals, Places
<1>5. ld' \in [Loaders -> LoaderLocals]
  BY <1>1, <1>2, <1>4
<1>6. NamesOf(m_val)' \cup NamesOf(wanted)' \subseteq known'
  BY <1>1, <1>2 DEF LocalsFit, ManagerTypeOK, NamesOf
<1>7. ManagerTypeOK'
  BY <1>1, <1>2, <1>5, <1>6 DEF ManagerTypeOK, manager, client
<1>8. ClientTypeOK'
  <2>1. cpc' = cpc /\ lev' = lev /\ ev' = ev /\ fresh' = fresh /\ disturbed' = disturbed
    BY <1>2 DEF client
  <2> QED
    BY <1>1, <2>1, Zenon DEF ClientTypeOK
<1>9. Managed'
  BY <1>1, <1>2 DEF Managed, manager
<1>10. ASSUME NEW b \in Loaders
       PROVE  LocalsFit(b)'
  <2>1. CASE b = c
    <3>1. ld'[b] = Idle
      BY <1>1, <1>2, <2>1
    <3>2. /\ ld'[b].pc = "idle" /\ ld'[b].todo = {} /\ ld'[b].gone = {}
          /\ ld'[b].new = {}
      BY <3>1 DEF Idle
    <3> QED
      BY <3>2 DEF LocalsFit, Applying, NamesOf
  <2>2. CASE b # c
    <3>1. /\ ld'[b] = ld[b] /\ known' = known
          /\ objects' = objects /\ m_loggers' = m_loggers
      BY <1>1, <1>2, <2>2 DEF manager
    <3> QED
      BY <1>1, <3>1, LocalsFrame
  <2> QED
    BY <2>1, <2>2
<1> QED
  BY <1>7, <1>8, <1>9, <1>10 DEF ManagerInv

\* A client's step keeps ManagerInv if what it does to the objects and to its
\* own place is in order.
LEMMA ClientStep ==
    ASSUME ManagerInv, UNCHANGED config,
           objects' \in Seq(Objects), Len(objects) <= Len(objects'),
           m_loggers' \in [Names -> 0..Len(objects')],
           \A m \in Names : m_loggers[m] # 0 => m_loggers'[m] = m_loggers[m],
           Managed', held' \in [Clients -> 0..Len(objects')], ClientTypeOK'
    PROVE  ManagerInv'
<1>1. ManagerTypeOK
  BY DEF ManagerInv
<1>2. ManagerTypeOK'
  BY <1>1 DEF ManagerTypeOK, config, NamesOf
<1>3. ASSUME NEW b \in Loaders
      PROVE  LocalsFit(b)'
  <2>1. ld'[b] = ld[b] /\ known \subseteq known' /\ Len(objects') \in Nat
    BY DEF config
  <2> QED
    BY <2>1, LocalsFrame
<1> QED
  BY <1>2, <1>3 DEF ManagerInv

\* A client gets a logger.
LEMMA HoldKeeps ==
    ASSUME ManagerInv, NEW t \in Clients, NEW n \in Names, Hold(t, n)
    PROVE  ManagerInv'
<1>1. /\ held \in [Clients -> 0..Len(objects)] /\ Len(objects) \in Nat /\ ClientTypeOK
  BY DEF ManagerInv, ManagerTypeOK
<1>2. /\ GetLogger(n) /\ held' = [held EXCEPT ![t] = m_loggers'[n]]
      /\ UNCHANGED config /\ UNCHANGED <<cpc, lev, ev, fresh, disturbed>>
  BY DEF Hold, config
<1>3. /\ objects' \in Seq(Objects) /\ Len(objects) <= Len(objects')
      /\ m_loggers' \in [Names -> 0..Len(objects')]
      /\ \A m \in Names : m_loggers[m] # 0 => m_loggers'[m] = m_loggers[m]
      /\ m_loggers'[n] \in 1..Len(objects')
      /\ Managed'
  BY <1>2, GetLoggerStep
<1>4. held' \in [Clients -> 0..Len(objects')]
  BY <1>1, <1>2, <1>3
<1>5. ClientTypeOK'
  BY <1>1, <1>2, Zenon DEF ClientTypeOK
<1> QED
  BY <1>2, <1>3, <1>4, <1>5, ClientStep

\* A client adds an appender that is its own or takes one of its own away: the
\* appenders from the configuration stay as they are.
LEMMA ClientAppenderDoes ==
    ASSUME ManagerInv, NEW t \in Clients, ClientAppender(t)
    PROVE  \E appenders \in Seq(Entries) :
            /\ held[t] \in 1..Len(objects)
            /\ Replaced(held[t], objects[held[t]].level, appenders)
            /\ FromConfig(appenders) = FromConfig(objects[held[t]].appenders)
<1> DEFINE old == objects[held[t]].appenders
<1>1. held[t] \in 1..Len(objects) /\ objects \in Seq(Objects)
  BY DEF ManagerInv, ManagerTypeOK, ClientAppender
<1>2. old \in Seq(Entries)
  <2>1. objects[held[t]] \in Objects
    BY <1>1
  <2> QED
    BY <2>1 DEF Objects
<1>3. Own(t) \in Entries /\ Own(t).by # "config"
  BY LogAssumption DEF Own, Entry, Entries, Appenders
<1>4. \/ objects' = [objects EXCEPT ![held[t]].appenders = Append(old, Own(t))]
      \/ objects' = [objects EXCEPT ![held[t]].appenders = RemoveFirst(old, Own(t))]
  BY DEF ClientAppender, AddAppender, DelAppender
<1> HIDE DEF old
<1>5. Append(old, Own(t)) \in Seq(Entries) /\ FromConfig(Append(old, Own(t))) = FromConfig(old)
  BY <1>2, <1>3, FromConfigAppend
<1>6. /\ RemoveFirst(old, Own(t)) \in Seq(Entries)
      /\ FromConfig(RemoveFirst(old, Own(t))) = FromConfig(old)
  BY <1>2, <1>3, FromConfigRemove
<1>7. PICK a \in Seq(Entries) : /\ objects' = [objects EXCEPT ![held[t]].appenders = a]
                                /\ FromConfig(a) = FromConfig(old)
  BY <1>4, <1>5, <1>6
<1>8. Replaced(held[t], objects[held[t]].level, a)
  BY <1>1, <1>7, AppendersStep
<1> QED
  BY <1>1, <1>7, <1>8 DEF old

\* A client adds an appender of its own.
LEMMA ClientAppenderKeeps ==
    ASSUME ManagerInv, NEW t \in Clients, ClientAppender(t)
    PROVE  ManagerInv'
<1>1. /\ held \in [Clients -> 0..Len(objects)] /\ ClientTypeOK /\ objects \in Seq(Objects)
      /\ UNCHANGED config /\ UNCHANGED <<m_loggers, held, cpc, lev, ev, fresh, disturbed>>
  BY DEF ManagerInv, ManagerTypeOK, ClientAppender, client, config
<1>2. PICK a \in Seq(Entries) :
            /\ held[t] \in 1..Len(objects)
            /\ Replaced(held[t], objects[held[t]].level, a)
  BY ClientAppenderDoes
<1>3. /\ objects' \in Seq(Objects) /\ Len(objects) <= Len(objects')
      /\ m_loggers' \in [Names -> 0..Len(objects')]
      /\ \A m \in Names : m_loggers[m] # 0 => m_loggers'[m] = m_loggers[m]
      /\ Managed'
  BY <1>1, <1>2, ReplacedManaged
<1>4. held' \in [Clients -> 0..Len(objects')]
  BY <1>1, <1>2 DEF Replaced
<1>5. ClientTypeOK'
  BY <1>1, Zenon DEF ClientTypeOK
<1> QED
  BY <1>1, <1>3, <1>4, <1>5, ClientStep

\* The steps of a log statement change no logger.
LEMMA StatementKeeps ==
    ASSUME ManagerInv, NEW t \in Clients,
           \/ \E l, e \in Events : LogMacro(t, e) \/ LogDirect(t, l, e)
           \/ LogTest(t) \/ LogOutput(t)
    PROVE  ManagerInv'
<1>1. /\ ClientTypeOK /\ objects \in Seq(Objects) /\ m_loggers \in [Names -> 0..Len(objects)]
      /\ held \in [Clients -> 0..Len(objects)] /\ Managed
  BY DEF ManagerInv, ManagerTypeOK
<1>2. UNCHANGED config /\ UNCHANGED <<objects, m_loggers, held, disturbed>>
  BY DEF LogMacro, LogDirect, LogTest, LogOutput, manager, config
<1>3. \E l, e \in DEBUG..FATAL : lev' = [lev EXCEPT ![t] = l] /\ ev' = [ev EXCEPT ![t] = e]
  <2>1. CASE \E l, e \in Events : LogMacro(t, e) \/ LogDirect(t, l, e)
    BY <2>1, LogAssumption, Zenon DEF LogMacro, LogDirect
  <2>2. CASE LogTest(t)
    <3>1. /\ lev[t] \in DEBUG..FATAL /\ lev' = lev /\ lev = [lev EXCEPT ![t] = lev[t]]
          /\ ev[t] \in DEBUG..FATAL /\ ev' = ev /\ ev = [ev EXCEPT ![t] = ev[t]]
      <4>1. /\ lev \in [Clients -> DEBUG..FATAL] /\ lev' = lev
            /\ ev \in [Clients -> DEBUG..FATAL] /\ ev' = ev
        BY <1>1, <2>2 DEF ClientTypeOK, LogTest
      <4> QED
        BY <4>1
    <3> QED
      BY <3>1
  <2>3. CASE LogOutput(t)
    <3>1. DEBUG \in DEBUG..FATAL
      BY DEF DEBUG, FATAL
    <3> QED
      BY <2>3, <3>1, Zenon DEF LogOutput
  <2> QED
    BY <2>1, <2>2, <2>3
<1>4. \E p \in {"idle", "log", "output", "skip"} : cpc' = [cpc EXCEPT ![t] = p]
  <2>1. CASE \E e \in Events : LogMacro(t, e)
    BY <2>1 DEF LogMacro
  <2>2. CASE \E l, e \in Events : LogDirect(t, l, e)
    BY <2>2 DEF LogDirect
  <2>3. CASE LogTest(t) \/ LogOutput(t)
    BY <2>3 DEF LogTest, LogOutput
  <2> QED
    BY <2>1, <2>2, <2>3
<1>5. fresh' = fresh \/ \E b \in BOOLEAN : fresh' = [fresh EXCEPT ![t] = b]
  <2>1. CASE \E l, e \in Events : LogMacro(t, e) \/ LogDirect(t, l, e)
    <3>1. fresh' = [fresh EXCEPT ![t] = (Setting = {})]
      BY <2>1, Zenon DEF LogMacro, LogDirect
    <3>2. (Setting = {}) \in BOOLEAN
      OBVIOUS
    <3> QED
      BY <3>1, <3>2, Zenon
  <2>2. CASE LogTest(t)
    BY <2>2 DEF LogTest
  <2>3. CASE LogOutput(t)
    <3>1. fresh' = [fresh EXCEPT ![t] = TRUE]
      BY <2>3, Zenon DEF LogOutput
    <3> QED
      BY <3>1, Zenon
  <2> QED
    BY <2>1, <2>2, <2>3
<1>6. ClientTypeOK'
  <2>1. lev' \in [Clients -> DEBUG..FATAL] /\ ev' \in [Clients -> DEBUG..FATAL]
    BY <1>1, <1>3 DEF ClientTypeOK
  <2>2. cpc' \in [Clients -> {"idle", "log", "output", "skip"}]
    BY <1>1, <1>4 DEF ClientTypeOK
  <2>3. fresh' \in [Clients -> BOOLEAN]
    BY <1>1, <1>5, Zenon DEF ClientTypeOK
  <2>4. disturbed' \in BOOLEAN
    BY <1>1, <1>2, Zenon DEF ClientTypeOK
  <2> QED
    BY <2>1, <2>2, <2>3, <2>4, Zenon DEF ClientTypeOK
<1>7. Managed'
  BY <1>1, <1>2 DEF Managed
<1>8. Len(objects) <= Len(objects') /\ objects' \in Seq(Objects)
      /\ m_loggers' \in [Names -> 0..Len(objects')]
      /\ held' \in [Clients -> 0..Len(objects')]
      /\ \A m \in Names : m_loggers[m] # 0 => m_loggers'[m] = m_loggers[m]
  BY <1>1, <1>2
<1> QED
  BY <1>2, <1>6, <1>7, <1>8, ClientStep

\* Every step keeps the types and the registration of loggers.
LEMMA ManagerNext == ManagerInv /\ [Next]_vars => ManagerInv'
<1> SUFFICES ASSUME ManagerInv, [Next]_vars PROVE ManagerInv'
  OBVIOUS
<1>1. ASSUME NEW c \in Loaders, Loader(c) PROVE ManagerInv'
  BY <1>1, LoadKeeps, SkipDefineKeeps, GetDefineKeeps, ApplyKeeps, ApplyDoneKeeps,
     EraseLevelKeeps, EraseClearKeeps, ListenerDoneKeeps, WriteKeeps DEF Loader
<1>2. ASSUME NEW t \in Clients, Client(t) PROVE ManagerInv'
  BY <1>2, HoldKeeps, ClientAppenderKeeps, StatementKeeps DEF Client
<1>3. CASE UNCHANGED vars
  <2>1. /\ objects \in Seq(Objects) /\ m_loggers \in [Names -> 0..Len(objects)]
        /\ held \in [Clients -> 0..Len(objects)] /\ Managed /\ ClientTypeOK
    BY DEF ManagerInv, ManagerTypeOK
  <2>2. UNCHANGED config /\ UNCHANGED <<objects, m_loggers, held, cpc, lev, ev, fresh, disturbed>>
    BY <1>3 DEF vars, manager, client, config
  <2>3. ClientTypeOK'
    BY <2>1, <2>2, Zenon DEF ClientTypeOK
  <2>4. Managed'
    BY <2>1, <2>2 DEF Managed
  <2>5. /\ objects' \in Seq(Objects) /\ Len(objects) <= Len(objects')
        /\ m_loggers' \in [Names -> 0..Len(objects')]
        /\ \A m \in Names : m_loggers[m] # 0 => m_loggers'[m] = m_loggers[m]
        /\ held' \in [Clients -> 0..Len(objects')]
    BY <2>1, <2>2
  <2> QED
    BY <2>2, <2>3, <2>4, <2>5, ClientStep
<1> QED
  BY <1>1, <1>2, <1>3 DEF Next

\* However loads overlap: pointers, levels and appenders are what they should
\* be, a file appender has a name to open, and every object stays registered.
LEMMA ManagerInvariance == Spec => []ManagerInv
BY ManagerInitial, ManagerNext, PTL DEF Spec

\* The type invariant, and no client ever holds a logger that a later
\* configuration cannot reach: eraseLogger leaves the logger in the map.
THEOREM LogInvariance == Spec => []LogInv
<1>1. ManagerInv => LogInv
  <2> SUFFICES ASSUME ManagerInv PROVE LogInv
    OBVIOUS
  <2>1. ManagerTypeOK /\ ClientTypeOK /\ Managed
    BY DEF ManagerInv
  <2>2. ASSUME NEW i \in DOMAIN objects
        PROVE  /\ objects[i].name \in Names /\ objects[i].level \in Levels
               /\ objects[i].appenders \in Seq(Entries)
    <3>1. objects[i] \in Objects
      BY <2>1 DEF ManagerTypeOK
    <3> QED
      BY <3>1 DEF Objects
  <2>3. ASSUME NEW i \in DOMAIN objects, NEW k \in DOMAIN objects[i].appenders
        PROVE  LET e == objects[i].appenders[k] IN
               /\ e.by \in Clients \cup {"config"}
               /\ e.a.type \in {1, 2} /\ e.a.level \in Levels
               /\ e.a.type = 1 => e.a.fileName # ""
    <3> DEFINE e == objects[i].appenders[k]
    <3>1. e \in Entries
      BY <2>2
    <3>2. e.by \in Clients \cup {"config"} /\ e.a \in Appenders
      BY <3>1 DEF Entries
    <3> HIDE DEF e
    <3>3. /\ e.a.type \in {1, 2} /\ e.a.level \in Levels
          /\ e.a.type = 1 => e.a.fileName # ""
      BY <3>2, AppendersType
    <3> QED
      BY <3>2, <3>3 DEF e
  <2>4. \A c \in Loaders : ld[c].todo \cup ld[c].gone \subseteq Names
    BY LocalsType
  <2>5. LogTypeOK
    <3>1. /\ NamesOf(m_val) \cup NamesOf(wanted) \subseteq known
          /\ known \cup missed \subseteq Names
          /\ m_loggers \in [Names -> 0..Len(objects)]
          /\ held \in [Clients -> 0..Len(objects)]
      BY <2>1 DEF ManagerTypeOK
    <3>2. /\ cpc \in [Clients -> {"idle", "log", "output", "skip"}]
          /\ lev \in [Clients -> DEBUG..FATAL] /\ ev \in [Clients -> DEBUG..FATAL]
          /\ disturbed \in BOOLEAN
      BY <2>1, Zenon DEF ClientTypeOK
    <3> QED
      BY <2>2, <2>3, <2>4, <3>1, <3>2, Zenon DEF LogTypeOK
  <2>6. NoOrphan
    <3>1. \A t \in Clients : held[t] # 0 => held[t] \in 1..Len(objects)
      BY <2>1 DEF ManagerTypeOK
    <3> QED
      BY <2>1, <3>1 DEF NoOrphan, Managed
  <2> QED
    BY <2>5, <2>6 DEF LogInv
<1> QED
  BY <1>1, ManagerInvariance, PTL

-----------------------------------------------------------------------------
\* Definitions written as YAML and read again

\* A level is read back from the text it is written as.
LEMMA LevelRoundTrip ==
    ASSUME NEW l \in Levels
    PROVE  LevelFromString(Present(IF l = UNKNOW THEN Absent ELSE LevelToString(l))) = l
<1>1. /\ LevelName[1] = "DEBUG" /\ LevelName[2] = "INFO" /\ LevelName[3] = "WARN"
      /\ LevelName[4] = "ERROR" /\ LevelName[5] = "FATAL"
  BY DEF LevelName
<1>2. DEBUG..FATAL = {1, 2, 3, 4, 5} /\ UNKNOW = 0
  BY DEF DEBUG, FATAL, UNKNOW
<1>3. CASE l = UNKNOW
  <2>1. Present(Absent) = ""
    BY DEF Present
  <2>2. ~\E m \in DEBUG..FATAL : "" \in Initial[m]
    BY LogDefineAssumption, Zenon
  <2>3. LevelFromString("") = UNKNOW
    BY <2>2, Zenon DEF LevelFromString
  <2> QED
    BY <1>3, <2>1, <2>3
<1>4. CASE l # UNKNOW
  <2>1. l \in {1, 2, 3, 4, 5}
    BY <1>4 DEF Levels, UNKNOW, FATAL
  <2>2. LevelToString(l) = LevelName[l]
    BY <1>2, <2>1 DEF LevelToString
  <2>3. LevelName[l] # Absent
    BY <1>1, <2>1 DEF Absent
  <2>4. Present(LevelName[l]) = LevelName[l]
    BY <2>3 DEF Present
  <2>5. l \in DEBUG..FATAL
    BY <1>2, <2>1
  <2> DEFINE str == LevelName[l]
             Fits(m) == str \in Initial[m]
  <2>6. \A m \in DEBUG..FATAL : Fits(m) <=> m = l
    <3>1. Fits(l)
      BY <2>5, LogDefineAssumption, Zenon
    <3>2. ASSUME NEW m \in DEBUG..FATAL, m # l PROVE ~Fits(m)
      <4>1. Initial[l] \cap Initial[m] = {}
        BY <2>5, <3>2, LogDefineAssumption, Zenon
      <4> QED
        BY <3>1, <4>1
    <3> HIDE DEF Fits
    <3> QED
      BY <3>1, <3>2
  <2>7. \E m \in DEBUG..FATAL : Fits(m)
    BY <2>5, <2>6
  <2>8. LevelFromString(str) = CHOOSE m \in DEBUG..FATAL : Fits(m)
    BY <2>7, Zenon DEF LevelFromString
  <2> HIDE DEF Fits
  <2>9. (CHOOSE m \in DEBUG..FATAL : Fits(m)) = l
    BY <2>5, <2>6
  <2> QED
    BY <1>4, <2>2, <2>4, <2>8, <2>9
<1> QED
  BY <1>3, <1>4

\* So is an appender that is not a file.
LEMMA AppenderRoundTrip ==
    ASSUME NEW n, Accepted(n), LogAppenderDefine(n).type = 2
    PROVE  LET a == LogAppenderDefine(n) IN
           Accepted(DumpAppender(a)) /\ LogAppenderDefine(DumpAppender(a)) = a
<1> DEFINE a == LogAppenderDefine(n)
<1>1. n.type # "FileLogAppender"
  BY DEF LogAppenderDefine
<1>2. /\ a.type = 2 /\ a.level \in Levels /\ a.fileName = ""
      /\ a.formatter = Present(n.formatter)
      /\ a = [type |-> a.type, level |-> a.level, formatter |-> a.formatter,
              fileName |-> a.fileName]
  BY <1>1, LevelFromStringType DEF LogAppenderDefine
<1>3. a.formatter # Absent
  BY <1>2 DEF Present, Absent
<1> HIDE DEF a
<1> DEFINE d == DumpAppender(a)
           level == IF a.level = UNKNOW THEN Absent ELSE LevelToString(a.level)
<1>4. /\ d.type = "StdoutLogAppender" /\ d.level = level
      /\ d.formatter = IF a.formatter = "" THEN Absent ELSE a.formatter
  <2>1. d = [type |-> IF a.type = 1 THEN "FileLogAppender" ELSE "StdoutLogAppender",
             fileName |-> Absent, level |-> level,
             formatter |-> IF a.formatter = "" THEN Absent ELSE a.formatter]
    BY Zenon DEF DumpAppender
  <2>2. (IF a.type = 1 THEN "FileLogAppender" ELSE "StdoutLogAppender") = "StdoutLogAppender"
    <3>1. a.type = 2
      BY <1>2
    <3>2. a.type # 1
      BY <3>1
    <3> QED
      BY <3>2, Zenon
  <2> HIDE DEF d, level
  <2> QED
    BY <2>1, <2>2
<1>5. Present(d.formatter) = a.formatter
  BY <1>3, <1>4 DEF Present
<1>6. LevelFromString(Present(d.level)) = a.level
  BY <1>2, <1>4, LevelRoundTrip
<1>7. LogAppenderDefine(d) =
        [type |-> 2, level |-> LevelFromString(Present(d.level)),
         formatter |-> Present(d.formatter), fileName |-> ""]
  BY <1>4 DEF LogAppenderDefine
<1>8. Accepted(d)
  BY <1>4 DEF Accepted
<1> QED
  BY <1>2, <1>5, <1>6, <1>7, <1>8 DEF a

\* Each definition that has been loaded is read back as it was if it has no file:
\* levels, formatters and appenders survive the way through YAML.
THEOREM RoundTripHolds == Spec => []RoundTrip
<1>1. ASSUME ManagerInv, NEW d \in wanted,
             \A k \in DOMAIN d.appenders : d.appenders[k].type = 2
      PROVE  LogDefineOf(Dump(d)) = d
  <2> DEFINE len == Len(d.appenders)
             out == Dump(d).appenders
             R == Range(out)
             A == {n \in R : Accepted(n)}
             kept == Selected(out, A)
  <2>1. d \in AllDefines
    BY <1>1, ConfigurationType DEF ManagerInv, ManagerTypeOK
  <2>2. PICK node : d = LogDefineOf(node) /\ node.appenders \in Seq(Range(node.appenders))
    BY <2>1, DefineNode
  <2>3. /\ d.level \in Levels
        /\ d = [name |-> d.name, level |-> d.level, appenders |-> d.appenders]
        /\ len \in Nat /\ DOMAIN d.appenders = 1..len
        /\ d.appenders = [k \in 1..len |-> d.appenders[k]]
        /\ \A k \in 1..len : \E n : Accepted(n) /\ d.appenders[k] = LogAppenderDefine(n)
    BY <2>2, LogDefineShape
  <2> HIDE DEF len
  <2>4. out = [k \in 1..len |-> DumpAppender(d.appenders[k])]
    BY <2>3 DEF Dump
  <2>5. ASSUME NEW k \in 1..len
        PROVE  Accepted(DumpAppender(d.appenders[k]))
               /\ LogAppenderDefine(DumpAppender(d.appenders[k])) = d.appenders[k]
    <3>1. PICK n : Accepted(n) /\ d.appenders[k] = LogAppenderDefine(n)
      BY <2>3
    <3>2. d.appenders[k].type = 2
      BY <1>1, <2>3
    <3>3. LogAppenderDefine(n).type = 2
      BY <3>1, <3>2
    <3> QED
      BY <3>1, <3>3, AppenderRoundTrip
  <2>6. /\ Dump(d).name = d.name
        /\ Dump(d).level = IF d.level = UNKNOW THEN Absent ELSE LevelToString(d.level)
    BY DEF Dump
  <2>7. LevelFromString(Present(Dump(d).level)) = d.level
    BY <2>3, <2>6, LevelRoundTrip
  <2> HIDE DEF out
  <2>8. out \in Seq(R) /\ \A n \in R : Accepted(n)
    <3>1. R = {out[k] : k \in 1..len}
      BY <2>4 DEF Range
    <3>2. out \in Seq(R)
      BY <2>3, <2>4, <3>1, IsASeq
    <3> QED
      BY <2>4, <2>5, <3>1, <3>2
  <2>9. kept = out
    <3>1. A = R
      BY <2>8
    <3> HIDE DEF R, A
    <3> QED
      BY <2>8, <3>1, SelectedAll
  <2>10. LogDefineOf(Dump(d)) =
            [name |-> Dump(d).name, level |-> LevelFromString(Present(Dump(d).level)),
             appenders |-> [k \in DOMAIN kept |-> LogAppenderDefine(kept[k])]]
    BY Zenon DEF LogDefineOf, out
  <2>11. [k \in DOMAIN kept |-> LogAppenderDefine(kept[k])] = d.appenders
    <3>1. DOMAIN kept = 1..len
      BY <2>4, <2>9
    <3>2. \A k \in 1..len : LogAppenderDefine(kept[k]) = d.appenders[k]
      BY <2>4, <2>5, <2>9
    <3> HIDE DEF kept
    <3> QED
      BY <2>3, <3>1, <3>2
  <2> QED
    BY <2>3, <2>6, <2>7, <2>10, <2>11
<1>2. ManagerInv => RoundTrip
  BY <1>1 DEF RoundTrip
<1> QED
  BY <1>2, ManagerInvariance, PTL

-----------------------------------------------------------------------------
\* LoadInv is inductive

\* Loggers are told from each other by their names.
LEMMA LoggerOf ==
    ASSUME ManagerInv, NEW n \in Names, m_loggers[n] # 0
    PROVE  m_loggers[n] \in 1..Len(objects) /\ objects[m_loggers[n]].name = n
BY DEF ManagerInv, ManagerTypeOK, Managed

\* A logger whose object keeps its level and the appenders of the configuration
\* follows the same configuration as before.
LEMMA FollowsFrame ==
    ASSUME NEW n, UNCHANGED wanted, m_loggers[n] # 0 => m_loggers'[n] = m_loggers[n],
           objects'[m_loggers[n]].level = objects[m_loggers[n]].level,
           FromConfig(objects'[m_loggers[n]].appenders)
               = FromConfig(objects[m_loggers[n]].appenders),
           Follows(n)
    PROVE  Follows(n)'
<1>1. m_loggers[n] # 0 /\ m_loggers'[n] = m_loggers[n]
  BY DEF Follows
<1>2. Configured(n)' = Configured(n)
  BY <1>1 DEF Configured
<1> QED
  BY <1>1, <1>2 DEF Follows

\* What holds of the thread that is in the listener.
LEMMA SettingIs ==
    ASSUME LoadInv, ~disturbed, NEW c \in Setting
    PROVE  Setting = {c} /\ LoadFits(c) /\ Applied /\ NoMixture
           /\ \A n \in NamesOf(m_val) : m_loggers[n] # 0
BY DEF LoadInv

\* Appenders of the configuration in every logger are a prefix of a definition's
\* if they were so and the step has changed them to nothing or to such a prefix.
LEMMA NoMixtureStep ==
    ASSUME NoMixture, ~disturbed,
           \A n \in Names : m_loggers'[n] # 0 =>
              \/ m_loggers[n] # 0 /\ Configured(n)' = Configured(n)
              \/ Configured(n)' = <<>>
              \/ \E d \in AllDefines :
                    d.name = n /\ IsPrefix(Configured(n)', AppendersOf(d))
    PROVE  NoMixture'
<1> SUFFICES ASSUME NEW n \in Names, m_loggers'[n] # 0
             PROVE  \/ n = Root /\ Configured(n)' = <<StdoutLogAppender>>
                    \/ Configured(n)' = <<>>
                    \/ \E d \in AllDefines :
                          d.name = n /\ IsPrefix(Configured(n)', AppendersOf(d))
  BY Zenon DEF NoMixture
<1>1. CASE m_loggers[n] # 0 /\ Configured(n)' = Configured(n)
  <2>1. \/ n = Root /\ Configured(n) = <<StdoutLogAppender>>
        \/ Configured(n) = <<>>
        \/ \E d \in AllDefines :
              d.name = n /\ IsPrefix(Configured(n), AppendersOf(d))
    BY <1>1, Zenon DEF NoMixture
  <2> QED
    BY <1>1, <2>1, Zenon
<1>2. CASE ~(m_loggers[n] # 0 /\ Configured(n)' = Configured(n))
  BY <1>2, Zenon
<1> QED
  BY <1>1, <1>2

\* A step of the only loader inside of setValue: what is pending stays so, or
\* the logger follows.
LEMMA LoadStep ==
    ASSUME ManagerInv, LoadInv, ~disturbed, NEW c \in Loaders, ld[c].pc # "idle",
           NEW r, ld' = [ld EXCEPT ![c] = r], r.pc # "idle", UNCHANGED LoaderOnly,
           \A n \in Names : m_loggers[n] # 0 => m_loggers'[n] = m_loggers[n],
           \A n \in Names : Follows(n) => Follows(n)' \/ Pending(c, n)',
           \A n \in Names : Pending(c, n) => Follows(n)' \/ Pending(c, n)',
           LoadFits(c)', NoMixture'
    PROVE  LoadInv'
<1>1. c \in Setting /\ Setting = {c} /\ Applied /\ \A n \in NamesOf(m_val) : m_loggers[n] # 0
  BY SettingIs DEF Setting
<1>2. ld \in [Loaders -> LoaderLocals] /\ known \subseteq Names
      /\ NamesOf(m_val) \subseteq Names /\ m_loggers \in [Names -> 0..Len(objects)]
      /\ Len(objects) \in Nat
  BY DEF ManagerInv, ManagerTypeOK
<1>3. Setting' = {c}
  BY <1>1, <1>2 DEF Setting
<1>4. Applied'
  <2> SUFFICES ASSUME NEW n \in known'
               PROVE  /\ m_loggers'[n] # 0 \/ Pending(c, n)'
                      /\ n \in missed' \/ Follows(n)' \/ Pending(c, n)'
    BY <1>3 DEF Applied
  <2>1. n \in known /\ n \in Names /\ missed' = missed
    BY <1>2 DEF LoaderOnly
  <2>2. /\ m_loggers[n] # 0 \/ Pending(c, n)
        /\ n \in missed \/ Follows(n) \/ Pending(c, n)
    BY <1>1, <2>1 DEF Applied
  <2>3. Follows(n)' => m_loggers'[n] # 0
    BY DEF Follows
  <2> QED
    BY <2>1, <2>2, <2>3
<1>5. \A n \in NamesOf(m_val)' : m_loggers'[n] # 0
  BY <1>1, <1>2 DEF LoaderOnly, NamesOf
<1>6. Settled'
  BY <1>3 DEF Settled
<1> QED
  BY <1>3, <1>4, <1>5, <1>6, Zenon DEF LoadInv

\* The listener passes a definition: its logger is as it says already.
LEMMA SkipDefineLoads ==
    ASSUME ManagerInv, LoadInv, ~disturbed, NEW c \in Loaders, SkipDefine(c)
    PROVE  LoadInv'
<1>1. PICK n \in ld[c].todo : /\ ld' = [ld EXCEPT ![c].todo = @ \ {n}]
                              /\ n \notin Changed(m_val, ld[c].new)
  BY DEF SkipDefine
<1>2. /\ ld[c] \in LoaderLocals /\ ld[c].pc = "define"
      /\ ld \in [Loaders -> LoaderLocals]
      /\ UNCHANGED <<LoaderOnly, objects, m_loggers>>
  BY LocalsType DEF SkipDefine, ManagerInv, ManagerTypeOK, manager
<1>3. PICK r : r = [ld[c] EXCEPT !.todo = @ \ {n}]
  OBVIOUS
<1>4. /\ ld' = [ld EXCEPT ![c] = r] /\ ld'[c] = r
      /\ r.pc = "define" /\ r.new = ld[c].new /\ r.todo = ld[c].todo \ {n}
      /\ r.gone = ld[c].gone /\ r.id = ld[c].id
  BY <1>1, <1>2, <1>3 DEF LoaderLocals
<1>5. LoadFits(c) /\ NoMixture
  BY <1>2, SettingIs DEF Setting
<1>6. \A m \in Names : Follows(m) => Follows(m)'
  BY <1>2, FollowsFrame DEF LoaderOnly
<1>7. ASSUME NEW m \in Names, Pending(c, m)
      PROVE  Pending(c, m)'
  BY <1>1, <1>2, <1>4, <1>7 DEF Pending, LoaderOnly, Applying
<1>8. LoadFits(c)'
  BY <1>2, <1>4, <1>5 DEF LoadFits, LoaderOnly
<1>9. NoMixture'
  BY <1>2, <1>5, NoMixtureStep DEF Configured
<1> QED
  BY <1>2, <1>4, <1>6, <1>7, <1>8, <1>9, LoadStep

\* An object that is replaced is that of one logger; the others stay as they are.
LEMMA ReplacedOthers ==
    ASSUME ManagerInv, NEW id \in 1..Len(objects), NEW level, NEW appenders,
           Replaced(id, level, appenders), UNCHANGED <<m_loggers, wanted>>,
           NEW n \in Names, n # objects[id].name
    PROVE  /\ Follows(n) => Follows(n)'
           /\ m_loggers[n] # 0 => Configured(n)' = Configured(n)
<1>1. ASSUME m_loggers[n] # 0
      PROVE  objects'[m_loggers[n]] = objects[m_loggers[n]]
  <2>1. m_loggers[n] \in 1..Len(objects) /\ objects[m_loggers[n]].name = n
    BY <1>1, LoggerOf
  <2> QED
    BY <2>1 DEF Replaced
<1>2. ASSUME Follows(n)
      PROVE  Follows(n)'
  <2>1. m_loggers[n] # 0
    BY <1>2 DEF Follows
  <2> QED
    BY <1>1, <1>2, <2>1, FollowsFrame
<1>3. m_loggers[n] # 0 => Configured(n)' = Configured(n)
  BY <1>1 DEF Configured
<1> QED
  BY <1>2, <1>3

\* A step of the only loader that replaces the object of logger k.
LEMMA ReplaceLoads ==
    ASSUME ManagerInv, LoadInv, ~disturbed, NEW c \in Loaders, ld[c].pc # "idle",
           NEW id \in 1..Len(objects), NEW level, NEW appenders,
           Replaced(id, level, appenders),
           NEW r, ld' = [ld EXCEPT ![c] = r], r.pc # "idle",
           UNCHANGED <<LoaderOnly, m_loggers>>,
           NEW k, k = objects[id].name, Follows(k)' \/ Pending(c, k)',
           \A n \in Names : n # k /\ Pending(c, n) => Pending(c, n)',
           LoadFits(c)',
           \/ FromConfig(appenders) = FromConfig(objects[id].appenders)
           \/ FromConfig(appenders) = <<>>
           \/ \E d \in AllDefines :
                 d.name = k /\ IsPrefix(FromConfig(appenders), AppendersOf(d))
    PROVE  LoadInv'
<1>1. NoMixture
  BY SettingIs DEF Setting
<1>2. k \in Names /\ m_loggers[k] = id /\ objects \in Seq(Objects)
  <2>1. objects \in Seq(Objects) /\ m_loggers[objects[id].name] = id
    BY DEF ManagerInv, ManagerTypeOK, Managed
  <2>2. objects[id] \in Objects
    BY <2>1
  <2> QED
    BY <2>1, <2>2 DEF Objects
<1>3. \A n \in Names : n # k =>
        /\ Follows(n) => Follows(n)'
        /\ m_loggers[n] # 0 => Configured(n)' = Configured(n)
  BY ReplacedOthers DEF LoaderOnly
<1>4. /\ Configured(k)' = FromConfig(appenders)
      /\ Configured(k) = FromConfig(objects[id].appenders)
  BY <1>2 DEF Configured, Replaced
<1>5. NoMixture'
  <2>1. ASSUME NEW n \in Names, m_loggers'[n] # 0
        PROVE  \/ m_loggers[n] # 0 /\ Configured(n)' = Configured(n)
               \/ Configured(n)' = <<>>
               \/ \E d \in AllDefines :
                     d.name = n /\ IsPrefix(Configured(n)', AppendersOf(d))
    <3>1. m_loggers[n] # 0
      BY <2>1
    <3>2. CASE n = k
      BY <1>4, <3>1, <3>2, Zenon
    <3>3. CASE n # k
      BY <1>3, <3>1, <3>3
    <3> QED
      BY <3>2, <3>3
  <2> QED
    BY <1>1, <2>1, NoMixtureStep
<1>6. \A n \in Names : Follows(n) => Follows(n)' \/ Pending(c, n)'
  BY <1>3, Zenon
<1>7. \A n \in Names : Pending(c, n) => Follows(n)' \/ Pending(c, n)'
  BY Zenon
<1>8. \A n \in Names : m_loggers[n] # 0 => m_loggers'[n] = m_loggers[n]
  OBVIOUS
<1>9. UNCHANGED LoaderOnly
  OBVIOUS
<1> QED
  BY <1>5, <1>6, <1>7, <1>8, <1>9, LoadStep

\* The level of the definition is set.
LEMMA ApplyLevelLoads ==
    ASSUME ManagerInv, LoadInv, ~disturbed, NEW c \in Loaders, ApplyLevel(c)
    PROVE  LoadInv'
<1>1. /\ ld[c] \in LoaderLocals /\ ld[c].pc = "level"
      /\ ld \in [Loaders -> LoaderLocals]
      /\ ld[c].id \in 1..Len(objects) /\ ld[c].d \in AllDefines
      /\ ld[c].id = m_loggers[ld[c].d.name]
      /\ UNCHANGED <<LoaderOnly, m_loggers>>
  BY LocalsType DEF ApplyLevel, ManagerInv, ManagerTypeOK, Applying
<1>2. PICK r : r = [ld[c] EXCEPT !.pc = "clear"]
  OBVIOUS
<1>3. /\ ld' = [ld EXCEPT ![c] = r] /\ ld'[c] = r
      /\ r.pc = "clear" /\ r.new = ld[c].new /\ r.todo = ld[c].todo
      /\ r.gone = ld[c].gone /\ r.id = ld[c].id /\ r.d = ld[c].d /\ r.added = ld[c].added
  BY <1>1, <1>2 DEF LoaderLocals, ApplyLevel
<1>4. LoadFits(c)
  BY <1>1, SettingIs DEF Setting
<1>5. Replaced(ld[c].id, ld[c].d.level, objects[ld[c].id].appenders)
  BY ApplyLevelDoes
<1>6. ld[c].d.name \in Names /\ objects[ld[c].id].name = ld[c].d.name
  BY <1>1, DefineType, LoggerOf
<1>7. LoadFits(c)'
  BY <1>1, <1>3, <1>4, <1>5 DEF LoadFits, LoaderOnly, Replaced
<1>8. \A m \in Names : Pending(c, m) => Pending(c, m)'
  BY <1>1, <1>3 DEF Pending, LoaderOnly, Applying
<1>9. Pending(c, ld[c].d.name)'
  BY <1>3 DEF Pending, Applying
<1> QED
  BY <1>1, <1>3, <1>5, <1>6, <1>7, <1>8, <1>9, ReplaceLoads

\* The appenders that were there go.
LEMMA ApplyClearLoads ==
    ASSUME ManagerInv, LoadInv, ~disturbed, NEW c \in Loaders, ApplyClear(c)
    PROVE  LoadInv'
<1>1. /\ ld[c] \in LoaderLocals /\ ld[c].pc = "clear"
      /\ ld \in [Loaders -> LoaderLocals]
      /\ ld[c].id \in 1..Len(objects) /\ ld[c].d \in AllDefines
      /\ ld[c].id = m_loggers[ld[c].d.name]
      /\ UNCHANGED <<LoaderOnly, m_loggers>>
  BY LocalsType DEF ApplyClear, ManagerInv, ManagerTypeOK, Applying
<1>2. PICK r : r = [ld[c] EXCEPT !.pc = "add"]
  OBVIOUS
<1>3. /\ ld' = [ld EXCEPT ![c] = r] /\ ld'[c] = r
      /\ r.pc = "add" /\ r.new = ld[c].new /\ r.todo = ld[c].todo
      /\ r.gone = ld[c].gone /\ r.id = ld[c].id /\ r.d = ld[c].d /\ r.added = ld[c].added
  BY <1>1, <1>2 DEF LoaderLocals, ApplyClear
<1>4. LoadFits(c)
  BY <1>1, SettingIs DEF Setting
<1>5. Replaced(ld[c].id, objects[ld[c].id].level, <<>>)
  BY ClearDoes
<1>6. ld[c].d.name \in Names /\ objects[ld[c].id].name = ld[c].d.name
  BY <1>1, DefineType, LoggerOf
<1>7. LoadFits(c)'
  <2>1. Configured(ld[c].d.name)' = <<>>
    <3>1. Configured(ld[c].d.name)' = FromConfig(<<>>)
      BY <1>1, <1>3, <1>5 DEF Configured, Replaced
    <3> QED
      BY <3>1, FromConfigEmpty, Zenon
  <2>2. SubSeq(AppendersOf(ld[c].d), 1, 0) = <<>>
    BY <1>1, DefineType, SubSeqEmpty, 1 > 0
  <2>3. ld[c].added = 0 /\ objects'[ld[c].id].level = ld[c].d.level
    BY <1>1, <1>4, <1>5 DEF LoadFits, Replaced
  <2>4. Configured(ld[c].d.name)' = SubSeq(AppendersOf(ld'[c].d), 1, ld'[c].added)
    BY <1>3, <2>1, <2>2, <2>3
  <2> QED
    BY <1>1, <1>3, <1>4, <2>3, <2>4 DEF LoadFits, LoaderOnly
<1>8. \A m \in Names : Pending(c, m) => Pending(c, m)'
  BY <1>1, <1>3 DEF Pending, LoaderOnly, Applying
<1>9. Pending(c, ld[c].d.name)'
  BY <1>3 DEF Pending, Applying
<1> QED
  BY <1>1, <1>3, <1>5, <1>6, <1>7, <1>8, <1>9, FromConfigEmpty, ReplaceLoads

\* A part of a sequence from its beginning, and that with the next element.
LEMMA PrefixStep ==
    ASSUME NEW S, NEW s \in Seq(S), NEW k \in Nat, k < Len(s)
    PROVE  /\ SubSeq(s, 1, k) \in Seq(S) /\ s[k + 1] \in S
           /\ Append(SubSeq(s, 1, k), s[k + 1]) = SubSeq(s, 1, k + 1)
           /\ IsPrefix(SubSeq(s, 1, k + 1), s)
<1>1. Len(s) \in Nat /\ k + 1 \in 1..Len(s) /\ 1 \in 1..Len(s) /\ s[k + 1] \in S
  OBVIOUS
<1> DEFINE p == SubSeq(s, 1, k)
           q == SubSeq(s, 1, k + 1)
<1>2. p \in Seq(S) /\ Len(p) = k /\ \A i \in 1..k : p[i] = s[i]
  BY <1>1
<1>3. q \in Seq(S) /\ Len(q) = k + 1 /\ \A i \in 1..(k + 1) : q[i] = s[i]
  BY <1>1
<1> HIDE DEF p, q
<1>4. Append(p, s[k + 1]) = q
  <2>1. Append(p, s[k + 1]) \in Seq(S) /\ Len(Append(p, s[k + 1])) = k + 1
    BY <1>1, <1>2
  <2>2. \A i \in 1..(k + 1) : Append(p, s[k + 1])[i] = q[i]
    BY <1>1, <1>2, <1>3
  <2> QED
    BY <1>3, <2>1, <2>2, SeqEqual
<1>5. IsPrefix(q, s)
  BY <1>1, <1>3 DEF IsPrefix
<1> QED
  BY <1>1, <1>2, <1>4, <1>5 DEF p, q

\* The next appender of the definition is there.
LEMMA ApplyAppenderLoads ==
    ASSUME ManagerInv, LoadInv, ~disturbed, NEW c \in Loaders, ApplyAppender(c)
    PROVE  LoadInv'
<1> DEFINE want == AppendersOf(ld[c].d)
           next == want[ld[c].added + 1]
           entries == objects[ld[c].id].appenders
<1>1. /\ ld[c] \in LoaderLocals /\ ld[c].pc = "add"
      /\ ld \in [Loaders -> LoaderLocals] /\ objects \in Seq(Objects)
      /\ ld[c].id \in 1..Len(objects) /\ ld[c].d \in AllDefines
      /\ ld[c].id = m_loggers[ld[c].d.name]
      /\ ld[c].added \in Nat /\ ld[c].added < Len(ld[c].d.appenders)
      /\ UNCHANGED <<LoaderOnly, m_loggers>>
  BY LocalsType DEF ApplyAppender, ManagerInv, ManagerTypeOK, Applying
<1>2. PICK r : r = [ld[c] EXCEPT !.added = @ + 1]
  OBVIOUS
<1>3. /\ ld' = [ld EXCEPT ![c] = r] /\ ld'[c] = r
      /\ r.pc = "add" /\ r.new = ld[c].new /\ r.todo = ld[c].todo
      /\ r.gone = ld[c].gone /\ r.id = ld[c].id /\ r.d = ld[c].d
      /\ r.added = ld[c].added + 1
  BY <1>1, <1>2 DEF LoaderLocals, ApplyAppender
<1>4. LoadFits(c)
  BY <1>1, SettingIs DEF Setting
<1>5. /\ Entry("config", next) \in Entries
      /\ Replaced(ld[c].id, objects[ld[c].id].level, Append(entries, Entry("config", next)))
  BY ApplyAppenderDoes
<1>6. ld[c].d.name \in Names /\ objects[ld[c].id].name = ld[c].d.name
  BY <1>1, DefineType, LoggerOf
<1>7. want \in Seq(Appenders) /\ ld[c].added < Len(want)
  BY <1>1, DefineType
<1>8. FromConfig(entries) = SubSeq(want, 1, ld[c].added)
  BY <1>1, <1>4, Zenon DEF LoadFits, Configured
<1>9. entries \in Seq(Entries)
  <2>1. objects[ld[c].id] \in Objects
    BY <1>1
  <2> QED
    BY <2>1 DEF Objects
<1>10. Entry("config", next).by = "config" /\ Entry("config", next).a = next
  BY DEF Entry
<1> DEFINE e == Entry("config", next)
           grown == Append(entries, e)
<1>11. e \in Entries /\ e.by = "config" /\ e.a = next
       /\ Replaced(ld[c].id, objects[ld[c].id].level, grown)
  BY <1>5, <1>10
<1> HIDE DEF e
<1>12. FromConfig(grown) = Append(FromConfig(entries), next)
  BY <1>9, <1>11, FromConfigAppend, Zenon
<1> HIDE DEF want, entries, grown
<1>13. /\ FromConfig(grown) = SubSeq(want, 1, ld[c].added + 1)
       /\ IsPrefix(FromConfig(grown), want)
  BY <1>1, <1>7, <1>8, <1>12, PrefixStep
<1>14. Configured(ld[c].d.name)' = FromConfig(grown)
  BY <1>1, <1>3, <1>11 DEF Configured, Replaced
<1>15. LoadFits(c)'
  <2>1. Configured(ld[c].d.name)' = SubSeq(AppendersOf(ld'[c].d), 1, ld'[c].added)
    BY <1>3, <1>13, <1>14 DEF want
  <2>2. objects'[ld[c].id].level = ld[c].d.level
    BY <1>1, <1>4, <1>11 DEF LoadFits, Replaced
  <2> QED
    BY <1>1, <1>3, <1>4, <2>1, <2>2 DEF LoadFits, LoaderOnly
<1>16. \A m \in Names : Pending(c, m) => Pending(c, m)'
  BY <1>1, <1>3 DEF Pending, LoaderOnly, Applying
<1>17. Pending(c, ld[c].d.name)'
  BY <1>3 DEF Pending, Applying
<1>18. \E d \in AllDefines :
          d.name = ld[c].d.name /\ IsPrefix(FromConfig(grown), AppendersOf(d))
  BY <1>1, <1>13 DEF want
<1> QED
  BY <1>1, <1>3, <1>6, <1>11, <1>15, <1>16, <1>17, <1>18, ReplaceLoads

\* The logger is as its definition says.
LEMMA ApplyDoneLoads ==
    ASSUME ManagerInv, LoadInv, ~disturbed, NEW c \in Loaders, ApplyDone(c)
    PROVE  LoadInv'
<1>1. /\ ld[c] \in LoaderLocals /\ ld[c].pc = "add"
      /\ ld \in [Loaders -> LoaderLocals] /\ ld[c].new \in Configurations
      /\ ld[c].id \in 1..Len(objects) /\ ld[c].d \in AllDefines /\ ld[c].d \in ld[c].new
      /\ ld[c].id = m_loggers[ld[c].d.name]
      /\ ld[c].added = Len(ld[c].d.appenders)
      /\ UNCHANGED <<LoaderOnly, objects, m_loggers>>
  BY LocalsType DEF ApplyDone, ManagerInv, ManagerTypeOK, Applying, manager
<1>2. PICK g : /\ g = Gone(m_val, ld[c].new)
               /\ ld' = [ld EXCEPT ![c] =
                            [Idle EXCEPT !.pc = IF g = {} THEN "define" ELSE "erase",
                                         !.new = ld[c].new, !.todo = ld[c].todo,
                                         !.gone = g]]
  BY Zenon DEF ApplyDone
<1>3. PICK r : r = [Idle EXCEPT !.pc = IF g = {} THEN "define" ELSE "erase",
                                !.new = ld[c].new, !.todo = ld[c].todo, !.gone = g]
  BY Zenon
<1>4. /\ ld' = [ld EXCEPT ![c] = r] /\ ld'[c] = r
      /\ r.pc \in {"define", "erase"} /\ r.new = ld[c].new /\ r.todo = ld[c].todo
      /\ r.gone = g
  BY <1>1, <1>2, <1>3 DEF Idle
<1>5. LoadFits(c) /\ NoMixture
  BY <1>1, SettingIs DEF Setting
<1>6. \A m \in Names : Follows(m) => Follows(m)'
  BY <1>1, FollowsFrame DEF LoaderOnly
<1>7. PICK k : k = ld[c].d.name
  OBVIOUS
<1>8. Follows(k)'
  <2>1. k \in NamesOf(wanted) /\ Find(wanted, k) = ld[c].d
    BY <1>1, <1>5, <1>7, ConfigurationType DEF LoadFits
  <2>2. /\ m_loggers[k] # 0
        /\ objects[m_loggers[k]].level = ld[c].d.level
    BY <1>1, <1>5, <1>7 DEF LoadFits
  <2>3. Configured(k) = AppendersOf(ld[c].d)
    <3>1. /\ AppendersOf(ld[c].d) \in Seq(Appenders)
          /\ ld[c].added = Len(AppendersOf(ld[c].d))
      BY <1>1, DefineType
    <3>2. Configured(k) = SubSeq(AppendersOf(ld[c].d), 1, ld[c].added)
      BY <1>1, <1>5, <1>7 DEF LoadFits
    <3> QED
      BY <3>1, <3>2, SubSeqFull
  <2>4. Follows(k)
    BY <2>1, <2>2, <2>3, Zenon DEF Follows
  <2>5. k \in Names
    BY <1>1, <1>7, DefineType
  <2> QED
    BY <1>6, <2>4, <2>5
<1>9. ASSUME NEW m \in Names, Pending(c, m)
      PROVE  Follows(m)' \/ Pending(c, m)'
  <2>1. CASE m \in ld[c].todo /\ m \in Changed(m_val, ld[c].new)
    <3>1. /\ ld'[c].todo = ld[c].todo /\ ld'[c].new = ld[c].new
          /\ m_val' = m_val
      BY <1>1, <1>4 DEF LoaderOnly
    <3>2. m \in ld'[c].todo /\ m \in Changed(m_val', ld'[c].new)
      BY <2>1, <3>1
    <3> QED
      BY <3>2, Zenon DEF Pending
  <2>2. CASE m \in Gone(m_val, ld[c].new)
    BY <1>1, <1>2, <1>4, <2>2 DEF Pending, LoaderOnly
  <2>3. CASE m = ld[c].d.name
    BY <1>7, <1>8, <2>3
  <2> QED
    BY <1>9, <2>1, <2>2, <2>3 DEF Pending
<1>10. LoadFits(c)'
  BY <1>1, <1>2, <1>4, <1>5 DEF LoadFits, LoaderOnly
<1>11. NoMixture'
  BY <1>1, <1>5, NoMixtureStep DEF Configured
<1> QED
  BY <1>1, <1>4, <1>6, <1>9, <1>10, <1>11, LoadStep

\* The listener gets the logger of a changed definition, which may be new.
LEMMA GetDefineLoads ==
    ASSUME ManagerInv, LoadInv, ~disturbed, NEW c \in Loaders, GetDefine(c)
    PROVE  LoadInv'
<1>1. PICK n \in ld[c].todo :
        /\ n \in Changed(m_val, ld[c].new) /\ GetLogger(n)
        /\ ld' = [ld EXCEPT ![c] = [ld[c] EXCEPT !.pc = "level", !.todo = @ \ {n},
                                                 !.d = Find(ld[c].new, n),
                                                 !.id = m_loggers'[n], !.added = 0]]
  BY Zenon DEF GetDefine
<1>2. /\ ld[c] \in LoaderLocals /\ ld[c].pc = "define"
      /\ ld \in [Loaders -> LoaderLocals] /\ ld[c].new \in Configurations
      /\ n \in NamesOf(ld[c].new) /\ n \in Names
      /\ UNCHANGED LoaderOnly /\ objects \in Seq(Objects)
  BY LocalsType DEF GetDefine, ManagerInv, ManagerTypeOK
<1>3. PICK r : r = [ld[c] EXCEPT !.pc = "level", !.todo = @ \ {n},
                                 !.d = Find(ld[c].new, n), !.id = m_loggers'[n],
                                 !.added = 0]
  BY Zenon
<1>4. Find(ld[c].new, n).name = n
  BY <1>2, ConfigurationType
<1>5. /\ ld' = [ld EXCEPT ![c] = r] /\ ld'[c] = r
      /\ r.pc = "level" /\ r.new = ld[c].new /\ r.todo = ld[c].todo \ {n}
      /\ r.gone = ld[c].gone /\ r.d = Find(ld[c].new, n) /\ r.added = 0
  BY <1>1, <1>2, <1>3 DEF LoaderLocals
<1>6. r.d.name = n
  BY <1>4, <1>5
<1>7. LoadFits(c) /\ NoMixture
  BY <1>2, SettingIs DEF Setting
<1>8. /\ \A i \in 1..Len(objects) : objects'[i] = objects[i]
      /\ \A m \in Names : m # n \/ m_loggers[m] # 0 => m_loggers'[m] = m_loggers[m]
      /\ m_loggers'[n] \in 1..Len(objects')
      /\ m_loggers[n] = 0 => objects'[m_loggers'[n]].appenders = <<>>
  BY <1>1, <1>2, GetLoggerStep
<1>9. ASSUME NEW m \in Names, m_loggers[m] # 0
      PROVE  m_loggers'[m] = m_loggers[m] /\ objects'[m_loggers[m]] = objects[m_loggers[m]]
  BY <1>8, <1>9, LoggerOf
<1>10. ASSUME NEW m \in Names, Follows(m)
       PROVE  Follows(m)'
  <2>1. m_loggers[m] # 0
    BY <1>10 DEF Follows
  <2> QED
    BY <1>2, <1>9, <1>10, <2>1, FollowsFrame DEF LoaderOnly
<1>11. Pending(c, n)'
  BY <1>5, <1>6 DEF Pending, Applying
<1>12. ASSUME NEW m \in Names, Pending(c, m)
       PROVE  Pending(c, m)'
  <2>1. CASE m = n
    BY <1>11, <2>1
  <2>2. CASE m # n
    <3>1. /\ ld'[c].todo = ld[c].todo \ {n} /\ ld'[c].new = ld[c].new
          /\ ld'[c].gone = ld[c].gone /\ ld'[c].pc = "level" /\ m_val' = m_val
      BY <1>2, <1>5 DEF LoaderOnly
    <3>2. CASE m \in ld[c].todo /\ m \in Changed(m_val, ld[c].new)
      <4>1. m \in ld'[c].todo /\ m \in Changed(m_val', ld'[c].new)
        BY <2>2, <3>1, <3>2
      <4> QED
        BY <4>1, Zenon DEF Pending
    <3>3. CASE m \in Gone(m_val, ld[c].new)
      <4>1. m \in Gone(m_val', ld'[c].new) /\ ld'[c].pc \in Applying
        BY <3>1, <3>3 DEF Applying
      <4> QED
        BY <4>1, Zenon DEF Pending
    <3> QED
      BY <1>2, <1>12, <3>2, <3>3 DEF Pending, Applying
  <2> QED
    BY <2>1, <2>2
<1>13. LoadFits(c)'
  BY <1>2, <1>5, <1>7 DEF LoadFits, LoaderOnly
<1>14. NoMixture'
  <2>1. ASSUME NEW m \in Names, m_loggers'[m] # 0
        PROVE  \/ m_loggers[m] # 0 /\ Configured(m)' = Configured(m)
               \/ Configured(m)' = <<>>
    <3>1. CASE m_loggers[m] # 0
      BY <1>9, <3>1 DEF Configured
    <3>2. CASE m_loggers[m] = 0
      <4>1. m = n
        <5>1. m # n => m_loggers'[m] = m_loggers[m]
          BY <1>8
        <5> QED
          BY <2>1, <3>2, <5>1
      <4>2. Configured(m)' = FromConfig(<<>>)
        BY <1>8, <3>2, <4>1, Zenon DEF Configured
      <4> QED
        BY <4>2, FromConfigEmpty, Zenon
    <3> QED
      BY <3>1, <3>2
  <2> QED
    BY <1>7, <2>1, NoMixtureStep, Zenon
<1>15. \A m \in Names : m_loggers[m] # 0 => m_loggers'[m] = m_loggers[m]
  BY <1>9
<1> QED
  BY <1>2, <1>5, <1>10, <1>12, <1>13, <1>14, <1>15, LoadStep

\* The level of a logger that is not defined any more is taken.
LEMMA EraseLevelLoads ==
    ASSUME ManagerInv, LoadInv, ~disturbed, NEW c \in Loaders, EraseLevel(c)
    PROVE  LoadInv'
<1>1. PICK n \in ld[c].gone, r \in LoaderLocals :
            /\ n \in Names /\ ld' = [ld EXCEPT ![c] = r] /\ ld'[c] = r
            /\ r.new = ld[c].new /\ r.todo = ld[c].todo /\ r.gone = ld[c].gone \ {n}
            /\ \/ /\ m_loggers[n] = 0 /\ UNCHANGED objects
                  /\ r.pc = IF r.gone = {} THEN "define" ELSE "erase"
               \/ /\ m_loggers[n] \in 1..Len(objects)
                  /\ Replaced(m_loggers[n], UNKNOW, objects[m_loggers[n]].appenders)
                  /\ r.pc = "eraseClear" /\ r.id = m_loggers[n]
  BY EraseLevelDoes
<1>2. ld[c].pc = "erase" /\ UNCHANGED <<LoaderOnly, m_loggers>>
  BY DEF EraseLevel
<1>3. LoadFits(c) /\ \A m \in NamesOf(m_val) : m_loggers[m] # 0
  BY <1>2, SettingIs DEF Setting
<1>4. n \in Gone(m_val, ld[c].new) /\ m_loggers[n] # 0
  BY <1>1, <1>3 DEF LoadFits, Gone
<1>5. /\ m_loggers[n] \in 1..Len(objects)
      /\ Replaced(m_loggers[n], UNKNOW, objects[m_loggers[n]].appenders)
      /\ r.pc = "eraseClear" /\ r.id = m_loggers[n]
  BY <1>1, <1>4
<1>6. objects[m_loggers[n]].name = n
  BY <1>1, <1>4, LoggerOf
<1>7. /\ ld'[c].todo = ld[c].todo /\ ld'[c].new = ld[c].new /\ ld'[c].pc = "eraseClear"
      /\ ld'[c].gone = ld[c].gone \ {n} /\ ld'[c].id = m_loggers[n]
      /\ m_val' = m_val /\ m_loggers' = m_loggers /\ wanted' = wanted
  BY <1>1, <1>2, <1>5 DEF LoaderOnly
<1>8. Pending(c, n)'
  <2>1. n \in Gone(m_val', ld'[c].new) /\ ld'[c].pc = "eraseClear"
        /\ m_loggers'[n] = ld'[c].id
    BY <1>4, <1>7
  <2> QED
    BY <2>1, Zenon DEF Pending
<1>9. ASSUME NEW m \in Names, m # n, Pending(c, m)
      PROVE  Pending(c, m)'
  BY <1>2, <1>7, <1>9 DEF Pending, Applying
<1>10. LoadFits(c)'
  <2>1. objects'[m_loggers[n]].level = UNKNOW /\ objects'[m_loggers[n]].name = n
    BY <1>5, <1>6 DEF Replaced
  <2> QED
    BY <1>3, <1>4, <1>7, <2>1 DEF LoadFits
<1> QED
  BY <1>1, <1>2, <1>5, <1>6, <1>8, <1>9, <1>10, ReplaceLoads

\* Its appenders are taken, too.
LEMMA EraseClearLoads ==
    ASSUME ManagerInv, LoadInv, ~disturbed, NEW c \in Loaders, EraseClear(c)
    PROVE  LoadInv'
<1>1. PICK r : r = [ld[c] EXCEPT !.pc = IF ld[c].gone = {} THEN "define" ELSE "erase",
                                 !.id = 0]
  BY Zenon
<1>2. ld' = [ld EXCEPT ![c] = r]
  BY <1>1, Zenon DEF EraseClear
<1>3. /\ ld[c] \in LoaderLocals /\ ld \in [Loaders -> LoaderLocals]
      /\ ld[c].new \in Configurations
      /\ ld[c].id \in 1..Len(objects) /\ ld[c].pc = "eraseClear"
      /\ UNCHANGED <<LoaderOnly, m_loggers>>
  BY LocalsType DEF EraseClear, ManagerInv, ManagerTypeOK
<1>4. /\ ld'[c] = r /\ r.pc \in {"define", "erase"} /\ r.new = ld[c].new
      /\ r.todo = ld[c].todo /\ r.gone = ld[c].gone
      /\ r.pc = "define" => ld[c].gone = {}
  BY <1>1, <1>2, <1>3 DEF LoaderLocals
<1>5. /\ ld'[c].todo = ld[c].todo /\ ld'[c].new = ld[c].new
      /\ ld'[c].pc \in {"define", "erase"} /\ ld'[c].gone = ld[c].gone
      /\ m_val' = m_val /\ m_loggers' = m_loggers /\ wanted' = wanted
  BY <1>3, <1>4 DEF LoaderOnly
<1>6. LoadFits(c)
  BY <1>3, SettingIs DEF Setting
<1>7. Replaced(ld[c].id, objects[ld[c].id].level, <<>>)
  BY ClearDoes
<1>8. PICK k : k = objects[ld[c].id].name
  OBVIOUS
<1>9. k \in Gone(m_val, ld[c].new) /\ objects[ld[c].id].level = UNKNOW
  BY <1>3, <1>6, <1>8 DEF LoadFits
<1>10. m_loggers[k] = ld[c].id
  BY <1>3, <1>8 DEF ManagerInv, Managed
<1>11. Follows(k)'
  <2>1. k \notin NamesOf(wanted')
    BY <1>5, <1>6, <1>9 DEF LoadFits, Gone
  <2>2. /\ m_loggers'[k] = ld[c].id /\ ld[c].id # 0
        /\ objects'[ld[c].id].level = UNKNOW /\ objects'[ld[c].id].appenders = <<>>
    BY <1>3, <1>5, <1>7, <1>9, <1>10 DEF Replaced
  <2>3. Configured(k)' = <<>>
    <3>1. Configured(k)' = FromConfig(<<>>)
      BY <2>2, Zenon DEF Configured
    <3> QED
      BY <3>1, FromConfigEmpty, Zenon
  <2>4. m_loggers'[k] # 0 /\ objects'[m_loggers'[k]].level = UNKNOW
    BY <2>2
  <2> QED
    BY <2>1, <2>3, <2>4, Zenon DEF Follows
<1>12. ASSUME NEW m \in Names, m # k, Pending(c, m)
       PROVE  Pending(c, m)'
  <2>1. m_loggers[m] # ld[c].id
    <3>1. m_loggers[m] # 0 => objects[m_loggers[m]].name = m
      BY LoggerOf
    <3> QED
      BY <1>3, <1>8, <1>12, <3>1
  <2> QED
    BY <1>3, <1>5, <1>12, <2>1 DEF Pending, Applying
<1>13. LoadFits(c)'
  BY <1>5, <1>6 DEF LoadFits
<1>14. r.pc # "idle" /\ ld[c].pc # "idle"
  BY <1>3, <1>4
<1>15. FromConfig(<<>>) = <<>>
  BY FromConfigEmpty
<1> QED
  BY <1>2, <1>3, <1>7, <1>8, <1>11, <1>12, <1>13, <1>14, <1>15, ReplaceLoads, Zenon

\* At the end every logger is as the configuration says.
LEMMA ListenerDoneLoads ==
    ASSUME ManagerInv, LoadInv, ~disturbed, NEW c \in Loaders, ListenerDone(c)
    PROVE  LoadInv'
<1>1. PICK r : r = [ld[c] EXCEPT !.pc = "write"]
  OBVIOUS
<1>2. /\ ld[c] \in LoaderLocals /\ ld \in [Loaders -> LoaderLocals]
      /\ ld[c].pc = "define" /\ ld[c].todo = {} /\ LocalsFit(c)
      /\ ld' = [ld EXCEPT ![c] = r]
      /\ UNCHANGED <<LoaderOnly, objects, m_loggers>>
  BY <1>1, LocalsType DEF ListenerDone, ManagerInv, ManagerTypeOK, manager
<1>3. /\ ld'[c] = r /\ r.pc = "write" /\ r.new = ld[c].new /\ r.todo = ld[c].todo
      /\ r.gone = ld[c].gone /\ ld[c].gone = {}
  BY <1>1, <1>2 DEF LoaderLocals, LocalsFit
<1>4. LoadFits(c) /\ NoMixture
  BY <1>2, SettingIs DEF Setting
<1>5. \A m \in Names : Follows(m) => Follows(m)'
  BY <1>2, FollowsFrame DEF LoaderOnly
<1>6. \A m \in Names : ~Pending(c, m)
  BY <1>2, <1>3 DEF Pending, Applying
<1>7. LoadFits(c)'
  BY <1>2, <1>3, <1>4 DEF LoadFits, LoaderOnly
<1>8. NoMixture'
  BY <1>2, <1>4, NoMixtureStep DEF Configured
<1> QED
  BY <1>2, <1>3, <1>5, <1>6, <1>7, <1>8, LoadStep

\* The value is written: nothing is pending any more, and the loggers follow it.
LEMMA WriteLoads ==
    ASSUME ManagerInv, LoadInv, ~disturbed, NEW c \in Loaders, Write(c)
    PROVE  LoadInv'
<1>1. /\ ld \in [Loaders -> LoaderLocals] /\ LocalsFit(c) /\ known \subseteq Names
      /\ ld[c].pc = "write" /\ m_val' = ld[c].new /\ ld' = [ld EXCEPT ![c] = Idle]
      /\ UNCHANGED <<wanted, known, missed, disturbed, objects, m_loggers>>
  BY DEF Write, ManagerInv, ManagerTypeOK, manager
<1>2. Setting = {c} /\ LoadFits(c) /\ Applied /\ NoMixture
  BY <1>1, SettingIs DEF Setting
<1>3. Setting' = {}
  BY <1>1, <1>2 DEF Setting, Idle
<1>4. \A n \in known : m_loggers[n] # 0 /\ (n \in missed \/ Follows(n))
  <2>1. ld[c].todo = {} /\ ld[c].gone = {}
    BY <1>1, <1>2 DEF LoadFits, LocalsFit
  <2>2. \A n \in known : ~Pending(c, n)
    BY <1>1, <2>1 DEF Pending, Applying
  <2> QED
    BY <1>2, <2>2 DEF Applied
<1>5. wanted' = m_val'
  BY <1>1, <1>2 DEF LoadFits
<1>6. Applied'
  <2>1. \A n \in known : Follows(n) => Follows(n)'
    BY <1>1, FollowsFrame
  <2> QED
    BY <1>1, <1>4, <2>1 DEF Applied
<1>7. Settled'
  BY <1>5, Zenon DEF Settled, SameSet, Same
<1>8. \A n \in NamesOf(m_val') : m_loggers'[n] # 0
  BY <1>1, <1>4 DEF LocalsFit
<1>9. NoMixture'
  BY <1>1, <1>2, NoMixtureStep DEF Configured
<1> QED
  BY <1>3, <1>6, <1>7, <1>8, <1>9 DEF LoadInv

\* A definition that neither == nor the erasing loop tells from the old one, and
\* that is not overlooked, is the old one.
LEMMA KeptDefine ==
    ASSUME NEW old \in Configurations, NEW new \in Configurations,
           NEW n \in NamesOf(new), n \notin Changed(old, new), n \notin Overlooked(old, new)
    PROVE  n \in NamesOf(old) /\ Find(new, n) = Find(old, n)
<1> DEFINE e == Find(new, n)
           d == Find(old, n)
<1>1. e \in new /\ e.name = n
  BY ConfigurationType
<1>2. n \in NamesOf(old) /\ Same(e, d)
  BY <1>1 DEF Changed
<1>3. d \in old /\ d.name = n
  BY <1>2, ConfigurationType
<1>4. e.level = d.level
  BY <1>2 DEF Same
<1>5. e.appenders = d.appenders
  BY <1>2, <1>4 DEF Overlooked
<1>6. e \in AllDefines /\ d \in AllDefines
  BY <1>1, <1>3, ConfigurationType
<1>7. e = [name |-> e.name, level |-> e.level, appenders |-> e.appenders]
      /\ d = [name |-> d.name, level |-> d.level, appenders |-> d.appenders]
  BY <1>6, DefineType
<1> HIDE DEF e, d
<1>8. e = d
  BY <1>1, <1>3, <1>4, <1>5, <1>7
<1> QED
  BY <1>2, <1>8 DEF e, d

\* Values that are == have the same names and no definition that has changed.
LEMMA SameValue ==
    ASSUME NEW old \in Configurations, NEW new \in Configurations, SameSet(new, old)
    PROVE  NamesOf(new) = NamesOf(old) /\ Changed(old, new) = {}
<1>1. NamesOf(new) = NamesOf(old)
  BY DEF SameSet, Same, NamesOf
<1>2. ASSUME NEW e \in new
      PROVE  e.name \in NamesOf(old) /\ Same(e, Find(old, e.name))
  <2>1. PICK d \in old : Same(e, d)
    BY DEF SameSet
  <2>2. d.name = e.name
    BY <2>1 DEF Same
  <2>3. Find(old, e.name) = d /\ e.name \in NamesOf(old)
    BY <2>2, ConfigurationType
  <2> QED
    BY <2>1, <2>3
<1>3. Changed(old, new) = {}
  BY <1>2 DEF Changed
<1> QED
  BY <1>1, <1>3

\* A configuration is loaded, alone or while another is.
LEMMA LoadLoads ==
    ASSUME ManagerInv, LoadInv, NEW c \in Loaders, NEW doc \in Documents, Load(c, doc)
    PROVE  LoadInv'
<1> DEFINE new == Defines(doc)
           C == Changed(m_val, new)
           G == Gone(m_val, new)
           r == [Idle EXCEPT !.pc = "define", !.new = new, !.todo = NamesOf(new)]
<1> SUFFICES ASSUME ~disturbed' PROVE LoadInv'
  BY Zenon DEF LoadInv
<1>1. ~disturbed /\ Setting = {}
  <2>1. disturbed' = (disturbed \/ Setting # {})
    BY Zenon DEF Load
  <2> QED
    BY <2>1
<1>2. Applied /\ Settled /\ NoMixture
  BY <1>1, Zenon DEF LoadInv
<1>3. /\ ld \in [Loaders -> LoaderLocals] /\ known \subseteq Names
      /\ m_val \in Configurations /\ wanted \in Configurations
      /\ NamesOf(m_val) \subseteq known
  BY DEF ManagerInv, ManagerTypeOK
<1>4. /\ Parses(doc) /\ wanted' = new /\ known' = known \cup NamesOf(new)
      /\ missed' = (missed \cup Overlooked(m_val, new))
                   \ (C \cup IF C = {} THEN {} ELSE G)
      /\ ld' = IF SameSet(new, m_val) THEN ld ELSE [ld EXCEPT ![c] = r]
      /\ UNCHANGED <<m_val, objects, m_loggers>>
  BY Zenon DEF Load, manager
<1>5. new \in Configurations
  BY <1>4 DEF Configurations
<1> HIDE DEF new
<1>6. \A n \in known : m_loggers[n] # 0 /\ (n \in missed \/ Follows(n))
  BY <1>1, <1>2 DEF Applied
<1>7. /\ NamesOf(wanted) = NamesOf(m_val)
      /\ \A n \in NamesOf(wanted) \ missed : Find(wanted, n) = Find(m_val, n)
  BY <1>1, <1>2, <1>3, SameValue DEF Settled
<1>8. C \subseteq NamesOf(new) /\ G \cap NamesOf(new) = {}
  BY DEF Changed, Gone, NamesOf
<1>9. ASSUME NEW n \in NamesOf(new), n \notin C, n \notin missed'
      PROVE  n \in known /\ Find(new, n) = Find(m_val, n) /\ Follows(n)'
  <2>1. n \notin missed /\ n \notin Overlooked(m_val, new)
    BY <1>4, <1>8, <1>9
  <2>2. n \in NamesOf(m_val) /\ Find(new, n) = Find(m_val, n)
    BY <1>3, <1>5, <1>9, <2>1, KeptDefine
  <2>3. Follows(n) /\ n \in NamesOf(wanted) /\ Find(wanted, n) = Find(new, n)
    BY <1>3, <1>6, <1>7, <2>1, <2>2
  <2>4. Configured(n)' = Configured(n)
    BY <1>4 DEF Configured
  <2>5. Follows(n)'
    BY <1>4, <1>9, <2>3, <2>4 DEF Follows
  <2> QED
    BY <1>3, <2>2, <2>5
<1>10. ASSUME NEW n \in known, n \notin NamesOf(new), n \notin NamesOf(m_val),
              n \notin missed'
       PROVE  Follows(n)'
  <2>1. n \notin missed
    BY <1>4, <1>8, <1>10 DEF Gone
  <2>2. Follows(n) /\ n \notin NamesOf(wanted)
    BY <1>6, <1>7, <1>10, <2>1
  <2>3. Configured(n)' = Configured(n)
    BY <1>4 DEF Configured
  <2> QED
    BY <1>4, <1>10, <2>2, <2>3 DEF Follows
<1>11. \A n \in NamesOf(m_val') : m_loggers'[n] # 0
  BY <1>3, <1>4, <1>6
<1>12. NoMixture'
  BY <1>1, <1>2, <1>4, NoMixtureStep DEF Configured
<1>13. CASE SameSet(new, m_val)
  <2>1. NamesOf(new) = NamesOf(m_val) /\ C = {}
    BY <1>3, <1>5, <1>13, SameValue
  <2>2. Setting' = {}
    BY <1>1, <1>4, <1>13 DEF Setting
  <2>3. known' = known
    BY <1>3, <1>4, <2>1
  <2>4. Applied'
    <3>1. ASSUME NEW n \in known'
          PROVE  m_loggers'[n] # 0 /\ (n \in missed' \/ Follows(n)')
      <4>1. n \in known /\ m_loggers'[n] # 0
        BY <1>4, <1>6, <2>3
      <4>2. CASE n \in NamesOf(new)
        BY <1>9, <2>1, <4>1, <4>2
      <4>3. CASE n \notin NamesOf(new)
        BY <1>10, <2>1, <4>1, <4>3
      <4> QED
        BY <4>1, <4>2, <4>3
    <3> QED
      BY <3>1, Zenon DEF Applied
  <2>5. Settled'
    <3>1. SameSet(wanted', m_val')
      BY <1>4, <1>13
    <3>2. \A n \in NamesOf(wanted') \ missed' : Find(wanted', n) = Find(m_val', n)
      BY <1>4, <1>9, <2>1
    <3> QED
      BY <3>1, <3>2, Zenon DEF Settled
  <2> QED
    BY <1>11, <1>12, <2>2, <2>4, <2>5 DEF LoadInv
<1>14. CASE ~SameSet(new, m_val)
  <2>1. ld' = [ld EXCEPT ![c] = r]
    BY <1>4, <1>14
  <2>2. /\ ld'[c].pc = "define" /\ ld'[c].new = new /\ ld'[c].todo = NamesOf(new)
        /\ ld'[c].gone = {} /\ m_val' = m_val
    BY <1>3, <1>4, <2>1 DEF Idle
  <2>3. Setting' = {c}
    BY <1>1, <1>3, <2>1, <2>2 DEF Setting
  <2>4. LoadFits(c)'
    BY <1>4, <2>2 DEF LoadFits
  <2>5. ASSUME NEW n \in C
        PROVE  Pending(c, n)'
    <3>1. n \in ld'[c].todo /\ n \in Changed(m_val', ld'[c].new)
      BY <1>8, <2>2, <2>5
    <3> QED
      BY <3>1, Zenon DEF Pending
  <2>6. ASSUME NEW n \in G, C # {}
        PROVE  Pending(c, n)'
    <3>1. n \in Gone(m_val', ld'[c].new)
          /\ ld'[c].todo \cap Changed(m_val', ld'[c].new) # {}
      BY <1>8, <2>2, <2>6
    <3> QED
      BY <3>1, Zenon DEF Pending
  <2>7. Applied'
    <3>1. ASSUME NEW n \in known'
          PROVE  /\ m_loggers'[n] # 0 \/ Pending(c, n)'
                 /\ n \in missed' \/ Follows(n)' \/ Pending(c, n)'
      <4>1. CASE n \in C
        BY <2>5, <4>1
      <4>2. CASE n \in NamesOf(new) /\ n \notin C
        <5>1. n \in known
          <6>1. \E e \in new : e.name = n
            BY <4>2 DEF NamesOf
          <6>2. n \in NamesOf(m_val)
            BY <4>2, <6>1 DEF Changed
          <6> QED
            BY <1>3, <6>2
        <5> QED
          BY <1>4, <1>6, <1>9, <4>2, <5>1
      <4>3. CASE n \notin NamesOf(new)
        <5>1. n \in known /\ m_loggers'[n] # 0
          BY <1>4, <1>6, <4>3
        <5>2. CASE n \notin NamesOf(m_val)
          BY <1>10, <4>3, <5>1, <5>2
        <5>3. CASE n \in NamesOf(m_val)
          <6>1. n \in G
            BY <4>3, <5>3 DEF Gone
          <6>2. CASE C = {}
            <7>1. n \in Overlooked(m_val, new)
              BY <6>1, <6>2, Zenon DEF Overlooked
            <7>2. n \in missed'
              <8> HIDE DEF C, G
              <8> QED
                BY <1>4, <6>2, <7>1
            <7> QED
              BY <5>1, <7>2
          <6>3. CASE C # {}
            BY <2>6, <5>1, <6>1, <6>3
          <6> QED
            BY <5>1, <6>2, <6>3
        <5> QED
          BY <5>1, <5>2, <5>3
      <4> QED
        BY <4>1, <4>2, <4>3
    <3> QED
      BY <2>3, <3>1 DEF Applied
  <2>8. Settled'
    BY <2>3 DEF Settled
  <2> QED
    BY <1>11, <1>12, <2>3, <2>4, <2>7, <2>8, Zenon DEF LoadInv
<1> QED
  BY <1>13, <1>14

\* Steps that leave the loaders alone: the objects that are registered keep their
\* level and the appenders of the configuration, a new one has none.
LEMMA ClientLoads ==
    ASSUME ManagerInv, LoadInv, UNCHANGED config,
           \A n \in Names : m_loggers[n] # 0 => m_loggers'[n] = m_loggers[n],
           \A i \in 1..Len(objects) :
              /\ objects'[i].name = objects[i].name
              /\ objects'[i].level = objects[i].level
              /\ FromConfig(objects'[i].appenders) = FromConfig(objects[i].appenders),
           \A n \in Names : m_loggers[n] = 0 /\ m_loggers'[n] # 0
                                => Configured(n)' = <<>>
    PROVE  LoadInv'
<1>1. /\ m_val' = m_val /\ ld' = ld /\ wanted' = wanted /\ known' = known
      /\ missed' = missed /\ (disturbed' <=> disturbed)
  BY DEF config
<1> SUFFICES ASSUME ~disturbed PROVE LoadInv'
  BY <1>1, Zenon DEF LoadInv
<1>2. /\ \A b, c \in Setting : b = c
      /\ \A c \in Setting : LoadFits(c)
      /\ \A n \in NamesOf(m_val) : m_loggers[n] # 0
      /\ Applied /\ Settled /\ NoMixture
  BY Zenon DEF LoadInv
<1>3. /\ known \subseteq Names /\ NamesOf(m_val) \subseteq Names
      /\ ld \in [Loaders -> LoaderLocals]
      /\ m_loggers \in [Names -> 0..Len(objects)] /\ objects \in Seq(Objects)
  BY DEF ManagerInv, ManagerTypeOK
<1>4. Setting' = Setting /\ \A c \in Setting : c \in Loaders
  BY <1>1, Zenon DEF Setting
<1>5. ASSUME NEW n \in Names, m_loggers[n] # 0
      PROVE  /\ m_loggers[n] \in 1..Len(objects) /\ m_loggers'[n] = m_loggers[n]
             /\ Configured(n)' = Configured(n)
             /\ Follows(n) => Follows(n)'
  <2>1. m_loggers[n] \in 1..Len(objects)
    BY <1>5, LoggerOf
  <2>2. m_loggers'[n] = m_loggers[n]
    BY <1>5
  <2>3. Configured(n)' = Configured(n)
    BY <2>1, <2>2 DEF Configured
  <2>4. objects'[m_loggers[n]].level = objects[m_loggers[n]].level
    BY <2>1
  <2>5. Follows(n) => Follows(n)'
    BY <1>1, <2>2, <2>3, <2>4, Zenon DEF Follows
  <2> QED
    BY <2>1, <2>2, <2>3, <2>5
<1>6. ASSUME NEW c \in Setting
      PROVE  LoadFits(c)'
  <2>1. c \in Loaders /\ LoadFits(c) /\ ld[c].pc \in Places
    BY <1>2, <1>4, LocalsType
  <2>2. ld[c].pc \in Applying =>
           /\ ld[c].d.name \in Names /\ m_loggers[ld[c].d.name] = ld[c].id
           /\ ld[c].id \in 1..Len(objects)
    BY <2>1, LocalsType, DefineType
  <2>3. ld[c].pc = "eraseClear" => ld[c].id \in 1..Len(objects)
    BY <2>1, LocalsType
  <2>4. /\ wanted' = ld'[c].new /\ ld'[c].gone \subseteq Gone(m_val', ld'[c].new)
        /\ ld'[c].pc \in {"level", "clear"} => ld'[c].added = 0
        /\ ld'[c].pc = "write" => ld'[c].todo = {}
    BY <1>1, <2>1 DEF LoadFits
  <2>5. ld'[c].pc \in {"clear", "add"} => objects'[ld'[c].id].level = ld'[c].d.level
    BY <1>1, <2>1, <2>2 DEF LoadFits, Applying
  <2>6. ld'[c].pc = "add" =>
          Configured(ld[c].d.name)' = SubSeq(AppendersOf(ld'[c].d), 1, ld'[c].added)
    <3> SUFFICES ASSUME ld[c].pc = "add"
                 PROVE  Configured(ld[c].d.name)'
                            = SubSeq(AppendersOf(ld[c].d), 1, ld[c].added)
      BY <1>1
    <3>1. PICK n : n = ld[c].d.name
      OBVIOUS
    <3>2. n \in Names /\ m_loggers[n] # 0
      BY <2>2, <3>1 DEF Applying
    <3>3. Configured(n)' = Configured(n)
      BY <1>5, <3>2
    <3>4. Configured(ld[c].d.name)' = Configured(n)'
      BY <1>1, <3>1 DEF Configured
    <3>5. Configured(n) = SubSeq(AppendersOf(ld[c].d), 1, ld[c].added)
      BY <2>1, <3>1 DEF LoadFits
    <3> QED
      BY <3>3, <3>4, <3>5
  <2>7. ld'[c].pc = "eraseClear" =>
          /\ objects'[ld'[c].id].level = UNKNOW
          /\ objects'[ld'[c].id].name \in Gone(m_val', ld'[c].new)
    BY <1>1, <2>1, <2>3 DEF LoadFits
  <2> QED
    BY <2>4, <2>5, <2>6, <2>7, Zenon DEF LoadFits
<1>7. ASSUME NEW n \in Names, NEW c \in Setting, Pending(c, n)
      PROVE  Pending(c, n)'
  <2>1. CASE \/ n \in ld[c].todo /\ n \in Changed(m_val, ld[c].new)
             \/ ld[c].pc \in Applying /\ n = ld[c].d.name
             \/ /\ n \in Gone(m_val, ld[c].new)
                /\ \/ ld[c].todo \cap Changed(m_val, ld[c].new) # {}
                   \/ ld[c].pc \in Applying
                   \/ n \in ld[c].gone
    BY <1>1, <2>1, Zenon DEF Pending
  <2>2. CASE /\ n \in Gone(m_val, ld[c].new)
             /\ ld[c].pc = "eraseClear" /\ m_loggers[n] = ld[c].id
    <3>1. ld[c].id # 0
      BY <1>4, <2>2, LocalsType
    <3>2. m_loggers'[n] = ld[c].id
      BY <2>2, <3>1
    <3> QED
      BY <1>1, <2>2, <3>2, Zenon DEF Pending
  <2> QED
    BY <1>7, <2>1, <2>2, Zenon DEF Pending
<1>8. Applied'
  <2>1. ASSUME NEW n \in known
        PROVE  /\ m_loggers'[n] # 0 \/ \E c \in Setting : Pending(c, n)'
               /\ n \in missed \/ Follows(n)' \/ \E c \in Setting : Pending(c, n)'
    <3>1. /\ m_loggers[n] # 0 \/ \E c \in Setting : Pending(c, n)
          /\ n \in missed \/ Follows(n) \/ \E c \in Setting : Pending(c, n)
      BY <1>2, Zenon DEF Applied
    <3>2. n \in Names /\ (Follows(n) => m_loggers[n] # 0)
      BY <1>3 DEF Follows
    <3>3. (\E c \in Setting : Pending(c, n)) => \E c \in Setting : Pending(c, n)'
      BY <1>7, <3>2, Zenon
    <3>4. m_loggers[n] # 0 => m_loggers'[n] # 0 /\ (Follows(n) => Follows(n)')
      BY <1>5, <3>2
    <3> QED
      BY <3>1, <3>2, <3>3, <3>4, Zenon
  <2> QED
    BY <1>1, <1>4, <2>1, Zenon DEF Applied
<1>9. Settled'
  BY <1>1, <1>2, <1>4, Zenon DEF Settled
<1>10. \A n \in NamesOf(m_val') : m_loggers'[n] # 0
  BY <1>1, <1>2, <1>3
<1>11. NoMixture'
  <2>1. ASSUME NEW n \in Names, m_loggers'[n] # 0
        PROVE  \/ m_loggers[n] # 0 /\ Configured(n)' = Configured(n)
               \/ Configured(n)' = <<>>
    BY <1>5, <2>1, Zenon
  <2> QED
    BY <1>2, <2>1, NoMixtureStep, Zenon
<1>12. \A b, c \in Setting' : b = c
  BY <1>2, <1>4
<1>13. \A c \in Setting' : LoadFits(c)'
  BY <1>4, <1>6
<1> QED
  BY <1>8, <1>9, <1>10, <1>11, <1>12, <1>13, Zenon DEF LoadInv

\* A client gets a logger, which may be new and undefined.
LEMMA HoldLoads ==
    ASSUME ManagerInv, LoadInv, NEW t \in Clients, NEW n \in Names, Hold(t, n)
    PROVE  LoadInv'
<1>1. GetLogger(n) /\ UNCHANGED config /\ objects \in Seq(Objects)
      /\ m_loggers \in [Names -> 0..Len(objects)] /\ Len(objects) \in Nat
  BY DEF Hold, ManagerInv, ManagerTypeOK
<1>2. /\ \A i \in 1..Len(objects) : objects'[i] = objects[i]
      /\ \A m \in Names : m # n \/ m_loggers[m] # 0 => m_loggers'[m] = m_loggers[m]
      /\ m_loggers[n] = 0 => objects'[m_loggers'[n]].appenders = <<>>
  BY <1>1, GetLoggerStep
<1>3. ASSUME NEW m \in Names, m_loggers[m] = 0, m_loggers'[m] # 0
      PROVE  Configured(m)' = <<>>
  <2>1. m = n
    BY <1>2, <1>3
  <2>2. Configured(m)' = FromConfig(<<>>)
    BY <1>2, <1>3, <2>1, Zenon DEF Configured
  <2> QED
    BY <2>2, FromConfigEmpty, Zenon
<1>4. \A i \in 1..Len(objects) :
         /\ objects'[i].name = objects[i].name
         /\ objects'[i].level = objects[i].level
         /\ FromConfig(objects'[i].appenders) = FromConfig(objects[i].appenders)
  BY <1>2
<1>5. \A m \in Names : m_loggers[m] # 0 => m_loggers'[m] = m_loggers[m]
  BY <1>2
<1> QED
  BY <1>1, <1>3, <1>4, <1>5, ClientLoads

\* A client's appender is none of the configuration.
LEMMA ClientAppenderLoads ==
    ASSUME ManagerInv, LoadInv, NEW t \in Clients, ClientAppender(t)
    PROVE  LoadInv'
<1>1. UNCHANGED config /\ m_loggers' = m_loggers
  BY DEF ClientAppender
<1>2. PICK a \in Seq(Entries) :
        /\ held[t] \in 1..Len(objects)
        /\ Replaced(held[t], objects[held[t]].level, a)
        /\ FromConfig(a) = FromConfig(objects[held[t]].appenders)
  BY ClientAppenderDoes
<1>3. \A i \in 1..Len(objects) :
         /\ objects'[i].name = objects[i].name
         /\ objects'[i].level = objects[i].level
         /\ FromConfig(objects'[i].appenders) = FromConfig(objects[i].appenders)
  <2> SUFFICES ASSUME NEW i \in 1..Len(objects)
               PROVE  /\ objects'[i].name = objects[i].name
                      /\ objects'[i].level = objects[i].level
                      /\ FromConfig(objects'[i].appenders) = FromConfig(objects[i].appenders)
    OBVIOUS
  <2>1. CASE i = held[t]
    BY <1>2, <2>1, Zenon DEF Replaced
  <2>2. CASE i # held[t]
    BY <1>2, <2>2 DEF Replaced
  <2> QED
    BY <2>1, <2>2
<1>4. \A m \in Names : m_loggers[m] = 0 /\ m_loggers'[m] # 0 => Configured(m)' = <<>>
  BY <1>1
<1>5. \A m \in Names : m_loggers[m] # 0 => m_loggers'[m] = m_loggers[m]
  BY <1>1
<1> QED
  BY <1>1, <1>3, <1>4, <1>5, ClientLoads

\* A step that changes nothing but a client's place.
LEMMA StillLoads ==
    ASSUME ManagerInv, LoadInv, UNCHANGED <<config, manager>>
    PROVE  LoadInv'
<1>1. objects' = objects /\ m_loggers' = m_loggers /\ UNCHANGED config
  BY DEF manager
<1>2. \A i \in 1..Len(objects) :
         /\ objects'[i].name = objects[i].name
         /\ objects'[i].level = objects[i].level
         /\ FromConfig(objects'[i].appenders) = FromConfig(objects[i].appenders)
  BY <1>1
<1>3. \A m \in Names : m_loggers[m] # 0 => m_loggers'[m] = m_loggers[m]
  BY <1>1
<1>4. \A m \in Names : m_loggers[m] = 0 /\ m_loggers'[m] # 0 => Configured(m)' = <<>>
  BY <1>1
<1> QED
  BY <1>1, <1>2, <1>3, <1>4, ClientLoads

\* At the start there is no definition and no logger that needs one.
LEMMA LoadInitial == Init => LoadInv
<1> SUFFICES ASSUME Init PROVE LoadInv
  OBVIOUS
<1>1. /\ m_val = {} /\ wanted = {} /\ known = {}
      /\ \A c \in Loaders : ld[c].pc = "idle"
  BY DEF Init, Idle
<1>2. Setting = {}
  BY <1>1 DEF Setting
<1>3. Applied /\ \A n \in NamesOf(m_val) : m_loggers[n] # 0
  BY <1>1 DEF Applied, NamesOf
<1>4. Settled
  BY <1>1 DEF Settled, SameSet, NamesOf
<1>5. NoMixture
  <2> DEFINE e == Entry("config", StdoutLogAppender)
  <2>1. e \in Entries /\ e.by = "config" /\ e.a = StdoutLogAppender
    BY DEF Entry, Entries, Appenders
  <2>2. ASSUME NEW n \in Names, m_loggers[n] # 0
        PROVE  n = Root /\ objects[m_loggers[n]].appenders = <<e>>
    BY <2>2 DEF Init, Logger
  <2> HIDE DEF e
  <2>3. FromConfig(<<e>>) = <<StdoutLogAppender>>
    <3>1. <<>> \in Seq(Entries)
      OBVIOUS
    <3>2. FromConfig(Append(<<>>, e)) = Append(FromConfig(<<>>), e.a)
      BY <2>1, <3>1, FromConfigAppend, Zenon
    <3>3. Append(<<>>, e) = <<e>> /\ Append(<<>>, StdoutLogAppender) = <<StdoutLogAppender>>
      OBVIOUS
    <3> QED
      BY <2>1, <3>2, <3>3, FromConfigEmpty, Zenon
  <2>4. \A n \in Names : m_loggers[n] # 0 =>
            n = Root /\ Configured(n) = <<StdoutLogAppender>>
    BY <2>2, <2>3, Zenon DEF Configured
  <2> QED
    BY <2>4, Zenon DEF NoMixture
<1> QED
  BY <1>2, <1>3, <1>4, <1>5, Zenon DEF LoadInv

\* Every step keeps LoadInv.
LEMMA LoadNext == ManagerInv /\ LoadInv /\ [Next]_vars => LoadInv'
<1> SUFFICES ASSUME ManagerInv, LoadInv, [Next]_vars PROVE LoadInv'
  OBVIOUS
<1>1. ASSUME NEW c \in Loaders, Loader(c) PROVE LoadInv'
  <2>1. CASE \E doc \in Documents : Load(c, doc)
    BY <2>1, LoadLoads
  <2>2. CASE ~disturbed /\ ~\E doc \in Documents : Load(c, doc)
    BY <1>1, <2>2, SkipDefineLoads, GetDefineLoads, ApplyLevelLoads, ApplyClearLoads,
       ApplyAppenderLoads, ApplyDoneLoads, EraseLevelLoads, EraseClearLoads,
       ListenerDoneLoads, WriteLoads, Zenon DEF Loader
  <2>3. CASE disturbed /\ ~\E doc \in Documents : Load(c, doc)
    <3>1. disturbed' <=> disturbed
      BY <1>1, <2>3, Zenon DEF Loader, SkipDefine, GetDefine, ApplyLevel, ApplyClear,
         ApplyAppender, ApplyDone, EraseLevel, EraseClear, ListenerDone, Write, LoaderOnly
    <3> QED
      BY <2>3, <3>1, Zenon DEF LoadInv
  <2> QED
    BY <2>1, <2>2, <2>3, Zenon
<1>2. ASSUME NEW t \in Clients, Client(t) PROVE LoadInv'
  <2>1. CASE \E n \in Names : Hold(t, n)
    BY <2>1, HoldLoads
  <2>2. CASE ClientAppender(t)
    BY <2>2, ClientAppenderLoads
  <2>3. CASE \/ \E l, e \in Events : LogMacro(t, e) \/ LogDirect(t, l, e)
             \/ LogTest(t) \/ LogOutput(t)
    <3>1. UNCHANGED <<config, manager>>
      BY <2>3 DEF LogMacro, LogDirect, LogTest, LogOutput
    <3> QED
      BY <3>1, StillLoads
  <2> QED
    BY <1>2, <2>1, <2>2, <2>3 DEF Client
<1>3. CASE UNCHANGED vars
  BY <1>3, StillLoads DEF vars
<1> QED
  BY <1>1, <1>2, <1>3 DEF Next

-----------------------------------------------------------------------------
\* StatementFits is inductive

\* A step of a client leaves the statements of the others as they are.
LEMMA StatementStep ==
    ASSUME ManagerInv, StatementFits, NEW t \in Clients, ld' = ld,
           \A u \in Clients : u # t => /\ held'[u] = held[u] /\ cpc'[u] = cpc[u]
                                       /\ lev'[u] = lev[u] /\ (fresh'[u] <=> fresh[u]),
           \A i \in 1..Len(objects) : objects'[i].level = objects[i].level,
           StatementFit(t)'
    PROVE  StatementFits'
<1>1. ASSUME NEW u \in Clients, u # t PROVE StatementFit(u)'
  <2>1. held[u] # 0 => objects'[held[u]].level = objects[held[u]].level
    BY DEF ManagerInv, ManagerTypeOK
  <2>2. StatementFit(u) /\ Setting' = Setting
    BY DEF StatementFits, Setting
  <2>3. held'[u] = held[u] /\ cpc'[u] = cpc[u] /\ lev'[u] = lev[u] /\ (fresh'[u] <=> fresh[u])
    BY <1>1
  <2>4. cpc[u] # "idle" /\ fresh[u] =>
          /\ Setting = {} /\ held[u] # 0
          /\ cpc[u] = "output" => lev[u] >= objects[held[u]].level
          /\ cpc[u] = "skip" => lev[u] < objects[held[u]].level
    BY <2>2, Zenon DEF StatementFit
  <2>5. cpc'[u] # "idle" /\ fresh'[u] =>
          /\ Setting' = {} /\ held'[u] # 0
          /\ cpc'[u] = "output" => lev'[u] >= objects'[held'[u]].level
          /\ cpc'[u] = "skip" => lev'[u] < objects'[held'[u]].level
    BY <2>1, <2>2, <2>3, <2>4, Zenon
  <2> QED
    BY <2>5, Zenon DEF StatementFit
<1>2. \A u \in Clients : StatementFit(u)'
  BY <1>1
<1> QED
  BY <1>2, Zenon DEF StatementFits

\* While a loader is in setValue no statement that is under way counts as fresh,
\* and a load that begins makes all of them stale.
LEMMA StatementLoader ==
    ASSUME ManagerInv, StatementFits, NEW c \in Loaders, Loader(c)
    PROVE  StatementFits'
<1>1. CASE \E doc \in Documents : Load(c, doc)
  <2>1. cpc' = cpc /\ fresh' = [t \in Clients |-> cpc[t] = "idle"]
    BY <1>1, Zenon DEF Load
  <2>2. ASSUME NEW t \in Clients, cpc'[t] # "idle" PROVE ~fresh'[t]
    BY <2>1, <2>2, Zenon
  <2> QED
    BY <2>2, Zenon DEF StatementFits, StatementFit
<1>2. CASE ~\E doc \in Documents : Load(c, doc)
  <2>1. ld[c].pc # "idle" /\ UNCHANGED client
    BY <1>1, <1>2, Zenon DEF Loader, SkipDefine, GetDefine, ApplyLevel, ApplyClear,
       ApplyAppender, ApplyDone, EraseLevel, EraseClear, ListenerDone, Write
  <2>2. cpc' = cpc /\ fresh' = fresh /\ Setting # {}
    BY <2>1 DEF client, Setting
  <2>3. \A t \in Clients : ~(cpc[t] # "idle" /\ fresh[t])
    BY <2>2, Zenon DEF StatementFits, StatementFit
  <2> QED
    BY <2>2, <2>3, Zenon DEF StatementFits, StatementFit
<1> QED
  BY <1>1, <1>2

\* The steps of clients that change loggers under a statement of another.
LEMMA StatementHold ==
    ASSUME ManagerInv, StatementFits, NEW t \in Clients,
           (\E n \in Names : Hold(t, n)) \/ ClientAppender(t)
    PROVE  StatementFits'
<1>1. /\ cpc' = cpc /\ lev' = lev /\ fresh' = fresh /\ cpc[t] = "idle" /\ ld' = ld
      /\ objects \in Seq(Objects)
  BY DEF Hold, ClientAppender, client, config, ManagerInv, ManagerTypeOK
<1>2. \A i \in 1..Len(objects) : objects'[i].level = objects[i].level
  <2>1. CASE \E n \in Names : Hold(t, n)
    BY <2>1, GetLoggerStep DEF Hold
  <2>2. CASE ClientAppender(t)
    BY <2>2, ClientAppenderDoes DEF Replaced
  <2> QED
    BY <2>1, <2>2
<1>3. \A u \in Clients : u # t => held'[u] = held[u]
  BY DEF Hold, ClientAppender, client, ManagerInv, ManagerTypeOK
<1>4. StatementFit(t)'
  BY <1>1, Zenon DEF StatementFit
<1>5. \A u \in Clients : u # t => /\ held'[u] = held[u] /\ cpc'[u] = cpc[u]
                                  /\ lev'[u] = lev[u] /\ (fresh'[u] <=> fresh[u])
  BY <1>1, <1>3, Zenon
<1> QED
  BY <1>1, <1>2, <1>4, <1>5, StatementStep

\* A statement begins, tests the level again, and ends.
LEMMA StatementSteps ==
    ASSUME ManagerInv, StatementFits, NEW t \in Clients,
           \/ \E l, e \in Events : LogMacro(t, e) \/ LogDirect(t, l, e)
           \/ LogTest(t) \/ LogOutput(t)
    PROVE  StatementFits'
<1>1. /\ ld' = ld /\ held' = held /\ objects' = objects
      /\ cpc \in [Clients -> {"idle", "log", "output", "skip"}]
      /\ lev \in [Clients -> DEBUG..FATAL] /\ fresh \in [Clients -> BOOLEAN]
      /\ objects \in Seq(Objects) /\ held[t] \in 0..Len(objects)
  <2>1. ld' = ld /\ held' = held /\ objects' = objects
    BY DEF LogMacro, LogDirect, LogTest, LogOutput, config, manager
  <2>2. cpc \in [Clients -> {"idle", "log", "output", "skip"}]
        /\ lev \in [Clients -> DEBUG..FATAL] /\ fresh \in [Clients -> BOOLEAN]
    BY Zenon DEF ManagerInv, ClientTypeOK
  <2>3. objects \in Seq(Objects) /\ held[t] \in 0..Len(objects)
    BY DEF ManagerInv, ManagerTypeOK
  <2> QED
    BY <2>1, <2>2, <2>3
<1>2. Setting' = Setting
  BY <1>1 DEF Setting
<1>3. held[t] # 0 => objects[held[t]].level \in Nat
  <2>1. held[t] # 0 => objects[held[t]] \in Objects
    BY <1>1
  <2> QED
    BY <2>1 DEF Objects, Levels, UNKNOW, FATAL
<1>4. CASE \E l, e \in Events : LogMacro(t, e) \/ LogDirect(t, l, e)
  <2>1. PICK e \in Events : LogMacro(t, e) \/ \E d \in Events : LogDirect(t, e, d)
    BY <1>4
  <2>2. /\ held[t] # 0 /\ e \in Nat
        /\ lev' = [lev EXCEPT ![t] = e] /\ fresh' = [fresh EXCEPT ![t] = (Setting = {})]
    <3>1. e \in Nat
      BY LogAssumption DEF DEBUG, FATAL
    <3> QED
      BY <2>1, <3>1, Zenon DEF LogMacro, LogDirect
  <2>3. PICK p \in {"log", "skip"} :
          /\ cpc' = [cpc EXCEPT ![t] = p]
          /\ p = "skip" => ~(objects[held[t]].level <= e)
    BY <2>1 DEF LogMacro, LogDirect
  <2>4. /\ cpc'[t] = p /\ \A u \in Clients : u # t => cpc'[u] = cpc[u]
        /\ lev'[t] = e /\ \A u \in Clients : u # t => lev'[u] = lev[u]
    BY <1>1, <2>2, <2>3
  <2>5. /\ fresh'[t] <=> Setting = {}
        /\ \A u \in Clients : u # t => (fresh'[u] <=> fresh[u])
    BY <1>1, <2>2, Zenon
  <2>6. cpc'[t] = "skip" => lev'[t] < objects'[held'[t]].level
    BY <1>1, <1>3, <2>2, <2>3, <2>4
  <2>7. cpc'[t] # "output" /\ held'[t] # 0
    BY <1>1, <2>2, <2>3, <2>4
  <2>8. StatementFit(t)'
    BY <1>2, <2>5, <2>6, <2>7, Zenon DEF StatementFit
  <2> QED
    BY <1>1, <2>4, <2>5, <2>8, StatementStep, Zenon
<1>5. CASE LogTest(t)
  <2>1. PICK p \in {"output", "skip"} :
          /\ cpc' = [cpc EXCEPT ![t] = p]
          /\ p = "output" => lev[t] >= objects[held[t]].level
          /\ p = "skip" => ~(lev[t] >= objects[held[t]].level)
    BY <1>5 DEF LogTest
  <2>2. cpc[t] = "log" /\ lev' = lev /\ fresh' = fresh
    BY <1>5 DEF LogTest
  <2>3. cpc'[t] = p /\ \A u \in Clients : u # t => cpc'[u] = cpc[u]
    BY <1>1, <2>1
  <2>4. fresh[t] => Setting = {} /\ held[t] # 0
    <3>1. StatementFit(t)
      BY DEF StatementFits
    <3> QED
      BY <2>2, <3>1, Zenon DEF StatementFit
  <2>5. held[t] # 0 =>
          /\ cpc'[t] = "output" => lev'[t] >= objects'[held'[t]].level
          /\ cpc'[t] = "skip" => lev'[t] < objects'[held'[t]].level
    <3>1. lev[t] \in Nat
      BY <1>1 DEF DEBUG, FATAL
    <3> QED
      BY <1>1, <1>3, <2>1, <2>2, <2>3, <3>1
  <2>6. StatementFit(t)'
    BY <1>1, <1>2, <2>2, <2>4, <2>5, Zenon DEF StatementFit
  <2>7. \A u \in Clients : u # t => /\ held'[u] = held[u] /\ cpc'[u] = cpc[u]
                                    /\ lev'[u] = lev[u] /\ (fresh'[u] <=> fresh[u])
    BY <1>1, <2>2, <2>3, Zenon
  <2> QED
    BY <1>1, <2>6, <2>7, StatementStep
<1>6. CASE LogOutput(t)
  <2>1. cpc'[t] = "idle" /\ \A u \in Clients : u # t => cpc'[u] = cpc[u]
    BY <1>1, <1>6 DEF LogOutput
  <2>2. \A u \in Clients : u # t => lev'[u] = lev[u]
    BY <1>1, <1>6 DEF LogOutput
  <2>3. \A u \in Clients : u # t => (fresh'[u] <=> fresh[u])
    BY <1>1, <1>6, Zenon DEF LogOutput
  <2>4. StatementFit(t)'
    BY <2>1, Zenon DEF StatementFit
  <2>5. \A u \in Clients : u # t => /\ held'[u] = held[u] /\ cpc'[u] = cpc[u]
                                    /\ lev'[u] = lev[u] /\ (fresh'[u] <=> fresh[u])
    BY <1>1, <2>1, <2>2, <2>3, Zenon
  <2> QED
    BY <1>1, <2>4, <2>5, StatementStep
<1> QED
  BY <1>4, <1>5, <1>6

\* Every step keeps StatementFits.
LEMMA StatementNext == ManagerInv /\ StatementFits /\ [Next]_vars => StatementFits'
<1> SUFFICES ASSUME ManagerInv, StatementFits, [Next]_vars PROVE StatementFits'
  OBVIOUS
<1>1. ASSUME NEW c \in Loaders, Loader(c) PROVE StatementFits'
  BY <1>1, StatementLoader
<1>2. ASSUME NEW t \in Clients, Client(t) PROVE StatementFits'
  BY <1>2, StatementHold, StatementSteps DEF Client
<1>3. CASE UNCHANGED vars
  <2>1. /\ ld' = ld /\ held' = held /\ objects' = objects /\ cpc' = cpc /\ lev' = lev
        /\ fresh' = fresh
    BY <1>3 DEF vars, config, manager, client
  <2>2. Setting' = Setting
    BY <2>1 DEF Setting
  <2> QED
    BY <2>1, <2>2, Zenon DEF StatementFits, StatementFit
<1> QED
  BY <1>1, <1>2, <1>3 DEF Next

-----------------------------------------------------------------------------
\* What a logger and a log statement meet while loads do not overlap

\* The invariant holds at the start.
LEMMA LogProofInitial == Init => LogProofInv
<1> SUFFICES ASSUME Init PROVE LogProofInv
  OBVIOUS
<1>1. \A t \in Clients : cpc[t] = "idle"
  BY DEF Init
<1>2. StatementFits
  BY <1>1, Zenon DEF StatementFits, StatementFit
<1> QED
  BY <1>2, ManagerInitial, LoadInitial DEF LogProofInv

\* The inductive invariant: the manager's, what a load has done so far, and what a
\* log statement under way has seen.
LEMMA LogProofInvariance == Spec => []LogProofInv
<1>1. LogProofInv /\ [Next]_vars => LogProofInv'
  BY ManagerNext, LoadNext, StatementNext DEF LogProofInv
<1> QED
  BY <1>1, LogProofInitial, PTL DEF Spec

\* Until two loads overlap (disturbed), whatever is loaded in whatever order: when
\* no load is under way, every logger a configuration has ever named is as the last
\* configuration describes it, or erased.  Excepted are the names in missed: those
\* whose appenders differ at an equal level, which operator== does not see, and
\* those dropped by a configuration that adds and changes none.
THEOREM ConfigAppliedHolds == Spec => []ConfigApplied
<1>1. LogProofInv => ConfigApplied
  <2> SUFFICES ASSUME LogProofInv, ~disturbed, Setting = {}, NEW n \in known \ missed
               PROVE  Follows(n)
    BY Zenon DEF ConfigApplied
  <2>1. Applied
    BY Zenon DEF LogProofInv, LoadInv
  <2> QED
    BY <2>1 DEF Applied
<1> QED
  BY <1>1, LogProofInvariance, PTL

\* At no step of a load does a logger hold appenders of two definitions, or those
\* of one in another order.
THEOREM NoMixtureHolds == Spec => []NoMixture
<1>1. LogProofInv => NoMixture
  <2>1. CASE disturbed
    BY <2>1, Zenon DEF NoMixture
  <2>2. CASE ~disturbed
    BY <2>2, Zenon DEF LogProofInv, LoadInv
  <2> QED
    BY <2>1, <2>2
<1> QED
  BY <1>1, LogProofInvariance, PTL

\* A log statement that no load overlaps with is written by the appenders the
\* last configuration names for its levels, in their order, and by no other of the
\* configuration, through whatever pointer to the logger the client has kept.
\* Nothing is said of names that no configuration has had, of names in missed (a
\* change of appenders that operator== does not see, a drop by a configuration
\* that changes nothing else), and once two loads have ever overlapped.
THEOREM OutputFollowsHolds == Spec => []OutputFollows
<1>1. LogProofInv => OutputFollows
  <2> SUFFICES ASSUME LogProofInv PROVE OutputFollows
    OBVIOUS
  <2>1. ManagerInv /\ LoadInv /\ StatementFits
    BY DEF LogProofInv
  <2>2. ASSUME NEW t \in Clients, cpc[t] \in {"output", "skip"}, fresh[t], ~disturbed,
               NEW n, n = objects[held[t]].name, n \in known \ missed
        PROVE  FromConfig(Written(t)) = Expected(n, lev[t], ev[t])
    <3> DEFINE entries == objects[held[t]].appenders
               want == AppendersOf(Find(wanted, n))
    <3>1. /\ Setting = {} /\ held[t] # 0
          /\ cpc[t] = "output" => lev[t] >= objects[held[t]].level
          /\ cpc[t] = "skip" => lev[t] < objects[held[t]].level
      <4>1. StatementFit(t)
        BY <2>1 DEF StatementFits
      <4>2. cpc[t] # "idle"
        BY <2>2
      <4> QED
        BY <2>2, <4>1, <4>2, Zenon DEF StatementFit
    <3>2. /\ held[t] \in 1..Len(objects) /\ objects \in Seq(Objects)
          /\ m_loggers[n] = held[t] /\ wanted \in Configurations
      BY <2>1, <2>2, <3>1 DEF ManagerInv, ManagerTypeOK, Managed
    <3>3. /\ entries \in Seq(Entries) /\ objects[held[t]].level \in Nat
      <4>1. objects[held[t]] \in Objects
        BY <3>2
      <4> QED
        BY <4>1 DEF Objects, Levels, UNKNOW, FATAL
    <3>4. lev[t] \in Nat /\ ev[t] \in Nat
      <4>1. lev \in [Clients -> DEBUG..FATAL] /\ ev \in [Clients -> DEBUG..FATAL]
        BY <2>1, Zenon DEF ManagerInv, ClientTypeOK
      <4> QED
        BY <4>1 DEF DEBUG, FATAL
    <3>5. Follows(n)
      <4>1. Applied
        BY <2>1, <2>2, Zenon DEF LoadInv
      <4> QED
        BY <2>2, <3>1, <4>1 DEF Applied
    <3>6. /\ n \in NamesOf(wanted) => /\ objects[held[t]].level = Find(wanted, n).level
                                      /\ FromConfig(entries) = want
          /\ n \notin NamesOf(wanted) => FromConfig(entries) = <<>>
      BY <3>2, <3>5, Zenon DEF Follows, Configured
    <3>7. CASE cpc[t] = "skip"
      <4>1. Written(t) = <<>>
        BY <3>7, Zenon DEF Written
      <4>2. Expected(n, lev[t], ev[t]) = <<>>
        <5>1. ~(n \in NamesOf(wanted) /\ Find(wanted, n).level <= lev[t])
          BY <3>1, <3>3, <3>4, <3>6, <3>7
        <5> QED
          BY <5>1, Zenon DEF Expected
      <4> QED
        BY <4>1, <4>2, FromConfigEmpty, Zenon
    <3>8. CASE cpc[t] = "output"
      <4>1. Written(t) = Selected(entries, {e \in Range(entries) : ev[t] >= e.a.level})
        BY <3>8, Zenon DEF Written
      <4> HIDE DEF entries, want
      <4>2. \A x \in Appenders : x.level \in Nat
        BY AppendersType, Zenon
      <4>3. FromConfig(Written(t)) =
              Selected(FromConfig(entries),
                       {x \in Range(FromConfig(entries)) : x.level <= ev[t]})
        BY <3>3, <3>4, <4>1, <4>2, FromConfigSelected, Zenon
      <4>4. CASE n \in NamesOf(wanted)
        <5>1. Find(wanted, n).level <= lev[t]
          BY <3>1, <3>3, <3>4, <3>6, <3>8, <4>4
        <5>2. Expected(n, lev[t], ev[t]) = Selected(want, {a \in Range(want) : a.level <= ev[t]})
          BY <4>4, <5>1, Zenon DEF Expected, want
        <5> QED
          BY <3>6, <4>3, <4>4, <5>2, Zenon
      <4>5. CASE n \notin NamesOf(wanted)
        <5>1. Expected(n, lev[t], ev[t]) = <<>>
          BY <4>5, Zenon DEF Expected
        <5>2. FromConfig(entries) = <<>>
          BY <3>6, <4>5
        <5> QED
          BY <4>3, <5>1, <5>2, SelectedEmpty, Zenon
      <4> QED
        BY <4>4, <4>5
    <3> QED
      BY <2>2, <3>7, <3>8
  <2> QED
    BY <2>2, Zenon DEF OutputFollows
<1> QED
  BY <1>1, LogProofInvariance, PTL

=============================================================================
