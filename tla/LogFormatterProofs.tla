-------------------------- MODULE LogFormatterProofs --------------------------
(***************************************************************************)
(* Theorems about LogFormatter, for patterns of any length over any        *)
(* letters: init() accepts exactly the well-formed ones, what it makes of  *)
(* them prints what they mean, and its positions stay in the pattern.      *)
(***************************************************************************)
EXTENDS LogFormatter, SequenceTheorems, WellFoundedInduction, TLAPS

-----------------------------------------------------------------------------
\* The inductive invariants

\* What a text is made of: letters of patterns, the fields of an event, the
\* default format of a time, and the pieces of the error messages.
Kinds == {s_format_items[x] : x \in DOMAIN s_format_items}
Symbols == Letters \cup Kinds
           \cup {"default", "<<pattern_error>>", "<<error_format_%", ">>"}
Text == Seq(Symbols)
Names == {x \in Seq(Letters) : Known(x)}
TextItems == {TextItem(s) : s \in Text}
FieldItems == {Item(name, f) : name \in Names, f \in Text}
Items == TextItems \cup FieldItems
VecEntries == [s : Text, fmt : Text, type : {0}] \cup [s : Seq(Letters), fmt : Text, type : {1}]

FormatterTypeOK ==
    /\ m_pattern \in Seq(Letters)
    /\ m_items \in Seq(Items) /\ vec \in Seq(VecEntries)
    /\ m_error \in BOOLEAN
    /\ pc \in {"scan", "name", "push", "items", "done"}
    /\ i \in 1..Size + 1 /\ n \in Nat /\ fmt_begin \in Nat /\ fmt_status \in {0, 1}
    /\ str \in Seq(Letters) /\ fmt \in Seq(Letters) /\ nstr \in Text

\* From the percent sign at i to before e there is nothing but letters of a name.
Name(e) == \A k \in i + 1..e - 1 : m_pattern[k] \in Alpha \cup {RBrace}
\* From a brace at b to before e the format is not closed.
Open(b, e) ==
    /\ i < b /\ b < e /\ m_pattern[b] = LBrace /\ Name(b)
    /\ \A k \in b + 1..e - 1 : m_pattern[k] # RBrace

\* What init() has read of the item that begins at i.
NameRead ==
    pc = "name" =>
        /\ m_pattern[i] = "%" /\ ~Escaped /\ i < n /\ n <= Size + 1 /\ fmt = <<>>
        /\ fmt_status = 0 =>
            /\ Name(n)
            /\ str = IF n > Size THEN SubSeq(m_pattern, i + 1, Size) ELSE <<>>
        /\ fmt_status = 1 =>
            /\ Open(fmt_begin, n)
            /\ n <= Size => str = SubSeq(m_pattern, i + 1, fmt_begin - 1)

\* The three ways to come to the end of an item.
Plain ==
    /\ Name(n) /\ fmt = <<>> /\ str = SubSeq(m_pattern, i + 1, n - 1)
    /\ n <= Size => EndsName(m_pattern[n])
Braced ==
    /\ Open(fmt_begin, n - 1) /\ m_pattern[n - 1] = RBrace
    /\ str = SubSeq(m_pattern, i + 1, fmt_begin - 1)
    /\ fmt = SubSeq(m_pattern, fmt_begin + 1, n - 2)
ItemRead ==
    pc = "push" =>
        /\ m_pattern[i] = "%" /\ ~Escaped /\ i < n /\ n <= Size + 1
        /\ fmt_status = 0 => Plain \/ Braced
        /\ fmt_status = 1 => n = Size + 1 /\ Open(fmt_begin, n)

ReadInv == FormatterTypeOK /\ NameRead /\ ItemRead

\* What MakeItem makes of an entry, and whether that is an error.
Made(e) ==
    IF e.type = 0 THEN TextItem(e.s)
    ELSE IF Known(e.s) THEN Item(e.s, e.fmt)
    ELSE TextItem(<<"<<error_format_%">> \o e.s \o <<">>">>)
Wrong(e) == e.type = 1 /\ ~Known(e.s)

\* What will be printed of what has been read, and whether there was an error.
WillPrint(items, entries) == Outputs(items \o [k \in 1..Len(entries) |-> Made(entries[k])])
Printed == WillPrint(m_items, vec)
AnyWrong(entries) == \E k \in 1..Len(entries) : Wrong(entries[k])
Failed == m_error \/ AnyWrong(vec)

\* The pattern means what has been read of it, followed by what the rest means,
\* or nothing once there has been an error.
MeansInv ==
    /\ pc \in {"scan", "name", "push"} =>
        /\ Failed => Meaning(m_pattern) = {}
        /\ ~Failed => Meaning(m_pattern)
                        = Prepend(Printed \o nstr, Readings(m_pattern)[i])
    /\ pc = "done" => vec = <<>>
    /\ pc \in {"items", "done"} =>
        /\ Failed => Meaning(m_pattern) = {}
        /\ ~Failed => Meaning(m_pattern) = {Printed}

\* Both together are the inductive invariant.
FormatterInv == ReadInv /\ MeansInv

-----------------------------------------------------------------------------
\* Induction

\* Less-than on the natural numbers is well-founded.
LEMMA NatWF == IsWellFoundedOn(OpToRel(<, Nat), Nat)
BY NatLessThanWellFounded, Zenon

\* A set that has 0 and the successor of each of its numbers has all of them.
LEMMA NatSet ==
    ASSUME NEW S, 0 \in S, \A k \in Nat : k \in S => k + 1 \in S
    PROVE  Nat \subseteq S
<1> SUFFICES ASSUME Nat \ S # {} PROVE FALSE
  OBVIOUS
<1> DEFINE T == Nat \ S
<1>1. PICK x \in T : \A y \in T : ~(<<y, x>> \in OpToRel(<, Nat))
  <2>1. T \subseteq Nat /\ T # {}
    OBVIOUS
  <2> HIDE DEF T
  <2> QED
    BY <2>1, NatWF, WFMin, Zenon
<1>2. x # 0 /\ x - 1 \in Nat
  OBVIOUS
<1>3. x - 1 \in S
  <2>1. x - 1 < x
    BY <1>2
  <2>2. <<x - 1, x>> \in OpToRel(<, Nat)
    BY <1>2, <2>1, Zenon DEF OpToRel
  <2> QED
    BY <1>1, <1>2, <2>2, Zenon
<1> QED
  BY <1>2, <1>3

-----------------------------------------------------------------------------
\* What a pattern means, position by position

\* None of the letters the code knows is one of the signs.
LEMMA KnownLetters ==
    /\ "%" \notin DOMAIN s_format_items /\ LBrace \notin DOMAIN s_format_items
    /\ RBrace \notin DOMAIN s_format_items /\ "end" \notin DOMAIN s_format_items
BY DEF s_format_items, LBrace, RBrace

\* The signs are four, and none of them is a letter of a pattern's text.
LEMMA Signs ==
    /\ LBrace # RBrace /\ LBrace # "%" /\ RBrace # "%"
    /\ LBrace # "end" /\ RBrace # "end"
    /\ \A x \in {"%", LBrace, RBrace, "end"} : x \notin Alpha /\ x \notin Other
<1>1. /\ LBrace # RBrace /\ LBrace # "%" /\ RBrace # "%"
      /\ LBrace # "end" /\ RBrace # "end"
  BY Zenon DEF LBrace, RBrace
<1> QED
  BY <1>1, FormatterAssumption

\* A letter, a position, and the end of a pattern.
LEMMA AtIs ==
    ASSUME NEW p \in Seq(Letters), NEW k \in Nat \ {0}
    PROVE  /\ k <= Len(p) => At(p, k) = p[k] /\ p[k] \in Letters /\ p[k] # "end"
           /\ k > Len(p) => At(p, k) = "end"
<1>1. "end" \notin Letters
  BY Signs DEF Letters
<1>2. ASSUME k <= Len(p)
      PROVE  At(p, k) = p[k] /\ p[k] \in Letters
  <2>1. k \in 1..Len(p) /\ p[k] \in Letters
    BY <1>2
  <2> QED
    BY <2>1 DEF At
<1>3. ASSUME k > Len(p)
      PROVE  At(p, k) = "end"
  <2>1. k \notin 1..Len(p)
    BY <1>3
  <2> QED
    BY <2>1 DEF At
<1> QED
  BY <1>1, <1>2, <1>3

\* The alternatives of Reading, one by one.
LEMMA ReadingIs ==
    ASSUME NEW p \in Seq(Letters), NEW k \in 1..Len(p), NEW read
    PROVE  /\ p[k] # "%" => Reading(p, k, read) = Prepend(<<p[k]>>, read[k + 1])
           /\ p[k] = "%" /\ At(p, k + 1) = "%"
                => Reading(p, k, read) = Prepend(<<"%">>, read[k + 2])
           /\ p[k] = "%" /\ At(p, k + 1) # "%" /\ At(p, k + 1) \notin DOMAIN s_format_items
                => Reading(p, k, read) = {}
           /\ p[k] = "%" /\ At(p, k + 1) \in DOMAIN s_format_items /\ At(p, k + 2) = LBrace
                => Reading(p, k, read) =
                     UNION {Prepend(Output(Item(<<p[k + 1]>>, SubSeq(p, k + 3, j - 1))),
                                    read[j + 1]) : j \in Closing(p, k + 2)}
           /\ p[k] = "%" /\ At(p, k + 1) \in DOMAIN s_format_items
              /\ At(p, k + 2) \in Alpha \cup {RBrace}
                => Reading(p, k, read) = {}
           /\ p[k] = "%" /\ At(p, k + 1) \in DOMAIN s_format_items
              /\ At(p, k + 2) \notin Alpha \cup {RBrace, LBrace}
                => Reading(p, k, read) = Prepend(Output(Item(<<p[k + 1]>>, <<>>)), read[k + 2])
<1>1. At(p, k) = p[k] /\ p[k] # "end"
  BY AtIs
<1>2. p[k] # "%" => Reading(p, k, read) = Prepend(<<p[k]>>, read[k + 1])
  BY <1>1 DEF Reading
<1>3. p[k] = "%" /\ At(p, k + 1) = "%"
        => Reading(p, k, read) = Prepend(<<"%">>, read[k + 2])
  BY <1>1 DEF Reading
<1>4. p[k] = "%" /\ At(p, k + 1) # "%"
        => Reading(p, k, read) =
             IF At(p, k + 1) \notin DOMAIN s_format_items THEN {}
             ELSE IF At(p, k + 2) = LBrace
             THEN UNION {Prepend(Output(Item(<<p[k + 1]>>, SubSeq(p, k + 3, j - 1))),
                                 read[j + 1]) : j \in Closing(p, k + 2)}
             ELSE IF At(p, k + 2) \in Alpha \cup {RBrace} THEN {}
             ELSE Prepend(Output(Item(<<p[k + 1]>>, <<>>)), read[k + 2])
  BY <1>1 DEF Reading
<1>5. At(p, k + 1) \in DOMAIN s_format_items => At(p, k + 1) # "%"
  BY KnownLetters
<1>6. LBrace \notin Alpha \cup {RBrace}
  BY Signs
<1>7. At(p, k + 2) \in Alpha \cup {RBrace} => At(p, k + 2) # LBrace
  BY <1>6, Zenon
<1>8. At(p, k + 2) \notin Alpha \cup {RBrace, LBrace}
        => At(p, k + 2) \notin Alpha \cup {RBrace} /\ At(p, k + 2) # LBrace
  OBVIOUS
<1> QED
  BY <1>2, <1>3, <1>4, <1>5, <1>7, <1>8, Zenon

\* At its end a pattern means the empty text.
LEMMA ReadingEnd ==
    ASSUME NEW p \in Seq(Letters), NEW read
    PROVE  Reading(p, Len(p) + 1, read) = {<<>>}
<1>1. At(p, Len(p) + 1) = "end"
  BY AtIs
<1> QED
  BY <1>1 DEF Reading

\* Only what stands behind a position counts for what it means.
LEMMA ReadingAgrees ==
    ASSUME NEW p \in Seq(Letters), NEW k \in 1..Len(p) + 1, NEW f, NEW g,
           \A j \in k + 1..Len(p) + 1 : f[j] = g[j]
    PROVE  Reading(p, k, f) = Reading(p, k, g)
<1>1. CASE k = Len(p) + 1
  BY <1>1, ReadingEnd, Zenon
<1>2. CASE k \in 1..Len(p)
  <2>1. k + 1 \in k + 1..Len(p) + 1 /\ f[k + 1] = g[k + 1]
    BY <1>2
  <2>2. At(p, k + 1) # "end" => k + 1 <= Len(p) /\ f[k + 2] = g[k + 2]
    <3>1. k + 1 > Len(p) => At(p, k + 1) = "end"
      BY <1>2, AtIs
    <3>2. k + 1 <= Len(p) => k + 2 \in k + 1..Len(p) + 1
      BY <1>2
    <3> QED
      BY <1>2, <3>1, <3>2
  <2>3. CASE p[k] # "%"
    <3>1. /\ Reading(p, k, f) = Prepend(<<p[k]>>, f[k + 1])
          /\ Reading(p, k, g) = Prepend(<<p[k]>>, g[k + 1])
      BY <1>2, <2>3, ReadingIs
    <3> QED
      BY <2>1, <3>1, Zenon
  <2>4. CASE p[k] = "%" /\ At(p, k + 1) = "%"
    <3>1. f[k + 2] = g[k + 2]
      BY <2>2, <2>4
    <3>2. Reading(p, k, f) = Prepend(<<"%">>, f[k + 2])
      BY <1>2, <2>4, ReadingIs, Zenon
    <3>3. Reading(p, k, g) = Prepend(<<"%">>, g[k + 2])
      BY <1>2, <2>4, ReadingIs, Zenon
    <3> QED
      BY <3>1, <3>2, <3>3, Zenon
  <2>5. CASE p[k] = "%" /\ At(p, k + 1) # "%" /\ At(p, k + 1) \notin DOMAIN s_format_items
    BY <1>2, <2>5, ReadingIs, Zenon
  <2>6. CASE p[k] = "%" /\ At(p, k + 1) \in DOMAIN s_format_items
    <3>1. f[k + 2] = g[k + 2]
      BY <2>2, <2>6, KnownLetters, Zenon
    <3>2. CASE At(p, k + 2) = LBrace
      <4>1. \A j \in Closing(p, k + 2) : f[j + 1] = g[j + 1]
        <5>1. \A j \in Closing(p, k + 2) : j \in (k + 2) + 1..Len(p)
          BY Zenon DEF Closing
        <5>2. \A j \in (k + 2) + 1..Len(p) : j + 1 \in k + 1..Len(p) + 1
          BY <1>2
        <5> QED
          BY <5>1, <5>2, Zenon
      <4>2. UNION {Prepend(Output(Item(<<p[k + 1]>>, SubSeq(p, k + 3, j - 1))), f[j + 1])
                     : j \in Closing(p, k + 2)}
            = UNION {Prepend(Output(Item(<<p[k + 1]>>, SubSeq(p, k + 3, j - 1))), g[j + 1])
                       : j \in Closing(p, k + 2)}
        BY <4>1, Zenon
      <4>3. \A read : Reading(p, k, read) =
                UNION {Prepend(Output(Item(<<p[k + 1]>>, SubSeq(p, k + 3, j - 1))), read[j + 1])
                         : j \in Closing(p, k + 2)}
        <5> SUFFICES ASSUME NEW read PROVE Reading(p, k, read) =
                UNION {Prepend(Output(Item(<<p[k + 1]>>, SubSeq(p, k + 3, j - 1))), read[j + 1])
                         : j \in Closing(p, k + 2)}
          OBVIOUS
        <5> QED
          BY <1>2, <2>6, <3>2, ReadingIs, Zenon
      <4> QED
        BY <4>2, <4>3, Zenon
    <3>3. CASE At(p, k + 2) \in Alpha \cup {RBrace}
      BY <1>2, <2>6, <3>3, ReadingIs, Zenon
    <3>4. CASE At(p, k + 2) \notin Alpha \cup {RBrace, LBrace}
      <4>1. Reading(p, k, f) = Prepend(Output(Item(<<p[k + 1]>>, <<>>)), f[k + 2])
        BY <1>2, <2>6, <3>4, ReadingIs, Zenon
      <4>2. Reading(p, k, g) = Prepend(Output(Item(<<p[k + 1]>>, <<>>)), g[k + 2])
        BY <1>2, <2>6, <3>4, ReadingIs, Zenon
      <4> QED
        BY <3>1, <4>1, <4>2, Zenon
    <3> QED
      BY <3>2, <3>3, <3>4
  <2> QED
    BY <2>3, <2>4, <2>5, <2>6
<1> QED
  BY <1>1, <1>2

\* The recursion in Readings has a solution.
LEMMA ReadingsIs ==
    ASSUME NEW p \in Seq(Letters)
    PROVE  \A k \in 1..Len(p) + 1 : Readings(p)[k] = Reading(p, k, Readings(p))
<1> DEFINE N == Len(p) + 1
           D == 1..N
           Upwards(F, m) == \A k \in D : k > N - m => F[k] = Reading(p, k, F)
           L == {m \in Nat : \E F : F = [k \in D |-> F[k]] /\ Upwards(F, m)}
<1>1. N \in Nat \ {0}
  OBVIOUS
<1>2. 0 \in L
  <2> DEFINE F == [k \in D |-> {}]
  <2>1. F = [k \in D |-> F[k]]
    OBVIOUS
  <2>2. Upwards(F, 0)
    BY <1>1
  <2> HIDE DEF F, Upwards
  <2> QED
    BY <2>1, <2>2
<1>3. ASSUME NEW m \in Nat, m \in L
      PROVE  m + 1 \in L
  <2>1. PICK F : F = [k \in D |-> F[k]] /\ Upwards(F, m)
    BY <1>3
  <2> DEFINE G == [k \in D |-> IF k = N - m THEN Reading(p, k, F) ELSE F[k]]
  <2>2. G = [k \in D |-> G[k]]
    BY Zenon
  <2>3. Upwards(G, m + 1)
    <3> SUFFICES ASSUME NEW k \in D, k > N - (m + 1)
                 PROVE  G[k] = Reading(p, k, G)
      OBVIOUS
    <3>1. k >= N - m
      BY <1>1
    <3>2. \A j \in k + 1..Len(p) + 1 : F[j] = G[j]
      BY <1>1, <3>1
    <3>3. Reading(p, k, F) = Reading(p, k, G)
      <4> HIDE DEF G
      <4> QED
        BY <3>2, ReadingAgrees
    <3>4. G[k] = Reading(p, k, F)
      <4>1. CASE k = N - m
        BY <4>1
      <4>2. CASE k # N - m
        <5>1. k > N - m
          BY <1>1, <3>1, <4>2
        <5> QED
          BY <2>1, <4>2, <5>1
      <4> QED
        BY <4>1, <4>2
    <3> QED
      BY <3>3, <3>4
  <2> HIDE DEF G, Upwards
  <2> QED
    BY <2>2, <2>3
<1>4. N \in L
  <2> HIDE DEF L
  <2> QED
    BY <1>1, <1>2, <1>3, NatSet
<1>5. \E F : F = [k \in D |-> Reading(p, k, F)]
  <2>1. PICK F : F = [k \in D |-> F[k]] /\ Upwards(F, N)
    BY <1>4
  <2>2. \A k \in D : F[k] = Reading(p, k, F)
    BY <1>1, <2>1
  <2> HIDE DEF Upwards
  <2> QED
    BY <2>1, <2>2, Zenon
<1>6. Readings(p) = CHOOSE F : F = [k \in D |-> Reading(p, k, F)]
  BY Zenon DEF Readings
<1>7. Readings(p) = [k \in D |-> Reading(p, k, Readings(p))]
  BY <1>5, <1>6, Zenon
<1> QED
  BY <1>7, Zenon

-----------------------------------------------------------------------------
\* What items print

\* Letters of a pattern are a text.
LEMMA LettersText == Seq(Letters) \subseteq Text
<1>1. Letters \subseteq Symbols
  BY DEF Symbols
<1> QED
  BY <1>1, SeqMonotonic DEF Text

\* A text item prints its text.
LEMMA OutputText ==
    ASSUME NEW s
    PROVE  Output(TextItem(s)) = s
BY DEF Output, TextItem

\* Any other item prints a text, if its name is known.
LEMMA OutputItem ==
    ASSUME NEW name \in Seq(Letters), Known(name), NEW f \in Text
    PROVE  Output(Item(name, f)) \in Text
<1> DEFINE kind == s_format_items[name[1]]
           arg == IF kind # "time" THEN <<>> ELSE IF f = <<>> THEN <<"default">> ELSE f
<1>1. kind \in Symbols
  BY DEF Known, Kinds, Symbols
<1>2. arg \in Text
  <2>1. "default" \in Symbols
    BY DEF Symbols
  <2>2. <<>> \in Text /\ <<"default">> \in Text
    BY <2>1 DEF Text
  <2> QED
    BY <2>2
<1>3. Item(name, f).kind = kind /\ Item(name, f).arg = arg
  BY Zenon DEF Item
<1> HIDE DEF kind, arg
<1>4. <<kind>> \o arg \in Text
  BY <1>1, <1>2 DEF Text
<1> QED
  BY <1>2, <1>3, <1>4 DEF Output

\* The two kinds of items that init() makes.
LEMMA ItemText ==
    ASSUME NEW item \in Items
    PROVE  Output(item) \in Text
<1>1. CASE item \in TextItems
  <2>1. PICK s \in Text : item = TextItem(s)
    BY <1>1, Zenon DEF TextItems
  <2> QED
    BY <2>1, OutputText
<1>2. CASE item \in FieldItems
  <2>1. PICK name \in Names, f \in Text : item = Item(name, f)
    BY <1>2 DEF FieldItems
  <2> QED
    BY <2>1, OutputItem DEF Names
<1> QED
  BY <1>1, <1>2 DEF Items

\* Two texts one after the other.
Joined(s, t) == s \o t

\* Two texts make a text.
LEMMA JoinedText ==
    ASSUME NEW s \in Text, NEW t \in Text
    PROVE  Joined(s, t) \in Text
BY DEF Joined, Text

\* The recursion in Outputs has a solution.
LEMMA OutputsRun ==
    ASSUME NEW items \in Seq(Items)
    PROVE  \E F : /\ F[0] = <<>>
                  /\ \A k \in 1..Len(items) : F[k] = Joined(F[k - 1], Output(items[k]))
                  /\ Outputs(items) = F[Len(items)]
<1> DEFINE Step(F, k) == IF k = 0 THEN <<>> ELSE Joined(F[k - 1], Output(items[k]))
           L == {m \in Nat : \E F : F = [k \in 0..m |-> Step(F, k)]}
<1>1. 0 \in L
  <2>1. LET F == [k \in 0..0 |-> <<>>] IN F = [k \in 0..0 |-> Step(F, k)]
    OBVIOUS
  <2> QED
    BY <2>1
<1>2. ASSUME NEW m \in Nat, m \in L
      PROVE  m + 1 \in L
  <2>1. PICK F : F = [k \in 0..m |-> Step(F, k)]
    BY <1>2
  <2> DEFINE G == [k \in 0..(m + 1) |-> IF k = m + 1 THEN Step(F, m + 1) ELSE F[k]]
  <2>2. \A k \in 0..(m + 1) : G[k] = Step(G, k)
    <3> SUFFICES ASSUME NEW k \in 0..(m + 1) PROVE G[k] = Step(G, k)
      OBVIOUS
    <3>1. CASE k = m + 1
      BY <3>1, <2>1
    <3>2. CASE k # m + 1
      <4>1. k \in 0..m /\ G[k] = F[k]
        BY <3>2
      <4>2. F[k] = Step(F, k)
        BY <4>1, <2>1
      <4>3. k # 0 => G[k - 1] = F[k - 1]
        BY <4>1
      <4> QED
        BY <4>1, <4>2, <4>3
    <3> QED
      BY <3>1, <3>2
  <2>3. G = [k \in 0..(m + 1) |-> G[k]]
    OBVIOUS
  <2>4. G = [k \in 0..(m + 1) |-> Step(G, k)]
    <3> HIDE DEF Step, G
    <3> QED
      BY <2>2, <2>3
  <2> HIDE DEF Step, G
  <2> QED
    BY <2>4
<1>3. Nat \subseteq L
  <2> HIDE DEF L
  <2> QED
    BY <1>1, <1>2, NatSet
<1>4. \E F : F = [k \in 0..Len(items) |-> Step(F, k)]
  BY <1>3
<1> DEFINE Upto[k \in 0..Len(items)] ==
               IF k = 0 THEN <<>> ELSE Upto[k - 1] \o Output(items[k])
<1>5. Upto = CHOOSE F : F = [k \in 0..Len(items) |-> Step(F, k)]
  BY DEF Upto, Joined
<1>6. Outputs(items) = Upto[Len(items)]
  BY DEF Outputs
<1> HIDE DEF Upto
<1>7. Upto = [k \in 0..Len(items) |-> Step(Upto, k)]
  BY <1>4, <1>5
<1>8. \A k \in 0..Len(items) : Upto[k] = Step(Upto, k)
  <2> HIDE DEF Step
  <2> QED
    BY <1>7
<1>9. \A k \in 1..Len(items) : k # 0 /\ k \in 0..Len(items)
  OBVIOUS
<1>10. 0 \in 0..Len(items)
  OBVIOUS
<1> QED
  BY <1>6, <1>8, <1>9, <1>10

\* What no items print, and one item more.
LEMMA OutputsEmpty == Outputs(<<>>) = <<>>
<1>1. ASSUME NEW s \in Seq(Items), Len(s) = 0
      PROVE  Outputs(s) = <<>>
  BY <1>1, OutputsRun
<1>2. <<>> \in Seq(Items) /\ Len(<<>>) = 0
  OBVIOUS
<1> QED
  BY <1>1, <1>2, Zenon

\* An item more prints its part after the others.
LEMMA OutputsAppend ==
    ASSUME NEW s \in Seq(Items), NEW e \in Items
    PROVE  Outputs(Append(s, e)) = Outputs(s) \o Output(e)
<1> DEFINE r == Append(s, e)
<1>1. PICK F : /\ F[0] = <<>>
               /\ \A k \in 1..Len(s) : F[k] = Joined(F[k - 1], Output(s[k]))
               /\ Outputs(s) = F[Len(s)]
  BY OutputsRun
<1>2. /\ r \in Seq(Items) /\ Len(r) = Len(s) + 1 /\ Len(s) \in Nat
      /\ r[Len(s) + 1] = e /\ \A k \in 1..Len(s) : r[k] = s[k]
  OBVIOUS
<1> HIDE DEF r
<1>3. PICK G : /\ G[0] = <<>>
               /\ \A k \in 1..Len(r) : G[k] = Joined(G[k - 1], Output(r[k]))
               /\ Outputs(r) = G[Len(r)]
  BY <1>2, OutputsRun
<1> DEFINE L == {k \in Nat : k <= Len(s) => F[k] = G[k]}
<1>4. 0 \in L
  BY <1>1, <1>2, <1>3
<1>5. ASSUME NEW k \in Nat, k \in L
      PROVE  k + 1 \in L
  <2> SUFFICES ASSUME k + 1 <= Len(s) PROVE F[k + 1] = G[k + 1]
    OBVIOUS
  <2>1. F[k] = G[k] /\ r[k + 1] = s[k + 1]
    BY <1>2, <1>5
  <2>2. F[k + 1] = Joined(F[k], Output(s[k + 1]))
    BY <1>1, <1>2
  <2>3. G[k + 1] = Joined(G[k], Output(r[k + 1]))
    BY <1>3, <1>2
  <2> QED
    BY <2>1, <2>2, <2>3
<1>6. F[Len(s)] = G[Len(s)]
  <2>1. Nat \subseteq L
    <3> HIDE DEF L
    <3> QED
      BY <1>4, <1>5, NatSet
  <2> QED
    BY <1>2, <2>1
<1>7. G[Len(r)] = Joined(G[Len(s)], Output(e))
  BY <1>2, <1>3
<1> QED
  BY <1>1, <1>3, <1>6, <1>7 DEF r, Joined

\* What items print is a text.
LEMMA OutputsText ==
    ASSUME NEW s \in Seq(Items)
    PROVE  Outputs(s) \in Text
<1>1. PICK F : /\ F[0] = <<>>
               /\ \A k \in 1..Len(s) : F[k] = Joined(F[k - 1], Output(s[k]))
               /\ Outputs(s) = F[Len(s)]
  BY OutputsRun
<1> DEFINE L == {k \in Nat : k <= Len(s) => F[k] \in Text}
<1>2. 0 \in L
  <2>1. <<>> \in Text
    BY DEF Text
  <2> QED
    BY <1>1, <2>1
<1>3. ASSUME NEW k \in Nat, k \in L
      PROVE  k + 1 \in L
  <2> SUFFICES ASSUME k + 1 <= Len(s) PROVE F[k + 1] \in Text
    OBVIOUS
  <2>1. F[k] \in Text /\ k + 1 \in 1..Len(s)
    BY <1>3
  <2>2. Output(s[k + 1]) \in Text
    BY <2>1, ItemText
  <2>3. F[k + 1] = Joined(F[k], Output(s[k + 1]))
    BY <1>1, <2>1
  <2> QED
    BY <2>1, <2>2, <2>3, JoinedText
<1>4. Nat \subseteq L
  <2> HIDE DEF L
  <2> QED
    BY <1>2, <1>3, NatSet
<1> QED
  BY <1>1, <1>4

\* What a pattern means from a position on is a set of texts.
LEMMA ReadingsText ==
    ASSUME NEW p \in Seq(Letters), NEW k \in 1..Len(p) + 1
    PROVE  Readings(p)[k] \subseteq Text
<1> DEFINE R == Readings(p)
           N == Len(p) + 1
           L == {m \in Nat : \A j \in 1..N : j >= N - m => R[j] \subseteq Text}
<1>1. N \in Nat \ {0} /\ \A j \in 1..N : R[j] = Reading(p, j, R)
  BY ReadingsIs
<1> HIDE DEF R
<1>2. 0 \in L
  <2>1. R[N] = {<<>>}
    BY <1>1, ReadingEnd
  <2>2. <<>> \in Text
    BY DEF Text
  <2>3. \A j \in 1..N : j >= N => j = N
    BY <1>1
  <2> QED
    BY <1>1, <2>1, <2>2, <2>3
<1>3. ASSUME NEW s \in Text, NEW X, X \subseteq Text
      PROVE  Prepend(s, X) \subseteq Text
  <2>1. \A t \in X : s \o t \in Text
    BY <1>3 DEF Text
  <2> QED
    BY <2>1 DEF Prepend
<1>4. ASSUME NEW m \in Nat, m \in L
      PROVE  m + 1 \in L
  <2> SUFFICES ASSUME NEW j \in 1..N, j >= N - (m + 1) PROVE R[j] \subseteq Text
    OBVIOUS
  <2>1. CASE j >= N - m
    BY <1>4, <2>1
  <2>2. CASE ~(j >= N - m) /\ j = N
    BY <1>1, <2>2
  <2>3. CASE ~(j >= N - m) /\ j # N
    <3>1. j \in 1..Len(p) /\ p[j] \in Letters
      BY <1>1, <2>3
    <3>2. \A h \in j + 1..N : R[h] \subseteq Text
      BY <1>1, <1>4, <2>3
    <3>3. R[j + 1] \subseteq Text
      BY <1>1, <3>1, <3>2
    <3>4. At(p, j + 1) # "end" => /\ j + 1 <= Len(p) /\ p[j + 1] \in Letters
                                  /\ At(p, j + 1) = p[j + 1] /\ R[j + 2] \subseteq Text
      <4>1. j + 1 > Len(p) => At(p, j + 1) = "end"
        BY <3>1, AtIs
      <4>2. j + 1 <= Len(p) => j + 2 \in j + 1..N /\ At(p, j + 1) = p[j + 1] /\ p[j + 1] \in Letters
        BY <3>1, AtIs
      <4> QED
        BY <3>1, <3>2, <4>1, <4>2
    <3>5. \A x \in Letters : <<x>> \in Text
      <4>1. \A x \in Letters : <<x>> \in Seq(Letters)
        OBVIOUS
      <4> QED
        BY <4>1, LettersText
    <3>6. CASE p[j] # "%"
      <4>1. R[j] = Prepend(<<p[j]>>, R[j + 1])
        BY <1>1, <3>1, <3>6, ReadingIs
      <4> QED
        BY <1>3, <3>1, <3>3, <3>5, <4>1
    <3>7. CASE p[j] = "%" /\ At(p, j + 1) = "%"
      <4>1. R[j] = Prepend(<<"%">>, R[j + 2])
        BY <1>1, <3>1, <3>7, ReadingIs
      <4>2. R[j + 2] \subseteq Text
        BY <3>4, <3>7
      <4> QED
        BY <1>3, <3>1, <3>5, <3>7, <4>1, <4>2
    <3>8. CASE p[j] = "%" /\ At(p, j + 1) # "%" /\ At(p, j + 1) \notin DOMAIN s_format_items
      <4>1. R[j] = {}
        BY <1>1, <3>1, <3>8, ReadingIs
      <4> QED
        BY <4>1
    <3>9. CASE p[j] = "%" /\ At(p, j + 1) \in DOMAIN s_format_items
      <4>1. /\ j + 1 <= Len(p) /\ p[j + 1] \in Letters
            /\ p[j + 1] \in DOMAIN s_format_items /\ R[j + 2] \subseteq Text
        BY <3>4, <3>9, KnownLetters
      <4>2. <<p[j + 1]>> \in Seq(Letters) /\ Known(<<p[j + 1]>>)
        BY <4>1 DEF Known
      <4>3. CASE At(p, j + 2) = LBrace
        <5>1. R[j] = UNION {Prepend(Output(Item(<<p[j + 1]>>, SubSeq(p, j + 3, h - 1))),
                                    R[h + 1]) : h \in Closing(p, j + 2)}
          BY <1>1, <3>1, <3>9, <4>3, ReadingIs
        <5>2. ASSUME NEW h \in Closing(p, j + 2)
              PROVE  Prepend(Output(Item(<<p[j + 1]>>, SubSeq(p, j + 3, h - 1))), R[h + 1])
                         \subseteq Text
          <6>1. h \in (j + 2) + 1..Len(p)
            BY <5>2, Zenon DEF Closing
          <6>2. SubSeq(p, j + 3, h - 1) \in Text
            <7>1. SubSeq(p, j + 3, h - 1) \in Seq(Letters)
              BY <3>1, <6>1
            <7> QED
              BY <7>1, LettersText
          <6>3. R[h + 1] \subseteq Text
            BY <3>1, <3>2, <6>1
          <6> QED
            BY <1>3, <4>2, <6>2, <6>3, OutputItem
        <5> QED
          BY <5>1, <5>2
      <4>4. CASE At(p, j + 2) \in Alpha \cup {RBrace}
        <5>1. R[j] = {}
          BY <1>1, <3>1, <3>9, <4>4, ReadingIs
        <5> QED
          BY <5>1
      <4>5. CASE At(p, j + 2) \notin Alpha \cup {RBrace, LBrace}
        <5>1. R[j] = Prepend(Output(Item(<<p[j + 1]>>, <<>>)), R[j + 2])
          BY <1>1, <3>1, <3>9, <4>5, ReadingIs
        <5>2. Output(Item(<<p[j + 1]>>, <<>>)) \in Text
          <6>1. <<>> \in Text
            BY DEF Text
          <6> QED
            BY <4>2, <6>1, OutputItem, Zenon
        <5> QED
          BY <1>3, <4>1, <5>1, <5>2
      <4> QED
        BY <4>3, <4>4, <4>5
    <3> QED
      BY <3>6, <3>7, <3>8, <3>9
  <2> QED
    BY <2>1, <2>2, <2>3
<1>5. k \in 1..N /\ N \in L
  <2>1. Nat \subseteq L
    <3> HIDE DEF L
    <3> QED
      BY <1>2, <1>4, NatSet
  <2> QED
    BY <1>1, <2>1
<1> QED
  BY <1>1, <1>5 DEF R

-----------------------------------------------------------------------------
\* ReadInv is inductive

\* A formatter starts at the beginning of its pattern with nothing read.
LEMMA ReadInitial == Init => ReadInv
<1> SUFFICES ASSUME Init PROVE ReadInv
  OBVIOUS
<1>1. PICK k \in 0..MaxLen : m_pattern \in [1..k -> Letters]
  BY DEF Init, Patterns
<1>2. k \in Nat
  BY FormatterAssumption
<1>3. m_pattern \in Seq(Letters)
  BY <1>1, <1>2
<1>4. Size \in Nat /\ <<>> \in Text
  BY <1>3 DEF Size, Text
<1>5. FormatterTypeOK
  <2>1. m_items \in Seq(Items) /\ vec \in Seq(VecEntries)
    BY DEF Init
  <2>2. i \in 1..Size + 1 /\ n \in Nat /\ fmt_begin \in Nat
    BY <1>4 DEF Init
  <2>3. str \in Seq(Letters) /\ fmt \in Seq(Letters) /\ nstr \in Text
    BY <1>4 DEF Init
  <2>4. m_error \in BOOLEAN /\ pc \in {"scan"} /\ fmt_status \in {0, 1}
    BY DEF Init
  <2> QED
    BY <1>3, <2>1, <2>2, <2>3, <2>4 DEF FormatterTypeOK
<1> QED
  BY <1>5 DEF Init, ReadInv, NameRead, ItemRead

\* The entries init() makes are of the two kinds.
LEMMA PendingType ==
    ASSUME FormatterTypeOK
    PROVE  /\ Pending \in Seq(VecEntries)
           /\ Entry(str, fmt, 1) \in VecEntries
           /\ Entry(<<"<<pattern_error>>">>, fmt, 0) \in VecEntries
<1>1. fmt \in Text /\ nstr \in Text /\ str \in Seq(Letters)
  BY LettersText DEF FormatterTypeOK
<1>2. <<>> \in Text
  BY DEF Text
<1>3. <<"<<pattern_error>>">> \in Text
  <2>1. "<<pattern_error>>" \in Symbols
    BY DEF Symbols
  <2> QED
    BY <2>1 DEF Text
<1>4. Entry(nstr, <<>>, 0) \in VecEntries
  BY <1>1, <1>2 DEF Entry, VecEntries
<1>5. Pending \in Seq(VecEntries)
  <2>1. <<Entry(nstr, <<>>, 0)>> \in Seq(VecEntries) /\ <<>> \in Seq(VecEntries)
    BY <1>4
  <2> QED
    BY <2>1 DEF Pending
<1>6. Entry(str, fmt, 1) \in VecEntries
  BY <1>1 DEF Entry, VecEntries
<1>7. Entry(<<"<<pattern_error>>">>, fmt, 0) \in VecEntries
  BY <1>1, <1>3 DEF Entry, VecEntries
<1> QED
  BY <1>5, <1>6, <1>7

\* Text items and items of known names are all that there is.
LEMMA ItemKinds ==
    /\ \A s \in Text : TextItem(s) \in Items
    /\ \A name \in Seq(Letters), f \in Text : Known(name) => Item(name, f) \in Items
<1>1. \A s \in Text : TextItem(s) \in TextItems
  BY DEF TextItems
<1>2. \A name \in Names, f \in Text : Item(name, f) \in FieldItems
  BY DEF FieldItems
<1>3. \A name \in Seq(Letters) : Known(name) => name \in Names
  BY DEF Names
<1> QED
  BY <1>1, <1>2, <1>3 DEF Items

\* MakeItem makes one of them of every entry.
LEMMA MadeType ==
    ASSUME NEW e \in VecEntries
    PROVE  Made(e) \in Items
<1>1. CASE e.type = 0
  <2>1. e.s \in Text
    BY <1>1, LettersText DEF VecEntries
  <2>2. Made(e) = TextItem(e.s)
    BY <1>1 DEF Made
  <2> QED
    BY <2>1, <2>2, ItemKinds, Zenon
<1>2. CASE e.type # 0
  <2>1. e.s \in Seq(Letters) /\ e.fmt \in Text
    BY <1>2 DEF VecEntries
  <2>2. CASE Known(e.s)
    <3>1. Made(e) = Item(e.s, e.fmt)
      BY <1>2, <2>2, Zenon DEF Made
    <3> QED
      BY <2>1, <2>2, <3>1, ItemKinds, Zenon
  <2>3. CASE ~Known(e.s)
    <3>1. <<"<<error_format_%">> \in Text /\ <<">>">> \in Text /\ e.s \in Text
      <4>1. "<<error_format_%" \in Symbols /\ ">>" \in Symbols
        BY DEF Symbols
      <4> QED
        BY <2>1, <4>1, LettersText DEF Text
    <3>2. <<"<<error_format_%">> \o e.s \o <<">>">> \in Text
      BY <3>1 DEF Text
    <3>3. Made(e) = TextItem(<<"<<error_format_%">> \o e.s \o <<">>">>)
      BY <1>2, <2>3, Zenon DEF Made
    <3> QED
      BY <3>2, <3>3, ItemKinds, Zenon
  <2> QED
    BY <2>2, <2>3
<1> QED
  BY <1>1, <1>2

\* The steps of the outer loop.
LEMMA ScanReads ==
    ASSUME ReadInv, ScanText \/ ScanEscape \/ ScanItem \/ ScanEnd
    PROVE  ReadInv'
<1>1. /\ FormatterTypeOK /\ m_pattern \in Seq(Letters) /\ Size \in Nat /\ i \in 1..Size + 1
  BY DEF ReadInv, FormatterTypeOK, Size
<1>2. CASE ScanText
  <2>1. i <= Size /\ m_pattern[i] \in Symbols
    <3>1. i <= Size /\ m_pattern[i] \in Letters
      BY <1>1, <1>2 DEF ScanText, Size
    <3> QED
      BY <3>1 DEF Symbols
  <2>2. Append(nstr, m_pattern[i]) \in Text
    BY <1>1, <2>1 DEF FormatterTypeOK, Text
  <2>3. FormatterTypeOK'
    BY <1>1, <1>2, <2>1, <2>2 DEF ScanText, FormatterTypeOK, Size
  <2> QED
    BY <1>2, <2>3 DEF ScanText, ReadInv, NameRead, ItemRead
<1>3. CASE ScanEscape
  <2>1. i < Size /\ "%" \in Symbols
    BY <1>3 DEF ScanEscape, Escaped, Symbols, Letters
  <2>2. Append(nstr, "%") \in Text
    BY <1>1, <2>1 DEF FormatterTypeOK, Text
  <2>3. FormatterTypeOK'
    BY <1>1, <1>3, <2>1, <2>2 DEF ScanEscape, FormatterTypeOK, Size
  <2> QED
    BY <1>3, <2>3 DEF ScanEscape, ReadInv, NameRead, ItemRead
<1>4. CASE ScanItem
  <2>1. <<>> \in Seq(Letters)
    OBVIOUS
  <2>2. FormatterTypeOK'
    BY <1>1, <1>4, <2>1 DEF ScanItem, FormatterTypeOK, Size
  <2>3. i' = i /\ m_pattern' = m_pattern /\ Size' = Size /\ n' = i + 1 /\ i <= Size
        /\ m_pattern[i] = "%" /\ ~Escaped /\ fmt_status' = 0 /\ str' = <<>> /\ fmt' = <<>>
        /\ pc' = "name"
    BY <1>4 DEF ScanItem, Size
  <2>4. ~Escaped' /\ Name(n)'
    BY <1>1, <2>3 DEF Escaped, Name
  <2>5. n' > Size' => SubSeq(m_pattern', i' + 1, Size') = <<>>
    BY <1>1, <2>3, SubSeqEmpty
  <2>6. NameRead'
    BY <1>1, <2>3, <2>4, <2>5 DEF NameRead
  <2> QED
    BY <2>2, <2>3, <2>6 DEF ReadInv, ItemRead
<1>5. CASE ScanEnd
  <2>1. vec \o Pending \in Seq(VecEntries)
    BY <1>1, PendingType DEF FormatterTypeOK
  <2>2. FormatterTypeOK'
    BY <1>1, <1>5, <2>1 DEF ScanEnd, FormatterTypeOK, Size
  <2> QED
    BY <1>5, <2>2 DEF ScanEnd, ReadInv, NameRead, ItemRead
<1> QED
  BY <1>2, <1>3, <1>4, <1>5

\* The steps of the inner loop.
LEMMA NameReads ==
    ASSUME ReadInv,
           NameEnd \/ BraceOpen \/ BraceClose \/ NameNext \/ NameExhausted
    PROVE  ReadInv'
<1>1. /\ FormatterTypeOK /\ m_pattern \in Seq(Letters) /\ Size = Len(m_pattern)
      /\ Size \in Nat /\ i \in 1..Size + 1 /\ n \in Nat /\ fmt_begin \in Nat
      /\ fmt_status \in {0, 1} /\ str \in Seq(Letters)
  BY DEF ReadInv, FormatterTypeOK, Size
<1>2. /\ pc = "name" /\ i' = i /\ m_pattern' = m_pattern /\ Size' = Size
      /\ UNCHANGED <<m_items, m_error, nstr, vec>>
  BY DEF NameEnd, BraceOpen, BraceClose, NameNext, NameExhausted, Size
<1>3. /\ m_pattern[i] = "%" /\ ~Escaped /\ i < n /\ n <= Size + 1 /\ fmt = <<>>
      /\ fmt_status = 0 =>
          /\ Name(n)
          /\ str = IF n > Size THEN SubSeq(m_pattern, i + 1, Size) ELSE <<>>
      /\ fmt_status = 1 =>
          /\ Open(fmt_begin, n)
          /\ n <= Size => str = SubSeq(m_pattern, i + 1, fmt_begin - 1)
  BY <1>2 DEF ReadInv, NameRead
<1>4. ~Escaped'
  BY <1>2, <1>3 DEF Escaped
<1>5. \A a \in Nat \ {0}, b \in Int : b <= Size => SubSeq(m_pattern, a, b) \in Seq(Letters)
  BY <1>1
<1>6. fmt_status = 1 => i < fmt_begin /\ fmt_begin < n
  BY <1>3 DEF Open
<1>7. CASE NameEnd
  <2>1. /\ n <= Size /\ fmt_status = 0 /\ EndsName(m_pattern[n]) /\ pc' = "push"
        /\ str' = SubSeq(m_pattern, i + 1, n - 1)
        /\ UNCHANGED <<n, fmt_status, fmt_begin, fmt>>
    BY <1>7 DEF NameEnd
  <2>2. FormatterTypeOK'
    BY <1>1, <1>2, <1>3, <1>5, <2>1 DEF FormatterTypeOK
  <2>3. Plain'
    BY <1>2, <1>3, <2>1 DEF Plain, Name, EndsName
  <2> QED
    BY <1>2, <1>3, <1>4, <2>1, <2>2, <2>3 DEF ReadInv, NameRead, ItemRead
<1>8. CASE BraceOpen
  <2>1. /\ n <= Size /\ fmt_status = 0 /\ m_pattern[n] = LBrace /\ pc' = "name"
        /\ str' = SubSeq(m_pattern, i + 1, n - 1) /\ fmt_status' = 1 /\ fmt_begin' = n
        /\ n' = n + 1 /\ fmt' = fmt
    BY <1>2, <1>8 DEF BraceOpen
  <2>2. FormatterTypeOK'
    BY <1>1, <1>2, <1>3, <1>5, <2>1 DEF FormatterTypeOK
  <2>3. Open(fmt_begin, n)'
    BY <1>1, <1>2, <1>3, <2>1 DEF Open, Name
  <2>4. NameRead'
    BY <1>1, <1>2, <1>3, <1>4, <2>1, <2>3 DEF NameRead
  <2> QED
    BY <2>1, <2>2, <2>4 DEF ReadInv, ItemRead
<1>9. CASE BraceClose
  <2>1. /\ n <= Size /\ fmt_status = 1 /\ m_pattern[n] = RBrace /\ pc' = "push"
        /\ fmt' = SubSeq(m_pattern, fmt_begin + 1, n - 1) /\ fmt_status' = 0
        /\ n' = n + 1 /\ fmt_begin' = fmt_begin /\ str' = str
    BY <1>9 DEF BraceClose
  <2>2. FormatterTypeOK'
    BY <1>1, <1>2, <1>3, <1>5, <2>1 DEF FormatterTypeOK
  <2>3. n' - 1 = n /\ n' - 2 = n - 1
    BY <1>1, <2>1
  <2>4. Open(fmt_begin, n) /\ str = SubSeq(m_pattern, i + 1, fmt_begin - 1)
    BY <1>3, <2>1
  <2>5. Open(fmt_begin, n - 1)'
    BY <1>2, <2>1, <2>3, <2>4 DEF Open, Name
  <2>6. Braced'
    BY <1>2, <2>1, <2>3, <2>4, <2>5 DEF Braced
  <2>7. ItemRead'
    BY <1>1, <1>2, <1>3, <1>4, <2>1, <2>6 DEF ItemRead
  <2> QED
    BY <2>1, <2>2, <2>7 DEF ReadInv, NameRead
<1>10. CASE NameNext
  <2>1. /\ n <= Size /\ pc' = "name" /\ n' = n + 1
        /\ IF fmt_status = 0 THEN ~EndsName(m_pattern[n]) /\ m_pattern[n] # LBrace
           ELSE m_pattern[n] # RBrace
        /\ str' = IF n' > Size /\ str = <<>> THEN SubSeq(m_pattern, i + 1, Size) ELSE str
        /\ UNCHANGED <<fmt_status, fmt_begin, fmt>>
    BY <1>2, <1>10 DEF NameNext
  <2>2. FormatterTypeOK'
    BY <1>1, <1>2, <1>3, <1>5, <2>1 DEF FormatterTypeOK
  <2>3. fmt_status = 0 => Name(n)'
    <3>1. fmt_status = 0 => m_pattern[n] \in Alpha \cup {RBrace}
      BY <2>1 DEF EndsName
    <3>2. fmt_status = 0 => Name(n)
      BY <1>3
    <3>3. \A k \in i + 1..n' - 1 : k = n \/ k \in i + 1..n - 1
      BY <1>1, <2>1
    <3> QED
      BY <1>2, <3>1, <3>2, <3>3 DEF Name
  <2>4. fmt_status = 1 => Open(fmt_begin, n)'
    <3>1. fmt_status = 1 => Open(fmt_begin, n) /\ m_pattern[n] # RBrace
      BY <1>3, <2>1
    <3>2. \A k \in fmt_begin + 1..n' - 1 : k = n \/ k \in fmt_begin + 1..n - 1
      BY <1>1, <2>1
    <3>3. fmt_status = 1 => fmt_begin < n'
      BY <1>1, <1>6, <2>1
    <3> QED
      BY <1>2, <2>1, <3>1, <3>2, <3>3 DEF Open, Name
  <2>5. NameRead'
    BY <1>1, <1>2, <1>3, <1>4, <2>1, <2>3, <2>4 DEF NameRead
  <2> QED
    BY <2>1, <2>2, <2>5 DEF ReadInv, ItemRead
<1>11. CASE NameExhausted
  <2>1. /\ n > Size /\ pc' = "push" /\ UNCHANGED <<n, fmt_status, fmt_begin, str, fmt>>
    BY <1>11 DEF NameExhausted
  <2>2. n = Size + 1 /\ n - 1 = Size
    <3>1. n \in Nat /\ Size \in Nat /\ n > Size /\ n <= Size + 1
      BY <1>1, <1>3, <2>1, Zenon
    <3> QED
      BY <3>1
  <2>3. FormatterTypeOK'
    BY <1>1, <1>2, <2>1 DEF FormatterTypeOK
  <2>4. fmt_status = 0 => Plain'
    BY <1>1, <1>2, <1>3, <2>1, <2>2 DEF Plain, Name
  <2>5. fmt_status = 1 => Open(fmt_begin, n)'
    BY <1>2, <1>3, <2>1 DEF Open, Name
  <2>6. ItemRead'
    BY <1>1, <1>2, <1>3, <1>4, <2>1, <2>2, <2>4, <2>5 DEF ItemRead
  <2> QED
    BY <2>1, <2>3, <2>6 DEF ReadInv, NameRead
<1> QED
  BY <1>7, <1>8, <1>9, <1>10, <1>11

\* An item is pushed, with or without an error.
LEMMA PushReads ==
    ASSUME ReadInv, PushItem \/ PushError
    PROVE  ReadInv'
<1>1. /\ FormatterTypeOK /\ Size \in Nat /\ i \in 1..Size + 1 /\ n \in Nat
      /\ vec \in Seq(VecEntries)
  BY DEF ReadInv, FormatterTypeOK, Size
<1>2. i < n /\ n <= Size + 1
  BY DEF ReadInv, ItemRead, PushItem, PushError
<1>3. n \in 1..Size + 1 /\ i + 1 \in 1..Size + 1
  BY <1>1, <1>2
<1>4. CASE PushItem
  <2>1. vec \o Pending \o <<Entry(str, fmt, 1)>> \in Seq(VecEntries)
    <3>1. Pending \in Seq(VecEntries) /\ Entry(str, fmt, 1) \in VecEntries
      BY <1>1, PendingType
    <3> QED
      BY <1>1, <3>1
  <2>2. <<>> \in Text
    BY DEF Text
  <2>3. FormatterTypeOK'
    BY <1>1, <1>3, <1>4, <2>1, <2>2 DEF PushItem, FormatterTypeOK, Size
  <2> QED
    BY <1>4, <2>3 DEF PushItem, ReadInv, NameRead, ItemRead
<1>5. CASE PushError
  <2>1. Append(vec, Entry(<<"<<pattern_error>>">>, fmt, 0)) \in Seq(VecEntries)
    <3>1. Entry(<<"<<pattern_error>>">>, fmt, 0) \in VecEntries
      BY <1>1, PendingType
    <3> QED
      BY <1>1, <3>1
  <2>2. FormatterTypeOK'
    BY <1>1, <1>3, <1>5, <2>1 DEF PushError, FormatterTypeOK, Size
  <2> QED
    BY <1>5, <2>2 DEF PushError, ReadInv, NameRead, ItemRead
<1> QED
  BY <1>4, <1>5

\* The loop over vec, and the formatter that is there.
LEMMA ItemsRead ==
    ASSUME ReadInv, MakeItem \/ InitReturn \/ UNCHANGED vars
    PROVE  ReadInv'
<1>1. /\ FormatterTypeOK /\ vec \in Seq(VecEntries) /\ m_items \in Seq(Items)
      /\ m_error \in BOOLEAN
  BY DEF ReadInv, FormatterTypeOK
<1>2. CASE MakeItem
  <2>1. Head(vec) \in VecEntries /\ Tail(vec) \in Seq(VecEntries)
    BY <1>1, <1>2 DEF MakeItem
  <2>2. m_items' = Append(m_items, Made(Head(vec))) /\ vec' = Tail(vec)
    BY <1>2, Zenon DEF MakeItem, Made
  <2>3. m_items' \in Seq(Items)
    BY <1>1, <2>1, <2>2, MadeType
  <2>4. m_error' \in BOOLEAN
    BY <1>2 DEF MakeItem
  <2>5. FormatterTypeOK'
    BY <1>1, <1>2, <2>1, <2>2, <2>3, <2>4 DEF MakeItem, FormatterTypeOK, Size
  <2> QED
    BY <1>2, <2>5 DEF MakeItem, ReadInv, NameRead, ItemRead
<1>3. CASE InitReturn
  <2>1. FormatterTypeOK'
    BY <1>1, <1>3 DEF InitReturn, FormatterTypeOK, Size
  <2> QED
    BY <1>3, <2>1 DEF InitReturn, ReadInv, NameRead, ItemRead
<1>4. CASE UNCHANGED vars
  <2>1. FormatterTypeOK'
    BY <1>1, <1>4 DEF vars, FormatterTypeOK, Size
  <2>2. NameRead' /\ ItemRead'
    BY <1>4 DEF vars, ReadInv, NameRead, ItemRead, Escaped, Size, Name, Open, Plain, Braced,
                EndsName
  <2> QED
    BY <2>1, <2>2 DEF ReadInv
<1> QED
  BY <1>2, <1>3, <1>4

\* Every step keeps what has been read in order.
LEMMA ReadNext == ReadInv /\ [Next]_vars => ReadInv'
<1> SUFFICES ASSUME ReadInv, [Next]_vars PROVE ReadInv'
  OBVIOUS
<1> QED
  BY ScanReads, NameReads, PushReads, ItemsRead DEF Next, Initialised

\* The positions of init() stay in the pattern and in their order, whatever the
\* pattern is: no substr throws, no difference wraps.
THEOREM InRangeHolds == Spec => []InRange
<1>1. ReadInv => InRange
  <2> SUFFICES ASSUME ReadInv PROVE InRange
    OBVIOUS
  <2>1. i \in 1..Size + 1 /\ Size \in Nat /\ n \in Nat /\ fmt_begin \in Nat
    BY DEF ReadInv, FormatterTypeOK, Size
  <2>2. pc \in {"name", "push"} => i < n /\ n <= Size + 1
    BY DEF ReadInv, NameRead, ItemRead
  <2>3. pc \in {"name", "push"} /\ fmt_status = 1 => i < fmt_begin /\ fmt_begin < n
    BY DEF ReadInv, NameRead, ItemRead, Open
  <2> QED
    BY <2>1, <2>2, <2>3 DEF InRange
<1> QED
  BY <1>1, ReadInitial, ReadNext, PTL DEF Spec

-----------------------------------------------------------------------------
\* One text in front of others

\* A text before the empty text, and before nothing.
LEMMA PrependSingle ==
    ASSUME NEW s \in Text
    PROVE  Prepend(s, {<<>>}) = {s} /\ Prepend(s, {}) = {}
<1>1. s \o <<>> = s
  BY ConcatEmptySeq DEF Text
<1>2. Prepend(s, {<<>>}) = {s \o <<>>}
  BY DEF Prepend
<1> QED
  BY <1>1, <1>2 DEF Prepend

\* The empty text before others.
LEMMA PrependEmpty ==
    ASSUME NEW X, X \subseteq Text
    PROVE  Prepend(<<>>, X) = X
<1>1. \A t \in X : <<>> \o t = t
  BY ConcatEmptySeq DEF Text
<1> QED
  BY <1>1 DEF Prepend

\* Texts one before the other can be put together first.
LEMMA PrependTwice ==
    ASSUME NEW s \in Text, NEW t \in Text, NEW X, X \subseteq Text
    PROVE  Prepend(s, Prepend(t, X)) = Prepend(s \o t, X)
<1>1. \A u \in X : s \o (t \o u) = (s \o t) \o u
  BY ConcatAssociative DEF Text
<1>2. Prepend(s, Prepend(t, X)) = {s \o (t \o u) : u \in X}
  BY DEF Prepend
<1>3. Prepend(s \o t, X) = {(s \o t) \o u : u \in X}
  BY DEF Prepend
<1> DEFINE F(u) == s \o (t \o u)
           G(u) == (s \o t) \o u
<1>4. \A u \in X : F(u) = G(u)
  BY <1>1
<1>5. Prepend(s, Prepend(t, X)) = {F(u) : u \in X} /\ Prepend(s \o t, X) = {G(u) : u \in X}
  BY <1>2, <1>3, Zenon
<1> HIDE DEF F, G
<1>6. {F(u) : u \in X} = {G(u) : u \in X}
  BY <1>4
<1> QED
  BY <1>5, <1>6, Zenon

-----------------------------------------------------------------------------
\* What the entries in vec will print, and whether one of them is wrong

\* Two sequences of items are the same if one after the other they agree with
\* the same items before them.
LEMMA ConcatIs ==
    ASSUME NEW a \in Seq(Items), NEW b \in Seq(Items)
    PROVE  /\ a \o b \in Seq(Items) /\ Len(a \o b) = Len(a) + Len(b)
           /\ \A k \in 1..Len(a) : (a \o b)[k] = a[k]
           /\ \A k \in 1..Len(b) : (a \o b)[Len(a) + k] = b[k]
<1>1. Len(a) \in Nat /\ Len(b) \in Nat
  OBVIOUS
<1>2. a \o b \in Seq(Items) /\ Len(a \o b) = Len(a) + Len(b)
  BY ConcatProperties
<1>3. \A k \in 1..Len(a) + Len(b) : (a \o b)[k] = IF k <= Len(a) THEN a[k] ELSE b[k - Len(a)]
  BY ConcatProperties
<1>4. ASSUME NEW k \in 1..Len(a) PROVE (a \o b)[k] = a[k]
  BY <1>1, <1>3
<1>5. ASSUME NEW k \in 1..Len(b) PROVE (a \o b)[Len(a) + k] = b[k]
  <2>1. Len(a) + k \in 1..Len(a) + Len(b) /\ ~(Len(a) + k <= Len(a)) /\ (Len(a) + k) - Len(a) = k
    BY <1>1
  <2> QED
    BY <1>3, <2>1
<1> QED
  BY <1>2, <1>4, <1>5

\* The entries of vec make a sequence of items.
LEMMA MadeSeq ==
    ASSUME NEW v \in Seq(VecEntries)
    PROVE  [k \in 1..Len(v) |-> Made(v[k])] \in Seq(Items)
<1>1. \A k \in 1..Len(v) : Made(v[k]) \in Items
  BY MadeType
<1> QED
  BY <1>1

\* What they print is a text.
LEMMA PrintText ==
    ASSUME NEW items \in Seq(Items), NEW v \in Seq(VecEntries)
    PROVE  WillPrint(items, v) \in Text
<1>1. items \o [k \in 1..Len(v) |-> Made(v[k])] \in Seq(Items)
  BY MadeSeq, ConcatProperties
<1> QED
  BY <1>1, OutputsText, Zenon DEF WillPrint

\* An entry more prints what it is made into, after the others.
LEMMA PrintAppend ==
    ASSUME NEW items \in Seq(Items), NEW v \in Seq(VecEntries), NEW e \in VecEntries
    PROVE  WillPrint(items, Append(v, e)) = WillPrint(items, v) \o Output(Made(e))
<1> DEFINE r == [k \in 1..Len(v) |-> Made(v[k])]
           w == Append(v, e)
           q == [k \in 1..Len(w) |-> Made(w[k])]
<1>1. w \in Seq(VecEntries) /\ Len(w) = Len(v) + 1 /\ w[Len(v) + 1] = e
      /\ \A k \in 1..Len(v) : w[k] = v[k]
  OBVIOUS
<1>2. r \in Seq(Items) /\ q \in Seq(Items) /\ Made(e) \in Items
  BY <1>1, MadeSeq, MadeType
<1>3. Len(r) = Len(v) /\ \A k \in 1..Len(v) : r[k] = Made(v[k])
  OBVIOUS
<1>4. Len(q) = Len(w) /\ \A k \in 1..Len(w) : q[k] = Made(w[k])
  BY <1>1
<1> HIDE DEF r, q, w
<1>5. items \o q = Append(items \o r, Made(e))
  <2>1. q = Append(r, Made(e))
    <3>1. \A k \in 1..Len(v) + 1 : q[k] = Append(r, Made(e))[k]
      BY <1>1, <1>2, <1>3, <1>4
    <3>2. Len(q) = Len(v) + 1 /\ Len(Append(r, Made(e))) = Len(v) + 1
      BY <1>1, <1>2, <1>3, <1>4
    <3> QED
      BY <1>2, <3>1, <3>2, SeqEqual
  <2>2. q = r \o <<Made(e)>>
    BY <1>2, <2>1, AppendIsConcat
  <2>3. <<Made(e)>> \in Seq(Items)
    BY <1>2
  <2>4. items \o q = (items \o r) \o <<Made(e)>>
    BY <1>2, <2>2, <2>3, ConcatAssociative
  <2>5. items \o r \in Seq(Items)
    BY <1>2, ConcatProperties
  <2> QED
    BY <1>2, <2>4, <2>5, AppendIsConcat
<1>6. Outputs(Append(items \o r, Made(e))) = Outputs(items \o r) \o Output(Made(e))
  BY <1>2, OutputsAppend, ConcatProperties
<1> QED
  BY <1>5, <1>6, Zenon DEF WillPrint, r, q, w

\* Making an item of the first entry changes nothing about what is printed.
LEMMA PrintMoved ==
    ASSUME NEW items \in Seq(Items), NEW v \in Seq(VecEntries), v # <<>>
    PROVE  WillPrint(Append(items, Made(Head(v))), Tail(v)) = WillPrint(items, v)
<1> DEFINE w == Tail(v)
           r == [k \in 1..Len(v) |-> Made(v[k])]
           q == [k \in 1..Len(w) |-> Made(w[k])]
           it == Append(items, Made(Head(v)))
<1>1. /\ w \in Seq(VecEntries) /\ Len(v) = Len(w) + 1 /\ Head(v) = v[1] /\ v[1] \in VecEntries
      /\ \A k \in 1..Len(w) : w[k] = v[k + 1]
  OBVIOUS
<1>2. r \in Seq(Items) /\ q \in Seq(Items) /\ Made(v[1]) \in Items
  BY <1>1, MadeSeq, MadeType
<1>3. Len(r) = Len(v) /\ \A k \in 1..Len(v) : r[k] = Made(v[k])
  OBVIOUS
<1>4. Len(q) = Len(w) /\ \A k \in 1..Len(w) : q[k] = Made(w[k])
  BY <1>1
<1>5. /\ it \in Seq(Items) /\ Len(it) = Len(items) + 1 /\ it[Len(items) + 1] = Made(v[1])
      /\ \A k \in 1..Len(items) : it[k] = items[k]
  BY <1>1, <1>2
<1> HIDE DEF r, q, w, it
<1>6. it \o q = items \o r
  <2>1. <<Made(v[1])>> \in Seq(Items) /\ Len(<<Made(v[1])>>) = 1
        /\ <<Made(v[1])>>[1] = Made(v[1])
    BY <1>2
  <2>2. r = <<Made(v[1])>> \o q
    <3> DEFINE m == <<Made(v[1])>>
    <3>1. m \in Seq(Items) /\ Len(m) = 1 /\ m[1] = Made(v[1])
      BY <2>1
    <3> HIDE DEF m
    <3>2. /\ m \o q \in Seq(Items) /\ Len(m \o q) = 1 + Len(q)
          /\ (m \o q)[1] = m[1] /\ \A k \in 1..Len(q) : (m \o q)[1 + k] = q[k]
      <4>1. /\ m \o q \in Seq(Items) /\ Len(m \o q) = Len(m) + Len(q)
            /\ \A k \in 1..Len(m) : (m \o q)[k] = m[k]
            /\ \A k \in 1..Len(q) : (m \o q)[Len(m) + k] = q[k]
        BY <1>2, <3>1, ConcatIs, Zenon
      <4>2. 1 \in 1..Len(m)
        BY <3>1
      <4> QED
        BY <3>1, <4>1, <4>2, Zenon
    <3>3. Len(r) = 1 + Len(q) /\ Len(q) \in Nat
      BY <1>1, <1>2, <1>3, <1>4
    <3>4. ASSUME NEW k \in 1..Len(r)
          PROVE  r[k] = (m \o q)[k]
      <4>1. CASE k = 1
        BY <1>1, <1>3, <3>1, <3>2, <4>1
      <4>2. CASE k # 1
        <5>1. PICK h \in 1..Len(q) : k = 1 + h
          <6>1. k - 1 \in 1..Len(q) /\ k = 1 + (k - 1)
            BY <3>3, <4>2
          <6> QED
            BY <6>1
        <5>2. (m \o q)[k] = q[h]
          BY <3>2, <5>1
        <5>3. q[h] = Made(w[h]) /\ w[h] = v[h + 1]
          BY <1>1, <1>4, <5>1
        <5>4. r[k] = Made(v[k]) /\ k = h + 1
          BY <1>3, <5>1
        <5> QED
          BY <5>2, <5>3, <5>4
      <4> QED
        BY <4>1, <4>2
    <3>5. r = m \o q
      BY <1>2, <3>2, <3>3, <3>4, SeqEqual
    <3> QED
      BY <3>5 DEF m
  <2>3. it = items \o <<Made(v[1])>>
    BY <1>1, <1>2, AppendIsConcat DEF it
  <2> QED
    BY <1>2, <2>1, <2>2, <2>3, ConcatAssociative
<1> QED
  BY <1>6, Zenon DEF WillPrint, r, q, w, it

\* An entry more is wrong, or one of those before it.
LEMMA WrongAppend ==
    ASSUME NEW v \in Seq(VecEntries), NEW e
    PROVE  AnyWrong(Append(v, e)) <=> AnyWrong(v) \/ Wrong(e)
<1>1. Len(Append(v, e)) = Len(v) + 1 /\ Append(v, e)[Len(v) + 1] = e
      /\ \A k \in 1..Len(v) : Append(v, e)[k] = v[k]
  OBVIOUS
<1>2. \A k : k \in 1..Len(v) + 1 <=> k \in 1..Len(v) \/ k = Len(v) + 1
  OBVIOUS
<1> QED
  BY <1>1, <1>2, Zenon DEF AnyWrong

\* The first entry is wrong, or one of those behind it.
LEMMA WrongMoved ==
    ASSUME NEW v \in Seq(VecEntries), v # <<>>
    PROVE  AnyWrong(v) <=> Wrong(Head(v)) \/ AnyWrong(Tail(v))
<1>1. /\ Len(v) = Len(Tail(v)) + 1 /\ Head(v) = v[1] /\ Len(Tail(v)) \in Nat
      /\ \A k \in 1..Len(Tail(v)) : Tail(v)[k] = v[k + 1]
  OBVIOUS
<1>2. ASSUME AnyWrong(v)
      PROVE  Wrong(Head(v)) \/ AnyWrong(Tail(v))
  <2>1. PICK k \in 1..Len(v) : Wrong(v[k])
    BY <1>2 DEF AnyWrong
  <2>2. CASE k = 1
    BY <1>1, <2>1, <2>2, Zenon
  <2>3. CASE k # 1
    <3>1. k - 1 \in 1..Len(Tail(v)) /\ (k - 1) + 1 = k
      BY <1>1, <2>1, <2>3
    <3>2. Tail(v)[k - 1] = v[k]
      BY <1>1, <3>1
    <3> QED
      BY <2>1, <3>1, <3>2, Zenon DEF AnyWrong
  <2> QED
    BY <2>2, <2>3
<1>3. Wrong(Head(v)) => AnyWrong(v)
  <2>1. 1 \in 1..Len(v)
    BY <1>1
  <2> QED
    BY <1>1, <2>1, Zenon DEF AnyWrong
<1>4. AnyWrong(Tail(v)) => AnyWrong(v)
  <2>1. \A k \in 1..Len(Tail(v)) : k + 1 \in 1..Len(v)
    BY <1>1
  <2> QED
    BY <1>1, <2>1, Zenon DEF AnyWrong
<1> QED
  BY <1>2, <1>3, <1>4

\* The text before an item prints itself, and is never wrong.
LEMMA PendingPrints ==
    ASSUME FormatterTypeOK
    PROVE  /\ WillPrint(m_items, vec \o Pending) = WillPrint(m_items, vec) \o nstr
           /\ AnyWrong(vec \o Pending) <=> AnyWrong(vec)
<1>1. /\ m_items \in Seq(Items) /\ vec \in Seq(VecEntries) /\ nstr \in Text
  BY DEF FormatterTypeOK
<1>2. WillPrint(m_items, vec) \in Text
  BY <1>1, PrintText
<1>3. CASE nstr = <<>>
  <2>1. vec \o Pending = vec
    BY <1>1, <1>3, ConcatEmptySeq DEF Pending
  <2>2. WillPrint(m_items, vec) \o nstr = WillPrint(m_items, vec)
    BY <1>2, <1>3, ConcatEmptySeq DEF Text
  <2> QED
    BY <2>1, <2>2
<1>4. CASE nstr # <<>>
  <2> DEFINE e == Entry(nstr, <<>>, 0)
  <2>1. Pending = <<e>>
    BY <1>4 DEF Pending
  <2>2. e \in VecEntries
    <3>1. <<>> \in Text
      BY DEF Text
    <3> QED
      BY <1>1, <3>1 DEF Entry, VecEntries
  <2>3. Made(e) = TextItem(nstr) /\ ~Wrong(e)
    BY DEF Made, Wrong, Entry
  <2> HIDE DEF e
  <2>4. vec \o Pending = Append(vec, e)
    BY <1>1, <2>1, <2>2, AppendIsConcat
  <2>5. WillPrint(m_items, Append(vec, e)) = WillPrint(m_items, vec) \o nstr
    BY <1>1, <2>2, <2>3, PrintAppend, OutputText
  <2>6. AnyWrong(Append(vec, e)) <=> AnyWrong(vec)
    BY <1>1, <2>2, <2>3, WrongAppend
  <2> QED
    BY <2>4, <2>5, <2>6
<1> QED
  BY <1>3, <1>4

-----------------------------------------------------------------------------
\* An item of the pattern, as init() reads it and as Readings does

\* A name is known iff it is one letter, and that a known one.
LEMMA KnownName ==
    ASSUME NEW p \in Seq(Letters), NEW a \in 1..Len(p), NEW e \in a + 1..Len(p) + 1
    PROVE  /\ Known(SubSeq(p, a + 1, e - 1)) <=> e = a + 2 /\ p[a + 1] \in DOMAIN s_format_items
           /\ e = a + 2 => SubSeq(p, a + 1, e - 1) = <<p[a + 1]>>
<1> DEFINE s == SubSeq(p, a + 1, e - 1)
<1>1. /\ a \in Nat /\ e \in Nat /\ Len(p) \in Nat /\ a + 1 <= e /\ e - 1 <= Len(p)
      /\ 1 <= a
  OBVIOUS
<1>2. /\ s \in Seq(Letters) /\ Len(s) = (e - 1) - (a + 1) + 1
      /\ \A k \in 1..Len(s) : s[k] = p[(a + 1) + k - 1]
  BY <1>1
<1> HIDE DEF s
<1>3. Len(s) = 1 <=> e = a + 2
  BY <1>1, <1>2
<1>4. e = a + 2 => s[1] = p[a + 1] /\ Len(s) = 1
  <2> SUFFICES ASSUME e = a + 2 PROVE s[1] = p[a + 1] /\ Len(s) = 1
    OBVIOUS
  <2>1. Len(s) = 1
    BY <1>3
  <2>2. s[1] = p[(a + 1) + 1 - 1]
    BY <1>2, <2>1
  <2>3. (a + 1) + 1 - 1 = a + 1
    BY <1>1
  <2> QED
    BY <2>1, <2>2, <2>3
<1>5. e = a + 2 => s = <<p[a + 1]>>
  <2> SUFFICES ASSUME e = a + 2 PROVE s = <<p[a + 1]>>
    OBVIOUS
  <2>1. /\ <<s[1]>> \in Seq(Letters) /\ Len(<<s[1]>>) = 1 /\ <<s[1]>>[1] = s[1]
    BY <1>2, <1>4
  <2> DEFINE t == <<s[1]>>
  <2>3. t \in Seq(Letters) /\ Len(t) = 1 /\ t[1] = s[1]
    BY <2>1
  <2> HIDE DEF t
  <2>4. \A k \in 1..Len(s) : s[k] = t[k]
    <3>1. Len(s) = 1
      BY <1>4
    <3>2. \A k \in 1..1 : k = 1
      OBVIOUS
    <3> QED
      BY <2>3, <3>1, <3>2
  <2>5. Len(s) = Len(t)
    BY <1>4, <2>3
  <2>6. s = t
    BY <1>2, <2>3, <2>4, <2>5, SeqEqual
  <2>2. s = <<s[1]>>
    BY <2>6 DEF t
  <2> QED
    BY <1>4, <2>2
<1>6. Known(s) <=> e = a + 2 /\ p[a + 1] \in DOMAIN s_format_items
  BY <1>3, <1>4, Zenon DEF Known
<1> QED
  BY <1>5, <1>6 DEF s

\* A name from a to before e: letters of names, then something else.
Named(p, a, e) ==
    /\ p[a] = "%" /\ At(p, a + 1) # "%"
    /\ \A k \in a + 1..e - 1 : p[k] \in Alpha \cup {RBrace}
    /\ e <= Len(p) => p[e] \notin Alpha \cup {RBrace}

\* A name that is not known makes the pattern ill-formed.
LEMMA Unreadable ==
    ASSUME NEW p \in Seq(Letters), NEW a \in 1..Len(p), NEW e \in a + 1..Len(p) + 1,
           Named(p, a, e), ~Known(SubSeq(p, a + 1, e - 1))
    PROVE  Readings(p)[a] = {}
<1> DEFINE R == Readings(p)
<1>1. R[a] = Reading(p, a, R)
  BY ReadingsIs
<1> HIDE DEF R
<1>2. ~(e = a + 2 /\ p[a + 1] \in DOMAIN s_format_items)
  BY KnownName
<1>3. p[a] = "%" /\ At(p, a + 1) # "%"
  BY DEF Named
<1>4. CASE At(p, a + 1) \notin DOMAIN s_format_items
  BY <1>1, <1>3, <1>4, ReadingIs, Zenon DEF R
<1>5. CASE At(p, a + 1) \in DOMAIN s_format_items
  <2>1. a + 1 <= Len(p) /\ At(p, a + 1) = p[a + 1] /\ p[a + 1] \in Letters
    <3>1. a + 1 > Len(p) => At(p, a + 1) = "end"
      BY AtIs
    <3>2. a + 1 <= Len(p)
      BY <1>5, <3>1, KnownLetters
    <3> QED
      BY <3>2, AtIs
  <2>2. p[a + 1] \in Alpha
    BY <1>5, <2>1, KnownLetters, NamesAreLetters DEF Letters
  <2>3. e # a + 1
    <3> SUFFICES ASSUME e = a + 1 PROVE FALSE
      OBVIOUS
    <3>1. p[a + 1] \notin Alpha \cup {RBrace}
      BY <2>1 DEF Named
    <3> QED
      BY <2>2, <3>1
  <2>4. e # a + 2
    BY <1>2, <1>5, <2>1
  <2>5. a + 2 \in a + 1..e - 1 /\ a + 2 <= Len(p)
    BY <2>3, <2>4
  <2>6. p[a + 2] \in Alpha \cup {RBrace} /\ At(p, a + 2) = p[a + 2]
    BY <2>5, AtIs DEF Named
  <2>7. At(p, a + 2) \in Alpha \cup {RBrace}
    BY <2>6
  <2> QED
    BY <1>1, <1>3, <1>5, <2>7, ReadingIs, Zenon DEF R
<1> QED
  BY <1>4, <1>5

\* A format that is not closed does so too.
LEMMA Unclosed ==
    ASSUME NEW p \in Seq(Letters), NEW a \in 1..Len(p), NEW b \in a + 1..Len(p),
           Named(p, a, b), p[b] = LBrace, \A k \in b + 1..Len(p) : p[k] # RBrace
    PROVE  Readings(p)[a] = {}
<1> DEFINE R == Readings(p)
<1>1. R[a] = Reading(p, a, R)
  BY ReadingsIs
<1> HIDE DEF R
<1>2. b \in a + 1..Len(p) + 1
  OBVIOUS
<1>3. CASE ~Known(SubSeq(p, a + 1, b - 1))
  BY <1>2, <1>3, Unreadable
<1>4. CASE Known(SubSeq(p, a + 1, b - 1))
  <2>1. b = a + 2 /\ p[a + 1] \in DOMAIN s_format_items
    BY <1>2, <1>4, KnownName
  <2>2. At(p, a + 1) = p[a + 1] /\ At(p, a + 2) = LBrace
    BY <2>1, AtIs
  <2>3. Closing(p, a + 2) = {}
    BY <2>1 DEF Closing
  <2>4. R[a] = UNION {Prepend(Output(Item(<<p[a + 1]>>, SubSeq(p, a + 3, j - 1))), R[j + 1])
                        : j \in Closing(p, a + 2)}
    <3>1. p[a] = "%" /\ At(p, a + 1) \in DOMAIN s_format_items
      BY <2>1, <2>2, Zenon DEF Named
    <3> QED
      BY <1>1, <2>2, <3>1, ReadingIs, Zenon
  <2>5. \A x : x \notin R[a]
    BY <2>3, <2>4
  <2> QED
    BY <2>5 DEF R
<1> QED
  BY <1>3, <1>4

\* An item without a format.
LEMMA ReadPlain ==
    ASSUME NEW p \in Seq(Letters), NEW a \in 1..Len(p), NEW e \in a + 1..Len(p) + 1,
           Named(p, a, e), Known(SubSeq(p, a + 1, e - 1)), e <= Len(p) => p[e] # LBrace
    PROVE  Readings(p)[a] =
             Prepend(Output(Item(SubSeq(p, a + 1, e - 1), <<>>)), Readings(p)[e])
<1> DEFINE R == Readings(p)
<1>1. R[a] = Reading(p, a, R)
  BY ReadingsIs
<1> HIDE DEF R
<1>2. /\ e = a + 2 /\ p[a + 1] \in DOMAIN s_format_items
      /\ SubSeq(p, a + 1, e - 1) = <<p[a + 1]>>
  BY KnownName
<1>3. At(p, a + 1) \in DOMAIN s_format_items /\ p[a] = "%"
  BY <1>2, AtIs DEF Named
<1>4. At(p, a + 2) \notin Alpha \cup {RBrace, LBrace}
  <2>1. CASE e <= Len(p)
    BY <1>2, <2>1, AtIs DEF Named
  <2>2. CASE e > Len(p)
    <3>1. At(p, a + 2) = "end"
      BY <1>2, <2>2, AtIs
    <3> QED
      BY <3>1, Signs
  <2> QED
    BY <2>1, <2>2
<1>5. R[a] = Prepend(Output(Item(<<p[a + 1]>>, <<>>)), R[a + 2])
  BY <1>1, <1>3, <1>4, ReadingIs, Zenon DEF R
<1> QED
  BY <1>2, <1>5, Zenon DEF R

\* An item with one, from the brace at b to the brace at c.
LEMMA ReadBraced ==
    ASSUME NEW p \in Seq(Letters), NEW a \in 1..Len(p), NEW b \in a + 1..Len(p),
           NEW c \in b + 1..Len(p), Named(p, a, b), p[b] = LBrace, p[c] = RBrace,
           \A k \in b + 1..c - 1 : p[k] # RBrace,
           Known(SubSeq(p, a + 1, b - 1))
    PROVE  Readings(p)[a] =
             Prepend(Output(Item(SubSeq(p, a + 1, b - 1), SubSeq(p, b + 1, c - 1))),
                     Readings(p)[c + 1])
<1> DEFINE R == Readings(p)
<1>1. R[a] = Reading(p, a, R)
  BY ReadingsIs
<1> HIDE DEF R
<1>2. b \in a + 1..Len(p) + 1
  OBVIOUS
<1>3. /\ b = a + 2 /\ p[a + 1] \in DOMAIN s_format_items
      /\ SubSeq(p, a + 1, b - 1) = <<p[a + 1]>>
  BY <1>2, KnownName
<1>4. At(p, a + 1) \in DOMAIN s_format_items /\ p[a] = "%" /\ At(p, a + 2) = LBrace
  BY <1>3, AtIs DEF Named
<1>5. Closing(p, a + 2) = {c}
  <2>1. c \in Closing(p, a + 2)
    BY <1>3 DEF Closing
  <2>2. ASSUME NEW j \in Closing(p, a + 2)
        PROVE  j = c
    <3>1. /\ j \in b + 1..Len(p) /\ p[j] = RBrace
          /\ \A l \in b + 1..j - 1 : p[l] # RBrace
      BY <1>3 DEF Closing
    <3>2. ~(j < c) /\ ~(c < j)
      BY <3>1
    <3> QED
      BY <3>1, <3>2
  <2> QED
    BY <2>1, <2>2
<1>6. R[a] = UNION {Prepend(Output(Item(<<p[a + 1]>>, SubSeq(p, a + 3, j - 1))), R[j + 1])
                      : j \in Closing(p, a + 2)}
  BY <1>1, <1>4, ReadingIs, Zenon
<1>7. R[a] = Prepend(Output(Item(<<p[a + 1]>>, SubSeq(p, a + 3, c - 1))), R[c + 1])
  <2> DEFINE F(j) == Prepend(Output(Item(<<p[a + 1]>>, SubSeq(p, a + 3, j - 1))), R[j + 1])
  <2>1. R[a] = UNION {F(j) : j \in {c}}
    BY <1>5, <1>6, Zenon
  <2> HIDE DEF F
  <2>2. R[a] = F(c)
    BY <2>1
  <2> QED
    BY <2>2 DEF F
<1>8. a + 3 = b + 1
  BY <1>3
<1> QED
  BY <1>3, <1>7, <1>8, Zenon DEF R

-----------------------------------------------------------------------------
\* MeansInv is inductive

\* At the start the pattern means what it means from its first letter on.
LEMMA MeansInitial == Init => MeansInv
<1> SUFFICES ASSUME Init PROVE MeansInv
  OBVIOUS
<1>1. FormatterTypeOK
  BY ReadInitial DEF ReadInv
<1>2. /\ m_pattern \in Seq(Letters) /\ 1 \in 1..Len(m_pattern) + 1
  BY <1>1 DEF FormatterTypeOK
<1>3. Printed \o nstr = <<>>
  <2> DEFINE none == [k \in 1..Len(vec) |-> Made(vec[k])]
  <2>1. none \in Seq(Items) /\ vec = <<>> /\ m_items = <<>>
    BY <1>1, MadeSeq DEF Init, FormatterTypeOK
  <2>2. Len(none) = 0
    BY <2>1
  <2> HIDE DEF none
  <2>3. m_items \o none = <<>>
    BY <2>1, <2>2
  <2>4. Printed = <<>>
    BY <2>3, OutputsEmpty, Zenon DEF Printed, WillPrint, none
  <2>5. nstr = <<>> /\ <<>> \in Text
    BY DEF Init, Text
  <2> QED
    BY <2>4, <2>5, ConcatEmptySeq DEF Text
<1>4. ~Failed
  BY DEF Init, Failed, AnyWrong
<1>5. Readings(m_pattern)[1] \subseteq Text
  BY <1>2, ReadingsText
<1>6. Meaning(m_pattern) = Prepend(Printed \o nstr, Readings(m_pattern)[i])
  <2>1. Readings(m_pattern)[1] = Prepend(<<>>, Readings(m_pattern)[1])
    BY <1>5, PrependEmpty, Zenon
  <2> QED
    BY <1>3, <2>1, Zenon DEF Meaning, Init
<1> QED
  BY <1>4, <1>6 DEF MeansInv, Init

\* Reading on: what is next in the pattern comes behind what has been read.
LEMMA ReadOn ==
    ASSUME NEW p \in Seq(Letters), NEW s \in Text, NEW t \in Text, NEW a, NEW b \in 1..Len(p) + 1,
           Readings(p)[a] = Prepend(t, Readings(p)[b])
    PROVE  Prepend(s, Readings(p)[a]) = Prepend(s \o t, Readings(p)[b])
<1>1. Readings(p)[b] \subseteq Text
  BY ReadingsText
<1>2. Prepend(s, Prepend(t, Readings(p)[b])) = Prepend(s \o t, Readings(p)[b])
  BY <1>1, PrependTwice
<1> QED
  BY <1>2

\* What has been read, and will be printed, is a text.
LEMMA PrintedText ==
    ASSUME FormatterTypeOK
    PROVE  Printed \in Text /\ nstr \in Text /\ Printed \o nstr \in Text
<1>1. /\ m_items \in Seq(Items) /\ vec \in Seq(VecEntries) /\ nstr \in Text
  BY DEF FormatterTypeOK
<1>2. Printed \in Text
  BY <1>1, PrintText DEF Printed
<1> QED
  BY <1>1, <1>2 DEF Text

\* A letter of the text is read.
LEMMA LetterMeans ==
    ASSUME FormatterTypeOK, MeansInv, pc = "scan", NEW x \in Letters, NEW b \in 1..Size + 1,
           Readings(m_pattern)[i] = Prepend(<<x>>, Readings(m_pattern)[b]),
           nstr' = Append(nstr, x), i' = b, UNCHANGED <<m_pattern, m_items, m_error, pc, vec>>
    PROVE  MeansInv'
<1>1. <<x>> \in Text
  <2>1. <<x>> \in Seq(Letters)
    OBVIOUS
  <2> QED
    BY <2>1, LettersText
<1>2. Printed \in Text /\ nstr \in Text /\ Printed \o nstr \in Text
  BY PrintedText
<1>3. Printed' = Printed /\ (Failed' <=> Failed) /\ pc' = pc
  BY DEF Printed, Failed
<1>4. nstr' = nstr \o <<x>>
  <2>1. x \in Symbols
    BY DEF Symbols
  <2> QED
    BY <1>2, <2>1, AppendIsConcat DEF Text
<1>5. Printed' \o nstr' = (Printed \o nstr) \o <<x>>
  BY <1>1, <1>2, <1>3, <1>4, ConcatAssociative DEF Text
<1>6. m_pattern \in Seq(Letters) /\ b \in 1..Len(m_pattern) + 1
  BY DEF FormatterTypeOK, Size
<1>7. Prepend(Printed \o nstr, Readings(m_pattern)[i])
        = Prepend((Printed \o nstr) \o <<x>>, Readings(m_pattern)[b])
  BY <1>1, <1>2, <1>6, ReadOn
<1>8. Meaning(m_pattern)' = Meaning(m_pattern) /\ Readings(m_pattern)[i]' = Readings(m_pattern)[b]
  BY Zenon
<1> QED
  BY <1>3, <1>5, <1>7, <1>8, Zenon DEF MeansInv

\* At the end of the pattern nothing is left to be read.
LEMMA ScanMeans ==
    ASSUME ReadInv, MeansInv, ScanText \/ ScanEscape \/ ScanItem \/ ScanEnd
    PROVE  MeansInv'
<1>1. /\ FormatterTypeOK /\ m_pattern \in Seq(Letters) /\ Size = Len(m_pattern) /\ Size \in Nat
      /\ i \in 1..Size + 1
  BY DEF ReadInv, FormatterTypeOK, Size
<1>2. Readings(m_pattern)[i] = Reading(m_pattern, i, Readings(m_pattern))
  BY <1>1, ReadingsIs
<1>3. CASE ScanText
  <2>1. /\ pc = "scan" /\ i \in 1..Len(m_pattern) /\ m_pattern[i] # "%" /\ i + 1 \in 1..Size + 1
        /\ m_pattern[i] \in Letters
    BY <1>1, <1>3 DEF ScanText
  <2>2. Readings(m_pattern)[i] = Prepend(<<m_pattern[i]>>, Readings(m_pattern)[i + 1])
    BY <1>1, <1>2, <2>1, ReadingIs
  <2>3. /\ nstr' = Append(nstr, m_pattern[i]) /\ i' = i + 1
        /\ UNCHANGED <<m_pattern, m_items, m_error, pc, vec>>
    BY <1>3 DEF ScanText
  <2> QED
    BY <1>1, <2>1, <2>2, <2>3, LetterMeans
<1>4. CASE ScanEscape
  <2>1. /\ pc = "scan" /\ i \in 1..Len(m_pattern) /\ m_pattern[i] = "%" /\ i + 2 \in 1..Size + 1
        /\ i + 1 \in 1..Len(m_pattern) /\ m_pattern[i + 1] = "%"
    BY <1>1, <1>4 DEF ScanEscape, Escaped
  <2>2. At(m_pattern, i + 1) = "%"
    BY <1>1, <2>1 DEF At
  <2>3. Readings(m_pattern)[i] = Prepend(<<"%">>, Readings(m_pattern)[i + 2])
    BY <1>1, <1>2, <2>1, <2>2, ReadingIs
  <2>4. /\ nstr' = Append(nstr, "%") /\ i' = i + 2
        /\ UNCHANGED <<m_pattern, m_items, m_error, pc, vec>>
    BY <1>4 DEF ScanEscape
  <2>5. "%" \in Letters
    BY DEF Letters
  <2> QED
    BY <1>1, <2>1, <2>3, <2>4, <2>5, LetterMeans
<1>5. CASE ScanItem
  <2>1. /\ pc = "scan" /\ pc' = "name"
        /\ UNCHANGED <<m_pattern, m_items, m_error, i, nstr, vec>>
    BY <1>5 DEF ScanItem
  <2>2. Printed' = Printed /\ (Failed' <=> Failed)
    BY <2>1 DEF Printed, Failed
  <2> QED
    BY <2>1, <2>2 DEF MeansInv
<1>6. CASE ScanEnd
  <2>1. /\ pc = "scan" /\ pc' = "items" /\ i > Size /\ vec' = vec \o Pending
        /\ UNCHANGED <<m_pattern, m_items, m_error>>
    BY <1>6 DEF ScanEnd
  <2>2. Printed \o nstr \in Text
    BY <1>1, PrintedText
  <2>3. Readings(m_pattern)[i] = {<<>>}
    <3>1. i = Len(m_pattern) + 1
      BY <1>1, <2>1
    <3> QED
      BY <1>1, <1>2, <3>1, ReadingEnd
  <2>4. Prepend(Printed \o nstr, Readings(m_pattern)[i]) = {Printed \o nstr}
    BY <2>2, <2>3, PrependSingle, Zenon
  <2>5. Printed' = Printed \o nstr /\ (Failed' <=> Failed)
    BY <1>1, <2>1, PendingPrints, Zenon DEF Printed, Failed
  <2> QED
    BY <2>1, <2>4, <2>5 DEF MeansInv
<1> QED
  BY <1>3, <1>4, <1>5, <1>6

\* While the name is read nothing is known of what it means.
LEMMA NameMeans ==
    ASSUME ReadInv, MeansInv,
           NameEnd \/ BraceOpen \/ BraceClose \/ NameNext \/ NameExhausted
    PROVE  MeansInv'
<1>1. /\ pc = "name" /\ pc' \in {"name", "push"}
      /\ UNCHANGED <<m_pattern, m_items, m_error, i, nstr, vec>>
  BY DEF NameEnd, BraceOpen, BraceClose, NameNext, NameExhausted
<1>2. Printed' = Printed /\ (Failed' <=> Failed)
  BY <1>1 DEF Printed, Failed
<1> QED
  BY <1>1, <1>2 DEF MeansInv

\* What has been read of an item, as the lemmas about items need it.
PlainRead ==
    /\ Named(m_pattern, i, n) /\ str = SubSeq(m_pattern, i + 1, n - 1) /\ fmt = <<>>
    /\ n <= Len(m_pattern) => m_pattern[n] # LBrace
BraceRead ==
    /\ fmt_begin \in i + 1..Len(m_pattern) /\ Named(m_pattern, i, fmt_begin)
    /\ m_pattern[fmt_begin] = LBrace
ClosedRead ==
    /\ BraceRead /\ n - 1 \in fmt_begin + 1..Len(m_pattern)
    /\ m_pattern[n - 1] = RBrace
    /\ \A k \in fmt_begin + 1..(n - 1) - 1 : m_pattern[k] # RBrace
    /\ str = SubSeq(m_pattern, i + 1, fmt_begin - 1)
    /\ fmt = SubSeq(m_pattern, fmt_begin + 1, (n - 1) - 1)

\* The two ways in which an item can be complete, and the one in which it is not.
LEMMA ReadNames ==
    ASSUME ReadInv, pc = "push"
    PROVE  /\ i \in 1..Len(m_pattern) /\ n \in i + 1..Len(m_pattern) + 1
           /\ fmt_status = 0 => PlainRead \/ ClosedRead
           /\ fmt_status = 1 =>
                BraceRead /\ \A k \in fmt_begin + 1..Len(m_pattern) : m_pattern[k] # RBrace
<1>1. /\ m_pattern \in Seq(Letters) /\ Size = Len(m_pattern) /\ Size \in Nat
      /\ i \in 1..Size + 1 /\ n \in Nat /\ fmt_begin \in Nat
  BY DEF ReadInv, FormatterTypeOK, Size
<1>2. /\ m_pattern[i] = "%" /\ ~Escaped /\ i < n /\ n <= Size + 1
      /\ fmt_status = 0 => Plain \/ Braced
      /\ fmt_status = 1 => n = Size + 1 /\ Open(fmt_begin, n)
  BY DEF ReadInv, ItemRead
<1>3. i \in 1..Len(m_pattern) /\ n \in i + 1..Len(m_pattern) + 1
  BY <1>1, <1>2
<1>4. At(m_pattern, i + 1) # "%"
  <2>1. CASE i < Size
    <3>1. i + 1 \in 1..Len(m_pattern) /\ m_pattern[i + 1] # "%"
      BY <1>1, <1>2, <2>1 DEF Escaped
    <3> QED
      BY <3>1 DEF At
  <2>2. CASE ~(i < Size)
    <3>1. i + 1 \notin 1..Len(m_pattern)
      BY <1>1, <2>2
    <3> QED
      BY <3>1 DEF At
  <2> QED
    BY <2>1, <2>2
<1>5. ASSUME NEW e \in Nat, Open(fmt_begin, e), e <= Size + 1
      PROVE  BraceRead
  <2>1. fmt_begin \in i + 1..Len(m_pattern) /\ m_pattern[fmt_begin] = LBrace /\ Name(fmt_begin)
    BY <1>1, <1>5 DEF Open
  <2>2. LBrace \notin Alpha \cup {RBrace}
    BY Signs
  <2> QED
    BY <1>2, <1>4, <2>1, <2>2 DEF BraceRead, Named, Name
<1>6. Plain => PlainRead
  <2> SUFFICES ASSUME Plain PROVE PlainRead
    OBVIOUS
  <2>1. /\ Name(n) /\ fmt = <<>> /\ str = SubSeq(m_pattern, i + 1, n - 1)
        /\ n <= Len(m_pattern) => EndsName(m_pattern[n])
    BY <1>1 DEF Plain
  <2>2. n <= Len(m_pattern) => m_pattern[n] \notin Alpha \cup {RBrace} /\ m_pattern[n] # LBrace
    BY <2>1 DEF EndsName
  <2> QED
    BY <1>2, <1>4, <2>1, <2>2 DEF PlainRead, Named, Name
<1>7. Braced => ClosedRead
  <2> SUFFICES ASSUME Braced PROVE ClosedRead
    OBVIOUS
  <2>1. /\ Open(fmt_begin, n - 1) /\ m_pattern[n - 1] = RBrace
        /\ str = SubSeq(m_pattern, i + 1, fmt_begin - 1)
        /\ fmt = SubSeq(m_pattern, fmt_begin + 1, n - 2)
    BY DEF Braced
  <2>2. n - 1 \in Nat /\ n - 1 <= Size + 1 /\ (n - 1) - 1 = n - 2
    BY <1>1, <1>2
  <2>3. BraceRead
    BY <1>5, <2>1, <2>2
  <2>4. /\ n - 1 \in fmt_begin + 1..Len(m_pattern)
        /\ \A k \in fmt_begin + 1..(n - 1) - 1 : m_pattern[k] # RBrace
    BY <1>1, <1>2, <2>1 DEF Open
  <2> QED
    BY <2>1, <2>2, <2>3, <2>4 DEF ClosedRead
<1>8. fmt_status = 1 =>
        BraceRead /\ \A k \in fmt_begin + 1..Len(m_pattern) : m_pattern[k] # RBrace
  <2> SUFFICES ASSUME fmt_status = 1
               PROVE  BraceRead /\ \A k \in fmt_begin + 1..Len(m_pattern) : m_pattern[k] # RBrace
    OBVIOUS
  <2>1. n = Size + 1 /\ Open(fmt_begin, n)
    BY <1>2
  <2>2. n - 1 = Len(m_pattern)
    BY <1>1, <2>1
  <2>3. \A k \in fmt_begin + 1..n - 1 : m_pattern[k] # RBrace
    BY <2>1 DEF Open
  <2> QED
    BY <1>1, <1>5, <2>1, <2>2, <2>3
<1> QED
  BY <1>2, <1>3, <1>6, <1>7, <1>8

\* The entry pushed for an item prints what the item means, if its name is
\* known; if not, the pattern means nothing.
LEMMA ItemMeans ==
    ASSUME ReadInv, pc = "push", fmt_status = 0
    PROVE  /\ Known(str) => Readings(m_pattern)[i]
                              = Prepend(Output(Item(str, fmt)), Readings(m_pattern)[n])
           /\ ~Known(str) => Readings(m_pattern)[i] = {}
<1>1. m_pattern \in Seq(Letters) /\ i \in 1..Len(m_pattern) /\ n \in i + 1..Len(m_pattern) + 1
      /\ (PlainRead \/ ClosedRead)
  BY ReadNames DEF ReadInv, FormatterTypeOK
<1>2. CASE PlainRead
  <2>1. /\ Named(m_pattern, i, n) /\ str = SubSeq(m_pattern, i + 1, n - 1) /\ fmt = <<>>
        /\ n <= Len(m_pattern) => m_pattern[n] # LBrace
    BY <1>2 DEF PlainRead
  <2>2. Known(str) => Readings(m_pattern)[i]
                        = Prepend(Output(Item(str, fmt)), Readings(m_pattern)[n])
    BY <1>1, <2>1, ReadPlain
  <2>3. ~Known(str) => Readings(m_pattern)[i] = {}
    BY <1>1, <2>1, Unreadable
  <2> QED
    BY <2>2, <2>3
<1>3. CASE ClosedRead
  <2> DEFINE c == n - 1
  <2>1. /\ fmt_begin \in i + 1..Len(m_pattern) /\ Named(m_pattern, i, fmt_begin)
        /\ m_pattern[fmt_begin] = LBrace
        /\ c \in fmt_begin + 1..Len(m_pattern) /\ m_pattern[c] = RBrace
        /\ \A k \in fmt_begin + 1..c - 1 : m_pattern[k] # RBrace
        /\ str = SubSeq(m_pattern, i + 1, fmt_begin - 1)
        /\ fmt = SubSeq(m_pattern, fmt_begin + 1, c - 1)
    BY <1>3, Zenon DEF ClosedRead, BraceRead
  <2>2. c + 1 = n
    BY <1>1
  <2> HIDE DEF c
  <2>3. Known(str) => Readings(m_pattern)[i]
                        = Prepend(Output(Item(str, fmt)), Readings(m_pattern)[c + 1])
    BY <1>1, <2>1, ReadBraced
  <2>4. fmt_begin \in i + 1..Len(m_pattern) + 1
    BY <1>1, <2>1
  <2>5. ~Known(str) => Readings(m_pattern)[i] = {}
    BY <1>1, <2>1, <2>4, Unreadable
  <2> QED
    BY <2>2, <2>3, <2>5, Zenon
<1> QED
  BY <1>1, <1>2, <1>3

\* PushItem: the entry prints the item, or it is wrong and the pattern means nothing.
LEMMA PushMeans ==
    ASSUME ReadInv, MeansInv, PushItem
    PROVE  MeansInv'
<1> DEFINE e == Entry(str, fmt, 1)
           v == vec \o Pending
<1>1. /\ FormatterTypeOK /\ m_pattern \in Seq(Letters) /\ m_items \in Seq(Items)
      /\ vec \in Seq(VecEntries) /\ str \in Seq(Letters) /\ fmt \in Text
  BY LettersText DEF ReadInv, FormatterTypeOK
<1>2. /\ pc = "push" /\ fmt_status = 0 /\ pc' = "scan" /\ nstr' = <<>> /\ i' = n
      /\ vec' = v \o <<e>> /\ UNCHANGED <<m_pattern, m_items, m_error>>
  BY DEF PushItem
<1>3. v \in Seq(VecEntries) /\ e \in VecEntries
  BY <1>1, PendingType, ConcatProperties
<1>4. /\ WillPrint(m_items, v) = Printed \o nstr /\ (AnyWrong(v) <=> AnyWrong(vec))
  BY <1>1, PendingPrints, Zenon DEF Printed
<1>5. e.s = str /\ e.fmt = fmt /\ e.type = 1
  BY DEF Entry
<1> HIDE DEF e, v
<1>6. vec' = Append(v, e)
  BY <1>2, <1>3, AppendIsConcat
<1>7. Printed' = (Printed \o nstr) \o Output(Made(e))
  <2>1. WillPrint(m_items, Append(v, e)) = WillPrint(m_items, v) \o Output(Made(e))
    BY <1>1, <1>3, PrintAppend
  <2>2. Printed' = WillPrint(m_items, Append(v, e))
    BY <1>2, <1>6, Zenon DEF Printed
  <2> QED
    BY <1>4, <2>1, <2>2, Zenon
<1>8. Failed' <=> Failed \/ ~Known(str)
  <2>1. Wrong(e) <=> ~Known(str)
    BY <1>5 DEF Wrong
  <2>2. AnyWrong(Append(v, e)) <=> AnyWrong(v) \/ Wrong(e)
    BY <1>3, WrongAppend
  <2>3. Failed' <=> m_error \/ AnyWrong(Append(v, e))
    BY <1>2, <1>6, Zenon DEF Failed
  <2> QED
    BY <1>4, <2>1, <2>2, <2>3, Zenon DEF Failed
<1>9. /\ Failed => Meaning(m_pattern) = {}
      /\ ~Failed => Meaning(m_pattern) = Prepend(Printed \o nstr, Readings(m_pattern)[i])
  BY <1>2 DEF MeansInv
<1>10. /\ Printed \o nstr \in Text /\ n \in 1..Len(m_pattern) + 1
  BY <1>1, <1>2, PrintedText, ReadNames
<1>11. CASE Known(str)
  <2>1. Made(e) = Item(str, fmt) /\ Output(Item(str, fmt)) \in Text
    BY <1>1, <1>5, <1>11, OutputItem DEF Made
  <2>2. Printed' \o nstr' = (Printed \o nstr) \o Output(Item(str, fmt))
    <3>1. Printed' \in Text
      BY <1>7, <1>10, <2>1 DEF Text
    <3>2. Printed' \o nstr' = Printed'
      BY <1>2, <3>1, ConcatEmptySeq DEF Text
    <3> QED
      BY <1>7, <2>1, <3>2
  <2>3. Prepend(Printed \o nstr, Readings(m_pattern)[i])
          = Prepend((Printed \o nstr) \o Output(Item(str, fmt)), Readings(m_pattern)[n])
    BY <1>1, <1>2, <1>10, <1>11, <2>1, ReadOn, ItemMeans
  <2>4. ~Failed => Meaning(m_pattern) = Prepend(Printed' \o nstr', Readings(m_pattern)[n])
    BY <1>9, <2>2, <2>3, Zenon
  <2>5. Meaning(m_pattern)' = Meaning(m_pattern)
        /\ Readings(m_pattern)[i]' = Readings(m_pattern)[n]
    BY <1>2, Zenon
  <2> QED
    BY <1>2, <1>8, <1>9, <1>11, <2>4, <2>5 DEF MeansInv
<1>12. CASE ~Known(str)
  <2>1. Readings(m_pattern)[i] = {}
    BY <1>2, <1>12, ItemMeans
  <2>2. Prepend(Printed \o nstr, {}) = {}
    BY <1>10, PrependSingle
  <2>3. Meaning(m_pattern) = {}
    BY <1>9, <2>1, <2>2, Zenon
  <2> QED
    BY <1>2, <1>8, <1>12, <2>3 DEF MeansInv
<1> QED
  BY <1>11, <1>12

\* PushError: a pattern with an open brace means nothing.
LEMMA ErrorMeans ==
    ASSUME ReadInv, MeansInv, PushError
    PROVE  MeansInv'
<1>1. /\ pc = "push" /\ fmt_status = 1 /\ pc' = "scan" /\ m_error' = TRUE
      /\ m_pattern' = m_pattern
  BY DEF PushError
<1>2. m_pattern \in Seq(Letters) /\ Printed \o nstr \in Text
  BY PrintedText DEF ReadInv, FormatterTypeOK
<1>3. Readings(m_pattern)[i] = {}
  <2>1. /\ i \in 1..Len(m_pattern) /\ fmt_begin \in i + 1..Len(m_pattern)
        /\ Named(m_pattern, i, fmt_begin) /\ m_pattern[fmt_begin] = LBrace
        /\ \A k \in fmt_begin + 1..Len(m_pattern) : m_pattern[k] # RBrace
    BY <1>1, ReadNames DEF BraceRead
  <2> QED
    BY <1>2, <2>1, Unclosed
<1>4. Prepend(Printed \o nstr, {}) = {}
  BY <1>2, PrependSingle
<1>5. Meaning(m_pattern) = {}
  BY <1>1, <1>3, <1>4 DEF MeansInv
<1>6. Failed'
  BY <1>1 DEF Failed
<1> QED
  BY <1>1, <1>5, <1>6 DEF MeansInv

\* Making items of the entries changes nothing.
LEMMA ItemsMean ==
    ASSUME ReadInv, MeansInv, MakeItem \/ InitReturn \/ UNCHANGED vars
    PROVE  MeansInv'
<1>1. m_items \in Seq(Items) /\ vec \in Seq(VecEntries) /\ m_error \in BOOLEAN
  BY DEF ReadInv, FormatterTypeOK
<1>2. CASE MakeItem
  <2>1. /\ pc = "items" /\ pc' = pc /\ vec # <<>> /\ vec' = Tail(vec)
        /\ m_pattern' = m_pattern
        /\ m_error' = (m_error \/ Wrong(Head(vec)))
        /\ m_items' = Append(m_items, Made(Head(vec)))
    BY <1>2, Zenon DEF MakeItem, Made, Wrong
  <2>2. Printed' = Printed
    BY <1>1, <2>1, PrintMoved, Zenon DEF Printed
  <2>3. AnyWrong(vec) <=> Wrong(Head(vec)) \/ AnyWrong(Tail(vec))
    BY <1>1, <2>1, WrongMoved
  <2>4. Failed' <=> Failed
    BY <2>1, <2>3, Zenon DEF Failed
  <2> QED
    BY <2>1, <2>2, <2>4 DEF MeansInv
<1>3. CASE InitReturn
  <2>1. pc = "items" /\ pc' = "done" /\ vec = <<>> /\ UNCHANGED <<m_pattern, m_items, m_error, vec>>
    BY <1>3 DEF InitReturn
  <2>2. Printed' = Printed /\ (Failed' <=> Failed)
    BY <2>1 DEF Printed, Failed
  <2> QED
    BY <2>1, <2>2 DEF MeansInv
<1>4. CASE UNCHANGED vars
  <2>1. UNCHANGED <<pc, i, nstr, m_pattern, m_items, m_error, vec>>
    BY <1>4 DEF vars
  <2>2. Printed' = Printed /\ (Failed' <=> Failed)
    BY <2>1 DEF Printed, Failed
  <2> QED
    BY <2>1, <2>2 DEF MeansInv
<1> QED
  BY <1>2, <1>3, <1>4

\* Every step keeps the invariant.
LEMMA FormatterNext == FormatterInv /\ [Next]_vars => FormatterInv'
<1> SUFFICES ASSUME FormatterInv, [Next]_vars PROVE FormatterInv'
  OBVIOUS
<1>1. ReadInv'
  BY ReadNext DEF FormatterInv
<1>2. MeansInv'
  BY ScanMeans, NameMeans, PushMeans, ErrorMeans, ItemsMean DEF FormatterInv, Next, Initialised
<1> QED
  BY <1>1, <1>2 DEF FormatterInv

\* What the invariant says of a formatter that init() has returned.
LEMMA FormatterDone ==
    ASSUME FormatterInv, pc = "done"
    PROVE  /\ m_error => Meaning(m_pattern) = {}
           /\ ~m_error => Meaning(m_pattern) = {Format}
<1>1. vec = <<>> /\ m_items \in Seq(Items)
  BY DEF FormatterInv, MeansInv, ReadInv, FormatterTypeOK
<1>2. Failed <=> m_error
  BY <1>1 DEF Failed, AnyWrong
<1>3. Printed = Format
  <2> DEFINE none == [k \in 1..Len(vec) |-> Made(vec[k])]
  <2>1. none \in Seq(Items) /\ Len(none) = 0
    BY <1>1
  <2> HIDE DEF none
  <2>2. none = <<>>
    BY <2>1
  <2>3. m_items \o none = m_items
    BY <1>1, <2>2, ConcatEmptySeq
  <2> QED
    BY <2>3, Zenon DEF Printed, WillPrint, Format, none
<1> QED
  BY <1>2, <1>3 DEF FormatterInv, MeansInv

\* isError() is true of exactly the patterns that mean nothing, whatever the
\* letters are and however long the pattern is.
THEOREM ErrorExactHolds == Spec => []ErrorExact
<1>1. Init => FormatterInv
  BY ReadInitial, MeansInitial DEF FormatterInv
<1>2. FormatterInv => ErrorExact
  BY FormatterDone DEF ErrorExact
<1> QED
  BY <1>1, <1>2, FormatterNext, PTL DEF Spec

\* A formatter without error prints what its pattern means.
THEOREM FormatMeansHolds == Spec => []FormatMeans
<1>1. Init => FormatterInv
  BY ReadInitial, MeansInitial DEF FormatterInv
<1>2. FormatterInv => FormatMeans
  BY FormatterDone DEF FormatMeans
<1> QED
  BY <1>1, <1>2, FormatterNext, PTL DEF Spec

=============================================================================
