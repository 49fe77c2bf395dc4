---------------------------- MODULE LogFormatter ----------------------------
(***************************************************************************)
(* sylar::LogFormatter (sylar/log.cpp): init() reads a pattern into a list *)
(* of items, format() lets every item print its part of an event.          *)
(*                                                                         *)
(* A pattern is a sequence of letters; Init chooses it.  Positions count   *)
(* from 1, so that substr(i + 1, n - i - 1) in the code is the sequence    *)
(* from i + 1 to n - 1 here.  A text is a sequence of symbols: letters,    *)
(* the pieces of an error message, and the fields of the event.            *)
(***************************************************************************)
EXTENDS Naturals, Sequences

CONSTANTS
    Other,   \* characters of patterns that are not letters, not % { }
    Alpha,   \* letters of patterns (isalpha)
    MaxLen   \* bound: length of a pattern

\* The two letters around a format.
LBrace == "{"
RBrace == "}"

ASSUME FormatterAssumption ==
    /\ MaxLen \in Nat
    /\ Alpha \cap Other = {}
    /\ {"%", LBrace, RBrace, "end"} \cap (Alpha \cup Other) = {}

Letters == Alpha \cup Other \cup {"%", LBrace, RBrace}
Patterns == UNION {[1..k -> Letters] : k \in 0..MaxLen}

VARIABLES
    m_pattern, m_items, m_error,
    pc,                                \* the loop init() is in
    i, n, fmt_status, fmt_begin, str, fmt, nstr, vec   \* its locals

vars == <<m_pattern, m_items, m_error, pc, i, n, fmt_status, fmt_begin, str, fmt, nstr, vec>>

Init ==
    /\ m_pattern \in Patterns
    /\ m_items = <<>> /\ m_error = FALSE
    /\ pc = "scan"
    /\ i = 1 /\ n = 0 /\ fmt_status = 0 /\ fmt_begin = 0
    /\ str = <<>> /\ fmt = <<>> /\ nstr = <<>> /\ vec = <<>>

Size == Len(m_pattern)

-----------------------------------------------------------------------------
(* The items.                                                              *)

\* s_format_items: what the item of a letter prints.
s_format_items ==
    [m |-> "content", p |-> "level", r |-> "elapse", c |-> "logger", t |-> "threadId",
     n |-> "newline", d |-> "time", f |-> "file", l |-> "line", T |-> "tab",
     F |-> "fiberId", N |-> "threadName"]

ASSUME NamesAreLetters == DOMAIN s_format_items \cap Other = {}

Known(name) == Len(name) = 1 /\ name[1] \in DOMAIN s_format_items

\* The constructors: the format counts for the time only, which has a default.
Item(name, format) ==
    LET kind == s_format_items[name[1]]
    IN  [kind |-> kind,
         arg  |-> IF kind # "time" THEN <<>>
                  ELSE IF format = <<>> THEN <<"default">> ELSE format]
TextItem(s) == [kind |-> "string", arg |-> s]

\* FormatItem::format.
Output(item) ==
    IF item.kind = "string" THEN item.arg ELSE <<item.kind>> \o item.arg

\* LogFormatter::format: all items one after the other.
Outputs(items) ==
    LET Upto[k \in 0..Len(items)] ==
          IF k = 0 THEN <<>> ELSE Upto[k - 1] \o Output(items[k])
    IN  Upto[Len(items)]
Format == Outputs(m_items)

-----------------------------------------------------------------------------
(* init(), the outer loop.                                                 *)

\* A letter of the text.
ScanText ==
    /\ pc = "scan"
    /\ i <= Size
    /\ m_pattern[i] # "%"
    /\ nstr' = Append(nstr, m_pattern[i])
    /\ i' = i + 1
    /\ UNCHANGED <<m_pattern, m_items, m_error, pc, n, fmt_status, fmt_begin, str, fmt, vec>>

\* %% is a percent sign.
Escaped == i < Size /\ m_pattern[i + 1] = "%"

ScanEscape ==
    /\ pc = "scan"
    /\ i <= Size
    /\ m_pattern[i] = "%" /\ Escaped
    /\ nstr' = Append(nstr, "%")
    /\ i' = i + 2
    /\ UNCHANGED <<m_pattern, m_items, m_error, pc, n, fmt_status, fmt_begin, str, fmt, vec>>

\* Any other % begins an item.
ScanItem ==
    /\ pc = "scan"
    /\ i <= Size
    /\ m_pattern[i] = "%" /\ ~Escaped
    /\ n' = i + 1
    /\ fmt_status' = 0 /\ fmt_begin' = 0
    /\ str' = <<>> /\ fmt' = <<>>
    /\ pc' = "name"
    /\ UNCHANGED <<m_pattern, m_items, m_error, i, nstr, vec>>

-----------------------------------------------------------------------------
(* init(), the inner loop: %name or %name{fmt}.                            *)

EndsName(ch) == ch \notin Alpha \cup {LBrace, RBrace}

\* The name ends before a letter that is none.
NameEnd ==
    /\ pc = "name" /\ n <= Size
    /\ fmt_status = 0 /\ EndsName(m_pattern[n])
    /\ str' = SubSeq(m_pattern, i + 1, n - 1)
    /\ pc' = "push"
    /\ UNCHANGED <<m_pattern, m_items, m_error, i, n, fmt_status, fmt_begin, fmt, nstr, vec>>

BraceOpen ==
    /\ pc = "name" /\ n <= Size
    /\ fmt_status = 0 /\ m_pattern[n] = LBrace
    /\ str' = SubSeq(m_pattern, i + 1, n - 1)
    /\ fmt_status' = 1
    /\ fmt_begin' = n
    /\ n' = n + 1
    /\ UNCHANGED <<m_pattern, m_items, m_error, pc, i, fmt, nstr, vec>>

\* Mutant of BraceClose: n moves on twice.
BraceSkip ==
    /\ pc = "name" /\ n <= Size
    /\ fmt_status = 1 /\ m_pattern[n] = RBrace
    /\ fmt' = SubSeq(m_pattern, fmt_begin + 1, n - 1)
    /\ fmt_status' = 0
    /\ n' = n + 2
    /\ pc' = "push"
    /\ UNCHANGED <<m_pattern, m_items, m_error, i, fmt_begin, str, nstr, vec>>

BraceClose ==
    /\ pc = "name" /\ n <= Size
    /\ fmt_status = 1 /\ m_pattern[n] = RBrace
    /\ fmt' = SubSeq(m_pattern, fmt_begin + 1, n - 1)
    /\ fmt_status' = 0
    /\ n' = n + 1
    /\ pc' = "push"
    /\ UNCHANGED <<m_pattern, m_items, m_error, i, fmt_begin, str, nstr, vec>>

\* Any other letter belongs to the name, or to the format; at the end of the
\* pattern the name is what has been read.
NameNext ==
    /\ pc = "name" /\ n <= Size
    /\ IF fmt_status = 0 THEN ~EndsName(m_pattern[n]) /\ m_pattern[n] # LBrace
       ELSE m_pattern[n] # RBrace
    /\ n' = n + 1
    /\ str' = IF n' > Size /\ str = <<>> THEN SubSeq(m_pattern, i + 1, Size) ELSE str
    /\ UNCHANGED <<m_pattern, m_items, m_error, pc, i, fmt_status, fmt_begin, fmt, nstr, vec>>

NameExhausted ==
    /\ pc = "name" /\ n > Size
    /\ pc' = "push"
    /\ UNCHANGED <<m_pattern, m_items, m_error, i, n, fmt_status, fmt_begin, str, fmt, nstr, vec>>

-----------------------------------------------------------------------------
(* init(), what has been read goes to vec: [s, fmt, type].                 *)
Entry(s, f, type) == [s |-> s, fmt |-> f, type |-> type]
Pending == IF nstr = <<>> THEN <<>> ELSE <<Entry(nstr, <<>>, 0)>>

\* Mutant of PushItem: the text before it is pushed but not cleared.
PushTwice ==
    /\ pc = "push" /\ fmt_status = 0
    /\ vec' = vec \o Pending \o <<Entry(str, fmt, 1)>>
    /\ nstr' = nstr
    /\ i' = n
    /\ pc' = "scan"
    /\ UNCHANGED <<m_pattern, m_items, m_error, n, fmt_status, fmt_begin, str, fmt>>

PushItem ==
    /\ pc = "push" /\ fmt_status = 0
    /\ vec' = vec \o Pending \o <<Entry(str, fmt, 1)>>
    /\ nstr' = <<>>
    /\ i' = n
    /\ pc' = "scan"
    /\ UNCHANGED <<m_pattern, m_items, m_error, n, fmt_status, fmt_begin, str, fmt>>

\* Mutant of PushError: the error is not recorded.
PushSilent ==
    /\ pc = "push" /\ fmt_status = 1
    /\ m_error' = m_error
    /\ vec' = Append(vec, Entry(<<"<<pattern_error>>">>, fmt, 0))
    /\ i' = i + 1
    /\ pc' = "scan"
    /\ UNCHANGED <<m_pattern, m_items, n, fmt_status, fmt_begin, str, fmt, nstr>>

\* Braces that are not closed: the error is noted, and reading goes on behind
\* the percent sign, the rest of the item being text.
PushError ==
    /\ pc = "push" /\ fmt_status = 1
    /\ m_error' = TRUE
    /\ vec' = Append(vec, Entry(<<"<<pattern_error>>">>, fmt, 0))
    /\ i' = i + 1
    /\ pc' = "scan"
    /\ UNCHANGED <<m_pattern, m_items, n, fmt_status, fmt_begin, str, fmt, nstr>>

ScanEnd ==
    /\ pc = "scan" /\ i > Size
    /\ vec' = vec \o Pending
    /\ pc' = "items"
    /\ UNCHANGED <<m_pattern, m_items, m_error, i, n, fmt_status, fmt_begin, str, fmt, nstr>>

\* The loop over vec: an entry becomes an item, or an error if there is none
\* of that name.
MakeItem ==
    LET e == Head(vec)
    IN  /\ pc = "items" /\ vec # <<>>
        /\ m_items' = Append(m_items,
             IF e.type = 0 THEN TextItem(e.s)
             ELSE IF Known(e.s) THEN Item(e.s, e.fmt)
             ELSE TextItem(<<"<<error_format_%">> \o e.s \o <<">>">>))
        /\ m_error' = (m_error \/ (e.type = 1 /\ ~Known(e.s)))
        /\ vec' = Tail(vec)
        /\ UNCHANGED <<m_pattern, pc, i, n, fmt_status, fmt_begin, str, fmt, nstr>>

InitReturn ==
    /\ pc = "items" /\ vec = <<>>
    /\ pc' = "done"
    /\ UNCHANGED <<m_pattern, m_items, m_error, i, n, fmt_status, fmt_begin, str, fmt, nstr, vec>>

\* The formatter is there to be used.
Initialised == pc = "done" /\ UNCHANGED vars

-----------------------------------------------------------------------------
Next ==
    \/ ScanText \/ ScanEscape \/ ScanItem \/ ScanEnd
    \/ NameEnd \/ BraceOpen \/ BraceClose \/ NameNext \/ NameExhausted
    \/ PushItem \/ PushError
    \/ MakeItem \/ InitReturn
    \/ Initialised

Spec == Init /\ [][Next]_vars

-----------------------------------------------------------------------------
(* What a pattern means, read from the left in one go: the output, as a    *)
(* set that is empty if the pattern is ill-formed.  "%xxx %xxx{fmt} %%" are *)
(* the only forms (log.cpp:272).                                           *)
At(p, k) == IF k \in 1..Len(p) THEN p[k] ELSE "end"
Closing(p, k) == {j \in k + 1..Len(p) : p[j] = RBrace /\ \A l \in k + 1..j - 1 : p[l] # RBrace}
Prepend(s, set) == {s \o t : t \in set}

\* From position k on, given what the positions behind it mean.
Reading(p, k, read) ==
    CASE At(p, k) = "end"  -> {<<>>}
      [] At(p, k) \notin {"end", "%"} -> Prepend(<<p[k]>>, read[k + 1])
      [] At(p, k) = "%" /\ At(p, k + 1) = "%" -> Prepend(<<"%">>, read[k + 2])
      [] At(p, k) = "%" /\ At(p, k + 1) # "%" ->
           IF At(p, k + 1) \notin DOMAIN s_format_items THEN {}
           ELSE IF At(p, k + 2) = LBrace
           THEN UNION {Prepend(Output(Item(<<p[k + 1]>>, SubSeq(p, k + 3, j - 1))), read[j + 1])
                         : j \in Closing(p, k + 2)}
           ELSE IF At(p, k + 2) \in Alpha \cup {RBrace} THEN {}
           ELSE Prepend(Output(Item(<<p[k + 1]>>, <<>>)), read[k + 2])

Readings(p) ==
    LET Read[k \in 1..Len(p) + 1] == Reading(p, k, Read) IN Read
Meaning(p) == Readings(p)[1]

\* isError() is true of exactly the ill-formed patterns: a brace
\* left open, a name that is not one of the known letters, a % with nothing
\* behind it, wherever in the pattern it stands (log.cpp:273-415).
ErrorExact == pc = "done" => (m_error <=> Meaning(m_pattern) = {})

\* A formatter without error prints what its pattern means: text
\* and items in their order, none twice and none missing, %% as %, a format for
\* the time and the default where there is none.
FormatMeans == pc = "done" /\ ~m_error => Format \in Meaning(m_pattern)

\* The positions of init() never leave the pattern and never cross,
\* so that no substr throws and no difference of two size_t wraps.
InRange ==
    /\ i \in 1..Size + 1
    /\ pc \in {"name", "push"} => i < n /\ n <= Size + 1
    /\ pc \in {"name", "push"} /\ fmt_status = 1 => i < fmt_begin /\ fmt_begin < n
=============================================================================
