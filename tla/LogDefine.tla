------------------------------ MODULE LogDefine ------------------------------
(***************************************************************************)
(* LogLevel, LogDefine and LogAppenderDefine with their conversions from   *)
(* and to YAML (sylar/log.cpp), and the appender a definition makes.       *)
(*                                                                         *)
(* A YAML node is a record with the keys the code looks for, Absent where  *)
(* a key is missing; a logger without a name has the name 0.  Names are    *)
(* numbers, in the order of the strings.  Texts stand for themselves.      *)
(***************************************************************************)
EXTENDS Naturals, SequencesExt

CONSTANTS
    BadPatterns,  \* formatter patterns that LogFormatter::init refuses
    Initial       \* Initial[l]: the texts that begin with the letter of level l

Absent == "absent"

\* The entries of s that are in S, in their order: what a loop over s with a
\* test keeps.  SelectSeq, but for a set and with a recursion of its own.
Selected(s, S) ==
    LET F[k \in 0..Len(s)] ==
            IF k = 0 THEN <<>>
            ELSE IF s[k] \in S THEN Append(F[k - 1], s[k]) ELSE F[k - 1]
    IN F[Len(s)]

-----------------------------------------------------------------------------
UNKNOW == 0
DEBUG == 1
FATAL == 5
Levels == UNKNOW..FATAL

LevelName == <<"DEBUG", "INFO", "WARN", "ERROR", "FATAL">>

LevelToString(level) == IF level \in DEBUG..FATAL THEN LevelName[level] ELSE "UNKNON"

\* The letters differ, a level's name begins with its letter, and the empty
\* text (whose str[0] is the terminating zero) with none.
ASSUME LogDefineAssumption ==
    /\ "" \notin BadPatterns
    /\ \A l \in DEBUG..FATAL :
        /\ LevelName[l] \in Initial[l] /\ "" \notin Initial[l]
        /\ \A m \in DEBUG..FATAL : m # l => Initial[l] \cap Initial[m] = {}

\* The first letter alone decides, upper or lower case.
LevelFromString(str) ==
    IF \E l \in DEBUG..FATAL : str \in Initial[l]
    THEN CHOOSE l \in DEBUG..FATAL : str \in Initial[l]
    ELSE UNKNOW

-----------------------------------------------------------------------------
\* An appender node that is not skipped: it has a known type and, if it is a
\* file, the key fileName.
Accepted(node) ==
    \/ node.type = "FileLogAppender" /\ node.fileName # Absent
    \/ node.type = "StdoutLogAppender"

Present(text) == IF text = Absent THEN "" ELSE text

LogAppenderDefine(node) ==
    [type |-> IF node.type = "FileLogAppender" THEN 1 ELSE 2,
     level |-> LevelFromString(Present(node.level)),
     formatter |-> Present(node.formatter),
     fileName |-> IF node.type = "FileLogAppender" THEN node.fileName ELSE ""]

\* Lexical_cast<std::string, LogDefine>.
LogDefineOf(node) ==
    LET kept == Selected(node.appenders, {a \in Range(node.appenders) : Accepted(a)}) IN
    [name |-> node.name,
     level |-> LevelFromString(Present(node.level)),
     appenders |-> [k \in DOMAIN kept |-> LogAppenderDefine(kept[k])]]

\* Lexical_cast<std::string, std::set<LogDefine>>: a logger without a name
\* throws, and of two with the same name (operator<) the first is inserted.
Parses(doc) == \A i \in DOMAIN doc : doc[i].name # 0

Defines(doc) ==
    {LogDefineOf(doc[i]) :
        i \in {j \in DOMAIN doc : \A h \in 1..(j - 1) : doc[h].name # doc[j].name}}

\* Mutant: an appender's formatter is not written.
DumpPlain(a) ==
    [type |-> IF a.type = 1 THEN "FileLogAppender" ELSE "StdoutLogAppender",
     fileName |-> Absent,
     level |-> IF a.level = UNKNOW THEN Absent ELSE LevelToString(a.level),
     formatter |-> Absent]

\* Lexical_cast<LogDefine, std::string>.  The name of a file is written under
\* the key "file", which is not among those that are read.
DumpAppender(a) ==
    [type |-> IF a.type = 1 THEN "FileLogAppender" ELSE "StdoutLogAppender",
     fileName |-> Absent,
     level |-> IF a.level = UNKNOW THEN Absent ELSE LevelToString(a.level),
     formatter |-> IF a.formatter = "" THEN Absent ELSE a.formatter]

Dump(d) ==
    [name |-> d.name,
     level |-> IF d.level = UNKNOW THEN Absent ELSE LevelToString(d.level),
     appenders |-> [k \in DOMAIN d.appenders |-> DumpAppender(d.appenders[k])]]

-----------------------------------------------------------------------------
\* Mutant: all definitions of one logger count as equal.
SameName(d, e) == d.name = e.name

\* LogDefine::operator==, in which appenders is compared with itself.
Same(d, e) == d.name = e.name /\ d.level = e.level

\* == of two sets of definitions, which are ordered by name.
SameSet(D, E) ==
    /\ \A d \in D : \E e \in E : Same(d, e)
    /\ \A e \in E : \E d \in D : Same(d, e)

-----------------------------------------------------------------------------
\* Appenders.  LogAppender's constructor gives the default formatter and DEBUG.
DefaultPattern == "default"

\* FileLogAppender's constructor replaces an empty name.
FileLogAppender(fileName) == IF fileName = "" THEN "default.txt" ELSE fileName

\* What the listener makes of a definition; a bad pattern leaves the default
\* formatter.
Appender(a) ==
    [type |-> a.type, level |-> a.level,
     fileName |-> IF a.type = 1 THEN FileLogAppender(a.fileName) ELSE a.fileName,
     formatter |-> IF a.formatter \in BadPatterns \cup {""} THEN DefaultPattern
                                                            ELSE a.formatter]

\* The loop over the appenders of a definition.
AppendersOf(d) == [k \in DOMAIN d.appenders |-> Appender(d.appenders[k])]

StdoutLogAppender ==
    [type |-> 2, level |-> DEBUG, fileName |-> "", formatter |-> DefaultPattern]
=============================================================================
