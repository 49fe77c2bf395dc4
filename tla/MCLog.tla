-------------------------------- MODULE MCLog --------------------------------
(***************************************************************************)
(* Two loggers, root and system, and configurations that add, change, drop *)
(* and repeat them, with nodes that are skipped and patterns that are bad. *)
(***************************************************************************)
EXTENDS Log, TLC

Ap(type, file, level, fmt) ==
    [type |-> type, fileName |-> file, level |-> level, formatter |-> fmt]
Stdout(level, fmt) == Ap("StdoutLogAppender", Absent, level, fmt)
File(name, level) == Ap("FileLogAppender", name, level, Absent)
Lg(n, level, appenders) == [name |-> n, level |-> level, appenders |-> appenders]

\* "err" and "word" are no levels, but begin like ERROR and WARN.
MCInitial == <<{"DEBUG", "debug"}, {"INFO", "info"}, {"WARN", "warn", "word"},
               {"ERROR", "error", "err"}, {"FATAL", "fatal"}>>

MCDocuments == {
    <<>>,
    <<Lg(0, "debug", <<>>)>>,
    <<Lg(1, "debug", <<Stdout("debug", Absent)>>)>>,
    <<Lg(2, "error", <<Stdout("ERROR", "good"), File("", Absent)>>)>>,
    <<Lg(1, "debug", <<Stdout("err", "bad")>>),
      Lg(2, Absent, <<File(Absent, "debug"), Stdout("word", "bad"), Stdout("error", Absent)>>),
      Lg(2, "error", <<>>)>>}

OneLogger == {<<Lg(2, "debug", <<Stdout("debug", Absent)>>)>>,
              <<Lg(2, "debug", <<File("log.txt", "debug")>>)>>}

Symmetry == Permutations(Loaders)
=============================================================================
