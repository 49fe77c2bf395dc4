--------------------------------- MODULE Log ---------------------------------
(***************************************************************************)
(* Loggers, LoggerManager and the listener by which LogIniter applies the  *)
(* configuration variable "logs" to them (sylar/log.cpp).                  *)
(*                                                                         *)
(* Loaders set the variable, as ConfigVar does it: they compare, call the  *)
(* listener with the variable's lock held for reading, and write.  Clients *)
(* get loggers, keep the pointers, add appenders of their own and log.  A  *)
(* step is one access to a level or one critical section of a spinlock;    *)
(* eraseLogger holds the manager's over two of them.                       *)
(***************************************************************************)
EXTENDS LogDefine

CONSTANTS
    Loaders,    \* threads that load configurations
    Clients,    \* threads that log
    Names,      \* logger names
    Root,       \* "root"
    Documents,  \* the configurations, sequences of logger nodes
    Events,     \* levels of the events that are logged, and to log with
    MaxOwn,     \* bound: appenders of a client in one logger
    MaxLoads    \* bound: configurations loaded

ASSUME LogAssumption ==
    /\ "config" \notin Clients
    /\ Names \subseteq Nat \ {0}
    /\ Root \in Names
    /\ \A doc \in Documents :
        /\ doc \in Seq(Range(doc))
        /\ \A node \in Range(doc) :
            /\ node.name \in Names \cup {0}
            /\ node.appenders \in Seq(Range(node.appenders))
    /\ Events \subseteq DEBUG..FATAL
    /\ MaxOwn \in Nat /\ MaxLoads \in Nat

VARIABLES
    m_val,      \* the value of the variable "logs"
    objects,    \* all Logger objects, in the order of their creation
    m_loggers,  \* LoggerManager: name -> place in objects, 0 if not registered
    ld,         \* the place of each loader in setValue and in the listener
    held,       \* the logger a client has a pointer to, 0 if none
    cpc,        \* the place of a client in a log statement
    lev, ev,    \* the level it logs with, the level of its event
    wanted,     \* the definitions of the last configuration loaded
    known,      \* names that have been in a configuration
    missed,     \* names with a change that Same or the erasing loop overlooked
    fresh,      \* no load overlaps with a client's log statement
    loads,      \* how many configurations have been loaded
    disturbed   \* two loads have overlapped

config == <<m_val, ld, wanted, known, missed, loads, disturbed>>
manager == <<objects, m_loggers>>
client == <<held, cpc, lev, ev, fresh>>
vars == <<config, manager, client>>

\* A loader outside of setValue; the locals of setValue and the listener.
Idle == [pc |-> "idle", new |-> {}, todo |-> {}, d |-> <<>>, id |-> 0, added |-> 0,
         gone |-> {}]

Logger(n, level, appenders) == [name |-> n, level |-> level, appenders |-> appenders]

\* An appender in a logger's list, with its origin: a client, or "config".
Entry(origin, a) == [by |-> origin, a |-> a]

\* The constructor of LoggerManager; the variable "logs" is empty.
Init ==
    /\ m_val = {}
    /\ objects = <<Logger(Root, DEBUG, <<Entry("config", StdoutLogAppender)>>)>>
    /\ m_loggers = [n \in Names |-> IF n = Root THEN 1 ELSE 0]
    /\ ld = [c \in Loaders |-> Idle]
    /\ held = [t \in Clients |-> 0]
    /\ cpc = [t \in Clients |-> "idle"]
    /\ lev = [t \in Clients |-> DEBUG]
    /\ ev = [t \in Clients |-> DEBUG]
    /\ wanted = {} /\ known = {} /\ missed = {}
    /\ fresh = [t \in Clients |-> TRUE]
    /\ loads = 0
    /\ disturbed = FALSE

-----------------------------------------------------------------------------
\* Logger.  setLevel takes no lock, the others are critical sections of its own.
SetLevel(id, level) == objects' = [objects EXCEPT ![id].level = level]
AddAppender(id, e) == objects' = [objects EXCEPT ![id].appenders = Append(@, e)]
DelAppender(id, e) == objects' = [objects EXCEPT ![id].appenders = RemoveFirst(@, e)]

\* Mutant: clearAppenders keeps what was there first.
ClearAppendersLate(id) ==
    objects' = [objects EXCEPT ![id].appenders = IF @ = <<>> THEN @ ELSE <<Head(@)>>]

ClearAppenders(id) == objects' = [objects EXCEPT ![id].appenders = <<>>]

\* LoggerManager's spinlock is held between the two halves of eraseLogger.
ManagerFree == \A c \in Loaders : ld[c].pc # "eraseClear"

\* getLogger: the registered logger, or a new one without appenders.
GetLogger(n) ==
    /\ ManagerFree
    /\ IF m_loggers[n] # 0
       THEN UNCHANGED manager
       ELSE /\ objects' = Append(objects, Logger(n, DEBUG, <<>>))
            /\ m_loggers' = [m_loggers EXCEPT ![n] = Len(objects) + 1]

-----------------------------------------------------------------------------
\* setValue and the listener.
Reading(c) == ld[c].pc \notin {"idle", "write"}
Setting == {c \in Loaders : ld[c].pc # "idle"}

Find(D, n) == CHOOSE d \in D : d.name = n
NamesOf(D) == {d.name : d \in D}

\* The definitions the listener applies: the new ones and those that differ.
Changed(old, new) ==
    {d.name : d \in {e \in new : e.name \notin NamesOf(old)
                                 \/ ~Same(e, Find(old, e.name))}}
Gone(old, new) == NamesOf(old) \ NamesOf(new)

\* Names whose appenders differ while Same does not see it, and names that
\* nothing erases since no definition is applied.
Overlooked(old, new) ==
    {n \in NamesOf(new) \cap NamesOf(old) :
        /\ Find(new, n).level = Find(old, n).level
        /\ Find(new, n).appenders # Find(old, n).appenders}
    \cup (IF Changed(old, new) = {} THEN Gone(old, new) ELSE {})

\* fromString (a document that does not parse changes nothing) and the first
\* comparison in setValue: a value that is == to the old one changes nothing.
Load(c, doc) ==
    /\ ld[c].pc = "idle"
    /\ loads < MaxLoads /\ loads' = loads + 1
    /\ Parses(doc)
    /\ LET new == Defines(doc) IN
        /\ ld' = IF SameSet(new, m_val) THEN ld
                 ELSE [ld EXCEPT ![c] = [Idle EXCEPT !.pc = "define", !.new = new,
                                                     !.todo = NamesOf(new)]]
        /\ wanted' = new
        /\ known' = known \cup NamesOf(new)
        /\ missed' = (missed \cup Overlooked(m_val, new))
                     \ (Changed(m_val, new)
                        \cup IF Changed(m_val, new) = {} THEN {} ELSE Gone(m_val, new))
    /\ disturbed' = (disturbed \/ Setting # {})
    /\ fresh' = [t \in Clients |-> cpc[t] = "idle"]
    /\ UNCHANGED <<m_val, manager, held, cpc, lev, ev>>

LoaderOnly == <<m_val, wanted, known, missed, loads, disturbed>>

\* The loop over new_value, in the order of names; `continue` for a definition
\* that has not changed ...
SkipDefine(c) ==
    /\ ld[c].pc = "define"
    /\ \E n \in ld[c].todo :
        /\ \A m \in ld[c].todo : n <= m
        /\ n \notin Changed(m_val, ld[c].new)
        /\ ld' = [ld EXCEPT ![c].todo = @ \ {n}]
    /\ UNCHANGED <<LoaderOnly, manager, client>>

\* ... and getLogger for one that has ...
GetDefine(c) ==
    /\ ld[c].pc = "define"
    /\ \E n \in ld[c].todo :
        /\ \A m \in ld[c].todo : n <= m
        /\ n \in Changed(m_val, ld[c].new)
        /\ GetLogger(n)
        /\ ld' = [ld EXCEPT ![c] = [ld[c] EXCEPT !.pc = "level", !.todo = @ \ {n},
                                                 !.d = Find(ld[c].new, n),
                                                 !.id = m_loggers'[n], !.added = 0]]
    /\ UNCHANGED <<LoaderOnly, client>>

\* ... whose level is set ...
ApplyLevel(c) ==
    /\ ld[c].pc = "level"
    /\ SetLevel(ld[c].id, ld[c].d.level)
    /\ ld' = [ld EXCEPT ![c].pc = "clear"]
    /\ UNCHANGED <<LoaderOnly, m_loggers, client>>

\* ... whose appenders are cleared ...
ApplyClear(c) ==
    /\ ld[c].pc = "clear"
    /\ ClearAppenders(ld[c].id)
    /\ ld' = [ld EXCEPT ![c].pc = "add"]
    /\ UNCHANGED <<LoaderOnly, m_loggers, client>>

\* ... and added one by one.
ApplyAppender(c) ==
    /\ ld[c].pc = "add"
    /\ ld[c].added < Len(ld[c].d.appenders)
    /\ AddAppender(ld[c].id, Entry("config", AppendersOf(ld[c].d)[ld[c].added + 1]))
    /\ ld' = [ld EXCEPT ![c].added = @ + 1]
    /\ UNCHANGED <<LoaderOnly, m_loggers, client>>

\* The loop over old_value stands at the end of the body of the first loop.
ApplyDone(c) ==
    /\ ld[c].pc = "add"
    /\ ld[c].added = Len(ld[c].d.appenders)
    /\ LET gone == Gone(m_val, ld[c].new) IN
       ld' = [ld EXCEPT ![c] =
                [Idle EXCEPT !.pc = IF gone = {} THEN "define" ELSE "erase",
                             !.new = ld[c].new, !.todo = ld[c].todo, !.gone = gone]]
    /\ UNCHANGED <<LoaderOnly, manager, client>>

\* Mutant: the logger is taken out of the map.
EraseHard(c) ==
    /\ ld[c].pc = "erase"
    /\ ManagerFree
    /\ \E n \in ld[c].gone :
        /\ \A m \in ld[c].gone : n <= m
        /\ m_loggers' = [m_loggers EXCEPT ![n] = 0]
        /\ ld' = [ld EXCEPT ![c].gone = @ \ {n},
                            ![c].pc = IF ld[c].gone = {n} THEN "define" ELSE "erase"]
    /\ UNCHANGED <<LoaderOnly, objects, client>>

\* eraseLogger: find, setLevel(UNKNOW) ...
EraseLevel(c) ==
    /\ ld[c].pc = "erase"
    /\ ManagerFree
    /\ \E n \in ld[c].gone :
        /\ \A m \in ld[c].gone : n <= m
        /\ IF m_loggers[n] = 0
           THEN /\ ld' = [ld EXCEPT ![c].gone = @ \ {n},
                                    ![c].pc = IF ld[c].gone = {n} THEN "define" ELSE "erase"]
                /\ UNCHANGED objects
           ELSE /\ SetLevel(m_loggers[n], UNKNOW)
                /\ ld' = [ld EXCEPT ![c].gone = @ \ {n}, ![c].id = m_loggers[n],
                                    ![c].pc = "eraseClear"]
    /\ UNCHANGED <<LoaderOnly, m_loggers, client>>

\* ... and clearAppenders.
EraseClear(c) ==
    /\ ld[c].pc = "eraseClear"
    /\ ClearAppenders(ld[c].id)
    /\ ld' = [ld EXCEPT ![c].pc = IF ld[c].gone = {} THEN "define" ELSE "erase",
                        ![c].id = 0]
    /\ UNCHANGED <<LoaderOnly, m_loggers, client>>

\* The listener returns and setValue gives up the lock for reading.
ListenerDone(c) ==
    /\ ld[c].pc = "define" /\ ld[c].todo = {}
    /\ ld' = [ld EXCEPT ![c].pc = "write"]
    /\ UNCHANGED <<LoaderOnly, manager, client>>

\* setValue writes under the lock for writing.
Write(c) ==
    /\ ld[c].pc = "write"
    /\ \A d \in Loaders : ~Reading(d)
    /\ m_val' = ld[c].new
    /\ ld' = [ld EXCEPT ![c] = Idle]
    /\ UNCHANGED <<wanted, known, missed, loads, disturbed, manager, client>>

-----------------------------------------------------------------------------
\* A client gets a logger and keeps the pointer.
Hold(t, n) ==
    /\ cpc[t] = "idle"
    /\ GetLogger(n)
    /\ held' = [held EXCEPT ![t] = m_loggers'[n]]
    /\ UNCHANGED <<config, cpc, lev, ev, fresh>>

\* A client adds and removes an appender of its own.
Own(t) == Entry(t, StdoutLogAppender)
From(origin, entries) == Selected(entries, {e \in Range(entries) : e.by = origin})

ClientAppender(t) ==
    /\ cpc[t] = "idle" /\ held[t] # 0
    /\ \/ /\ Len(From(t, objects[held[t]].appenders)) < MaxOwn
          /\ AddAppender(held[t], Own(t))
       \/ DelAppender(held[t], Own(t))
    /\ UNCHANGED <<config, m_loggers, client>>

\* SYLAR_LOG_LEVEL with the pointer the client has: the macro's test of the
\* level, behind which the event is made.
LogMacro(t, e) ==
    /\ cpc[t] = "idle" /\ held[t] # 0
    /\ lev' = [lev EXCEPT ![t] = e]
    /\ ev' = [ev EXCEPT ![t] = e]
    /\ fresh' = [fresh EXCEPT ![t] = (Setting = {})]
    /\ cpc' = [cpc EXCEPT ![t] = IF objects[held[t]].level <= e THEN "log" ELSE "skip"]
    /\ UNCHANGED <<config, manager, held>>

\* debug, info, warn, error and fatal call Logger::log without that test, each
\* with its own level, whatever the level of the event it is given.
LogDirect(t, l, e) ==
    /\ cpc[t] = "idle" /\ held[t] # 0
    /\ lev' = [lev EXCEPT ![t] = l]
    /\ ev' = [ev EXCEPT ![t] = e]
    /\ fresh' = [fresh EXCEPT ![t] = (Setting = {})]
    /\ cpc' = [cpc EXCEPT ![t] = "log"]
    /\ UNCHANGED <<config, manager, held>>

\* Mutant: the level has to be above the logger's.
LogAbove(t) ==
    /\ cpc[t] = "log"
    /\ IF lev[t] > objects[held[t]].level
       THEN cpc' = [cpc EXCEPT ![t] = "output"]
       ELSE cpc' = [cpc EXCEPT ![t] = "skip"]
    /\ UNCHANGED <<config, manager, held, lev, ev, fresh>>

\* Logger::log, which the destructor of LogEventWrap calls with the level of its
\* event, tests that level against the logger's ...
LogTest(t) ==
    /\ cpc[t] = "log"
    /\ IF lev[t] >= objects[held[t]].level
       THEN cpc' = [cpc EXCEPT ![t] = "output"]
       ELSE cpc' = [cpc EXCEPT ![t] = "skip"]
    /\ UNCHANGED <<config, manager, held, lev, ev, fresh>>

\* ... and the appenders test the event's, each against its own, in a loop under
\* the logger's lock.  What is written leaves the state as it is.
Written(t) ==
    LET entries == objects[held[t]].appenders IN
    IF cpc[t] = "output"
    THEN Selected(entries, {e \in Range(entries) : ev[t] >= e.a.level})
    ELSE <<>>

LogOutput(t) ==
    /\ cpc[t] \in {"output", "skip"}
    /\ cpc' = [cpc EXCEPT ![t] = "idle"]
    /\ lev' = [lev EXCEPT ![t] = DEBUG]
    /\ ev' = [ev EXCEPT ![t] = DEBUG]
    /\ fresh' = [fresh EXCEPT ![t] = TRUE]
    /\ UNCHANGED <<config, manager, held>>

Loader(c) ==
    \/ \E doc \in Documents : Load(c, doc)
    \/ SkipDefine(c) \/ GetDefine(c) \/ ApplyLevel(c) \/ ApplyClear(c)
    \/ ApplyAppender(c) \/ ApplyDone(c) \/ EraseLevel(c) \/ EraseClear(c)
    \/ ListenerDone(c) \/ Write(c)

Client(t) ==
    \/ \E n \in Names : Hold(t, n)
    \/ ClientAppender(t)
    \/ \E e \in Events : LogMacro(t, e)
    \/ \E l, e \in Events : LogDirect(t, l, e)
    \/ LogTest(t) \/ LogOutput(t)

Next == (\E c \in Loaders : Loader(c)) \/ (\E t \in Clients : Client(t))

Spec == Init /\ [][Next]_vars

-----------------------------------------------------------------------------
\* The appenders of a logger that come from the configuration.
FromConfig(entries) ==
    LET s == From("config", entries) IN
    [k \in DOMAIN s |-> s[k].a]
Configured(n) == FromConfig(objects[m_loggers[n]].appenders)

\* The type invariant; a file appender has a name to open.
LogTypeOK ==
    /\ NamesOf(m_val) \cup NamesOf(wanted) \subseteq known
    /\ known \cup missed \subseteq Names
    /\ m_loggers \in [Names -> 0..Len(objects)]
    /\ \A i \in DOMAIN objects :
        /\ objects[i].name \in Names /\ objects[i].level \in Levels
        /\ \A k \in DOMAIN objects[i].appenders :
            LET e == objects[i].appenders[k] IN
            /\ e.by \in Clients \cup {"config"}
            /\ e.a.type \in {1, 2} /\ e.a.level \in Levels
            /\ e.a.type = 1 => e.a.fileName # ""
    /\ \A c \in Loaders : ld[c].todo \cup ld[c].gone \subseteq Names
    /\ held \in [Clients -> 0..Len(objects)]
    /\ cpc \in [Clients -> {"idle", "log", "output", "skip"}]
    /\ lev \in [Clients -> DEBUG..FATAL] /\ ev \in [Clients -> DEBUG..FATAL]
    /\ disturbed \in BOOLEAN

\* Erasing a logger never takes it out of the manager's hands: a pointer a
\* client has kept is the logger that is registered under its name, so that
\* later configurations reach it ("soft deletion ... so that it stays managed").
NoOrphan ==
    \A t \in Clients : held[t] # 0 => m_loggers[objects[held[t]].name] = held[t]

\* Types, a name for every file to open, and pointers that stay managed.
LogInv == LogTypeOK /\ NoOrphan

\* The registered logger is what the last configuration says: its level and its
\* appenders, or nothing at all if it is no longer in it.
Follows(n) ==
    /\ m_loggers[n] # 0
    /\ IF n \in NamesOf(wanted)
       THEN /\ objects[m_loggers[n]].level = Find(wanted, n).level
            /\ Configured(n) = AppendersOf(Find(wanted, n))
       ELSE /\ objects[m_loggers[n]].level = UNKNOW
            /\ Configured(n) = <<>>

\* When no load is under way every logger that was ever configured follows the
\* last configuration: "added, changed, deleted".
LoggersFollow == Setting = {} => \A n \in known : Follows(n)

\* So they do, unless two loads have ever overlapped (disturbed), and but for
\* the names in missed: those with a change of the appenders that operator==
\* does not see, and those that a configuration has dropped without adding or
\* changing another, so that the erasing loop is not reached.
ConfigApplied ==
    disturbed \/ (Setting = {} => \A n \in known \ missed : Follows(n))

\* Unless two loads have ever overlapped (disturbed), whose listeners clear and
\* fill one logger in turns, there is no mixture:
\* also in the middle of a change no event meets appenders of two definitions
\* in one logger, nor the appenders of one in another order: there is a prefix
\* of one definition's list, or what the constructor of the manager gave root.
AllDefines == UNION {Defines(doc) : doc \in {x \in Documents : Parses(x)}}
NoMixture ==
    disturbed \/ \A n \in {m \in Names : m_loggers[m] # 0} :
        \/ n = Root /\ Configured(n) = <<StdoutLogAppender>>
        \/ Configured(n) = <<>>
        \/ \E d \in AllDefines : d.name = n /\ IsPrefix(Configured(n), AppendersOf(d))

\* A statement that no load overlaps with is written by exactly the appenders the
\* last configuration names for it, whenever the client has got its pointer to
\* the logger: the level is tested against the logger's, the event's against each
\* appender's.  Excepted are the names in missed, as for ConfigApplied, those no
\* configuration has named, and all once two loads have overlapped (disturbed).
Expected(n, l, e) ==
    LET appenders == AppendersOf(Find(wanted, n)) IN
    IF n \in NamesOf(wanted) /\ Find(wanted, n).level <= l
    THEN Selected(appenders, {a \in Range(appenders) : a.level <= e})
    ELSE <<>>

OutputFollows ==
    \A t \in Clients :
        LET n == objects[held[t]].name IN
        cpc[t] \in {"output", "skip"} =>
            \/ ~fresh[t] \/ disturbed \/ n \notin known \ missed
            \/ FromConfig(Written(t)) = Expected(n, lev[t], ev[t])

\* A definition that is written as YAML is read back as it was; one with a file
\* is not, since its name is written under another key.
RoundTrip ==
    \A d \in wanted :
        (\A k \in DOMAIN d.appenders : d.appenders[k].type = 2)
        => LogDefineOf(Dump(d)) = d
=============================================================================
