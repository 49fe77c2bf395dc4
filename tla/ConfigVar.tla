------------------------------ MODULE ConfigVar ------------------------------
(***************************************************************************)
(* sylar::ConfigVar<T> (sylar/config.h): a value, the listeners that are   *)
(* told before it changes, and the read-write lock around both.            *)
(*                                                                         *)
(* Every client thread may change the value and register one listener of   *)
(* its own, which is named by the client.  setValue holds the lock for     *)
(* reading while it calls the listeners, lets go of it, and takes it again *)
(* for writing; a step is one critical section, or one call of a listener. *)
(* fromString is setValue on a string that converts (one that does not     *)
(* changes nothing); toString, getValue and getListener only read.         *)
(***************************************************************************)
EXTENDS Naturals, Functions

CONSTANTS
    Clients,   \* threads
    Values,    \* values of T
    Default,   \* the constructor's default_val
    Throwing,  \* clients whose listener may throw
    MaxKey     \* bound: listeners added since the last clearListener

ASSUME ConfigVarAssumption ==
    /\ Default \in Values
    /\ Throwing \subseteq Clients
    /\ MaxKey \in Nat

Keys == 1..MaxKey

VARIABLES
    m_val, m_cbs, m_fun_id,
    pc,         \* where each client is in setValue
    val,        \* setValue: the argument, Default outside of it
    it,         \* setValue: key of the listener it has got to, or 0
    key,        \* the key a client got from addListener, 0 if it has none
    belief,     \* the value a client's listener knows of
    heard,      \* history: whose listeners a setValue has told, or were added
                \* when its loop was over
    disturbed   \* a listener threw, or setValue overlapped with another call
                \* of setValue or addListener

vars == <<m_val, m_cbs, m_fun_id, pc, val, it, key, belief, heard, disturbed>>

\* The type invariant; a key in use is one that m_fun_id has reached.
ConfigTypeOK ==
    /\ m_val \in Values
    /\ m_fun_id \in 0..MaxKey
    /\ DOMAIN m_cbs \subseteq 1..m_fun_id /\ m_cbs \in [DOMAIN m_cbs -> Clients]
    /\ pc \in [Clients -> {"idle", "notify", "calling", "write"}]
    /\ val \in [Clients -> Values]
    /\ it \in [Clients -> 0..MaxKey]
    /\ key \in [Clients -> 0..MaxKey]
    /\ belief \in [Clients -> Values]
    /\ heard \in [Clients -> SUBSET Clients]
    /\ disturbed \in BOOLEAN

Init ==
    /\ m_val = Default
    /\ m_cbs = <<>>
    /\ m_fun_id = 0
    /\ pc = [c \in Clients |-> "idle"]
    /\ val = [c \in Clients |-> Default]
    /\ it = [c \in Clients |-> 0]
    /\ key = [c \in Clients |-> 0]
    /\ belief = [c \in Clients |-> Default]
    /\ heard = [c \in Clients |-> {}]
    /\ disturbed = FALSE

-----------------------------------------------------------------------------
\* Mutant: the lock is taken anew for every call of a listener.
ReadingCalls(c) == pc[c] = "calling"

\* Only setValue holds the lock (for reading) from one step to the next.
Reading(c) == pc[c] \in {"notify", "calling"}
WriteFree == \A c \in Clients : ~Reading(c)

Setting == {c \in Clients : pc[c] # "idle"}

\* setValue of a value that is already there returns at once; of another one
\* it goes on to the listeners.
SetValue(c, v) ==
    /\ pc[c] = "idle"
    /\ v # m_val
    /\ pc' = [pc EXCEPT ![c] = "notify"]
    /\ val' = [val EXCEPT ![c] = v]
    /\ disturbed' = (disturbed \/ Setting # {})
    /\ UNCHANGED <<m_val, m_cbs, m_fun_id, it, key, belief, heard>>

\* setValue is left, and its locals with it.
Leave(c) ==
    /\ pc' = [pc EXCEPT ![c] = "idle"]
    /\ val' = [val EXCEPT ![c] = Default]
    /\ it' = [it EXCEPT ![c] = 0]
    /\ heard' = [heard EXCEPT ![c] = {}]

Left(c) == {k \in DOMAIN m_cbs : k > it[c]}

\* The loop over the map calls the next listener ...
CallListener(c) ==
    /\ pc[c] = "notify"
    /\ \E k \in Left(c) :
        /\ \A l \in Left(c) : k <= l
        /\ it' = [it EXCEPT ![c] = k]
    /\ pc' = [pc EXCEPT ![c] = "calling"]
    /\ UNCHANGED <<m_val, m_cbs, m_fun_id, val, key, belief, heard, disturbed>>

\* ... which returns, and knows the new value ...
ListenerReturns(c) ==
    /\ pc[c] = "calling"
    /\ belief' = [belief EXCEPT ![m_cbs[it[c]]] = val[c]]
    /\ heard' = [heard EXCEPT ![c] = @ \cup {m_cbs[it[c]]}]
    /\ pc' = [pc EXCEPT ![c] = "notify"]
    /\ UNCHANGED <<m_val, m_cbs, m_fun_id, val, it, key, disturbed>>

\* ... or throws: the guard's destructor unlocks and setValue is left.
ListenerThrows(c) ==
    /\ pc[c] = "calling"
    /\ m_cbs[it[c]] \in Throwing
    /\ Leave(c)
    /\ disturbed' = TRUE
    /\ UNCHANGED <<m_val, m_cbs, m_fun_id, key, belief>>

\* Mutant: the loop stops before the last listener.
NotifyAllButOne(c) ==
    /\ pc[c] = "notify"
    /\ \A k, l \in Left(c) : k = l
    /\ pc' = [pc EXCEPT ![c] = "write"]
    /\ UNCHANGED <<m_val, m_cbs, m_fun_id, val, it, key, belief, heard, disturbed>>

\* The end of the loop gives up the lock.
NotifyDone(c) ==
    /\ pc[c] = "notify"
    /\ Left(c) = {}
    /\ pc' = [pc EXCEPT ![c] = "write"]
    /\ UNCHANGED <<m_val, m_cbs, m_fun_id, val, it, key, belief, heard, disturbed>>

\* The second critical section of setValue.
Write(c) ==
    /\ pc[c] = "write"
    /\ WriteFree
    /\ m_val' = val[c]
    /\ Leave(c)
    /\ UNCHANGED <<m_cbs, m_fun_id, key, belief, disturbed>>

\* c's listener has been added: every setValue whose loop is over misses it.
Added(c) ==
    [d \in Clients |-> IF pc[d] = "write" THEN heard[d] \cup {c} ELSE heard[d]]

\* Mutant: the key is not counted up.
AddListenerSameKey(c) ==
    /\ pc[c] = "idle" /\ key[c] = 0
    /\ WriteFree
    /\ m_cbs' = [k \in DOMAIN m_cbs \cup {1} |-> IF k = 1 THEN c ELSE m_cbs[k]]
    /\ key' = [key EXCEPT ![c] = 1]
    /\ belief' = [belief EXCEPT ![c] = m_val]
    /\ heard' = Added(c)
    /\ disturbed' = (disturbed \/ Setting # {})
    /\ UNCHANGED <<m_val, m_fun_id, pc, val, it>>

\* addListener; the listener is taken to know the value of that moment.
AddListener(c) ==
    /\ pc[c] = "idle" /\ key[c] = 0
    /\ m_fun_id < MaxKey
    /\ WriteFree
    /\ LET id == m_fun_id + 1 IN
        /\ m_fun_id' = id
        /\ m_cbs' = [k \in DOMAIN m_cbs \cup {id} |-> IF k = id THEN c ELSE m_cbs[k]]
        /\ key' = [key EXCEPT ![c] = id]
    /\ belief' = [belief EXCEPT ![c] = m_val]
    /\ heard' = Added(c)
    /\ disturbed' = (disturbed \/ Setting # {})
    /\ UNCHANGED <<m_val, pc, val, it>>

\* Mutant: the listener is erased under the lock for reading.
DelListenerShared(c) ==
    /\ pc[c] = "idle" /\ key[c] # 0
    /\ m_cbs' = Restrict(m_cbs, DOMAIN m_cbs \ {key[c]})
    /\ key' = [key EXCEPT ![c] = 0]
    /\ UNCHANGED <<m_val, m_fun_id, pc, val, it, belief, heard, disturbed>>

\* delListener with the key the client was given.
DelListener(c) ==
    /\ pc[c] = "idle" /\ key[c] # 0
    /\ WriteFree
    /\ m_cbs' = Restrict(m_cbs, DOMAIN m_cbs \ {key[c]})
    /\ key' = [key EXCEPT ![c] = 0]
    /\ UNCHANGED <<m_val, m_fun_id, pc, val, it, belief, heard, disturbed>>

\* clearListener: keys are counted from the beginning again, and the clients
\* keep the ones they were given.
ClearListener(c) ==
    /\ pc[c] = "idle"
    /\ WriteFree
    /\ m_cbs' = <<>>
    /\ m_fun_id' = 0
    /\ UNCHANGED <<m_val, pc, val, it, key, belief, heard, disturbed>>

Client(c) ==
    \/ \E v \in Values : SetValue(c, v)
    \/ CallListener(c) \/ ListenerReturns(c) \/ ListenerThrows(c)
    \/ NotifyDone(c) \/ Write(c)
    \/ AddListener(c) \/ DelListener(c) \/ ClearListener(c)

Next == \E c \in Clients : Client(c)

Spec == Init /\ [][Next]_vars

-----------------------------------------------------------------------------
\* A listener is not destroyed while setValue calls it: erase and clear wait
\* until the loop over the map is over, however long the callback takes.
ListenerAlive == \A c \in Clients : pc[c] = "calling" => it[c] \in DOMAIN m_cbs

\* No value is written that a registered listener was not told of by the same
\* setValue, unless it was added when the loop was over already: whatever else
\* is set, erased, cleared, added again or thrown meanwhile, the gap between the
\* two critical sections is the only one.
WriteAnnounced ==
    \A c \in Clients : pc[c] = "write" =>
        \A k \in DOMAIN m_cbs : m_cbs[k] \in heard[c]

\* Registered listeners know the value when no setValue is under way ("when
\* the configuration changes, the code is notified").
ListenersTold ==
    Setting = {} => \A k \in DOMAIN m_cbs : belief[m_cbs[k]] = m_val

\* They do as long as calls of setValue and addListener have not overlapped and
\* no listener has thrown, whatever is erased or cleared meanwhile.
ListenersKnow == disturbed \/ ListenersTold

\* The loop of c's setValue has passed key k.
Told(c, k) ==
    \/ pc[c] = "notify" /\ k <= it[c]
    \/ pc[c] = "calling" /\ k < it[c]
    \/ pc[c] = "write"

\* The listeners a loop has passed were told.
HeardFits ==
    \A c \in Clients : \A k \in DOMAIN m_cbs : Told(c, k) => m_cbs[k] \in heard[c]

\* The inductive invariant behind the three: no erased listener is being called,
\* the listeners a loop has passed were told and, undisturbed, there is one
\* setValue at most and those listeners know its argument.
ConfigInv ==
    /\ ConfigTypeOK
    /\ ListenerAlive
    /\ \A c \in Clients : pc[c] = "idle" => it[c] = 0
    /\ HeardFits
    /\ disturbed \/
        /\ \A c, d \in Setting : c = d
        /\ ListenersTold
        /\ \A c \in Setting : \A k \in DOMAIN m_cbs :
              Told(c, k) => belief[m_cbs[k]] = val[c]
=============================================================================
