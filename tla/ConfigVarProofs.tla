-------------------------- MODULE ConfigVarProofs --------------------------
(***************************************************************************)
(* The listeners of a configuration variable, for any number of clients,   *)
(* values and registered listeners.                                        *)
(***************************************************************************)
EXTENDS ConfigVar, TLAPS

\* <<>> is a map without listeners.
LEMMA NoListeners == DOMAIN <<>> = {} /\ <<>> \in [DOMAIN <<>> -> Clients]
<1>1. DOMAIN <<>> = {}
  OBVIOUS
<1>2. <<>> = [k \in DOMAIN <<>> |-> <<>>[k]]
  OBVIOUS
<1> QED
  BY <1>1, <1>2

\* Nothing is registered and nobody is in setValue at the beginning.
LEMMA ConfigInit == Init => ConfigInv
<1> SUFFICES ASSUME Init PROVE ConfigInv
  OBVIOUS
<1>1. DOMAIN m_cbs = {} /\ m_cbs \in [DOMAIN m_cbs -> Clients]
  BY NoListeners DEF Init
<1>2. DOMAIN m_cbs \subseteq 1..m_fun_id /\ m_fun_id \in 0..MaxKey
  BY <1>1, ConfigVarAssumption DEF Init
<1>3. /\ m_val = Default /\ val = [c \in Clients |-> Default]
      /\ it = [c \in Clients |-> 0] /\ key = [c \in Clients |-> 0]
      /\ pc = [c \in Clients |-> "idle"] /\ belief = [c \in Clients |-> Default]
  BY Zenon DEF Init
<1>4. ListenerAlive /\ ListenersTold /\ Setting = {}
  BY <1>1 DEF Init, ListenerAlive, ListenersTold, Setting
<1>5. ConfigTypeOK
  <2>1. disturbed \in BOOLEAN
    BY DEF Init
  <2> QED
    BY <1>1, <1>2, <1>3, <2>1, ConfigVarAssumption DEF ConfigTypeOK, Init
<1>6. (\A c \in Clients : it[c] = 0) /\ HeardFits
  BY <1>1 DEF Init, HeardFits
<1> QED
  BY <1>4, <1>5, <1>6 DEF ConfigInv

\* A call of setValue begins; undisturbed it is the only one, and its loop has
\* not passed any listener.
LEMMA SetValueStep ==
    ASSUME ConfigInv, NEW c \in Clients, NEW v \in Values, SetValue(c, v)
    PROVE  ConfigInv'
<1> USE DEF ConfigInv, ConfigTypeOK
<1>1. ConfigTypeOK' /\ ListenerAlive'
  BY DEF SetValue, ListenerAlive, Setting
<1>2. \A d \in Clients : pc'[d] = "idle" => it'[d] = 0
  BY DEF SetValue
<1>9. HeardFits'
  <2>1. \A d \in Clients, k \in DOMAIN m_cbs : Told(d, k)' => Told(d, k)
    BY DEF SetValue, Told
  <2> QED
    BY <2>1 DEF SetValue, HeardFits
<1>3. ASSUME ~disturbed'
      PROVE  /\ \A d, e \in Setting' : d = e
             /\ ListenersTold'
             /\ \A d \in Setting' : \A k \in DOMAIN m_cbs' :
                   Told(d, k)' => belief'[m_cbs'[k]] = val'[d]
  <2>1. ~disturbed /\ Setting = {}
    BY <1>3, Zenon DEF SetValue
  <2>2. Setting' = {c}
    BY <2>1 DEF SetValue, Setting
  <2>3. \A k \in DOMAIN m_cbs : ~Told(c, k)'
    BY DEF SetValue, Told
  <2> QED
    BY <2>2, <2>3 DEF ListenersTold, SetValue
<1> QED
  BY <1>1, <1>2, <1>3, <1>9

\* The loop goes on to the smallest key that is left, so that every key below
\* it has been passed.
LEMMA CallListenerStep ==
    ASSUME ConfigInv, NEW c \in Clients, CallListener(c)
    PROVE  ConfigInv'
<1> USE DEF ConfigInv, ConfigTypeOK
<1> PICK k \in Left(c) : (\A l \in Left(c) : k <= l) /\ it' = [it EXCEPT ![c] = k]
  BY DEF CallListener
<1>0. k \in DOMAIN m_cbs /\ k \in 1..MaxKey
  BY ConfigVarAssumption DEF Left
<1>1. ConfigTypeOK'
  BY <1>0 DEF CallListener
<1>2. ListenerAlive' /\ \A d \in Clients : pc'[d] = "idle" => it'[d] = 0
  BY <1>0 DEF CallListener, ListenerAlive
<1>3. ASSUME ~disturbed'
      PROVE  /\ \A d, e \in Setting' : d = e
             /\ ListenersTold'
             /\ \A d \in Setting' : \A l \in DOMAIN m_cbs' :
                   Told(d, l)' => belief'[m_cbs'[l]] = val'[d]
  <2>1. ~disturbed /\ Setting' = Setting /\ c \in Setting
    BY <1>3 DEF CallListener, Setting
  <2>2. \A l \in DOMAIN m_cbs : l < k => l <= it[c]
    BY <1>0 DEF Left
  <2>3. \A d \in Setting, l \in DOMAIN m_cbs : Told(d, l)' => Told(d, l)
    BY <1>0, <2>2 DEF CallListener, Told, Setting
  <2> QED
    BY <2>1, <2>3 DEF ListenersTold, CallListener
<1>9. HeardFits'
  <2>1. \A l \in DOMAIN m_cbs : l < k => l <= it[c]
    BY <1>0 DEF Left
  <2>2. \A d \in Clients, l \in DOMAIN m_cbs : Told(d, l)' => Told(d, l)
    BY <1>0, <2>1 DEF CallListener, Told
  <2> QED
    BY <2>2 DEF CallListener, HeardFits
<1> QED
  BY <1>1, <1>2, <1>3, <1>9

\* The listener that returns knows the new value; the loop has passed it.
LEMMA ListenerReturnsStep ==
    ASSUME ConfigInv, NEW c \in Clients, ListenerReturns(c)
    PROVE  ConfigInv'
<1> USE DEF ConfigInv, ConfigTypeOK
<1>0. it[c] \in DOMAIN m_cbs /\ m_cbs[it[c]] \in Clients
  BY DEF ListenerReturns, ListenerAlive
<1>1. ConfigTypeOK' /\ ListenerAlive' /\ \A d \in Clients : pc'[d] = "idle" => it'[d] = 0
  BY <1>0 DEF ListenerReturns, ListenerAlive
<1>2. ASSUME ~disturbed'
      PROVE  /\ \A d, e \in Setting' : d = e
             /\ ListenersTold'
             /\ \A d \in Setting' : \A k \in DOMAIN m_cbs' :
                   Told(d, k)' => belief'[m_cbs'[k]] = val'[d]
  <2>1. ~disturbed /\ Setting' = Setting /\ c \in Setting
    BY <1>2 DEF ListenerReturns, Setting
  <2>2. ASSUME NEW d \in Setting', NEW k \in DOMAIN m_cbs', Told(d, k)'
        PROVE  belief'[m_cbs'[k]] = val'[d]
    <3>1. d = c /\ k \in DOMAIN m_cbs
      BY <2>1, <2>2 DEF ListenerReturns
    <3>2. k = it[c] \/ Told(c, k)
      BY <2>2, <3>1 DEF ListenerReturns, Told
    <3>3. k # it[c] => belief[m_cbs[k]] = val[c]
      BY <2>1, <3>1, <3>2
    <3> QED
      BY <1>0, <3>1, <3>3 DEF ListenerReturns
  <2> QED
    BY <2>1, <2>2 DEF ListenersTold
<1>9. HeardFits'
  <2>1. \A d \in Clients, k \in DOMAIN m_cbs :
          Told(d, k)' => Told(d, k) \/ (d = c /\ k = it[c])
    BY <1>0 DEF ListenerReturns, Told
  <2>2. \A d \in Clients : heard[d] \subseteq heard'[d]
    BY DEF ListenerReturns
  <2>3. m_cbs[it[c]] \in heard'[c]
    BY DEF ListenerReturns
  <2> QED
    BY <2>1, <2>2, <2>3 DEF ListenerReturns, HeardFits
<1> QED
  BY <1>1, <1>2, <1>9

\* A listener that throws disturbs the variable for good.
LEMMA ListenerThrowsStep ==
    ASSUME ConfigInv, NEW c \in Clients, ListenerThrows(c)
    PROVE  ConfigInv'
<1> USE DEF ConfigInv, ConfigTypeOK
<1>1. ConfigTypeOK' /\ ListenerAlive' /\ \A d \in Clients : pc'[d] = "idle" => it'[d] = 0
  BY ConfigVarAssumption DEF ListenerThrows, Leave, ListenerAlive
<1>2. disturbed'
  BY DEF ListenerThrows
<1>9. HeardFits'
  <2>1. \A d \in Clients, k \in DOMAIN m_cbs : Told(d, k)' => Told(d, k) /\ d # c
    BY DEF ListenerThrows, Leave, Told
  <2> QED
    BY <2>1 DEF ListenerThrows, Leave, HeardFits
<1> QED
  BY <1>1, <1>2, <1>9

\* When no key is left the loop has passed every listener.
LEMMA NotifyDoneStep ==
    ASSUME ConfigInv, NEW c \in Clients, NotifyDone(c)
    PROVE  ConfigInv'
<1> USE DEF ConfigInv, ConfigTypeOK
<1>1. ConfigTypeOK' /\ ListenerAlive' /\ \A d \in Clients : pc'[d] = "idle" => it'[d] = 0
  BY DEF NotifyDone, ListenerAlive
<1>2. ASSUME ~disturbed'
      PROVE  /\ \A d, e \in Setting' : d = e
             /\ ListenersTold'
             /\ \A d \in Setting' : \A k \in DOMAIN m_cbs' :
                   Told(d, k)' => belief'[m_cbs'[k]] = val'[d]
  <2>1. ~disturbed /\ Setting' = Setting /\ c \in Setting
    BY <1>2 DEF NotifyDone, Setting
  <2>2. \A k \in DOMAIN m_cbs : k <= it[c]
    BY DEF NotifyDone, Left
  <2>3. \A d \in Setting, k \in DOMAIN m_cbs : Told(d, k)' => Told(d, k)
    BY <2>2 DEF NotifyDone, Told, Setting
  <2> QED
    BY <2>1, <2>3 DEF ListenersTold, NotifyDone
<1>9. HeardFits'
  <2>1. \A k \in DOMAIN m_cbs : k <= it[c]
    BY DEF NotifyDone, Left
  <2>2. \A d \in Clients, k \in DOMAIN m_cbs : Told(d, k)' => Told(d, k)
    BY <2>1 DEF NotifyDone, Told
  <2> QED
    BY <2>2 DEF NotifyDone, HeardFits
<1> QED
  BY <1>1, <1>2, <1>9

\* The value that is written is the one every listener was told.
LEMMA WriteStep ==
    ASSUME ConfigInv, NEW c \in Clients, Write(c)
    PROVE  ConfigInv'
<1> USE DEF ConfigInv, ConfigTypeOK
<1>1. ConfigTypeOK' /\ ListenerAlive' /\ \A d \in Clients : pc'[d] = "idle" => it'[d] = 0
  BY ConfigVarAssumption DEF Write, Leave, ListenerAlive
<1>2. ASSUME ~disturbed'
      PROVE  /\ \A d, e \in Setting' : d = e
             /\ ListenersTold'
             /\ \A d \in Setting' : \A k \in DOMAIN m_cbs' :
                   Told(d, k)' => belief'[m_cbs'[k]] = val'[d]
  <2>1. ~disturbed /\ c \in Setting
    BY <1>2 DEF Write, Setting
  <2>2. Setting' = {}
    BY <2>1 DEF Write, Leave, Setting
  <2>3. \A k \in DOMAIN m_cbs : belief[m_cbs[k]] = val[c]
    BY <2>1 DEF Write, Told
  <2> QED
    BY <2>2, <2>3 DEF ListenersTold, Write
<1>9. HeardFits'
  <2>1. \A d \in Clients, k \in DOMAIN m_cbs : Told(d, k)' => Told(d, k) /\ d # c
    BY DEF Write, Leave, Told
  <2> QED
    BY <2>1 DEF Write, Leave, HeardFits
<1> QED
  BY <1>1, <1>2, <1>9

\* A listener is added with the value of the moment, or during a setValue,
\* which is then disturbed.
LEMMA AddListenerStep ==
    ASSUME ConfigInv, NEW c \in Clients, AddListener(c)
    PROVE  ConfigInv'
<1> USE DEF ConfigInv, ConfigTypeOK
<1> DEFINE id == m_fun_id + 1
<1>0. /\ id \in 1..MaxKey /\ m_fun_id' = id
      /\ DOMAIN m_cbs' = DOMAIN m_cbs \cup {id}
      /\ \A k \in DOMAIN m_cbs' : m_cbs'[k] = IF k = id THEN c ELSE m_cbs[k]
      /\ m_cbs' \in [DOMAIN m_cbs' -> Clients]
  BY ConfigVarAssumption DEF AddListener
<1>1. ConfigTypeOK'
  BY <1>0 DEF AddListener, Added, Setting
<1>2. ListenerAlive' /\ \A d \in Clients : pc'[d] = "idle" => it'[d] = 0
  BY <1>0 DEF AddListener, ListenerAlive
<1>3. ASSUME ~disturbed'
      PROVE  /\ \A d, e \in Setting' : d = e
             /\ ListenersTold'
             /\ \A d \in Setting' : \A k \in DOMAIN m_cbs' :
                   Told(d, k)' => belief'[m_cbs'[k]] = val'[d]
  <2>1. ~disturbed /\ Setting = {}
    BY <1>3, Zenon DEF AddListener
  <2>2. Setting' = {}
    BY <2>1 DEF AddListener, Setting
  <2>3. \A k \in DOMAIN m_cbs : belief[m_cbs[k]] = m_val
    BY <2>1 DEF ListenersTold
  <2>4. \A k \in DOMAIN m_cbs' : belief'[m_cbs'[k]] = m_val
    BY <1>0, <2>3 DEF AddListener
  <2> QED
    BY <2>2, <2>4 DEF ListenersTold, AddListener
<1>9. HeardFits'
  <2> SUFFICES ASSUME NEW d \in Clients, NEW k \in DOMAIN m_cbs', Told(d, k)'
               PROVE  m_cbs'[k] \in heard'[d]
    BY DEF HeardFits
  <2>1. pc[d] = "write" /\ heard'[d] = heard[d] \cup {c}
    BY DEF AddListener, Added, Told, WriteFree, Reading
  <2> QED
    BY <1>0, <2>1 DEF HeardFits, Told
<1> QED
  BY <1>1, <1>2, <1>3, <1>9

\* Erasing or clearing leaves fewer listeners to tell; it waits until none is
\* being called.
LEMMA EraseStep ==
    ASSUME ConfigInv, NEW c \in Clients, DelListener(c) \/ ClearListener(c)
    PROVE  ConfigInv'
<1> USE DEF ConfigInv, ConfigTypeOK
<1>0. /\ WriteFree
      /\ UNCHANGED <<m_val, pc, val, it, belief, heard, disturbed>>
      /\ DOMAIN m_cbs' \subseteq DOMAIN m_cbs
      /\ \A k \in DOMAIN m_cbs' : m_cbs'[k] = m_cbs[k]
  BY DEF DelListener, ClearListener, Restrict
<1>1. ConfigTypeOK'
  <2>1. CASE DelListener(c)
    BY <1>0, <2>1 DEF DelListener, Restrict
  <2>2. CASE ClearListener(c)
    BY <1>0, <2>2, ConfigVarAssumption, NoListeners DEF ClearListener
  <2> QED
    BY <2>1, <2>2
<1>2. ListenerAlive' /\ \A d \in Clients : pc'[d] = "idle" => it'[d] = 0
  BY <1>0 DEF ListenerAlive, WriteFree, Reading
<1>3. Setting' = Setting
  BY <1>0 DEF Setting
<1>4. \A d \in Clients, k \in DOMAIN m_cbs' : Told(d, k)' <=> Told(d, k)
  BY <1>0 DEF Told
<1>9. HeardFits'
  BY <1>0, <1>4 DEF HeardFits, DelListener, ClearListener
<1> QED
  BY <1>0, <1>1, <1>2, <1>3, <1>4, <1>9 DEF ListenersTold, Setting

\* ConfigInv is inductive.
LEMMA ConfigNext == ConfigInv /\ [Next]_vars => ConfigInv'
<1> SUFFICES ASSUME ConfigInv, [Next]_vars PROVE ConfigInv'
  OBVIOUS
<1>1. CASE UNCHANGED vars
  BY <1>1 DEF vars, ConfigInv, ConfigTypeOK, ListenerAlive, ListenersTold, Setting, Told,
     HeardFits
<1>2. ASSUME NEW c \in Clients, Client(c) PROVE ConfigInv'
  BY <1>2, SetValueStep, CallListenerStep, ListenerReturnsStep, ListenerThrowsStep,
     NotifyDoneStep, WriteStep, AddListenerStep, EraseStep
  DEF Client
<1> QED
  BY <1>1, <1>2 DEF Next

\* config.h, setValue against every other member function: types, no call of
\* an erased listener, and the progress of an undisturbed setValue.
THEOREM ConfigInvariance == Spec => []ConfigInv
  BY ConfigInit, ConfigNext, PTL DEF Spec

\* erase and clear never destroy a listener that setValue is calling.
THEOREM NoCallAfterErase == Spec => []ListenerAlive
<1>1. ConfigInv => ListenerAlive
  BY DEF ConfigInv
<1> QED
  BY <1>1, ConfigInvariance, PTL

\* Registered listeners know the value whenever no setValue is under way, as
\* long as no setValue has been disturbed.
THEOREM ListenersUpToDate == Spec => []ListenersKnow
<1>1. ConfigInv => ListenersKnow
  BY DEF ConfigInv, ListenersKnow
<1> QED
  BY <1>1, ConfigInvariance, PTL

\* Every listener that is registered when setValue writes was told by it, or
\* was added between its two critical sections.
THEOREM NothingUnannounced == Spec => []WriteAnnounced
<1>1. ConfigInv => WriteAnnounced
  BY DEF ConfigInv, HeardFits, Told, WriteAnnounced
<1> QED
  BY <1>1, ConfigInvariance, PTL
=============================================================================
