-------------------------- MODULE ProxyServerProofs --------------------------
(***************************************************************************)
(* Theorems about ProxyServer, for every set of connections and any number *)
(* of starts of the program.                                               *)
(***************************************************************************)
EXTENDS ProxyServer, TLAPS

\* The steps that touch neither start_proxy nor the task of the signal.
ConnStep(c) ==
  \/ Serve(c) \/ Told(c) \/ Respond(c) \/ Upgrade(c) \/ TunnelEnds(c)
  \/ Connect(c) \/ SendPart(c) \/ Send(c) \/ Answer(c) \/ ClientCloses(c)

\* Connections exist only while the proxy listens.
ConnsNeedListener ==
  ~ Listening => \A c \in Conns : conn[c] \in {"none", "closed"}

-----------------------------------------------------------------------------
(* Type correctness                                                        *)

LEMMA TypeInit == Init => TypeOK
<1> SUFFICES ASSUME Init PROVE TypeOK
  OBVIOUS
<1>1. conn \in [Conns -> ConnStates]
  BY DEF Init, ConnStates
<1>2. starts \in 0 .. MaxStarts
  BY MaxStartsAssumption DEF Init
<1> QED BY <1>1, <1>2 DEF Init, TypeOK, Phases, Signals, Listening

LEMMA ExitsType ==
  ASSUME TypeOK, Exits
  PROVE  /\ enable_sysproxy' \in BOOLEAN /\ main' \in Phases /\ signal' \in Signals
         /\ pressed' \in BOOLEAN /\ conn' \in [Conns -> ConnStates]
         /\ told' \subseteq Conns /\ tunnels' \subseteq Conns
         /\ (signal # "none" <=> Listening)' /\ (told # {} => Cancelled)'
<1>1. conn' \in [Conns -> ConnStates]
  BY DEF Exits, TypeOK, ConnStates
<1> QED BY <1>1 DEF Exits, TypeOK, Phases, Signals, Listening, Cancelled

LEMMA ConnStepType ==
  ASSUME TypeOK, NEW c \in Conns, ConnStep(c)
  PROVE  TypeOK'
<1>1. UNCHANGED <<process, sysproxy_on, starts, again, unclean>>
  BY DEF ConnStep, Serve, Accept, TakeUp, Respond, Upgrade, Told, TunnelEnds,
         Connect, SendPart, Send, Answer, ClientCloses, Becomes
<1>2. taken' \subseteq Conns /\ tunnels' \subseteq Conns
  BY DEF ConnStep, Serve, Accept, TakeUp, Respond, Upgrade, Told, TunnelEnds,
         Connect, SendPart, Send, Answer, ClientCloses, Becomes, TypeOK
<1>3. told' \subseteq Conns /\ (told' # {} => Cancelled)
  BY DEF ConnStep, Serve, Accept, TakeUp, Respond, Upgrade, Told, TunnelEnds,
         Connect, SendPart, Send, Answer, ClientCloses, Becomes, TypeOK
<1>4. conn' \in [Conns -> ConnStates]
  <2>1. CASE Told(c) \/ TunnelEnds(c)
    BY <2>1 DEF Told, TunnelEnds, TypeOK, ConnStates, Serving, InFlight
  <2>2. CASE \/ Serve(c) \/ Respond(c) \/ Upgrade(c) \/ Connect(c)
            \/ SendPart(c) \/ Send(c) \/ Answer(c) \/ ClientCloses(c)
    BY <2>2 DEF Serve, Accept, TakeUp, Respond, Upgrade, Connect, SendPart, Send, Answer,
                ClientCloses, Becomes, TypeOK, ConnStates, Serving, InFlight
  <2> QED BY <2>1, <2>2 DEF ConnStep
<1> QED BY <1>1, <1>2, <1>3, <1>4 DEF TypeOK, process, Listening, Cancelled

LEMMA TypeNext == TypeOK /\ [Next]_vars => TypeOK'
<1> SUFFICES ASSUME TypeOK, [Next]_vars PROVE TypeOK'
  OBVIOUS
<1> USE DEF process, clients, Listening, Cancelled
<1>1. ASSUME Start PROVE TypeOK'
  <2>1. conn' \in [Conns -> ConnStates]
    BY <1>1 DEF Start, ConnStates
  <2>2. starts' \in 0 .. MaxStarts
    BY <1>1, MaxStartsAssumption DEF Start, TypeOK
  <2> QED BY <1>1, <2>1, <2>2 DEF Start, Alive, TypeOK, Phases
<1>2. ASSUME Startup PROVE TypeOK'
  BY <1>2 DEF Startup, SetSysproxy, Resolve, Bind, TypeOK, Phases, Signals
<1>3. ASSUME StartFails \/ Killed \/ Drained PROVE TypeOK'
  <2>1. Exits /\ UNCHANGED <<sysproxy_on, starts, again>> /\ unclean' \in BOOLEAN
        /\ taken' \subseteq Conns
    BY <1>3 DEF StartFails, Killed, Drained, TypeOK
  <2> QED BY <2>1, ExitsType DEF TypeOK
<1>4. ASSUME InstallHandler \/ CtrlC \/ SignalFires \/ DisableSysproxy \/ StopAccepting
      PROVE  TypeOK'
  BY <1>4 DEF InstallHandler, CtrlC, SignalFires, DisableSysproxy, StopAccepting,
              TypeOK, Phases, Signals
<1>5. ASSUME NEW c \in Conns, ConnStep(c) PROVE TypeOK'
  BY <1>5, ConnStepType
<1>6. CASE UNCHANGED vars
  BY <1>6 DEF vars, TypeOK
<1> QED BY <1>1, <1>2, <1>3, <1>4, <1>5, <1>6 DEF Next, Shutdown, ConnStep

\* The variables keep their types; the signal's task lives exactly while the
\* proxy listens, and connections are told only after it has ended.
THEOREM TypeCorrect == Spec => []TypeOK
<1>1. Init => TypeOK
  BY TypeInit
<1>2. TypeOK /\ [Next]_vars => TypeOK'
  BY TypeNext
<1> QED BY <1>1, <1>2, PTL DEF Spec

-----------------------------------------------------------------------------
(* The system proxy setting                                                *)

\* The setting points here only while a run that announced itself has not yet
\* heard Ctrl-C, or after something went wrong.
SettingIsOwned ==
  sysproxy_on =>
    \/ unclean
    \/ /\ enable_sysproxy
       /\ main \in {"announced", "resolved", "serving"}
       /\ signal # "done"

LEMMA SettingNext == TypeOK /\ SettingIsOwned /\ [Next]_vars => SettingIsOwned'
<1> SUFFICES ASSUME TypeOK, SettingIsOwned, [Next]_vars PROVE SettingIsOwned'
  OBVIOUS
<1> USE DEF process, clients, Listening, Cancelled
<1>1. ASSUME Start PROVE SettingIsOwned'
  BY <1>1 DEF Start, Alive, SettingIsOwned
<1>2. ASSUME Startup PROVE SettingIsOwned'
  BY <1>2 DEF Startup, SetSysproxy, Resolve, Bind, SettingIsOwned, TypeOK
<1>3. ASSUME StartFails \/ Killed PROVE SettingIsOwned'
  BY <1>3 DEF StartFails, Killed, SettingIsOwned
<1>4. ASSUME Drained PROVE SettingIsOwned'
  BY <1>4 DEF Drained, SettingIsOwned
<1>5. ASSUME InstallHandler \/ CtrlC \/ SignalFires \/ DisableSysproxy \/ StopAccepting
      PROVE  SettingIsOwned'
  BY <1>5 DEF InstallHandler, CtrlC, SignalFires, DisableSysproxy, StopAccepting, SettingIsOwned
<1>6. ASSUME NEW c \in Conns, ConnStep(c) PROVE SettingIsOwned'
  <2>1. UNCHANGED <<process, sysproxy_on, unclean>>
    BY <1>6 DEF ConnStep, Serve, Accept, TakeUp, Respond, Upgrade, Told, TunnelEnds,
                Connect, SendPart, Send, Answer, ClientCloses, Becomes
  <2> QED BY <2>1 DEF SettingIsOwned
<1>7. CASE UNCHANGED vars
  BY <1>7 DEF vars, SettingIsOwned
<1> QED BY <1>1, <1>2, <1>3, <1>4, <1>5, <1>6, <1>7 DEF Next, Shutdown, ConnStep

\* Once a run stops accepting, and for ever after it, the system proxy points
\* at it only if a start failed, a run was killed or disabling failed.
THEOREM SettingIsUndone == Spec => []SysproxyOffAfterCleanEnd
<1> DEFINE IInv == TypeOK /\ SettingIsOwned
<1>1. Init => IInv
  BY TypeInit DEF Init, SettingIsOwned
<1>2. IInv /\ [Next]_vars => IInv'
  BY TypeNext, SettingNext
<1>3. IInv => SysproxyOffAfterCleanEnd
  BY DEF SettingIsOwned, SysproxyOffAfterCleanEnd
<1> QED BY <1>1, <1>2, <1>3, PTL DEF Spec

-----------------------------------------------------------------------------
(* Requests in flight                                                      *)

LEMMA AnsweredNext ==
  TypeOK /\ ConnsNeedListener /\ TakenUpIsAnswered /\ [Next]_vars
    => ConnsNeedListener' /\ TakenUpIsAnswered'
<1> SUFFICES ASSUME TypeOK, ConnsNeedListener, TakenUpIsAnswered, [Next]_vars
             PROVE  ConnsNeedListener' /\ TakenUpIsAnswered'
  OBVIOUS
<1> USE DEF process, clients, Listening
<1>1. ASSUME Start PROVE ConnsNeedListener' /\ TakenUpIsAnswered'
  BY <1>1 DEF Start, ConnsNeedListener, TakenUpIsAnswered
<1>2. ASSUME Startup PROVE ConnsNeedListener' /\ TakenUpIsAnswered'
  BY <1>2 DEF Startup, SetSysproxy, Resolve, Bind, ConnsNeedListener, TakenUpIsAnswered
<1>3. ASSUME StartFails \/ Killed \/ Drained PROVE ConnsNeedListener' /\ TakenUpIsAnswered'
  <2>1. ConnsNeedListener'
    BY <1>3 DEF StartFails, Killed, Drained, Exits, ConnsNeedListener
  <2>2. CASE StartFails
    <3>1. taken = {}
      BY <2>2 DEF StartFails, ConnsNeedListener, TakenUpIsAnswered, InFlight, TypeOK
    <3> QED BY <2>1, <2>2, <3>1 DEF StartFails, TakenUpIsAnswered
  <2>3. CASE Killed
    BY <2>1, <2>3 DEF Killed, TakenUpIsAnswered
  <2>4. CASE Drained
    <3>1. taken = {}
      BY <2>4 DEF Drained, Serving, InFlight, TakenUpIsAnswered, TypeOK
    <3> QED BY <2>1, <2>4, <3>1 DEF Drained, TakenUpIsAnswered
  <2> QED BY <1>3, <2>2, <2>3, <2>4
<1>4. ASSUME InstallHandler \/ CtrlC \/ SignalFires \/ DisableSysproxy \/ StopAccepting
      PROVE  ConnsNeedListener' /\ TakenUpIsAnswered'
  BY <1>4 DEF InstallHandler, CtrlC, SignalFires, DisableSysproxy, StopAccepting,
              ConnsNeedListener, TakenUpIsAnswered
<1>5. ASSUME NEW c \in Conns, ConnStep(c) PROVE ConnsNeedListener' /\ TakenUpIsAnswered'
  <2>1. (Listening' /\ UNCHANGED main) \/ (TunnelEnds(c) /\ UNCHANGED conn)
    BY <1>5 DEF ConnStep, Serve, Accept, TakeUp, Respond, Upgrade, Told, TunnelEnds,
                Connect, SendPart, Send, Answer, ClientCloses, Becomes, Serving, InFlight, ConnsNeedListener
  <2>2. ConnsNeedListener'
    BY <2>1 DEF TunnelEnds, ConnsNeedListener
  <2>3. CASE Told(c) \/ TunnelEnds(c)
    BY <2>2, <2>3 DEF Told, TunnelEnds, TakenUpIsAnswered, TypeOK
  <2>4. CASE \/ Serve(c) \/ Respond(c) \/ Upgrade(c) \/ Connect(c)
            \/ SendPart(c) \/ Send(c) \/ Answer(c) \/ ClientCloses(c)
    <3>1. \A d \in Conns : d # c => conn'[d] = conn[d]
      BY <2>4 DEF Serve, Accept, TakeUp, Respond, Upgrade, Connect, SendPart, Send, Answer,
                  ClientCloses, Becomes, TypeOK
    <3>2. taken' \subseteq taken \cup {c} /\ (c \in taken' => conn'[c] \in InFlight)
      BY <2>4 DEF Serve, Accept, TakeUp, Respond, Upgrade, Connect, SendPart, Send, Answer,
                  ClientCloses, Becomes, TypeOK, Serving, InFlight, TakenUpIsAnswered
    <3> QED BY <2>2, <3>1, <3>2 DEF TakenUpIsAnswered, TypeOK
  <2> QED BY <1>5, <2>3, <2>4 DEF ConnStep
<1>6. CASE UNCHANGED vars
  BY <1>6 DEF vars, ConnsNeedListener, TakenUpIsAnswered
<1> QED BY <1>1, <1>2, <1>3, <1>4, <1>5, <1>6 DEF Next, Shutdown, ConnStep

\* However many connections there are, no request that was taken up loses its
\* connection before its answer, unless its client leaves or the process is
\* killed.
THEOREM RequestsAreAnswered == Spec => []TakenUpIsAnswered
<1> DEFINE IInv == TypeOK /\ ConnsNeedListener /\ TakenUpIsAnswered
<1>1. Init => IInv
  BY TypeInit DEF Init, ConnsNeedListener, TakenUpIsAnswered
<1>2. IInv /\ [Next]_vars => IInv'
  BY TypeNext, AnsweredNext
<1> QED BY <1>1, <1>2, PTL DEF Spec
=============================================================================
