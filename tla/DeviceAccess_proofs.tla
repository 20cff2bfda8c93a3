------------------------- MODULE DeviceAccess_proofs -------------------------
(***************************************************************************)
(* Proofs about a device's identity and the gateway's checks, for any      *)
(* number of keys, devices, requests in flight, edges and reloads.         *)
(*                                                                         *)
(* The client stores key, public key and device id in that order, and      *)
(* reads them back as a whole: so long as the browser drops nothing, a     *)
(* device id in localStorage implies the two others and a registration of  *)
(* that very key (Stored), and a client on its way to a registration has   *)
(* no id yet (Booting).                                                    *)
(***************************************************************************)
EXTENDS DeviceAccess, TLAPS

Full == [at: Stage, kind: Kind, key: Keys, device: Devices \cup {None}]

Holds(d, k) == d \in DOMAIN registry /\ registry[d] = k

Stored == ~evicted /\ lsDev # None => lsPub # None /\ idbKey # None /\ Holds(lsDev, idbKey)

Booting ==
  /\ identity \in {"SAVED", "NEEDS_REGISTRATION", "REGISTERING"} => key # None
  /\ ~evicted =>
       /\ identity \in {"GENERATING", "SAVED", "NEEDS_REGISTRATION", "REGISTERING"} =>
            lsDev = None
       /\ identity \in {"SAVED", "NEEDS_REGISTRATION", "REGISTERING"} => idbKey = key
       /\ identity \in {"NEEDS_REGISTRATION", "REGISTERING"} => lsPub = key

Granted ==
  \A r \in Requests :
    At(r, "done") /\ req[r].kind = "register" => Holds(req[r].device, req[r].key)

AccessInv ==
  TypeOK /\ Stored /\ Booting /\ Granted /\ ReadyDeviceCanSign /\ QuotaSpentByOwner

-----------------------------------------------------------------------------
\* A request that has left is never taken for a free slot, and moving it to
\* another stage keeps its fields.
LEMMA RequestFacts ==
  /\ Request = {Idle} \cup Full
  /\ \A q \in Full :
       /\ q # Idle
       /\ \A s \in Stage :
            LET n == [q EXCEPT !.at = s]
            IN  /\ n \in Full /\ n.at = s
                /\ n.kind = q.kind /\ n.key = q.key /\ n.device = q.device
<1>1. \A q \in Full : q # Idle
  BY DEF Full, Idle, Stage
<1>2. ASSUME NEW q \in Full, NEW s \in Stage
      PROVE  LET n == [q EXCEPT !.at = s]
             IN  /\ n \in Full /\ n.at = s
                 /\ n.kind = q.kind /\ n.key = q.key /\ n.device = q.device
  BY DEF Full
<1> QED BY <1>1, <1>2 DEF Request, Full

LEMMA StageFacts ==
  {"gate", "auth", "charge", "work", "done", "refused"} \subseteq Stage
BY DEF Stage

\* What a handler's step to another stage leaves as it was.
LEMMA StageStep ==
  ASSUME AccessInv, NEW r \in Requests, NEW s \in Stage, req[r] # Idle, Goto(r, s)
  PROVE  /\ req' \in [Requests -> Request]
         /\ req[r] \in Full /\ req'[r] \in Full /\ req'[r].at = s
         /\ req'[r].kind = req[r].kind /\ req'[r].key = req[r].key
         /\ req'[r].device = req[r].device
         /\ \A o \in Requests : o # r => req'[o] = req[o]
<1>1. req \in [Requests -> Request] /\ req[r] \in Full
  BY RequestFacts DEF AccessInv, TypeOK
<1> DEFINE n == [req[r] EXCEPT !.at = s]
<1>2. req' = [req EXCEPT ![r] = n]
  BY <1>1 DEF Goto
<1>3. n \in Full /\ n.at = s /\ n.kind = req[r].kind /\ n.key = req[r].key
      /\ n.device = req[r].device
  BY <1>1, RequestFacts
<1> HIDE DEF n
<1> QED BY <1>1, <1>2, <1>3, RequestFacts
\* Ids are only added: what the gateway holds for an id it holds for good.
LEMMA RegistryGrows ==
  ASSUME registry \in Seq(Keys), NEW k \in Keys, registry' = Append(registry, k)
  PROVE  /\ registry' \in Seq(Keys) /\ Len(registry') = Len(registry) + 1
         /\ Len(registry') \in DOMAIN registry' /\ registry'[Len(registry')] = k
         /\ \A d \in DOMAIN registry : d \in DOMAIN registry' /\ registry'[d] = registry[d]
OBVIOUS

\* The handlers.
LEMMA HandlerKeeps ==
  ASSUME AccessInv, switchVars' = switchVars, NEW r \in Requests,
         Gate(r) \/ Authenticate(r) \/ Charge(r) \/ Work(r) \/ Forget(r)
  PROVE  AccessInv'
<1> USE DEF ServerFrame, switchVars, storeVars, memoryVars, configVars, worldVars
<1>0. /\ req \in [Requests -> Request] /\ registry \in Seq(Keys)
      /\ SwitchTypeOK' /\ UNCHANGED <<storeVars, memoryVars, configVars, worldVars>>
  BY DEF AccessInv, TypeOK, SwitchTypeOK, Gate, Authenticate, Charge, Work,
         RegisterDevice, MintUrls, AcceptJob, Forget
\* Moving a request on keeps the invariant when the new stage allows it.
<1>stage. ASSUME NEW s \in Stage, req[r] # Idle, Goto(r, s), UNCHANGED registry,
                 s = "done" => req[r].kind # "register",
                 s \in {"charge", "work"} => At(r, "charge") \/ Admissible(req[r])
          PROVE  AccessInv'
  <2>1. /\ req' \in [Requests -> Request]
        /\ req[r] \in Full /\ req'[r] \in Full /\ req'[r].at = s
        /\ req'[r].kind = req[r].kind /\ req'[r].key = req[r].key
        /\ req'[r].device = req[r].device
        /\ \A o \in Requests : o # r => req'[o] = req[o]
    BY <1>stage, StageStep
  <2>2. TypeOK'
    BY <1>0, <1>stage, <2>1 DEF AccessInv, TypeOK
  <2>3. Stored' /\ Booting' /\ ReadyDeviceCanSign'
    BY <1>0, <1>stage DEF AccessInv, Stored, Booting, ReadyDeviceCanSign, Holds
  <2>4. Granted'
    BY <1>stage, <2>1 DEF AccessInv, Granted, At, Holds
  <2>5. QuotaSpentByOwner'
    BY <1>0, <1>stage, <2>1
       DEF AccessInv, QuotaSpentByOwner, At, verifySignature, Admissible
  <2> QED BY <2>2, <2>3, <2>4, <2>5 DEF AccessInv
<1>1. CASE Gate(r) \/ Authenticate(r) \/ Charge(r)
  BY <1>1, <1>stage, StageFacts DEF Gate, Authenticate, Charge, At
<1>2. CASE Work(r) /\ req[r].kind # "register"
  BY <1>2, <1>stage, StageFacts DEF Work, RegisterDevice, MintUrls, AcceptJob, At
<1>3. CASE Work(r) /\ req[r].kind = "register"
  <2>1. /\ req[r] # Idle /\ Len(registry) < MaxDevices
        /\ registry' = Append(registry, req[r].key)
        /\ req' = [req EXCEPT ![r].at = "done", ![r].device = Len(registry')]
    BY <1>3 DEF Work, RegisterDevice, MintUrls, AcceptJob, At
  <2>2. req[r] \in Full /\ req[r].key \in Keys
    BY <1>0, <2>1, RequestFacts DEF Full
  <2>3. /\ registry' \in Seq(Keys) /\ Len(registry') = Len(registry) + 1
        /\ Len(registry') \in DOMAIN registry' /\ registry'[Len(registry')] = req[r].key
        /\ \A d \in DOMAIN registry : d \in DOMAIN registry' /\ registry'[d] = registry[d]
    BY <1>0, <2>1, <2>2, RegistryGrows
  <2>4. Len(registry') \in Devices /\ Len(registry') <= MaxDevices
    BY <1>0, <2>1, <2>3, AccessAssumption DEF Devices
  <2>5. /\ req' \in [Requests -> Request]
        /\ req'[r].at = "done" /\ req'[r].key = req[r].key
        /\ req'[r].device = Len(registry')
        /\ \A o \in Requests : o # r => req'[o] = req[o]
    <3> DEFINE n == [req[r] EXCEPT !.at = "done", !.device = Len(registry')]
    <3>1. req' = [req EXCEPT ![r] = n]
      BY <1>0, <2>1
    <3>2. n \in Full /\ n.at = "done" /\ n.key = req[r].key /\ n.device = Len(registry')
      BY <2>2, <2>4, StageFacts DEF Full
    <3> HIDE DEF n
    <3> QED BY <1>0, <3>1, <3>2, RequestFacts
  <2>6. TypeOK'
    BY <1>0, <2>3, <2>4, <2>5 DEF AccessInv, TypeOK
  <2>7. Stored' /\ Booting' /\ ReadyDeviceCanSign'
    BY <1>0, <2>3 DEF AccessInv, Stored, Booting, ReadyDeviceCanSign, Holds
  <2>8. Granted'
    BY <2>3, <2>5 DEF AccessInv, Granted, At, Holds
  <2>9. QuotaSpentByOwner'
    BY <1>0, <2>3, <2>5 DEF AccessInv, QuotaSpentByOwner, At, verifySignature
  <2> QED BY <2>6, <2>7, <2>8, <2>9 DEF AccessInv
<1>4. CASE Forget(r)
  <2>1. req' = [req EXCEPT ![r] = Idle] /\ UNCHANGED registry
    BY <1>4 DEF Forget
  <2>2. TypeOK'
    BY <1>0, <2>1, RequestFacts DEF AccessInv, TypeOK
  <2>3. Stored' /\ Booting' /\ ReadyDeviceCanSign'
    BY <1>0, <2>1 DEF AccessInv, Stored, Booting, ReadyDeviceCanSign, Holds
  <2>4. Granted' /\ QuotaSpentByOwner'
    BY <1>0, <2>1 DEF AccessInv, Granted, QuotaSpentByOwner, At, Holds, verifySignature
  <2> QED BY <2>2, <2>3, <2>4 DEF AccessInv
<1> QED BY <1>1, <1>2, <1>3, <1>4

\* A new request starts at the gate: it has been granted nothing yet.
LEMMA IssueKeeps ==
  ASSUME AccessInv, NEW kind \in Kind, NEW d \in Devices \cup {None}, key \in Keys,
         Issue(kind, d), UNCHANGED registry
  PROVE  /\ req' \in [Requests -> Request]
         /\ Granted'
         /\ provisioned' = provisioned => QuotaSpentByOwner'
<1>1. PICK r \in Requests :
        req' = [req EXCEPT ![r] = [at |-> "gate", kind |-> kind, key |-> key, device |-> d]]
  BY DEF Issue
<1> DEFINE n == [at |-> "gate", kind |-> kind, key |-> key, device |-> d]
<1>2. n \in Full /\ n.at = "gate"
  BY StageFacts DEF Full
<1> HIDE DEF n
<1>3. req' = [req EXCEPT ![r] = n]
  BY <1>1 DEF n
<1>4. req' \in [Requests -> Request]
  BY <1>2, <1>3, RequestFacts DEF AccessInv, TypeOK
<1>5. Granted' /\ (provisioned' = provisioned => QuotaSpentByOwner')
  BY <1>2, <1>3
     DEF AccessInv, TypeOK, Granted, QuotaSpentByOwner, At, Holds, verifySignature
<1> QED BY <1>4, <1>5
\* Boot, registration, signing, reload and eviction.
LEMMA ClientKeeps ==
  ASSUME AccessInv, switchVars' = switchVars,
         \/ BootLoads \/ SaveKey \/ BootEnds \/ Register \/ Registered \/ Sign
         \/ Reload \/ Evict
  PROVE  AccessInv'
<1> USE AccessAssumption
    DEF storeVars, memoryVars, configVars, worldVars, switchVars, SwitchTypeOK
<1>T. TypeOK /\ None \notin Keys \cup Devices
  BY DEF AccessInv, Keys, Devices
<1>reg. ASSUME UNCHANGED <<registry, req, provisioned>> PROVE Granted' /\ QuotaSpentByOwner'
  BY <1>reg DEF AccessInv, Granted, QuotaSpentByOwner, At, Holds, verifySignature
<1>1. CASE BootLoads
  <2>1. TypeOK'
    BY <1>1, <1>T DEF BootLoads, TypeOK
  <2>2. Stored' /\ Booting' /\ ReadyDeviceCanSign'
    BY <1>1, <1>T DEF BootLoads, AccessInv, Stored, Booting, ReadyDeviceCanSign, Holds
  <2> QED BY <1>1, <1>reg, <2>1, <2>2 DEF BootLoads, AccessInv
<1>2. CASE SaveKey
  <2>1. keys' \in 0..MaxKeys /\ key' = keys' /\ keys' \in Keys
    BY <1>2, <1>T DEF SaveKey, TypeOK, Keys
  <2>2. TypeOK'
    BY <1>2, <1>T, <2>1 DEF SaveKey, TypeOK
  <2>3. Stored' /\ Booting' /\ ReadyDeviceCanSign'
    BY <1>2, <1>T, <2>1 DEF SaveKey, AccessInv, Stored, Booting, ReadyDeviceCanSign, Holds
  <2> QED BY <1>2, <1>reg, <2>2, <2>3 DEF SaveKey, AccessInv
<1>3. CASE BootEnds
  <2>1. TypeOK'
    BY <1>3, <1>T DEF BootEnds, TypeOK
  <2>2. Stored' /\ Booting' /\ ReadyDeviceCanSign'
    BY <1>3, <1>T DEF BootEnds, AccessInv, Stored, Booting, ReadyDeviceCanSign, Holds
  <2> QED BY <1>3, <1>reg, <2>1, <2>2 DEF BootEnds, AccessInv
<1>4. CASE Register
  <2>1. key \in Keys /\ Issue("register", None)
    BY <1>4, <1>T DEF Register, AccessInv, Booting, TypeOK
  <2>2. req' \in [Requests -> Request] /\ Granted' /\ QuotaSpentByOwner'
    BY <1>4, <2>1, IssueKeeps DEF Register, Kind
  <2>3. TypeOK'
    BY <1>4, <1>T, <2>2 DEF Register, TypeOK
  <2>4. Stored' /\ Booting' /\ ReadyDeviceCanSign'
    BY <1>4, <1>T DEF Register, AccessInv, Stored, Booting, ReadyDeviceCanSign, Holds
  <2> QED BY <2>2, <2>3, <2>4 DEF AccessInv
<1>5. CASE Registered
  <2>1. CASE identity' = "NEEDS_REGISTRATION" /\ UNCHANGED <<lsDev, device, req>>
    <3>1. TypeOK'
      BY <1>5, <1>T, <2>1 DEF Registered, TypeOK
    <3>2. Stored' /\ Booting' /\ ReadyDeviceCanSign'
      BY <1>5, <1>T, <2>1
         DEF Registered, AccessInv, Stored, Booting, ReadyDeviceCanSign, Holds
    <3> QED BY <1>5, <1>reg, <2>1, <3>1, <3>2 DEF Registered, AccessInv
  <2>2. CASE ~(identity' = "NEEDS_REGISTRATION" /\ UNCHANGED <<lsDev, device, req>>)
    <3>1. PICK r \in Requests :
            /\ req[r] # Idle /\ req[r].at = "done" /\ req[r].kind = "register"
            /\ req[r].key = key
            /\ lsDev' = req[r].device /\ device' = req[r].device
            /\ req' = [req EXCEPT ![r] = Idle]
            /\ identity' = "READY"
      BY <1>5, <2>2 DEF Registered
    <3>2. req[r] \in Full /\ req[r].device \in Devices \cup {None} /\ key \in Keys
      BY <1>T, <3>1, RequestFacts DEF TypeOK, Full
    <3>3. Holds(lsDev', key) /\ lsDev' = device'
      BY <3>1 DEF AccessInv, Granted, At
    <3>4. lsDev' \in Devices
      BY <1>T, <3>3 DEF TypeOK, Holds, Devices
    <3>5. TypeOK'
      BY <1>5, <1>T, <3>1, <3>2, <3>3, <3>4, RequestFacts DEF Registered, TypeOK
    <3>6. Stored' /\ Booting' /\ ReadyDeviceCanSign'
      BY <1>5, <1>T, <3>1, <3>2, <3>3, <3>4
         DEF Registered, AccessInv, Stored, Booting, ReadyDeviceCanSign, Holds
    <3>7. Granted' /\ QuotaSpentByOwner'
      BY <1>5, <1>T, <3>1
         DEF Registered, AccessInv, TypeOK, Granted, QuotaSpentByOwner, At, Holds,
             verifySignature
    <3> QED BY <3>5, <3>6, <3>7 DEF AccessInv
  <2> QED BY <2>1, <2>2
<1>6. CASE Sign
  <2>1. PICK kind \in {"presign", "create"} : Issue(kind, device)
    BY <1>6 DEF Sign
  <2>2. key \in Keys /\ device \in Devices
    BY <1>6, <1>T DEF Sign, TypeOK
  <2>3. req' \in [Requests -> Request] /\ Granted' /\ QuotaSpentByOwner'
    BY <1>6, <2>1, <2>2, IssueKeeps DEF Sign, Kind
  <2>4. TypeOK'
    BY <1>6, <1>T, <2>3 DEF Sign, TypeOK
  <2>5. Stored' /\ Booting' /\ ReadyDeviceCanSign'
    BY <1>6, <1>T DEF Sign, AccessInv, Stored, Booting, ReadyDeviceCanSign, Holds
  <2> QED BY <2>3, <2>4, <2>5 DEF AccessInv
<1>7. CASE Reload
  <2>1. reloads' \in 0..MaxReloads
    BY <1>7, <1>T DEF Reload, TypeOK
  <2>2. TypeOK'
    BY <1>7, <1>T, <2>1 DEF Reload, TypeOK
  <2>3. Stored' /\ Booting' /\ ReadyDeviceCanSign'
    BY <1>7, <1>T DEF Reload, AccessInv, Stored, Booting, ReadyDeviceCanSign, Holds
  <2> QED BY <1>7, <1>reg, <2>2, <2>3 DEF Reload, AccessInv
<1>8. CASE Evict
  <2>1. TypeOK'
    BY <1>8, <1>T DEF Evict, TypeOK
  <2>2. Stored' /\ Booting' /\ ReadyDeviceCanSign'
    BY <1>8, <1>T DEF Evict, AccessInv, Stored, Booting, ReadyDeviceCanSign, Holds
  <2> QED BY <1>8, <1>reg, <2>1, <2>2 DEF Evict, AccessInv
<1> QED BY <1>1, <1>2, <1>3, <1>4, <1>5, <1>6, <1>7, <1>8

\* The switch and the monitor touch nothing of a device.
LEMMA SwitchTyped == SwitchTypeOK /\ SwitchNext => SwitchTypeOK'
<1> SUFFICES ASSUME SwitchTypeOK, SwitchNext PROVE SwitchTypeOK'
  OBVIOUS
<1> USE KillSwitchAssumption DEF SwitchTypeOK, AdminCall, Body
<1>1. CASE OperatorCalls
  BY <1>1 DEF OperatorCalls
<1>2. CASE Spend
  BY <1>2 DEF Spend
<1>3. CASE MonitorReads \/ RestartMonitor
  BY <1>3 DEF MonitorReads, RestartMonitor
<1>4. CASE MonitorArms
  BY <1>4 DEF MonitorArms
<1>5. CASE MonitorFails
  BY <1>5 DEF MonitorFails
<1>6. ASSUME NEW e \in Edges, Replicate(e) PROVE SwitchTypeOK'
  BY <1>6 DEF Replicate
<1> QED BY <1>1, <1>2, <1>3, <1>4, <1>5, <1>6 DEF SwitchNext

LEMMA AccessFrame == AccessInv /\ accessVars' = accessVars /\ SwitchTypeOK' => AccessInv'
<1> SUFFICES ASSUME AccessInv, accessVars' = accessVars, SwitchTypeOK' PROVE AccessInv'
  OBVIOUS
<1> USE DEF accessVars, storeVars, memoryVars, configVars, worldVars, AccessInv
<1>1. TypeOK'
  BY DEF TypeOK
<1>2. Stored' /\ Booting' /\ ReadyDeviceCanSign'
  BY DEF Stored, Booting, ReadyDeviceCanSign, Holds
<1>3. Granted' /\ QuotaSpentByOwner'
  BY DEF Granted, QuotaSpentByOwner, At, Holds, verifySignature
<1> QED BY <1>1, <1>2, <1>3

LEMMA AccessStep == AccessInv /\ [Next]_vars => AccessInv'
<1> SUFFICES ASSUME AccessInv, [Next]_vars PROVE AccessInv'
  OBVIOUS
<1>1. CASE AccessNext /\ UNCHANGED switchVars
  BY <1>1, ClientKeeps, HandlerKeeps DEF AccessNext
<1>2. CASE SwitchNext /\ UNCHANGED accessVars
  BY <1>2, SwitchTyped, AccessFrame DEF AccessInv, TypeOK
<1>3. CASE UNCHANGED vars
  <2>1. SwitchTypeOK' /\ accessVars' = accessVars
    BY <1>3 DEF vars, switchVars, AccessInv, TypeOK, SwitchTypeOK
  <2> QED BY <2>1, AccessFrame
<1> QED BY <1>1, <1>2, <1>3 DEF Next

LEMMA AccessInit == Init => AccessInv
<1> SUFFICES ASSUME Init PROVE AccessInv
  OBVIOUS
<1>1. TypeOK
  <2>1. SwitchTypeOK
    <3>1. spend \in 0..MaxSpend
      BY KillSwitchAssumption DEF Init, SwitchInit
    <3>2. edge \in [Edges -> BOOLEAN]
      BY Zenon DEF Init, SwitchInit
    <3> QED BY <3>1, <3>2 DEF Init, SwitchInit, SwitchTypeOK
  <2>2. req \in [Requests -> Request]
    BY RequestFacts DEF Init
  <2>3. registry \in Seq(Keys) /\ Len(registry) <= MaxDevices
    BY AccessAssumption DEF Init
  <2>4. keys \in 0..MaxKeys /\ reloads \in 0..MaxReloads
    BY AccessAssumption DEF Init
  <2> QED BY <2>1, <2>2, <2>3, <2>4 DEF Init, TypeOK
<1>2. Stored /\ Booting /\ ReadyDeviceCanSign /\ Granted /\ QuotaSpentByOwner
  BY DEF Init, Stored, Booting, ReadyDeviceCanSign, Granted, QuotaSpentByOwner, At
<1> QED BY <1>1, <1>2 DEF AccessInv

-----------------------------------------------------------------------------
\* Identity, storage, registry and requests stay well-formed: a READY client
\* has a key and an id.
THEOREM TypeCorrect == Spec => []TypeOK
<1>1. AccessInv => TypeOK
  BY DEF AccessInv
<1> QED BY <1>1, AccessInit, AccessStep, PTL DEF Spec

\* Wherever boot or registration was cut off, a client that is READY signs with
\* the key the gateway holds for its id, unless the browser dropped the key.
THEOREM ReadyCanSign == Spec => []ReadyDeviceCanSign
<1>1. AccessInv => ReadyDeviceCanSign
  BY DEF AccessInv
<1> QED BY <1>1, AccessInit, AccessStep, PTL DEF Spec

\* Nobody's quota is charged for a request that is not signed with the key of
\* the device it names, nor for an upload that cannot be presigned.
THEOREM OwnerSpendsQuota == Spec => []QuotaSpentByOwner
<1>1. AccessInv => QuotaSpentByOwner
  BY DEF AccessInv
<1> QED BY <1>1, AccessInit, AccessStep, PTL DEF Spec

\* With the switch on at every edge no request gets past the gate.
THEOREM ClosedEdgesHold == Spec => ClosedEdgesAdmitNobody
<1> DEFINE Closed == (\A e \in Edges : edge[e]) => PastGate' \subseteq PastGate
<1>1. AccessInv /\ [Next]_vars => [Closed]_vars
  <2> SUFFICES ASSUME AccessInv, Next, \A e \in Edges : edge[e], NEW o \in PastGate'
               PROVE  o \in PastGate
    OBVIOUS
  <2>0. o \in Requests /\ req \in [Requests -> Request]
    BY DEF PastGate, AccessInv, TypeOK
  <2>same. ASSUME req'[o] = req[o] PROVE o \in PastGate
    BY <2>0, <2>same DEF PastGate, At
  <2>1. ASSUME NEW kind, NEW d, Issue(kind, d) PROVE o \in PastGate
    BY <2>0, <2>1, <2>same DEF Issue, PastGate, At
  <2>2. CASE Register \/ Sign
    BY <2>1, <2>2 DEF Register, Sign
  <2>3. CASE Registered \/ \E r \in Requests : Forget(r)
    BY <2>0, <2>3, <2>same DEF Registered, Forget, PastGate, At
  <2>4. ASSUME NEW r \in Requests, Gate(r) \/ Authenticate(r) \/ Charge(r) \/ Work(r)
        PROVE  o \in PastGate
    <3>1. CASE o # r
      BY <2>0, <2>4, <2>same, <3>1 DEF Gate, Authenticate, Charge, Work, RegisterDevice, MintUrls, AcceptJob, Goto
    <3>2. CASE o = r /\ ~Gate(r)
      BY <2>4, <3>2 DEF Authenticate, Charge, Work, RegisterDevice, MintUrls, AcceptJob, PastGate, At
    <3>3. CASE o = r /\ Gate(r)
      <4>1. At(r, "gate") /\ Goto(r, "refused")
        BY <3>3 DEF Gate, isKillSwitchActive
      <4>2. req'[r].at = "refused"
        BY <4>1, StageStep, StageFacts DEF At
      <4> QED BY <3>3, <4>2 DEF PastGate, At
    <3> QED BY <2>4, <3>1, <3>2, <3>3
  <2>5. CASE BootLoads \/ SaveKey \/ BootEnds \/ Reload \/ Evict \/ UNCHANGED accessVars
    BY <2>5, <2>same DEF BootLoads, SaveKey, BootEnds, Reload, Evict, accessVars
  <2> QED BY <2>2, <2>3, <2>4, <2>5 DEF Next, AccessNext
<1> QED BY <1>1, AccessInit, AccessStep, PTL DEF Spec, ClosedEdgesAdmitNobody

\* Neither the monitor nor a mangled call turns the switch off.
THEOREM FalseDisarms == Spec => OnlyFalseDisarms
<1>1. [Next]_vars => [killSwitch /\ ~killSwitch' => clearAsked']_switchVars
  BY DEF Next, SwitchNext, OperatorCalls, AdminCall, Spend, MonitorReads, MonitorArms,
         MonitorFails, RestartMonitor, Replicate, vars, Body
<1> QED BY <1>1, PTL DEF Spec, OnlyFalseDisarms
=============================================================================
