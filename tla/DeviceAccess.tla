---------------------------- MODULE DeviceAccess -----------------------------
(***************************************************************************)
(* A device's identity and its way into the gateway: key and registration  *)
(* (apps/client/src/App.tsx, lib/keystore.ts), signed requests             *)
(* (lib/transport.ts, packages/crypto-utils), and the checks register,     *)
(* presign and create make before they work (apps/gateway/src/index.ts),   *)
(* under the kill switch.                                                  *)
(*                                                                         *)
(* A key stands for a key pair: a signature made with a key verifies       *)
(* against that key only.  A reload loses memory and whatever the boot     *)
(* sequence had not stored yet; requests at the gateway go on.             *)
(***************************************************************************)
EXTENDS KillSwitch, Sequences

CONSTANTS
  MaxKeys, MaxDevices,   \* bounds
  Requests,
  None,
  MaxReloads      \* bound

ASSUME AccessAssumption ==
  /\ None \notin Nat
  /\ MaxKeys \in Nat /\ MaxDevices \in Nat /\ MaxReloads \in Nat

VARIABLES
  idbKey,         \* IndexedDB: the private key
  lsPub, lsDev,   \* localStorage: omni_public_key, omni_device_id
  identity,       \* "SAVED": GENERATING, the key is in IndexedDB
  key, device,    \* privateKeyRef / publicKeyJwk, deviceId
  turnstile,      \* TURNSTILE_SITE_KEY is configured
  attempted,      \* autoRegisterAttemptedRef
  registry,       \* the public keys under device:<id>, by id
  req,            \* [Requests -> the request]
  provisioned,    \* the R2 secrets are there
  keys,           \* key pairs generated so far
  evicted,        \* the browser dropped IndexedDB at some time
  reloads

storeVars == <<idbKey, lsPub, lsDev>>
memoryVars == <<identity, key, device, attempted>>
configVars == <<turnstile, provisioned>>
worldVars == <<keys, evicted, reloads>>
accessVars == <<storeVars, memoryVars, configVars, registry, req, worldVars>>
vars == <<switchVars, accessVars>>

Keys == 1..MaxKeys          \* fresh keys and ids are numbered
Devices == 1..MaxDevices
Kind == {"register", "presign", "create"}
Stage == {"gate", "auth", "charge", "work", "done", "refused"}
Idle == [at |-> "free"]
Request ==
  {Idle} \cup [at: Stage, kind: Kind, key: Keys, device: Devices \cup {None}]

TypeOK ==
  /\ SwitchTypeOK
  /\ {idbKey, lsPub, key} \subseteq Keys \cup {None}
  /\ {lsDev, device} \subseteq Devices \cup {None}
  /\ identity \in {"BOOTING", "GENERATING", "SAVED", "NEEDS_REGISTRATION", "REGISTERING",
                   "READY", "ERROR"}
  /\ identity = "READY" => None \notin {key, device}
  /\ {turnstile, attempted, provisioned, evicted} \subseteq BOOLEAN
  /\ registry \in Seq(Keys) /\ Len(registry) <= MaxDevices
  /\ req \in [Requests -> Request]
  /\ keys \in 0..MaxKeys
  /\ reloads \in 0..MaxReloads

Init ==
  /\ SwitchInit
  /\ idbKey = None /\ lsPub = None /\ lsDev = None
  /\ identity = "BOOTING" /\ key = None /\ device = None /\ attempted = FALSE
  /\ turnstile \in BOOLEAN /\ provisioned \in BOOLEAN
  /\ registry = <<>>
  /\ req = [r \in Requests |-> Idle]
  /\ keys = 0 /\ evicted = FALSE /\ reloads = 0

-----------------------------------------------------------------------------
(* The client: boot, registration.                                         *)

BootLoads ==
  /\ identity = "BOOTING"
  /\ \/ /\ None \notin {idbKey, lsPub, lsDev}
        /\ identity' = "READY" /\ key' = idbKey /\ device' = lsDev
     \/ /\ None \in {idbKey, lsPub, lsDev}
        /\ identity' = "GENERATING"
        /\ UNCHANGED <<key, device>>
     \/ identity' = "ERROR" /\ UNCHANGED <<key, device>>      \* IndexedDB failed
  /\ UNCHANGED <<attempted, storeVars, configVars, registry, req, worldVars>>

SaveKey_Bug ==                 \* does not wait for the transaction
  /\ identity = "GENERATING"
  /\ keys < MaxKeys /\ keys' = keys + 1
  /\ key' = keys'
  /\ idbKey' \in {idbKey, key'}
  /\ identity' = "SAVED"
  /\ UNCHANGED <<device, attempted, lsPub, lsDev, configVars, registry, req, evicted, reloads>>

\* generateECDSAKeyPair, then savePrivateKey until its transaction completes.
SaveKey ==
  /\ identity = "GENERATING"
  /\ keys < MaxKeys /\ keys' = keys + 1
  /\ key' = keys'
  /\ \/ idbKey' = key' /\ identity' = "SAVED"
     \/ idbKey' = idbKey /\ identity' = "ERROR"
  /\ UNCHANGED <<device, attempted, lsPub, lsDev, configVars, registry, req, evicted, reloads>>

BootEnds ==
  /\ identity = "SAVED" /\ identity' = "NEEDS_REGISTRATION"
  /\ lsPub' = key
  /\ UNCHANGED <<idbKey, lsDev, key, device, attempted, configVars, registry, req, worldVars>>

Issue(kind, d) ==
  \E r \in Requests :
    /\ req[r] = Idle
    /\ req' = [req EXCEPT ![r] = [at |-> "gate", kind |-> kind, key |-> key, device |-> d]]

\* register: on the widget's token, or once by itself without Turnstile.
Register ==
  /\ identity = "NEEDS_REGISTRATION" /\ identity' = "REGISTERING"
  /\ turnstile \/ ~attempted
  /\ attempted' = (attempted \/ ~turnstile)
  /\ Issue("register", None)
  /\ UNCHANGED <<key, device, storeVars, configVars, registry, worldVars>>

Registered_Bug ==              \* reads the id from any answer
  /\ identity = "REGISTERING" /\ identity' = "READY"
  /\ \E r \in Requests :
       /\ req[r] # Idle /\ req[r].at \in {"done", "refused"} /\ req[r].kind = "register"
       /\ lsDev' = req[r].device /\ device' = req[r].device
       /\ req' = [req EXCEPT ![r] = Idle]
  /\ UNCHANGED <<idbKey, lsPub, key, attempted, configVars, registry, worldVars>>

\* Its answer: 201 with the id, a refusal, or none.
Registered ==
  /\ identity = "REGISTERING"
  /\ \/ \E r \in Requests :
          /\ req[r] # Idle /\ req[r].at = "done" /\ req[r].kind = "register"
          /\ req[r].key = key
          /\ lsDev' = req[r].device /\ device' = req[r].device
          /\ req' = [req EXCEPT ![r] = Idle]
          /\ identity' = "READY"
     \/ /\ identity' = "NEEDS_REGISTRATION"
        /\ UNCHANGED <<lsDev, device, req>>
  /\ UNCHANGED <<idbKey, lsPub, key, attempted, configVars, registry, worldVars>>

\* uploadAudioForWorker and submitJob: sign { jobId, timestamp } or the job.
Sign ==
  /\ identity = "READY"
  /\ \E kind \in {"presign", "create"} : Issue(kind, device)
  /\ UNCHANGED <<storeVars, memoryVars, configVars, registry, worldVars>>

Reload ==
  /\ reloads < MaxReloads /\ reloads' = reloads + 1
  /\ identity' = "BOOTING" /\ key' = None /\ device' = None /\ attempted' = FALSE
  /\ UNCHANGED <<storeVars, configVars, registry, req, keys, evicted>>

\* The browser may drop IndexedDB and keep localStorage.
Evict ==
  /\ idbKey # None /\ idbKey' = None /\ evicted' = TRUE
  /\ UNCHANGED <<lsPub, lsDev, memoryVars, configVars, registry, req, keys, reloads>>

-----------------------------------------------------------------------------
(* The gateway: every handler reads the switch, authenticates, charges,    *)
(* works, in that order; each is an await of its own.                      *)

At(r, stage) == req[r] # Idle /\ req[r].at = stage
Goto(r, stage) == req' = [req EXCEPT ![r].at = stage]
ServerFrame == UNCHANGED <<storeVars, memoryVars, configVars, worldVars>>

verifySignature(q) == q.device \in DOMAIN registry /\ registry[q.device] = q.key

Gate_Bug(r) ==                 \* the presign handler forgets the switch
  /\ At(r, "gate")
  /\ \E e \in Edges :
       Goto(r, IF isKillSwitchActive(e) /\ req[r].kind # "presign" THEN "refused" ELSE "auth")
  /\ UNCHANGED registry /\ ServerFrame

\* A request reaches some edge.  Each of the three handlers begins so
\* (index.ts:427, 458, 667).
Gate(r) ==
  /\ At(r, "gate")
  /\ \E e \in Edges : Goto(r, IF isKillSwitchActive(e) THEN "refused" ELSE "auth")
  /\ UNCHANGED registry /\ ServerFrame

\* A signature must verify against the registry (create and presign,
\* index.ts:462-487, 671-700); presign also needs R2 (index.ts:721-726).
Admissible(q) ==
  q.kind # "register" => verifySignature(q) /\ (q.kind = "presign" => provisioned)

Authenticate_Bug(r) ==         \* the quota is taken first
  /\ At(r, "auth")
  /\ Goto(r, "charge")
  /\ UNCHANGED registry /\ ServerFrame

\* Turnstile may fail (register, index.ts:432-440), and a signed request may
\* arrive outside the replay window of its timestamp (index.ts:489-494,
\* 703-706): any request may be refused.
Authenticate(r) ==
  /\ At(r, "auth")
  /\ \/ Admissible(req[r]) /\ Goto(r, "charge")
     \/ Goto(r, "refused")
  /\ UNCHANGED registry /\ ServerFrame

\* The quota of register (index.ts:441-448) and presign (728-738): module
\* KvThrottle says how they decide, JobDispatch what create does from here on.
Charge(r) ==
  /\ At(r, "charge")
  /\ Goto(r, "work") \/ Goto(r, "refused")
  /\ UNCHANGED registry /\ ServerFrame

RegisterDevice(r) ==           \* a new device id for the key
  /\ req[r].kind = "register"
  /\ Len(registry) < MaxDevices
  /\ registry' = Append(registry, req[r].key)
  /\ req' = [req EXCEPT ![r].at = "done", ![r].device = Len(registry')]

MintUrls(r) ==                 \* a pair of urls, or a failure after the charge
  /\ req[r].kind = "presign"
  /\ Goto(r, "done") \/ Goto(r, "refused")
  /\ UNCHANGED registry

AcceptJob(r) ==
  /\ req[r].kind = "create"
  /\ Goto(r, "done")
  /\ UNCHANGED registry

\* What a handler does once nothing refuses the request.
Work(r) ==
  /\ At(r, "work")
  /\ RegisterDevice(r) \/ MintUrls(r) \/ AcceptJob(r)
  /\ ServerFrame

\* The answer was used, or nobody waits for it any more.
Forget(r) ==
  /\ At(r, "done") \/ At(r, "refused")
  /\ req' = [req EXCEPT ![r] = Idle]
  /\ UNCHANGED registry /\ ServerFrame

AccessNext ==
  \/ BootLoads \/ SaveKey \/ BootEnds \/ Register \/ Registered \/ Sign
  \/ Reload \/ Evict
  \/ \E r \in Requests : Gate(r)
  \/ \E r \in Requests : Authenticate(r)
  \/ \E r \in Requests : Charge(r)
  \/ \E r \in Requests : Work(r)
  \/ \E r \in Requests : Forget(r)

Next ==
  \/ AccessNext /\ UNCHANGED switchVars
  \/ SwitchNext /\ UNCHANGED accessVars

\* The monitor loops, and its calls do not fail for ever.
Fairness ==
  /\ WF_vars(MonitorReads /\ UNCHANGED accessVars)
  /\ SF_vars(MonitorArms /\ UNCHANGED accessVars)

Spec == Init /\ [][Next]_vars /\ Fairness

-----------------------------------------------------------------------------
(* Correctness *)

\* A READY device signs with the private key whose public half the gateway
\* holds for it, wherever boot or registration was cut off.  It is not so
\* once the browser has dropped the key but kept the device id: see README.
ReadyDeviceCanSign ==
  identity = "READY" => evicted \/ (device \in DOMAIN registry /\ registry[device] = key)

\* A device's quota is only spent by requests signed with its own key, and
\* not where uploads cannot work at all (the comment at index.ts:725).
QuotaSpentByOwner ==
  \A r \in Requests :
    (At(r, "charge") \/ At(r, "work")) /\ req[r].kind # "register" =>
      verifySignature(req[r]) /\ (req[r].kind = "presign" => provisioned)

PastGate == {r \in Requests : At(r, "auth") \/ At(r, "charge") \/ At(r, "work")}

\* Once the switch has reached every edge no handler starts; what runs on
\* is what had passed before (index.ts:399).
ClosedEdgesAdmitNobody == [][(\A e \in Edges : edge[e]) => PastGate' \subseteq PastGate]_vars
=============================================================================
