---------------------------- MODULE Serve_proofs ----------------------------
(***************************************************************************)
(* Proofs about the parts of the program beside the pipeline, which share  *)
(* no state: who may use it (WebAccess), the pacing of its requests        *)
(* (Pacer), the instrumental detector (Detector), the webhook (Webhook),   *)
(* the one-shot command (FetchOnce), the pace of retries (Cadence), and    *)
(* all of them in their composition (MCServe).                             *)
(***************************************************************************)
EXTENDS MCServe, Settings_proofs, Backoff_proofs,
        FiniteSetTheorems, SequenceTheorems

-----------------------------------------------------------------------------
(* Who may use it                                                          *)

RequestPC == {"none", "setup", "insert", "welcome", "enter", "verify"}

\* There is at most one admin; a request past the insert is the admin's own.
AdminInv ==
    /\ \A x, y \in users : x = y
    /\ \A c \in Client : request[c] \in {"welcome", "enter"} => users = {c}
    /\ SecretsFromAdmin
    /\ latch => users # {}

\* The type invariant holds at the start.
LEMMA AccessInitType == AccessInit => AccessTypeOK
<1> SUFFICES ASSUME AccessInit PROVE AccessTypeOK
  OBVIOUS
<1>1. NoEntry \in [failures : Nat, lockedUntil : Nat, lastSeen : 0 .. MaxNow]
  BY AccessAssumption DEF NoEntry
<1>2. users \subseteq Client \cup {Environment} /\ sessions = {}
  BY DEF AccessInit
<1>3. /\ secret \in [SecretName -> Client \cup {"unset"}]
      /\ keys \in [Key -> {"absent", "active", "revoked"}]
  BY DEF AccessInit
<1>4. /\ attempts \in [Address -> [failures : Nat, lockedUntil : Nat, lastSeen : 0 .. MaxNow]]
      /\ request \in [Client -> RequestPC]
  BY <1>1 DEF AccessInit, RequestPC
<1>5. clock \in 0 .. MaxNow /\ restarts \in 0 .. MaxRestarts
  BY AccessAssumption DEF AccessInit
<1>6. latch \in BOOLEAN
  BY DEF AccessInit
<1> QED  BY <1>2, <1>3, <1>4, <1>5, <1>6 DEF AccessTypeOK, RequestPC

\* The session of a client expires within the bounds of the clock.
LEMMA NewSessionType ==
    ASSUME AccessTypeOK, NEW c \in Client
    PROVE  NewSession(c) \in [owner : Client, expires : 1 .. MaxNow + SessionTTL]
  BY AccessAssumption DEF AccessTypeOK, NewSession

\* The steps of the setup handler keep the types.
LEMMA SetupType ==
    ASSUME AccessTypeOK, NEW c \in Client,
           \/ SetupStarts(c) \/ SetupLooksAgain(c) \/ CreateFirstUser(c)
           \/ SetupFails(c) \/ WriteSecrets(c) \/ SetupLogsIn(c)
    PROVE  AccessTypeOK'
<1> USE DEF AccessTypeOK
<1>1. CASE SetupStarts(c)
  BY <1>1 DEF SetupStarts, Proceed, stored
<1>2. CASE SetupLooksAgain(c)
  BY <1>2 DEF SetupLooksAgain, Proceed, stored
<1>3. CASE CreateFirstUser(c)
  BY <1>3 DEF CreateFirstUser, Proceed
<1>4. CASE SetupFails(c)
  BY <1>4 DEF SetupFails, Proceed, stored
<1>5. CASE WriteSecrets(c)
  BY <1>5 DEF WriteSecrets, Proceed
<1>6. CASE SetupLogsIn(c)
  BY <1>6, NewSessionType DEF SetupLogsIn, Proceed
<1> QED  BY <1>1, <1>2, <1>3, <1>4, <1>5, <1>6

\* So do the steps that concern neither setup nor login.
LEMMA OtherType ==
    ASSUME AccessTypeOK,
           \/ LearnAdmin \/ Sweep \/ Restart \/ ClockTicks
           \/ \E c \in Client : Logout(c)
           \/ \E c \in Client \cup {Cli}, k \in Key : CreateKey(c, k) \/ RevokeKey(c, k)
    PROVE  AccessTypeOK'
<1> USE DEF AccessTypeOK
<1>1. CASE LearnAdmin
  BY <1>1 DEF LearnAdmin, stored
<1>2. CASE Sweep
  BY <1>2 DEF Sweep, inMemory
<1>3. CASE Restart
  <2>1. NoEntry \in [failures : Nat, lockedUntil : Nat, lastSeen : 0 .. MaxNow]
    BY AccessAssumption DEF NoEntry
  <2>2. users' \subseteq Client \cup {Environment}
    BY <1>3 DEF Restart, Bootstrap
  <2>3. keys' \in [Key -> {"absent", "active", "revoked"}] /\ sessions' \subseteq sessions
    BY <1>3 DEF Restart, ImportKeys
  <2>4. /\ attempts' \in [Address -> [failures : Nat, lockedUntil : Nat, lastSeen : 0 .. MaxNow]]
        /\ request' \in [Client -> {"none", "setup", "insert", "welcome", "enter", "verify"}]
    BY <1>3, <2>1 DEF Restart
  <2>5. restarts' \in 0 .. MaxRestarts
    BY <1>3, AccessAssumption DEF Restart
  <2>6. latch' \in BOOLEAN
    BY <1>3 DEF Restart
  <2> QED  BY <1>3, <2>2, <2>3, <2>4, <2>5, <2>6 DEF Restart
<1>4. CASE ClockTicks
  BY <1>4, AccessAssumption DEF ClockTicks, stored, inMemory
<1>5. CASE \E c \in Client : Logout(c)
  BY <1>5 DEF Logout, inMemory
<1>6. ASSUME NEW c, NEW k \in Key, CreateKey(c, k) \/ RevokeKey(c, k) PROVE AccessTypeOK'
  BY <1>6 DEF CreateKey, RevokeKey, inMemory
<1> QED  BY <1>1, <1>2, <1>3, <1>4, <1>5, <1>6

Entries(map) == {a \in Address : map[a].failures > 0}
Entry == [failures : Nat, lockedUntil : Nat, lastSeen : 0 .. MaxNow]

\* Making room for an address only forgets entries without an active lockout,
\* and none at all when the address is tracked already.
LEMMA RoomKeepsLocks ==
    ASSUME AccessTypeOK, NEW a \in Address, NEW map \in RoomFor(a)
    PROVE  /\ map \in [Address -> Entry]
           /\ \A b \in Address : map[b] = attempts[b] \/ (map[b] = NoEntry /\ ~Locked(b))
           /\ a \in Tracked => map = attempts
           /\ a \notin Tracked => map[a] = attempts[a] \/ map[a] = NoEntry
<1>1. attempts \in [Address -> Entry] /\ clock \in Nat /\ NoEntry \in Entry
  BY AccessAssumption DEF AccessTypeOK, Entry, NoEntry
<1>2. ASSUME NEW m \in [Address -> Entry], NEW gone
      PROVE  /\ Without(m, gone) \in [Address -> Entry]
             /\ \A b \in Address : Without(m, gone)[b] = IF b \in gone THEN NoEntry ELSE m[b]
  BY <1>1 DEF Without
<1> DEFINE idle == {b \in Tracked : ~Locked(b) /\ attempts[b].lastSeen + IdleEvict < clock}
<1>3. EvictIdle = Without(attempts, idle)
  BY DEF EvictIdle
<1>4. /\ EvictIdle \in [Address -> Entry]
      /\ \A b \in Address : EvictIdle[b] = attempts[b] \/ (EvictIdle[b] = NoEntry /\ ~Locked(b))
  <2>1. \A b \in idle : ~Locked(b)
    OBVIOUS
  <2> HIDE DEF idle
  <2> QED  BY <1>1, <1>2, <1>3, <2>1
<1>5. CASE map = attempts
  BY <1>1, <1>5
<1>6. CASE a \notin Tracked /\ map = EvictIdle
  BY <1>4, <1>6
<1>7. CASE a \notin Tracked /\ map \in EvictOldest(EvictIdle)
  <2> DEFINE open == {b \in Address : EvictIdle[b].failures > 0 /\ EvictIdle[b].lockedUntil <= clock}
  <2>1. map = EvictIdle \/ \E b \in open : map = Without(EvictIdle, {b})
    BY <1>7 DEF EvictOldest
  <2>2. CASE map = EvictIdle
    BY <1>4, <1>7, <2>2
  <2>3. CASE \E b \in open : map = Without(EvictIdle, {b})
    <3>1. PICK b \in open : map = Without(EvictIdle, {b})
      BY <2>3
    <3>2. b \in Address /\ EvictIdle[b].failures > 0 /\ EvictIdle[b].lockedUntil <= clock
      BY <3>1
    <3>3. EvictIdle[b] = attempts[b] /\ ~Locked(b)
      <4>1. NoEntry.failures = 0
        BY DEF NoEntry
      <4>2. EvictIdle[b] = attempts[b]
        BY <1>4, <3>2, <4>1
      <4>3. attempts[b].lockedUntil \in Nat /\ attempts[b].lockedUntil <= clock
        BY <1>1, <3>2, <4>2 DEF Entry
      <4> QED  BY <1>1, <4>2, <4>3 DEF Locked
    <3>4. /\ map \in [Address -> Entry]
          /\ \A o \in Address : map[o] = IF o = b THEN NoEntry ELSE EvictIdle[o]
      BY <1>2, <1>4, <3>1
    <3> QED  BY <1>4, <1>7, <3>2, <3>3, <3>4
  <2> QED  BY <2>1, <2>2, <2>3
<1> QED  BY <1>5, <1>6, <1>7 DEF RoomFor

\* The limiter's map keeps its type when a failure is recorded.
LEMMA FailedType ==
    ASSUME AccessTypeOK, NEW e \in Entry
    PROVE  /\ Failed(e) \in Entry /\ Failed(e).failures = e.failures + 1
           /\ Failed(e).failures >= MaxFailures => Failed(e).lockedUntil = clock + Lockout
           /\ Failed(e).failures < MaxFailures => Failed(e).lockedUntil = e.lockedUntil
  BY AccessAssumption DEF AccessTypeOK, Entry, Failed

\* What a failed login makes of the limiter's map.
LEMMA FailOutcome ==
    ASSUME AccessTypeOK, NEW c \in Client, LoginFails(c)
    PROVE  \E map \in RoomFor(AddressOf[c]) :
             \/ /\ AddressOf[c] \notin Tracked /\ Full(map) /\ attempts' = map
             \/ /\ AddressOf[c] \in Tracked \/ ~Full(map)
                /\ attempts' = [map EXCEPT ![AddressOf[c]] = Failed(map[AddressOf[c]])]
  BY DEF LoginFails

\* So do the steps of a login.
LEMMA LoginType ==
    ASSUME AccessTypeOK, NEW c \in Client,
           LoginAllowed(c) \/ LoginSucceeds(c) \/ LoginFails(c)
    PROVE  AccessTypeOK'
<1>1. /\ AddressOf[c] \in Address /\ NoEntry \in Entry /\ attempts \in [Address -> Entry]
  BY AccessAssumption DEF NoEntry, Entry, AccessTypeOK
<1>2. request' \in [Client -> RequestPC]
  BY DEF LoginAllowed, LoginSucceeds, LoginFails, Proceed, AccessTypeOK, RequestPC
<1>3. sessions' \subseteq [owner : Client, expires : 1 .. MaxNow + SessionTTL]
  BY NewSessionType DEF LoginAllowed, LoginSucceeds, LoginFails, AccessTypeOK, stored
<1>4. UNCHANGED <<users, secret, keys, latch, clock, restarts>>
  BY DEF LoginAllowed, LoginSucceeds, LoginFails, stored
<1>5. attempts' \in [Address -> Entry]
  <2>1. CASE LoginAllowed(c) \/ LoginSucceeds(c)
    BY <1>1, <2>1 DEF LoginAllowed, LoginSucceeds
  <2>2. CASE LoginFails(c)
    <3>1. PICK map \in RoomFor(AddressOf[c]) :
             \/ attempts' = map
             \/ attempts' = [map EXCEPT ![AddressOf[c]] = Failed(map[AddressOf[c]])]
      BY <2>2, FailOutcome
    <3>2. map \in [Address -> Entry]
      BY <1>1, RoomKeepsLocks
    <3>3. Failed(map[AddressOf[c]]) \in Entry
      BY <1>1, <3>2, FailedType
    <3> QED  BY <1>1, <3>1, <3>2, <3>3
  <2> QED  BY <2>1, <2>2
<1> QED  BY <1>2, <1>3, <1>4, <1>5 DEF AccessTypeOK, Entry, RequestPC

\* Every step keeps the types.
LEMMA AccessTypeStep == AccessTypeOK /\ [AccessNext]_accessVars => AccessTypeOK'
<1> SUFFICES ASSUME AccessTypeOK, [AccessNext]_accessVars PROVE AccessTypeOK'
  OBVIOUS
<1>1. CASE UNCHANGED accessVars
  BY <1>1 DEF accessVars, stored, inMemory, AccessTypeOK
<1> QED  BY <1>1, SetupType, OtherType, LoginType DEF AccessNext

\* The accounts, sessions, keys and the limiter keep their types, for any clients,
\* addresses, keys and bounds.
THEOREM AccessTypeTheorem == AccessSpec => []AccessTypeOK
  BY AccessInitType, AccessTypeStep, PTL DEF AccessSpec

-----------------------------------------------------------------------------
\* The invariant about the admin is inductive, and no step replaces an admin.
LEMMA AdminInvStep ==
    ASSUME AccessTypeOK, AdminInv, [AccessNext]_accessVars
    PROVE  AdminInv' /\ (users # {} => users' = users)
<1> USE DEF AccessTypeOK, AdminInv, SecretsFromAdmin
<1>1. CASE UNCHANGED <<users, secret, request>> /\ (latch' => latch \/ users # {})
  BY <1>1
<1>2. ASSUME NEW c \in Client, UNCHANGED <<users, secret>>, latch' => latch \/ users # {},
             NEW to, Proceed(c, to), to \in {"welcome", "enter"} => users = {c}
      PROVE  AdminInv' /\ (users # {} => users' = users)
  BY <1>2 DEF Proceed
<1>3. CASE Restart
  <2>1. users' = users \/ (users = {} /\ users' = {Environment})
    BY <1>3 DEF Restart, Bootstrap
  <2>2. ~latch' /\ secret' = secret /\ \A c \in Client : request'[c] = "none"
    BY <1>3 DEF Restart
  <2> QED  BY <2>1, <2>2
<1>4. ASSUME NEW c \in Client, CreateFirstUser(c)
      PROVE  AdminInv' /\ (users # {} => users' = users)
  <2>1. CASE users # {}
    BY <1>2, <1>4, <2>1 DEF CreateFirstUser
  <2>2. CASE users = {}
    <3>1. users' = {c} /\ secret' = secret /\ request' = [request EXCEPT ![c] = "welcome"]
      BY <1>4, <2>2 DEF CreateFirstUser, Proceed
    <3>2. \A b \in Client : request[b] \notin {"welcome", "enter"}
      BY <2>2
    <3>3. \A b \in Client : request'[b] \in {"welcome", "enter"} => b = c
      BY <3>1, <3>2
    <3>4. \A n \in SecretName : secret[n] = "unset"
      BY <2>2
    <3> QED  BY <3>1, <3>3, <3>4, <2>2
  <2> QED  BY <2>1, <2>2
<1>5. ASSUME NEW c \in Client, WriteSecrets(c)
      PROVE  AdminInv' /\ (users # {} => users' = users)
  <2>1. users' = users /\ latch' = latch /\ users = {c}
        /\ request' = [request EXCEPT ![c] = "enter"]
    BY <1>5 DEF WriteSecrets, Proceed
  <2>2. \A n \in SecretName : secret'[n] = c \/ secret'[n] = secret[n]
    BY <1>5 DEF WriteSecrets
  <2> QED  BY <2>1, <2>2
<1>6. ASSUME NEW c \in Client,
             \/ SetupStarts(c) \/ SetupLooksAgain(c) \/ SetupFails(c) \/ SetupLogsIn(c)
             \/ LoginAllowed(c) \/ LoginSucceeds(c) \/ LoginFails(c)
      PROVE  AdminInv' /\ (users # {} => users' = users)
  <2>1. UNCHANGED <<users, secret>> /\ (latch' => latch \/ users # {})
    BY <1>6 DEF SetupStarts, SetupLooksAgain, SetupFails, SetupLogsIn, LoginAllowed,
                LoginSucceeds, LoginFails, stored
  <2>2. \E to \in {"none", "setup", "insert", "verify"} : Proceed(c, to)
    BY <1>6 DEF SetupStarts, SetupLooksAgain, SetupFails, SetupLogsIn, LoginAllowed,
                LoginSucceeds, LoginFails
  <2> QED  BY <1>2, <2>1, <2>2
<1>7. ASSUME \/ UNCHANGED accessVars \/ LearnAdmin \/ Sweep \/ ClockTicks
             \/ \E c \in Client : Logout(c)
             \/ \E c \in Client \cup {Cli}, k \in Key : CreateKey(c, k) \/ RevokeKey(c, k)
      PROVE  AdminInv' /\ (users # {} => users' = users)
  <2>1. UNCHANGED <<users, secret, request>> /\ (latch' => latch \/ users # {})
    BY <1>7 DEF accessVars, LearnAdmin, Sweep, ClockTicks, Logout, CreateKey, RevokeKey,
                stored, inMemory
  <2> QED  BY <1>1, <2>1
<1> QED  BY <1>3, <1>4, <1>5, <1>6, <1>7 DEF AccessNext

\* Concurrent setups, and bootstraps at later starts, never add or replace the
\* admin; the loser of the race (CreateFirstUser) leaves no secret behind, and a
\* latched process has an admin.
THEOREM AdminTheorem == AccessSpec => AdminStays
<1>1. AccessInit => AdminInv
  BY DEF AccessInit, AdminInv, SecretsFromAdmin
<1>2. ASSUME AdminInv' PROVE Cardinality(users') <= 1
  <2>1. CASE users' = {}
    BY <2>1, FS_EmptySet
  <2>2. CASE users' # {}
    <3>1. PICK u \in users' : TRUE
      BY <2>2
    <3>3. users' = {u}
      BY <1>2, <3>1 DEF AdminInv
    <3>2. Cardinality({u}) = 1
      BY FS_Singleton
    <3> QED  BY <3>2, <3>3
  <2> QED  BY <2>1, <2>2
<1>3. AccessTypeOK /\ AdminInv /\ [AccessNext]_accessVars =>
        /\ AdminInv'
        /\ [/\ (users # {} => users' = users) /\ Cardinality(users') <= 1
            /\ SecretsFromAdmin' /\ (latch' => users' # {})]_accessVars
  BY <1>2, AdminInvStep DEF AdminInv
<1> QED  BY <1>1, <1>3, AccessTypeTheorem, PTL DEF AccessSpec, AdminStays

\* A revoked key stays revoked (RevokeKey, keyService), also over restarts with
\* a configuration that still lists it.
THEOREM RevokedTheorem == AccessSpec => RevokedStays
<1>1. AccessTypeOK /\ [AccessNext]_accessVars =>
        [\A k \in Key : keys[k] = "revoked" => keys'[k] = "revoked"]_accessVars
  <2> SUFFICES ASSUME AccessTypeOK, AccessNext, NEW k \in Key, keys[k] = "revoked"
               PROVE  keys'[k] = "revoked"
    OBVIOUS
  <2>1. CASE Restart
    BY <2>1 DEF Restart, ImportKeys
  <2>2. ASSUME NEW c, NEW o \in Key, CreateKey(c, o) \/ RevokeKey(c, o)
        PROVE  keys'[k] = "revoked"
    BY <2>2 DEF CreateKey, RevokeKey, AccessTypeOK
  <2>3. ASSUME \/ LearnAdmin \/ Sweep \/ ClockTicks
               \/ \E c \in Client :
                    \/ SetupStarts(c) \/ SetupLooksAgain(c) \/ CreateFirstUser(c)
                    \/ SetupFails(c) \/ WriteSecrets(c) \/ SetupLogsIn(c)
                    \/ LoginAllowed(c) \/ LoginSucceeds(c) \/ LoginFails(c) \/ Logout(c)
        PROVE  keys' = keys
    BY <2>3 DEF LearnAdmin, Sweep, ClockTicks, SetupStarts, SetupLooksAgain, CreateFirstUser,
                SetupFails, WriteSecrets, SetupLogsIn, LoginAllowed, LoginSucceeds, LoginFails,
                Logout, stored
  <2> QED  BY <2>1, <2>2, <2>3 DEF AccessNext
<1> QED  BY <1>1, AccessTypeTheorem, PTL DEF AccessSpec, RevokedStays

-----------------------------------------------------------------------------
\* The clients behind an address, and those of them let in to be verified.
Behind(a) == {c \in Client : AddressOf[c] = a}
Verifying(a) == {c \in Behind(a) : request[c] = "verify"}

\* The limiter counts a failure for every request it lets in at most, a count
\* at the limit comes with a lockout, and no lockout is longer than Lockout.
AddressOK(a) ==
    /\ attempts[a].failures >= MaxFailures => attempts[a].lockedUntil > 0
    /\ attempts[a].lockedUntil <= clock + Lockout
    /\ attempts[a].failures + Cardinality(Verifying(a)) < MaxFailures + Cardinality(Behind(a))

LimiterInv ==
    /\ IsFiniteSet(Tracked) /\ Cardinality(Tracked) <= MaxEntries
    /\ \A a \in Address : AddressOK(a)

\* The clients behind an address are finitely many.
LEMMA BehindFinite ==
    ASSUME NEW a \in Address
    PROVE  /\ IsFiniteSet(Behind(a)) /\ Cardinality(Behind(a)) \in Nat
           /\ IsFiniteSet(Verifying(a)) /\ Cardinality(Verifying(a)) \in Nat
           /\ Cardinality(Verifying(a)) <= Cardinality(Behind(a))
<1>1. Behind(a) \subseteq Client /\ Verifying(a) \subseteq Behind(a)
  BY DEF Behind, Verifying
<1>2. IsFiniteSet(Behind(a))
  BY <1>1, FS_Subset, AccessAssumption
<1>3. IsFiniteSet(Verifying(a)) /\ Cardinality(Verifying(a)) <= Cardinality(Behind(a))
  BY <1>1, <1>2, FS_Subset
<1> QED  BY <1>2, <1>3, FS_CardinalityType

\* Nobody is let in and the map stays.
LEMMA LimiterQuiet ==
    ASSUME AccessTypeOK, AccessTypeOK', LimiterInv, attempts' = attempts,
           clock' >= clock,
           \A c \in Client : request'[c] = "verify" => request[c] = "verify"
    PROVE  LimiterInv'
<1>1. Tracked' = Tracked
  BY DEF Tracked
<1>2. ASSUME NEW a \in Address PROVE AddressOK(a)'
  <2>1. Behind(a)' = Behind(a) /\ Verifying(a)' \subseteq Verifying(a)
    BY DEF Behind, Verifying
  <2>2. Cardinality(Verifying(a)') \in Nat /\ Cardinality(Verifying(a)') <= Cardinality(Verifying(a))
    BY <2>1, BehindFinite, FS_Subset, FS_CardinalityType
  <2>3. /\ attempts[a].failures \in Nat /\ attempts[a].lockedUntil \in Nat
        /\ clock \in Nat /\ clock' \in Nat /\ Lockout \in Nat /\ MaxFailures \in Nat
    BY AccessAssumption DEF AccessTypeOK
  <2>4. AddressOK(a)
    BY DEF LimiterInv
  <2>5. Cardinality(Verifying(a)) \in Nat /\ Cardinality(Behind(a)) \in Nat
    BY BehindFinite
  <2> QED  BY <2>1, <2>2, <2>3, <2>4, <2>5 DEF AddressOK
<1> QED  BY <1>1, <1>2 DEF LimiterInv

\* An address is forgotten.
LEMMA ForgottenOK ==
    ASSUME AccessTypeOK', NEW a \in Address, attempts'[a] = NoEntry
    PROVE  AddressOK(a)'
<1> DEFINE few == Cardinality(Verifying(a)')
           all == Cardinality(Behind(a))
<1>1. few \in Nat /\ all \in Nat /\ few <= all /\ Behind(a)' = Behind(a)
  <2>1. Behind(a)' = Behind(a) /\ Behind(a) \subseteq Client /\ Verifying(a)' \subseteq Behind(a)
    BY DEF Behind, Verifying
  <2> QED  BY <2>1, BehindFinite, FS_Subset, FS_CardinalityType
<1>2. clock' \in Nat /\ Lockout \in Nat /\ MaxFailures \in Nat \ {0}
  BY AccessAssumption DEF AccessTypeOK
<1>3. attempts'[a].failures = 0 /\ attempts'[a].lockedUntil = 0
  BY DEF NoEntry
<1> HIDE DEF few, all
<1>4. ~(0 >= MaxFailures) /\ 0 <= clock' + Lockout /\ 0 + few < MaxFailures + all
  <2>1. ~(0 >= MaxFailures)
    BY <1>2
  <2>2. 0 <= clock' + Lockout
    <3>1. \A x, y \in Nat : 0 <= x + y
      OBVIOUS
    <3> QED  BY <1>2, <3>1
  <2>3. 0 + few < MaxFailures + all
    BY <1>1, <1>2
  <2> QED  BY <2>1, <2>2, <2>3
<1> QED  BY <1>1, <1>3, <1>4 DEF AddressOK, few, all

\* The request of a client changes to verify or from it.
LEMMA OneRequest ==
    ASSUME AccessTypeOK, NEW c \in Client, NEW to, Proceed(c, to)
    PROVE  /\ \A a \in Address \ {AddressOf[c]} : Verifying(a)' = Verifying(a)
           /\ to = "verify" => Verifying(AddressOf[c])' = Verifying(AddressOf[c]) \cup {c}
           /\ to # "verify" => Verifying(AddressOf[c])' = Verifying(AddressOf[c]) \ {c}
  BY DEF AccessTypeOK, Proceed, Verifying, Behind

\* A request that allow lets in keeps the account of its address.
LEMMA LimiterAllowed ==
    ASSUME AccessTypeOK, AccessTypeOK', LimiterInv, NEW c \in Client, LoginAllowed(c)
    PROVE  LimiterInv'
<1> DEFINE a == AddressOf[c]
<1>1. a \in Address /\ clock' = clock /\ Proceed(c, "verify")
  BY AccessAssumption DEF LoginAllowed
<1>2. /\ attempts'[a].failures < MaxFailures /\ attempts'[a].failures \in Nat
      /\ attempts'[a].lockedUntil = 0
  <2>1. attempts[a].failures \in Nat /\ attempts[a].lockedUntil \in Nat /\ MaxFailures \in Nat \ {0}
    BY <1>1, AccessAssumption DEF AccessTypeOK
  <2>2. attempts[a].failures >= MaxFailures => attempts[a].lockedUntil > 0
    BY <1>1 DEF LimiterInv, AddressOK
  <2>3. CASE attempts[a].lockedUntil > 0
    BY <1>1, <2>1, <2>3 DEF LoginAllowed, NoEntry, AccessTypeOK
  <2>4. CASE ~(attempts[a].lockedUntil > 0)
    BY <1>1, <2>1, <2>2, <2>4 DEF LoginAllowed
  <2> QED  BY <2>3, <2>4
<1>3. \A b \in Address \ {a} : attempts'[b] = attempts[b]
  BY DEF LoginAllowed, AccessTypeOK
<1>4. Tracked' \subseteq Tracked
  <2>1. CASE attempts[a].lockedUntil > 0
    <3>1. attempts'[a].failures = 0
      BY <1>1, <2>1 DEF LoginAllowed, NoEntry, AccessTypeOK
    <3> QED  BY <1>3, <3>1 DEF Tracked
  <2>2. CASE ~(attempts[a].lockedUntil > 0)
    BY <2>2 DEF LoginAllowed, Tracked
  <2> QED  BY <2>1, <2>2
<1>5. IsFiniteSet(Tracked') /\ Cardinality(Tracked') <= MaxEntries
  <2>1. IsFiniteSet(Tracked') /\ Cardinality(Tracked') <= Cardinality(Tracked)
    BY <1>4, FS_Subset DEF LimiterInv
  <2>2. Cardinality(Tracked) \in Nat /\ Cardinality(Tracked') \in Nat /\ MaxEntries \in Nat
    BY <2>1, FS_CardinalityType, AccessAssumption DEF LimiterInv
  <2> QED  BY <2>1, <2>2 DEF LimiterInv
<1>6. AddressOK(a)'
  <2>1. Verifying(a)' \subseteq Behind(a) /\ Behind(a)' = Behind(a)
    BY DEF Verifying, Behind
  <2> DEFINE few == Cardinality(Verifying(a)')
             all == Cardinality(Behind(a))
  <2>2. few \in Nat /\ all \in Nat /\ few <= all
    BY <1>1, <2>1, BehindFinite, FS_Subset, FS_CardinalityType
  <2>3. clock' \in Nat /\ Lockout \in Nat /\ MaxFailures \in Nat \ {0}
    BY AccessAssumption DEF AccessTypeOK
  <2> HIDE DEF a, few, all
  <2>4. attempts'[a].failures + few < MaxFailures + all
    BY <1>2, <2>2, <2>3
  <2>6. 0 <= clock' + Lockout
    <3>1. \A x, y \in Nat : 0 <= x + y
      OBVIOUS
    <3> QED  BY <2>3, <3>1
  <2>5. ~(attempts'[a].failures >= MaxFailures)
    BY <1>2, <2>3
  <2> QED  BY <1>2, <2>1, <2>4, <2>5, <2>6 DEF AddressOK, few, all
<1>7. ASSUME NEW b \in Address \ {a} PROVE AddressOK(b)'
  <2>1. Verifying(b)' = Verifying(b) /\ Behind(b)' = Behind(b)
    BY <1>1, OneRequest DEF Behind
  <2> QED  BY <1>1, <1>3, <2>1 DEF AddressOK, LimiterInv
<1> QED  BY <1>1, <1>5, <1>6, <1>7 DEF LimiterInv

\* A successful login, which forgets the failures of its address, keeps it.
LEMMA LimiterSucceeds ==
    ASSUME AccessTypeOK, AccessTypeOK', LimiterInv, NEW c \in Client, LoginSucceeds(c)
    PROVE  LimiterInv'
<1> DEFINE a == AddressOf[c]
<1>1. a \in Address /\ clock' = clock /\ Proceed(c, "none") /\ attempts'[a] = NoEntry
  BY AccessAssumption DEF LoginSucceeds, AccessTypeOK
<1>3. \A b \in Address \ {a} : attempts'[b] = attempts[b]
  BY DEF LoginSucceeds, AccessTypeOK
<1>4. Tracked' \subseteq Tracked
  BY <1>1, <1>3 DEF Tracked, NoEntry
<1>5. IsFiniteSet(Tracked') /\ Cardinality(Tracked') <= MaxEntries
  <2>1. IsFiniteSet(Tracked') /\ Cardinality(Tracked') <= Cardinality(Tracked)
    BY <1>4, FS_Subset DEF LimiterInv
  <2>2. Cardinality(Tracked) \in Nat /\ Cardinality(Tracked') \in Nat /\ MaxEntries \in Nat
    BY <2>1, FS_CardinalityType, AccessAssumption DEF LimiterInv
  <2> QED  BY <2>1, <2>2 DEF LimiterInv
<1>6. AddressOK(a)'
  BY <1>1, ForgottenOK
<1>7. ASSUME NEW b \in Address \ {a} PROVE AddressOK(b)'
  <2>1. Verifying(b)' = Verifying(b) /\ Behind(b)' = Behind(b)
    BY <1>1, OneRequest DEF Behind
  <2> QED  BY <1>1, <1>3, <2>1 DEF AddressOK, LimiterInv
<1> QED  BY <1>1, <1>5, <1>6, <1>7 DEF LimiterInv

\* A failed login, with the room it may have to make for its entry, keeps it.
LEMMA LimiterFails ==
    ASSUME AccessTypeOK, AccessTypeOK', LimiterInv, NEW c \in Client, LoginFails(c)
    PROVE  /\ LimiterInv'
           /\ \A b \in Address : Locked(b) => attempts'[b].lockedUntil >= attempts[b].lockedUntil
<1> DEFINE a == AddressOf[c]
<1>1. /\ a \in Address /\ clock' = clock /\ Proceed(c, "none") /\ request[c] = "verify"
      /\ attempts \in [Address -> Entry] /\ NoEntry \in Entry
      /\ clock \in Nat /\ Lockout \in Nat \ {0} /\ MaxFailures \in Nat \ {0} /\ MaxEntries \in Nat
  BY AccessAssumption DEF LoginFails, AccessTypeOK, Entry, NoEntry
<1>2. PICK map \in RoomFor(a) :
        \/ a \notin Tracked /\ Full(map) /\ attempts' = map
        \/ /\ a \in Tracked \/ ~Full(map)
           /\ attempts' = [map EXCEPT ![a] = Failed(map[a])]
  BY FailOutcome
<1>3. /\ map \in [Address -> Entry]
      /\ \A b \in Address : map[b] = attempts[b] \/ (map[b] = NoEntry /\ ~Locked(b))
      /\ a \in Tracked => map = attempts
  BY <1>1, RoomKeepsLocks
<1> HIDE DEF a
<1>4. \A b \in Address \ {a} : attempts'[b] = map[b]
  BY <1>2, <1>3
<1>5. IsFiniteSet(Tracked') /\ Cardinality(Tracked') <= MaxEntries
  <2>1. Entries(map) \subseteq Tracked
    BY <1>3 DEF Entries, Tracked, NoEntry
  <2>2. /\ IsFiniteSet(Entries(map)) /\ Cardinality(Entries(map)) \in Nat
        /\ Cardinality(Entries(map)) <= MaxEntries
    <3>1. IsFiniteSet(Entries(map)) /\ Cardinality(Entries(map)) <= Cardinality(Tracked)
      BY <2>1, FS_Subset DEF LimiterInv
    <3>2. Cardinality(Tracked) \in Nat /\ Cardinality(Entries(map)) \in Nat
      BY <3>1, FS_CardinalityType DEF LimiterInv
    <3> QED  BY <1>1, <3>1, <3>2 DEF LimiterInv
  <2>3. CASE attempts' = map
    <3>1. Tracked' = Entries(map)
      BY <2>3 DEF Tracked, Entries
    <3> QED  BY <2>2, <3>1
  <2>4. CASE a \in Tracked /\ attempts' = [map EXCEPT ![a] = Failed(map[a])]
    <3>1. Tracked' \subseteq Tracked
      BY <1>1, <1>3, <1>4, <2>4 DEF Tracked
    <3>2. IsFiniteSet(Tracked') /\ Cardinality(Tracked') <= Cardinality(Tracked)
      BY <3>1, FS_Subset DEF LimiterInv
    <3>3. Cardinality(Tracked) \in Nat /\ Cardinality(Tracked') \in Nat
      BY <3>2, FS_CardinalityType DEF LimiterInv
    <3> QED  BY <1>1, <3>2, <3>3 DEF LimiterInv
  <2>5. CASE ~Full(map) /\ attempts' = [map EXCEPT ![a] = Failed(map[a])]
    <3>1. Tracked' \subseteq Entries(map) \cup {a}
      BY <1>4 DEF Tracked, Entries
    <3>2. Cardinality(Entries(map)) < MaxEntries
      BY <1>1, <2>2, <2>5 DEF Full, Entries
    <3>3. /\ IsFiniteSet(Entries(map) \cup {a})
          /\ Cardinality(Entries(map) \cup {a}) <= Cardinality(Entries(map)) + 1
      BY <2>2, FS_AddElement
    <3>4. /\ IsFiniteSet(Tracked')
          /\ Cardinality(Tracked') <= Cardinality(Entries(map) \cup {a})
      BY <3>1, <3>3, FS_Subset
    <3>5. Cardinality(Entries(map) \cup {a}) \in Nat /\ Cardinality(Tracked') \in Nat
      BY <3>3, <3>4, FS_CardinalityType
    <3> QED  BY <1>1, <2>2, <3>2, <3>3, <3>4, <3>5
  <2> QED  BY <1>2, <2>3, <2>4, <2>5
<1>6. AddressOK(a)'
  <2>1. CASE attempts'[a] = NoEntry
    BY <1>1, <2>1, ForgottenOK
  <2> DEFINE few == Cardinality(Verifying(a)')
             some == Cardinality(Verifying(a))
             all == Cardinality(Behind(a))
  <2>2. /\ some \in Nat /\ all \in Nat /\ few \in Nat /\ some = few + 1 /\ some <= all
        /\ Behind(a)' = Behind(a)
    <3>1. Verifying(a)' = Verifying(a) \ {c} /\ c \in Verifying(a) /\ Behind(a)' = Behind(a)
      BY <1>1, OneRequest DEF Verifying, Behind, a
    <3>2. /\ IsFiniteSet(Verifying(a)) /\ some \in Nat /\ all \in Nat /\ some <= all
      BY <1>1, BehindFinite
    <3>3. IsFiniteSet(Verifying(a)') /\ few = some - 1
      BY <3>1, <3>2, FS_RemoveElement
    <3>4. few \in Nat
      BY <3>3, FS_CardinalityType
    <3> QED  BY <3>1, <3>2, <3>3, <3>4
  <2>3. AddressOK(a) /\ attempts[a].failures \in Nat /\ attempts[a].lockedUntil \in Nat
    BY <1>1 DEF LimiterInv, Entry
  <2> HIDE DEF few, some, all
  <2>4. CASE attempts'[a] = attempts[a]
    BY <1>1, <2>2, <2>3, <2>4 DEF AddressOK, few, some, all
  <2>5. CASE attempts'[a] = Failed(map[a])
    <3>1. /\ map[a] \in Entry /\ map[a].failures <= attempts[a].failures
          /\ map[a].lockedUntil <= attempts[a].lockedUntil /\ map[a].failures \in Nat
          /\ map[a].lockedUntil \in Nat
      BY <1>1, <1>3, <2>3 DEF NoEntry, Entry
    <3>2. /\ attempts'[a].failures = map[a].failures + 1
          /\ attempts'[a].failures >= MaxFailures => attempts'[a].lockedUntil = clock + Lockout
          /\ attempts'[a].failures < MaxFailures => attempts'[a].lockedUntil = map[a].lockedUntil
      BY <2>5, <3>1, FailedType
    <3> QED  BY <1>1, <2>2, <2>3, <3>1, <3>2 DEF AddressOK, few, some, all
  <2> QED  BY <1>1, <1>2, <1>3, <2>1, <2>4, <2>5
<1>7. ASSUME NEW b \in Address \ {a} PROVE AddressOK(b)'
  <2>1. Verifying(b)' = Verifying(b) /\ Behind(b)' = Behind(b)
    BY <1>1, OneRequest DEF Behind, a
  <2>2. CASE attempts'[b] = NoEntry
    BY <2>2, ForgottenOK
  <2>3. CASE attempts'[b] = attempts[b]
    BY <1>1, <2>1, <2>3 DEF AddressOK, LimiterInv
  <2> QED  BY <1>3, <1>4, <2>2, <2>3
<1>8. ASSUME NEW b \in Address, Locked(b)
      PROVE  attempts'[b].lockedUntil >= attempts[b].lockedUntil
  <2>1. map[b] = attempts[b] /\ attempts[b].lockedUntil \in Nat /\ attempts[b] \in Entry
    BY <1>1, <1>3, <1>8 DEF Entry
  <2>2. CASE attempts'[b] = map[b]
    BY <2>1, <2>2
  <2>3. CASE b = a /\ attempts'[a] = Failed(map[a])
    <3>1. \/ attempts'[b].lockedUntil = clock + Lockout
          \/ attempts'[b].lockedUntil = attempts[b].lockedUntil
      <4>1. map[a] \in Entry /\ Failed(map[a]).failures \in Nat
        BY <2>1, <2>3, FailedType DEF Entry
      <4> QED  BY <1>1, <2>1, <2>3, <4>1, FailedType
    <3>2. attempts[b].lockedUntil <= clock + Lockout
      BY DEF LimiterInv, AddressOK
    <3> QED  BY <1>1, <2>1, <3>1, <3>2
  <2> QED  BY <1>1, <1>2, <1>3, <1>4, <2>2, <2>3
<1> QED  BY <1>1, <1>5, <1>6, <1>7, <1>8 DEF LimiterInv

\* The limiter's invariant is inductive.
LEMMA LimiterStep ==
    ASSUME AccessTypeOK, AccessTypeOK', LimiterInv, [AccessNext]_accessVars
    PROVE  LimiterInv'
<1>1. CASE Restart
  <2>1. \A a \in Address : attempts'[a] = NoEntry
    BY <1>1 DEF Restart
  <2>2. Tracked' = {}
    BY <2>1 DEF Tracked, NoEntry
  <2>3. IsFiniteSet(Tracked') /\ Cardinality(Tracked') <= MaxEntries
    BY <2>2, FS_EmptySet, AccessAssumption
  <2> QED  BY <2>1, <2>3, ForgottenOK DEF LimiterInv
<1>2. ASSUME \/ UNCHANGED accessVars \/ LearnAdmin \/ Sweep \/ ClockTicks
             \/ \E c \in Client : Logout(c)
             \/ \E c \in Client \cup {Cli}, k \in Key : CreateKey(c, k) \/ RevokeKey(c, k)
      PROVE  LimiterInv'
  <2>1. UNCHANGED <<attempts, request>>
    BY <1>2 DEF accessVars, LearnAdmin, Sweep, ClockTicks, Logout, CreateKey, RevokeKey, inMemory
  <2>2. clock' = clock \/ clock' = clock + 1
    BY <1>2 DEF accessVars, LearnAdmin, Sweep, ClockTicks, Logout, CreateKey, RevokeKey
  <2>3. clock' >= clock
    BY <2>2 DEF AccessTypeOK
  <2> QED  BY <2>1, <2>3, LimiterQuiet
<1>3. ASSUME NEW c \in Client,
             \/ SetupStarts(c) \/ SetupLooksAgain(c) \/ CreateFirstUser(c)
             \/ SetupFails(c) \/ WriteSecrets(c) \/ SetupLogsIn(c)
      PROVE  LimiterInv'
  <2>1. attempts' = attempts /\ clock' = clock
    BY <1>3 DEF SetupStarts, SetupLooksAgain, SetupFails, SetupLogsIn, CreateFirstUser, WriteSecrets
  <2>2. \E to \in {"none", "setup", "insert", "welcome", "enter"} : Proceed(c, to)
    BY <1>3 DEF SetupStarts, SetupLooksAgain, SetupFails, SetupLogsIn, CreateFirstUser, WriteSecrets
  <2>3. \A b \in Client : request'[b] = "verify" => request[b] = "verify"
    BY <2>2 DEF Proceed, AccessTypeOK
  <2>4. clock' >= clock
    BY <2>1 DEF AccessTypeOK
  <2> QED  BY <2>1, <2>3, <2>4, LimiterQuiet
<1> QED  BY <1>1, <1>2, <1>3, LimiterAllowed, LimiterSucceeds, LimiterFails DEF AccessNext

\* A lockout is only lifted by a login that was let in before it.
LEMMA LockStep ==
    ASSUME AccessTypeOK, AccessTypeOK', LimiterInv, AccessNext, NEW a \in Address,
           Locked(a), restarts' = restarts
    PROVE  \/ attempts'[a].lockedUntil >= attempts[a].lockedUntil
           \/ \E c \in Client : /\ AddressOf[c] = a /\ NewSession(c) \in sessions'
                                /\ request[c] = "verify" /\ request'[c] = "none"
<1>1. attempts[a].lockedUntil \in Nat /\ restarts \in Nat
  BY AccessAssumption DEF AccessTypeOK
<1>2. CASE attempts'[a] = attempts[a]
  BY <1>1, <1>2
<1>3. ASSUME NEW c \in Client, LoginSucceeds(c), AddressOf[c] = a
      PROVE  /\ NewSession(c) \in sessions' /\ request[c] = "verify" /\ request'[c] = "none"
  BY <1>3 DEF LoginSucceeds, Proceed, AccessTypeOK
<1>4. ASSUME NEW c \in Client, LoginSucceeds(c), AddressOf[c] # a
      PROVE  attempts'[a] = attempts[a]
  BY <1>4 DEF LoginSucceeds, AccessTypeOK
<1>5. ASSUME NEW c \in Client, LoginAllowed(c)
      PROVE  attempts'[a] = attempts[a]
  BY <1>5 DEF LoginAllowed, AccessTypeOK
<1>6. ~Restart
  <2>1. Restart => restarts' = restarts + 1
    BY DEF Restart
  <2> QED  BY <1>1, <2>1
<1>7. ASSUME \/ LearnAdmin \/ Sweep \/ ClockTicks
             \/ \E c \in Client : Logout(c)
             \/ \E c \in Client \cup {Cli}, k \in Key : CreateKey(c, k) \/ RevokeKey(c, k)
             \/ \E c \in Client :
                  \/ SetupStarts(c) \/ SetupLooksAgain(c) \/ CreateFirstUser(c)
                  \/ SetupFails(c) \/ WriteSecrets(c) \/ SetupLogsIn(c)
      PROVE  attempts'[a] = attempts[a]
  BY <1>7 DEF LearnAdmin, Sweep, ClockTicks, Logout, CreateKey, RevokeKey, inMemory,
              SetupStarts, SetupLooksAgain, SetupFails, SetupLogsIn, CreateFirstUser, WriteSecrets
<1> QED  BY <1>2, <1>3, <1>4, <1>5, <1>6, <1>7, LimiterFails DEF AccessNext

\* The login limiter keeps within its two bounds, and no lockout is lifted or
\* shortened by what happens to other addresses (allow, fail, evictOldestLocked), for any
\* number of clients and addresses.
THEOREM LockoutTheorem == AccessSpec => LockoutHeld
<1>1. AccessInit /\ AccessTypeOK => LimiterInv
  <2> SUFFICES ASSUME AccessInit, AccessTypeOK PROVE LimiterInv
    OBVIOUS
  <2>1. Tracked = {} /\ \A a \in Address : Verifying(a) = {} /\ attempts[a] = NoEntry
    BY DEF AccessInit, Tracked, Verifying, Behind, NoEntry
  <2>2. IsFiniteSet(Tracked) /\ Cardinality(Tracked) <= MaxEntries
    BY <2>1, FS_EmptySet, AccessAssumption
  <2>3. ASSUME NEW a \in Address PROVE AddressOK(a)
    <3>1. Cardinality(Verifying(a)) = 0 /\ Cardinality(Behind(a)) \in Nat
      BY <2>1, FS_EmptySet, BehindFinite
    <3>2. attempts[a].failures = 0 /\ attempts[a].lockedUntil = 0
      BY <2>1 DEF NoEntry
    <3>3. clock \in Nat /\ Lockout \in Nat /\ MaxFailures \in Nat \ {0}
      BY AccessAssumption DEF AccessTypeOK
    <3> QED  BY <3>1, <3>2, <3>3 DEF AddressOK
  <2> QED  BY <2>2, <2>3 DEF LimiterInv
<1>2. AccessTypeOK /\ LimiterInv => LimiterBounded
  <2> SUFFICES ASSUME AccessTypeOK, LimiterInv, NEW a \in Address
               PROVE  attempts[a].failures < MaxFailures + Cardinality(Behind(a))
    BY DEF LimiterBounded, LimiterInv, Behind
  <2>1. /\ attempts[a].failures \in Nat /\ MaxFailures \in Nat
        /\ Cardinality(Verifying(a)) \in Nat /\ Cardinality(Behind(a)) \in Nat
    BY BehindFinite, AccessAssumption DEF AccessTypeOK
  <2> QED  BY <2>1 DEF LimiterInv, AddressOK
<1>3. AccessTypeOK' /\ LimiterInv' => LimiterBounded'
  BY <1>2, PTL
<1>4. AccessTypeOK /\ AccessTypeOK' /\ LimiterInv /\ [AccessNext]_accessVars =>
        [/\ LimiterBounded'
         /\ \A a \in Address : Locked(a) /\ restarts' = restarts =>
            \/ attempts'[a].lockedUntil >= attempts[a].lockedUntil
            \/ \E c \in Client : /\ AddressOf[c] = a /\ NewSession(c) \in sessions'
                                 /\ request[c] = "verify" /\ request'[c] = "none"]_accessVars
  BY <1>3, LimiterStep, LockStep
<1> QED
  BY <1>1, <1>4, AccessTypeTheorem, AccessInitType, LimiterStep, PTL DEF AccessSpec, LockoutHeld

-----------------------------------------------------------------------------
(* The pacer                                                               *)

IInv == TypeOK /\ SlotsApart /\ Rollback

-----------------------------------------------------------------------------
\* The slot that pace reserves is never before now and at least the
\* configured interval after the last one, at every level.
LEMMA NextSlotApart ==
    ASSUME TypeOK
    PROVE  NextSlot \in Int /\ NextSlot >= lastRequest + minInterval /\ NextSlot >= now
<1>1. level \in {0, 1, 2, 3}
  BY DEF TypeOK, adaptiveMaxLevel
<1>2. Multiplier \in {1, 2, 4, 8}
  BY <1>1 DEF Multiplier
<1>3. minInterval * Multiplier \in Int /\ minInterval * Multiplier >= minInterval
  <2>1. minInterval \in Nat /\ minInterval > 0
    BY PacerAssumption
  <2>2. /\ minInterval * 1 >= minInterval /\ minInterval * 2 >= minInterval
        /\ minInterval * 4 >= minInterval /\ minInterval * 8 >= minInterval
    BY <2>1
  <2> QED  BY <1>2, <2>1, <2>2
<1>4. minInterval \in Nat /\ now \in Nat /\ lastRequest \in Int
  BY PacerAssumption DEF TypeOK
<1> HIDE DEF Multiplier
<1> DEFINE gap == minInterval * Multiplier
<1>5. gap \in Int /\ gap >= minInterval
  BY <1>3
<1>6. NextSlot = IF lastRequest + gap < now THEN now ELSE lastRequest + gap
  BY DEF NextSlot
<1> HIDE DEF gap
<1> QED  BY <1>4, <1>5, <1>6

\* What appending one slot to the requests let through does to them.
LEMMA SentGrows ==
    ASSUME NEW q \in Seq(Int), NEW s \in Int
    PROVE  /\ Append(q, s) \in Seq(Int)
           /\ Len(Append(q, s)) = Len(q) + 1
           /\ \A i \in 1 .. Len(q) + 1 :
                Append(q, s)[i] = IF i = Len(q) + 1 THEN s ELSE q[i]
BY AppendProperties

\* A step that leaves every slot alone keeps the invariant's spacing parts.
LEMMA SameSlots ==
    ASSUME IInv, UNCHANGED <<lastRequest, call, sent>>
    PROVE  SlotsApart' /\ Rollback'
BY DEF IInv, SlotsApart, Rollback, Asleep, Apart

\* pace's critical section: the new slot follows everything reserved so far.
LEMMA ReserveStep ==
    ASSUME IInv, NEW c \in Caller, Reserve(c)
    PROVE  IInv'
<1> DEFINE s == NextSlot
<1>1. /\ s \in Int /\ s >= lastRequest + minInterval /\ s >= now
      /\ lastRequest \in Int /\ now \in Nat /\ minInterval \in Nat \ {0}
      /\ sent \in Seq(Int) /\ Len(sent) \in Nat
  BY NextSlotApart, PacerAssumption, LenProperties DEF IInv, TypeOK
<1>2. lastRequest' = s
  BY DEF Reserve
<1>3. \A i \in 1 .. Len(sent) : sent[i] \in Int
  BY <1>1, ElementOfSeq
<1>4. call \in [Caller -> [pc : {"idle", "sleep"}, slot : Int, prev : Int]]
  BY DEF IInv, TypeOK
<1>5. /\ \A i \in 1 .. Len(sent) : sent[i] <= lastRequest
      /\ \A d \in Caller : Asleep(d) => call[d].slot <= lastRequest
  BY DEF IInv, Rollback
<1>6. ~Asleep(c)
  BY DEF Reserve, Asleep
<1> HIDE DEF s
<1>7. CASE sent' = Append(sent, s) /\ UNCHANGED call
  <2>1. /\ sent' \in Seq(Int) /\ Len(sent') = Len(sent) + 1
        /\ \A i \in 1 .. Len(sent) + 1 :
             sent'[i] = IF i = Len(sent) + 1 THEN s ELSE sent[i]
    BY <1>1, <1>7, SentGrows
  <2>2. TypeOK'
    BY <1>1, <1>2, <1>7, <2>1 DEF IInv, TypeOK, Reserve
  <2>3. \A d \in Caller : Asleep(d)' <=> Asleep(d)
    BY <1>7 DEF Asleep
  <2>4. SlotsApart'
    <3>1. \A i \in 1 .. Len(sent) : Apart(s, sent[i]) /\ Apart(sent[i], s)
      BY <1>1, <1>3, <1>5 DEF Apart
    <3>2. \A d \in Caller : Asleep(d) => Apart(call[d].slot, s)
      BY <1>1, <1>4, <1>5 DEF Apart
    <3>3. ASSUME NEW i \in 1 .. Len(sent')
          PROVE  \/ i = Len(sent) + 1 /\ sent'[i] = s
                 \/ i \in 1 .. Len(sent) /\ sent'[i] = sent[i]
      BY <1>1, <2>1
    <3>4. /\ \A i, j \in 1 .. Len(sent') : i # j => Apart(sent'[i], sent'[j])
          /\ \A d \in Caller : Asleep(d) => \A i \in 1 .. Len(sent') : Apart(call[d].slot, sent'[i])
      <4>1. /\ \A i, j \in 1 .. Len(sent) : i # j => Apart(sent[i], sent[j])
            /\ \A d \in Caller : Asleep(d) => \A i \in 1 .. Len(sent) : Apart(call[d].slot, sent[i])
        BY DEF IInv, SlotsApart
      <4> QED  BY <3>1, <3>2, <3>3, <4>1, Zenon
    <3>5. \A d, e \in Caller : (d # e /\ Asleep(d) /\ Asleep(e)) => Apart(call[d].slot, call[e].slot)
      BY DEF IInv, SlotsApart
    <3> QED  BY <1>7, <2>3, <3>4, <3>5 DEF SlotsApart, Apart
  <2>5. Rollback'
    <3>1. lastRequest <= lastRequest'
      BY <1>1, <1>2
    <3>2. ASSUME NEW i \in 1 .. Len(sent')
          PROVE  sent'[i] <= lastRequest'
      <4>1. CASE i = Len(sent) + 1
        BY <1>1, <1>2, <2>1, <4>1
      <4>2. CASE i # Len(sent) + 1
        <5>1. i \in 1 .. Len(sent) /\ sent'[i] = sent[i]
          BY <1>1, <2>1, <4>2
        <5> QED  BY <1>1, <1>2, <1>3, <1>5, <3>1, <5>1
      <4> QED  BY <4>1, <4>2
    <3>3. \A d \in Caller : Asleep(d) => call[d].slot <= lastRequest'
      BY <1>1, <1>2, <1>4, <1>5, <3>1
    <3> QED  BY <1>1, <1>2, <1>4, <1>7, <2>1, <2>3, <3>2, <3>3 DEF IInv, Rollback
  <2> QED  BY <2>2, <2>4, <2>5 DEF IInv
<1>8. CASE /\ call' = [call EXCEPT ![c] = [pc |-> "sleep", slot |-> s, prev |-> lastRequest]]
           /\ UNCHANGED sent
  <2>1. /\ call'[c] = [pc |-> "sleep", slot |-> s, prev |-> lastRequest]
        /\ \A d \in Caller \ {c} : call'[d] = call[d]
    BY <1>4, <1>8
  <2>2. TypeOK'
    BY <1>1, <1>2, <1>8 DEF IInv, TypeOK, Reserve
  <2>3. SlotsApart'
    <3>1. \A d \in Caller \ {c} : Asleep(d)' <=> Asleep(d)
      BY <2>1 DEF Asleep
    <3>2. \A d \in Caller \ {c} : Asleep(d) => Apart(call[d].slot, s) /\ Apart(s, call[d].slot)
      BY <1>1, <1>4, <1>5 DEF Apart
    <3>3. \A i \in 1 .. Len(sent) : Apart(s, sent[i])
      BY <1>1, <1>3, <1>5 DEF Apart
    <3> QED  BY <1>6, <1>8, <2>1, <3>1, <3>2, <3>3 DEF IInv, SlotsApart, Apart
  <2>4. Rollback'
    BY <1>1, <1>2, <1>3, <1>4, <1>5, <1>8, <2>1 DEF IInv, Rollback, Asleep
  <2> QED  BY <2>2, <2>3, <2>4 DEF IInv
<1>9. QED  BY <1>7, <1>8 DEF Reserve, s

\* A sleeper sends its request: its slot moves to the requests let through.
LEMMA WakeStep ==
    ASSUME IInv, NEW c \in Caller, Wake(c)
    PROVE  IInv'
<1> DEFINE s == call[c].slot
<1>1. /\ lastRequest \in Int /\ minInterval \in Nat \ {0}
      /\ sent \in Seq(Int) /\ Len(sent) \in Nat /\ s \in Int
      /\ call \in [Caller -> [pc : {"idle", "sleep"}, slot : Int, prev : Int]]
  BY PacerAssumption, LenProperties DEF IInv, TypeOK
<1>2. \A i \in 1 .. Len(sent) : sent[i] \in Int
  BY <1>1, ElementOfSeq
<1>3. /\ sent' \in Seq(Int) /\ Len(sent') = Len(sent) + 1
      /\ \A i \in 1 .. Len(sent) + 1 :
           sent'[i] = IF i = Len(sent) + 1 THEN s ELSE sent[i]
  BY <1>1, SentGrows DEF Wake
<1>4. /\ call'[c] = Idle /\ \A d \in Caller \ {c} : call'[d] = call[d]
      /\ lastRequest' = lastRequest /\ Asleep(c) /\ ~Asleep(c)'
  BY <1>1 DEF Wake, Asleep, Idle
<1>5. TypeOK'
  BY <1>1, <1>3 DEF IInv, TypeOK, Wake, Idle
<1>6. \A d \in Caller : Asleep(d)' => d # c /\ Asleep(d) /\ call'[d] = call[d]
  BY <1>4 DEF Asleep
<1> HIDE DEF s
<1>7. SlotsApart'
  <2>1. \A i, j \in 1 .. Len(sent') : i # j => Apart(sent'[i], sent'[j])
    <3>1. /\ \A i, j \in 1 .. Len(sent) : i # j => Apart(sent[i], sent[j])
          /\ \A i \in 1 .. Len(sent) : Apart(s, sent[i])
      BY <1>4 DEF IInv, SlotsApart, s
    <3>2. /\ \A i \in 1 .. Len(sent') : i = Len(sent) + 1 \/ i \in 1 .. Len(sent)
          /\ \A i \in 1 .. Len(sent) : sent'[i] = sent[i]
          /\ sent'[Len(sent) + 1] = s
      BY <1>1, <1>3
    <3>3. \A x, y : Apart(x, y) => Apart(y, x)
      BY DEF Apart
    <3> QED  BY <3>1, <3>2, <3>3
  <2>2. ASSUME NEW d \in Caller, Asleep(d), d # c
        PROVE  \A i \in 1 .. Len(sent') : Apart(call[d].slot, sent'[i])
    <3>1. /\ \A i \in 1 .. Len(sent) : Apart(call[d].slot, sent[i])
          /\ Apart(call[d].slot, s)
      BY <1>4, <2>2 DEF IInv, SlotsApart, s
    <3> TAKE i \in 1 .. Len(sent')
    <3>2. CASE i = Len(sent) + 1  BY <1>3, <3>1, <3>2
    <3>3. CASE i \in 1 .. Len(sent)
      <4>1. sent'[i] = sent[i]  BY <1>1, <1>3, <3>3
      <4> QED  BY <3>1, <3>3, <4>1
    <3> QED  BY <1>1, <1>3, <3>2, <3>3
  <2>3. \A d, e \in Caller : (d # e /\ Asleep(d)' /\ Asleep(e)') =>
          Apart(call'[d].slot, call'[e].slot)
    BY <1>6 DEF IInv, SlotsApart
  <2> QED  BY <1>6, <2>1, <2>2, <2>3 DEF SlotsApart, Apart
<1>8. Rollback'
  <2>1. \A i \in 1 .. Len(sent') : sent'[i] <= lastRequest'
    <3>1. s <= lastRequest /\ \A i \in 1 .. Len(sent) : sent[i] <= lastRequest
      BY <1>4 DEF IInv, Rollback, s
    <3>2. /\ \A i \in 1 .. Len(sent') : i = Len(sent) + 1 \/ i \in 1 .. Len(sent)
          /\ \A i \in 1 .. Len(sent) : sent'[i] = sent[i]
          /\ sent'[Len(sent) + 1] = s
      BY <1>1, <1>3
    <3> QED  BY <1>4, <3>1, <3>2
  <2>2. ASSUME NEW d \in Caller, Asleep(d), d # c
        PROVE  \A i \in 1 .. Len(sent') :
                 sent'[i] <= call[d].prev \/ call[d].slot + minInterval <= sent'[i]
    <3>1. s <= call[d].prev \/ call[d].slot + minInterval <= s
      <4>1. /\ call[c].prev \in Int /\ call[c].slot \in Int
            /\ call[d].prev \in Int /\ call[d].slot \in Int
        BY <1>1
      <4>2. /\ call[c].prev + minInterval <= call[c].slot
            /\ call[d].slot <= call[c].prev \/ call[c].slot <= call[d].prev
        BY <1>4, <2>2 DEF IInv, Rollback
      <4> QED  BY <1>1, <4>1, <4>2 DEF s
    <3>2. \A i \in 1 .. Len(sent) :
            sent[i] <= call[d].prev \/ call[d].slot + minInterval <= sent[i]
      BY <2>2 DEF IInv, Rollback
    <3> TAKE i \in 1 .. Len(sent')
    <3>3. CASE i = Len(sent) + 1  BY <1>3, <3>1, <3>3
    <3>4. CASE i \in 1 .. Len(sent)
      <4>1. sent'[i] = sent[i]  BY <1>1, <1>3, <3>4
      <4> QED  BY <3>2, <3>4, <4>1
    <3> QED  BY <1>1, <1>3, <3>3, <3>4
  <2>3. \A d \in Caller : Asleep(d)' =>
          /\ call'[d].slot <= lastRequest'
          /\ call'[d].prev + minInterval <= call'[d].slot
          /\ \A e \in Caller \ {d} : Asleep(e)' =>
               call'[e].slot <= call'[d].prev \/ call'[d].slot <= call'[e].prev
    BY <1>4, <1>6 DEF IInv, Rollback
  <2> QED  BY <1>6, <2>1, <2>2, <2>3 DEF Rollback
<1> QED  BY <1>5, <1>7, <1>8 DEF IInv

\* A canceled sleeper gives its slot back only when it is the last one, so
\* nothing reserved lies past what lastRequest returns to.
LEMMA CancelStep ==
    ASSUME IInv, NEW c \in Caller, Cancel(c)
    PROVE  IInv'
<1>1. /\ lastRequest \in Int /\ minInterval \in Nat \ {0}
      /\ sent \in Seq(Int) /\ Len(sent) \in Nat
      /\ call \in [Caller -> [pc : {"idle", "sleep"}, slot : Int, prev : Int]]
  BY PacerAssumption, LenProperties DEF IInv, TypeOK
<1>2. \A i \in 1 .. Len(sent) : sent[i] \in Int
  BY <1>1, ElementOfSeq
<1>3. /\ call'[c] = Idle /\ \A d \in Caller \ {c} : call'[d] = call[d]
      /\ sent' = sent /\ Asleep(c) /\ ~Asleep(c)'
      /\ lastRequest' = IF lastRequest = call[c].slot THEN call[c].prev ELSE lastRequest
  BY <1>1 DEF Cancel, Asleep, Idle
<1>4. TypeOK'
  BY <1>1 DEF IInv, TypeOK, Cancel, Idle
<1>5. SlotsApart'
  BY <1>1, <1>2, <1>3 DEF IInv, SlotsApart, Asleep, Apart
<1>6. \A d \in Caller : Asleep(d)' => d # c /\ Asleep(d) /\ call'[d] = call[d]
  BY <1>3 DEF Asleep
<1>7. Rollback'
  <2>1. \A i \in 1 .. Len(sent) : sent[i] <= lastRequest'
    BY <1>1, <1>2, <1>3 DEF IInv, Rollback
  <2>2. ASSUME NEW d \in Caller, d # c, Asleep(d)
        PROVE  call[d].slot <= lastRequest'
    <3>1. /\ call[d].slot \in Int /\ call[d].prev \in Int
          /\ call[c].slot \in Int /\ call[c].prev \in Int
      BY <1>1
    <3>2. /\ call[d].slot <= lastRequest /\ call[d].prev + minInterval <= call[d].slot
          /\ call[c].slot <= call[d].prev \/ call[d].slot <= call[c].prev
      BY <1>3, <2>2 DEF IInv, Rollback
    <3> QED  BY <1>1, <1>3, <3>1, <3>2
  <2> QED  BY <1>3, <1>6, <2>1, <2>2 DEF IInv, Rollback
<1> QED  BY <1>4, <1>5, <1>7 DEF IInv

-----------------------------------------------------------------------------
\* The pacer's inductive invariant: typing, spacing and the rollback facts
\* hold in every state pace, OnThrottle and OnSuccess can reach.
THEOREM PacerInvariant == Spec => []IInv
<1>1. Init => IInv
  <2> SUFFICES ASSUME Init PROVE IInv  OBVIOUS
  <2>1. minInterval \in Nat \ {0}  BY PacerAssumption
  <2>2. sent = <<>> /\ Len(sent) = 0 /\ sent \in Seq(Int)  BY DEF Init
  <2>3. \A c \in Caller : ~Asleep(c)  BY DEF Init, Idle, Asleep
  <2>4. TypeOK
    BY <2>1, <2>2
    DEF Init, TypeOK, Idle, LongAgo, adaptiveMaxLevel, adaptiveSuccessThreshold
  <2> QED  BY <2>2, <2>3, <2>4 DEF IInv, SlotsApart, Rollback
<1>2. IInv /\ [Next]_vars => IInv'
  <2> SUFFICES ASSUME IInv, [Next]_vars PROVE IInv'  OBVIOUS
  <2>1. ASSUME NEW c \in Caller, Reserve(c) PROVE IInv'  BY <2>1, ReserveStep
  <2>2. ASSUME NEW c \in Caller, Wake(c) PROVE IInv'  BY <2>2, WakeStep
  <2>3. ASSUME NEW c \in Caller, Cancel(c) PROVE IInv'  BY <2>3, CancelStep
  <2>4. CASE OnThrottle
    <3>1. TypeOK'  BY <2>4 DEF IInv, TypeOK, OnThrottle, adaptiveMaxLevel, adaptiveSuccessThreshold
    <3> QED  BY <2>4, <3>1, SameSlots DEF IInv, OnThrottle
  <2>5. CASE OnSuccess
    <3>1. TypeOK'  BY <2>5 DEF IInv, TypeOK, OnSuccess, adaptiveMaxLevel, adaptiveSuccessThreshold
    <3> QED  BY <2>5, <3>1, SameSlots DEF IInv, OnSuccess
  <2>6. CASE Tick
    <3>1. TypeOK'  BY <2>6 DEF IInv, TypeOK, Tick
    <3> QED  BY <2>6, <3>1, SameSlots DEF IInv, Tick
  <2>7. CASE UNCHANGED vars
    <3>1. TypeOK'  BY <2>7 DEF IInv, TypeOK, vars
    <3> QED  BY <2>7, <3>1, SameSlots DEF IInv, vars
  <2> QED  BY <2>1, <2>2, <2>3, <2>4, <2>5, <2>6, <2>7 DEF Next
<1> QED  BY <1>1, <1>2, PTL DEF Spec

\* The requests pace lets through, and the slots still held by sleepers, are
\* pairwise at least the configured interval apart, for any set of callers.
THEOREM PacerSlotsApart == Spec => []SlotsApart
BY PacerInvariant, PTL DEF IInv

-----------------------------------------------------------------------------
(* The detector                                                            *)

\* The baseline is what was reported, and the last verdict respects it.
BaselineInv ==
    /\ vocalBaseline = reported /\ reported \subseteq VocalClass
    /\ VoiceHeard

\* Every step of a call keeps the baseline exact.
LEMMA BaselineStep == BaselineInv /\ [DetectorNext]_detectorVars => BaselineInv'
<1> SUFFICES ASSUME BaselineInv, [DetectorNext]_detectorVars PROVE BaselineInv'
  OBVIOUS
<1>1. CASE UNCHANGED <<vocalBaseline, verdict, reported>>
  BY <1>1 DEF BaselineInv, VoiceHeard
<1>2. ASSUME NEW c \in Listener, Decide(c)
      PROVE  BaselineInv'
  <2> DEFINE heard == detection[c].heard
  <2>1. PICK answer \in Answers :
          LET baseline == IF answer.max = {} THEN vocalBaseline ELSE growVocalBaseline(answer)
          IN  /\ vocalBaseline' = baseline
              /\ verdict' = [instrumental |-> Instrumental(answer, heard, baseline),
                             heard |-> heard]
              /\ reported' = reported \cup (answer.max \cap VocalClass)
    BY <1>2 DEF Decide
  <2>2. vocalBaseline' = reported' /\ reported' \subseteq VocalClass
    BY <2>1 DEF BaselineInv, growVocalBaseline
  <2>3. ASSUME verdict'.instrumental
        PROVE  reported' # {} /\ verdict'.heard \cap reported' = {}
    <3>1. Instrumental(answer, heard, vocalBaseline') /\ verdict'.heard = heard
      BY <2>1, <2>3
    <3>2. /\ vocalBaseline' # {} /\ vocalBaseline' \subseteq answer.max
          /\ heard \cap answer.max = {}
      BY <3>1 DEF Instrumental
    <3> QED  BY <2>2, <3>1, <3>2
  <2> QED  BY <2>2, <2>3 DEF BaselineInv, VoiceHeard
<1>3. DetectorNext \/ UNCHANGED detectorVars =>
        \/ UNCHANGED <<vocalBaseline, verdict, reported>>
        \/ \E c \in Listener : Decide(c)
  BY DEF DetectorNext, detectorVars, CooldownEnds, Detect, LockDetector,
         CooldownInterrupted, Sample, SampleFails, ClassifyFails
<1> QED  BY <1>1, <1>2, <1>3

\* A track in which a class of voice was heard that some answer has reported is
\* never called instrumental (Detect, growVocalBaseline), for any classes and any
\* number of calls whose answers arrive in any order.
THEOREM VoiceTheorem == DetectorSpec => []VoiceHeard
<1>1. DetectorInit => BaselineInv
  BY DEF DetectorInit, BaselineInv, VoiceHeard, NoVerdict
<1>2. BaselineInv => VoiceHeard
  BY DEF BaselineInv
<1> QED  BY <1>1, <1>2, BaselineStep, PTL DEF DetectorSpec

-----------------------------------------------------------------------------
(* The webhook                                                             *)

Dest == InRoot \cup {OutputDir}
Input == [title : Title, dest : Dest]
HookPC == {"idle", "resolve", "enqueue", "cleanup", "ok", "error"}
Handler == [pc : HookPC, event : Event, titles : Seq(Title), paths : Seq(File),
            album : BOOLEAN, inputs : Seq(Input), removed : SUBSET Title]

HookTyped ==
    /\ inventory \in [File -> {"absent", "pending", "done"}] /\ disk \subseteq File
    /\ queued \in [Title -> Dest \cup {NoRow}]
    /\ delivery \in [Delivery -> Handler] /\ deliveries \in Nat
    /\ \A f \in File : inventory[f] # "absent" => f \in InRoot

\* The track has its row, or a Delete has taken it since the event came.
Settled(d, t) == queued[t] # NoRow \/ t \in delivery[d].removed

\* The inputs are those of the titles in order, the first of which are enqueued.
HandlerOK(d) ==
    LET h == delivery[d]
        k == Len(h.titles) - Len(h.inputs)
    IN  /\ h.pc = "resolve" =>
             /\ Len(h.inputs) < Len(h.titles)
             /\ \A n \in 1 .. Len(h.inputs) : h.inputs[n].title = h.titles[n]
        /\ h.pc = "enqueue" =>
             /\ h.inputs # <<>> /\ k >= 0
             /\ \A n \in 1 .. Len(h.inputs) : h.inputs[n].title = h.titles[k + n]
             /\ \A n \in 1 .. k : Settled(d, h.titles[n])
        /\ h.pc = "cleanup" => h.event = "Delete" /\ h.titles # <<>>
        /\ h.pc \in {"ok", "error", "cleanup", "idle"} => h.inputs = <<>>
        /\ h.pc = "ok" /\ h.event = "Download" =>
             \A n \in DOMAIN h.titles : Settled(d, h.titles[n])

HookInv == HookTyped /\ \A d \in Delivery : HandlerOK(d)

-----------------------------------------------------------------------------
(* Where the lyrics go *)

\* Of the files of a track the order of FindByTrack has a first one.
LEMMA FirstFound ==
    ASSUME NEW found \in SUBSET File, found # {}
    PROVE  First(found) \in found
<1> DEFINE open == {f \in found : inventory[f] # "done"}
<1>1. found \subseteq Nat
  BY WebhookAssumption
<1>2. \E f \in found : \A g \in found : Before(f, g)
  <2>1. CASE open # {}
    <3>1. PICK f \in open : \A g \in open : f <= g
      BY <1>1, <2>1, LeastNatural
    <3> QED  BY <1>1, <3>1 DEF Before
  <2>2. CASE open = {}
    <3>1. PICK f \in found : \A g \in found : f <= g
      BY <1>1, LeastNatural
    <3>2. \A g \in found : inventory[g] = "done"
      BY <2>2
    <3> QED  BY <1>1, <3>1, <3>2 DEF Before
  <2> QED  BY <2>1, <2>2
<1> QED  BY <1>2 DEF First

\* The file of the event that is used, if any, is one of the libraries'.
LEMMA UsableInside ==
    ASSUME NEW paths \in Seq(File), NEW t, NEW single
    PROVE  usablePath(paths, t, single) \in Dest
<1> DEFINE usable == {i \in DOMAIN paths : /\ confinedPayloadPath(paths[i])
                                           /\ \/ single /\ Len(paths) = 1
                                              \/ t \in Names[paths[i]]}
<1>1. CASE usable = {}
  BY <1>1 DEF usablePath, Dest
<1>2. CASE usable # {}
  <2>1. usable \subseteq Nat /\ \A i \in usable : paths[i] \in InRoot
    BY DEF confinedPayloadPath
  <2>2. usablePath(paths, t, single) = paths[CHOOSE i \in usable : \A j \in usable : i <= j]
    BY <1>2 DEF usablePath
  <2> HIDE DEF usable
  <2>3. \E i \in usable : \A j \in usable : i <= j
    BY <1>2, <2>1, LeastNatural
  <2> QED  BY <2>1, <2>2, <2>3 DEF Dest
<1> QED  BY <1>1, <1>2

\* A track is resolved to a file of the libraries or to the output directory.
LEMMA ResolvedInside ==
    ASSUME HookTyped, NEW d \in Delivery, NEW t, NEW looked \in BOOLEAN
    PROVE  resolveTrack(t, d, looked) \in Dest
<1>1. CASE looked /\ FindByTrack(t) # {}
  <2>1. FindByTrack(t) \in SUBSET File /\ FindByTrack(t) \subseteq InRoot
    BY DEF FindByTrack, HookTyped
  <2>2. pickByAlbum(FindByTrack(t), delivery[d].album) \in FindByTrack(t)
    <3>1. First(FindByTrack(t)) \in FindByTrack(t)
      BY <1>1, <2>1, FirstFound
    <3>2. ASSUME FindByTrack(t) \cap InAlbum # {}
          PROVE  First(FindByTrack(t) \cap InAlbum) \in FindByTrack(t)
      BY <2>1, <3>2, FirstFound
    <3> QED  BY <3>1, <3>2 DEF pickByAlbum
  <2> QED  BY <1>1, <2>1, <2>2 DEF resolveTrack, Dest
<1>2. CASE ~(looked /\ FindByTrack(t) # {})
  <2>1. delivery[d].paths \in Seq(File)
    BY DEF HookTyped, Handler
  <2> QED  BY <1>2, <2>1, UsableInside DEF resolveTrack
<1> QED  BY <1>1, <1>2

-----------------------------------------------------------------------------
(* Steps *)

\* A request stays well typed when one field of it is set.
LEMMA SetHandler ==
    ASSUME NEW h \in Handler
    PROVE  /\ \A x \in HookPC : [h EXCEPT !.pc = x] \in Handler
           /\ \A x \in Seq(Input) : [h EXCEPT !.inputs = x] \in Handler
           /\ \A x \in Seq(Title) : [h EXCEPT !.titles = x] \in Handler
           /\ \A x \in SUBSET Title : [h EXCEPT !.removed = x] \in Handler
BY DEF Handler

\* So is a request that has not begun, and one that failed.
LEMMA NoDeliveryType ==
    /\ NoDelivery \in Handler /\ NoDelivery.pc = "idle" /\ NoDelivery.inputs = <<>>
    /\ NoDelivery.removed = {} /\ [NoDelivery EXCEPT !.pc = "error"] \in Handler
<1>1. <<>> \in Seq(Title) /\ <<>> \in Seq(File) /\ <<>> \in Seq(Input)
  OBVIOUS
<1>2. NoDelivery \in Handler
  BY <1>1 DEF NoDelivery, Handler, HookPC, Event
<1> QED  BY <1>2, SetHandler DEF NoDelivery, HookPC

\* Before the first event there is nothing to account for.
LEMMA HookStarts == HookInit => HookInv
<1> SUFFICES ASSUME HookInit PROVE HookInv
  OBVIOUS
<1>1. HookTyped
  BY NoDeliveryType DEF HookInit, HookTyped
<1>2. ASSUME NEW d \in Delivery PROVE HandlerOK(d)
  <2>1. delivery[d].pc = "idle" /\ delivery[d].inputs = <<>>
    BY NoDeliveryType DEF HookInit
  <2> QED  BY <2>1 DEF HandlerOK
<1> QED  BY <1>1, <1>2 DEF HookInv

\* A handler whose record and whose rows stay, or are only added to.
LEMMA HandlerStays ==
    ASSUME HookInv, NEW d \in Delivery,
           delivery'[d] = delivery[d] \/ \E t : delivery'[d] = [delivery[d] EXCEPT !.removed = delivery[d].removed \cup {t}],
           \A t \in Title : queued'[t] = NoRow => queued[t] = NoRow \/ t \in delivery'[d].removed
    PROVE  HandlerOK(d)'
<1> DEFINE h == delivery[d]
           g == delivery'[d]
<1>1. HandlerOK(d) /\ h \in Handler
  BY DEF HookInv, HookTyped
<1>2. /\ g.pc = h.pc /\ g.event = h.event /\ g.titles = h.titles /\ g.inputs = h.inputs
      /\ h.removed \subseteq g.removed
  <2>1. CASE g = h
    BY <2>1
  <2>2. CASE \E t : g = [h EXCEPT !.removed = h.removed \cup {t}]
    <3>1. PICK t : g = [h EXCEPT !.removed = h.removed \cup {t}]
      BY <2>2
    <3> HIDE DEF g, h
    <3> QED  BY <1>1, <3>1 DEF Handler
  <2> QED  BY <2>1, <2>2
<1>3. PICK T \in Seq(Title), I \in Seq(Input) :
        h.titles = T /\ g.titles = T /\ h.inputs = I /\ g.inputs = I
  BY <1>1, <1>2 DEF Handler
<1>4. ASSUME NEW t \in Title, Settled(d, t) PROVE Settled(d, t)'
  BY <1>2, <1>4 DEF Settled
<1> DEFINE k == Len(T) - Len(I)
<1>5. /\ \A n \in 1 .. Len(T) : T[n] \in Title
      /\ k \in Int /\ k <= Len(T) /\ Len(T) \in Nat /\ DOMAIN T = 1 .. Len(T)
  OBVIOUS
<1>6. ASSUME g.pc = "enqueue", NEW n \in 1 .. k PROVE Settled(d, T[n])'
  <2>1. Settled(d, T[n]) /\ T[n] \in Title
    BY <1>1, <1>2, <1>3, <1>5, <1>6 DEF HandlerOK
  <2> QED  BY <1>4, <2>1
<1>7. ASSUME g.pc = "ok", g.event = "Download", NEW n \in DOMAIN T PROVE Settled(d, T[n])'
  <2>1. Settled(d, T[n]) /\ T[n] \in Title
    BY <1>1, <1>2, <1>3, <1>5, <1>7 DEF HandlerOK
  <2> QED  BY <1>4, <2>1
<1> QED  BY <1>1, <1>2, <1>3, <1>6, <1>7 DEF HandlerOK

\* A step of the request d alone, which takes no row away.
LEMMA OneHandler ==
    ASSUME HookInv, NEW d \in Delivery, NEW g \in Handler, delivery' = [delivery EXCEPT ![d] = g],
           UNCHANGED <<inventory, disk>>, deliveries' \in Nat,
           queued' \in [Title -> Dest \cup {NoRow}],
           \A t \in Title : queued'[t] = NoRow => queued[t] = NoRow,
           HandlerOK(d)'
    PROVE  HookInv'
<1>1. HookTyped
  BY DEF HookInv
<1>2. HookTyped'
  BY <1>1 DEF HookTyped
<1>3. ASSUME NEW x \in Delivery \ {d} PROVE HandlerOK(x)'
  <2>1. delivery'[x] = delivery[x]
    BY <1>1 DEF HookTyped
  <2> QED  BY <2>1, HandlerStays
<1> QED  BY <1>2, <1>3 DEF HookInv

\* A request that starts or ends without a row to account for.
LEMMA FreshHandler ==
    ASSUME HookInv, NEW d \in Delivery, NEW g \in Handler, delivery' = [delivery EXCEPT ![d] = g],
           UNCHANGED <<inventory, disk, queued>>, deliveries' \in Nat, g.inputs = <<>>,
           \/ g.pc = "error"
           \/ g.pc = "resolve" /\ g.titles # <<>>
           \/ g.pc = "cleanup" /\ g.titles # <<>> /\ g.event = "Delete"
           \/ g.pc = "ok" /\ g.event # "Download"
    PROVE  HookInv'
<1>1. HookTyped
  BY DEF HookInv
<1>2. delivery'[d] = g /\ g.titles \in Seq(Title) /\ queued' \in [Title -> Dest \cup {NoRow}]
  BY <1>1 DEF HookTyped, Handler
<1>3. g.titles # <<>> => Len(g.titles) > 0
  BY <1>2
<1>4. PICK T \in Seq(Title) : T = g.titles /\ delivery'[d].titles = T
  BY <1>2
<1>5. HandlerOK(d)'
  <2>1. CASE g.pc = "resolve"
    <3>1. Len(<<>>) < Len(T) /\ 1 .. Len(<<>>) = {}
      BY <1>3, <1>4, <2>1
    <3> QED  BY <1>2, <1>4, <2>1, <3>1 DEF HandlerOK
  <2>2. CASE g.pc # "resolve"
    BY <1>2, <2>2 DEF HandlerOK
  <2> QED  BY <2>1, <2>2
<1> QED  BY <1>2, <1>5, OneHandler

\* A new event has enqueued nothing, and is not answered yet unless it asks for
\* nothing.
LEMMA ReceiveStep == ASSUME HookInv, NEW d \in Delivery, Receive(d) PROVE HookInv'
<1>1. PICK p \in Payload :
        delivery' = [delivery EXCEPT ![d] =
             [pc |-> CASE p.event = "Download" /\ p.titles # <<>> -> "resolve"
                       [] p.event = "Download" /\ p.titles = <<>> -> "error"
                       [] p.event = "Delete" /\ p.titles # <<>>   -> "cleanup"
                       [] OTHER                                   -> "ok",
              event |-> p.event, titles |-> p.titles, paths |-> p.paths, album |-> p.album,
              inputs |-> <<>>, removed |-> {}]]
  BY DEF Receive
<1>2. /\ p.event \in Event /\ p.titles \in Seq(Title) /\ p.paths \in Seq(File) /\ p.album \in BOOLEAN
  BY WebhookAssumption
<1> DEFINE pc == CASE p.event = "Download" /\ p.titles # <<>> -> "resolve"
                   [] p.event = "Download" /\ p.titles = <<>> -> "error"
                   [] p.event = "Delete" /\ p.titles # <<>>   -> "cleanup"
                   [] OTHER                                   -> "ok"
           g == [pc |-> pc, event |-> p.event, titles |-> p.titles, paths |-> p.paths,
                 album |-> p.album, inputs |-> <<>>, removed |-> {}]
<1>3. \/ pc = "error"
      \/ pc = "resolve" /\ p.titles # <<>>
      \/ pc = "cleanup" /\ p.titles # <<>> /\ p.event = "Delete"
      \/ pc = "ok" /\ p.event # "Download"
  OBVIOUS
<1>4. delivery' = [delivery EXCEPT ![d] = g]
  BY <1>1
<1> HIDE DEF pc
<1>5. g \in Handler
  <2>1. pc \in HookPC /\ <<>> \in Seq(Input)
    BY <1>3 DEF HookPC
  <2> QED  BY <1>2, <2>1 DEF Handler
<1>6. deliveries' \in Nat /\ UNCHANGED <<inventory, disk, queued>>
  BY DEF Receive, HookInv, HookTyped
<1>7. g.inputs = <<>> /\ g.pc = pc /\ g.titles = p.titles /\ g.event = p.event
  OBVIOUS
<1> HIDE DEF g
<1> QED  BY <1>3, <1>4, <1>5, <1>6, <1>7, FreshHandler

\* A request that ends in an error promises nothing.
LEMMA EndStep == ASSUME HookInv, NEW d \in Delivery, Refuse(d) \/ Fails(d) PROVE HookInv'
<1>1. /\ delivery' = [delivery EXCEPT ![d] = [NoDelivery EXCEPT !.pc = "error"]]
      /\ deliveries' \in Nat /\ UNCHANGED <<inventory, disk, queued>>
  BY DEF Refuse, Fails, HookInv, HookTyped
<1>2. /\ [NoDelivery EXCEPT !.pc = "error"].pc = "error"
      /\ [NoDelivery EXCEPT !.pc = "error"].inputs = <<>>
  BY DEF NoDelivery
<1> QED  BY <1>1, <1>2, NoDeliveryType, FreshHandler

\* One more input, of the next title.
LEMMA ResolveStep == ASSUME HookInv, NEW d \in Delivery, Resolve(d) PROVE HookInv'
<1> DEFINE h == delivery[d]
           n == Len(h.inputs) + 1
           t == h.titles[n]
<1>1. /\ HookTyped /\ HandlerOK(d) /\ h \in Handler /\ h.pc = "resolve"
      /\ h.titles \in Seq(Title) /\ h.inputs \in Seq(Input)
  BY DEF HookInv, HookTyped, Handler, Resolve, Handling
<1>2. /\ n \in 1 .. Len(h.titles) /\ Len(h.titles) \in Nat /\ Len(h.inputs) \in Nat
      /\ \A m \in 1 .. Len(h.inputs) : h.inputs[m].title = h.titles[m]
  BY <1>1 DEF HandlerOK
<1>3. t \in Title
  BY <1>1, <1>2
<1>4. PICK looked \in BOOLEAN :
        delivery' = [delivery EXCEPT
            ![d].inputs = Append(h.inputs, [title |-> t, dest |-> resolveTrack(t, d, looked)]),
            ![d].pc = IF n = Len(h.titles) THEN "enqueue" ELSE "resolve"]
  BY DEF Resolve
<1>5. PICK x \in Input : x = [title |-> t, dest |-> resolveTrack(t, d, looked)] /\ x.title = t
  <2> HIDE DEF t
  <2>1. PICK to \in Dest : to = resolveTrack(t, d, looked)
    BY <1>1, ResolvedInside
  <2>2. [title |-> t, dest |-> to] \in Input
    BY <1>3 DEF Input
  <2> QED  BY <2>1, <2>2
<1> DEFINE pc == IF n = Len(h.titles) THEN "enqueue" ELSE "resolve"
           i == [h EXCEPT !.inputs = Append(h.inputs, x)]
           g == [i EXCEPT !.pc = pc]
<1>6. delivery' = [delivery EXCEPT ![d] = g]
  BY <1>1, <1>4, <1>5 DEF HookTyped
<1>7. Append(h.inputs, x) \in Seq(Input) /\ pc \in HookPC
  BY <1>1 DEF HookPC
<1>8. g \in Handler /\ g.titles = h.titles /\ g.inputs = Append(h.inputs, x) /\ g.pc = pc
  <2>1. i \in Handler
    BY <1>1, <1>7, SetHandler
  <2>2. i.titles = h.titles /\ i.inputs = Append(h.inputs, x)
    BY <1>1, <1>7, <2>1 DEF Handler
  <2> HIDE DEF i, pc, h
  <2>3. g \in Handler
    BY <1>7, <2>1, SetHandler
  <2> QED  BY <2>1, <2>2, <2>3 DEF Handler
<1>9. PICK T \in Seq(Title), I \in Seq(Input), J \in Seq(Input) :
        T = h.titles /\ I = h.inputs /\ J = Append(I, x)
  BY <1>1, <1>7
<1>10. /\ Len(J) = n /\ \A m \in 1 .. Len(J) : J[m].title = T[m]
  <2>1. Len(J) = Len(I) + 1 /\ J[Len(I) + 1] = x /\ \A m \in 1 .. Len(I) : J[m] = I[m]
    BY <1>9
  <2>2. Len(I) \in Nat /\ \A m \in 1 .. Len(I) + 1 : m \in 1 .. Len(I) \/ m = Len(I) + 1
    BY <1>9
  <2>3. n = Len(I) + 1 /\ x.title = T[Len(I) + 1]
    BY <1>5, <1>9
  <2>4. \A m \in 1 .. Len(I) : I[m].title = T[m]
    BY <1>2, <1>9
  <2>5. ASSUME NEW m \in 1 .. Len(I) + 1 PROVE J[m].title = T[m]
    <3>1. CASE m \in 1 .. Len(I)
      BY <2>1, <2>4, <3>1
    <3>2. CASE m = Len(I) + 1
      BY <2>1, <2>3, <3>2
    <3> QED  BY <2>2, <3>1, <3>2
  <2> QED  BY <2>1, <2>3, <2>5
<1>11. delivery'[d] = g /\ g.titles = T /\ g.inputs = J
  BY <1>1, <1>6, <1>8, <1>9 DEF HookTyped
<1>12. /\ g.pc = "resolve" => Len(J) < Len(T)
       /\ g.pc = "enqueue" => Len(J) = Len(T) /\ J # <<>>
       /\ g.pc \in {"resolve", "enqueue"}
  BY <1>2, <1>8, <1>9, <1>10
<1> HIDE DEF g
<1>13. HandlerOK(d)'
  <2>1. CASE g.pc = "resolve"
    BY <1>10, <1>11, <1>12, <2>1 DEF HandlerOK
  <2>2. CASE g.pc = "enqueue"
    <3>1. Len(T) - Len(J) = 0 /\ \A m \in 1 .. Len(J) : 0 + m = m
      BY <1>2, <1>9, <1>12, <2>2
    <3>2. \A m \in 1 .. Len(J) : J[m].title = T[(Len(T) - Len(J)) + m]
      BY <1>10, <3>1
    <3>3. 1 .. Len(T) - Len(J) = {}
      BY <3>1
    <3> QED  BY <1>11, <1>12, <2>2, <3>1, <3>2, <3>3 DEF HandlerOK
  <2> QED  BY <1>12, <2>1, <2>2
<1>14. UNCHANGED <<inventory, disk, queued, deliveries>> /\ deliveries \in Nat
       /\ queued \in [Title -> Dest \cup {NoRow}]
  BY <1>1 DEF Resolve, HookTyped
<1> QED  BY <1>6, <1>8, <1>13, <1>14, OneHandler

\* One more title that has its row; the last one ends the request.
LEMMA EnqueueStep == ASSUME HookInv, NEW d \in Delivery, Enqueue(d) PROVE HookInv'
<1> DEFINE h == delivery[d]
<1>1. /\ HookTyped /\ HandlerOK(d) /\ h \in Handler /\ h.pc = "enqueue"
      /\ h.titles \in Seq(Title) /\ h.inputs \in Seq(Input)
  BY DEF HookInv, HookTyped, Handler, Enqueue, Handling
<1>2. PICK T \in Seq(Title), I \in Seq(Input) : T = h.titles /\ I = h.inputs
  BY <1>1
<1> DEFINE k == Len(T) - Len(I)
<1>3. /\ I # <<>> /\ k >= 0 /\ \A n \in 1 .. k : Settled(d, T[n])
      /\ \A n \in 1 .. Len(I) : I[n].title = T[k + n]
  BY <1>1, <1>2 DEF HandlerOK
<1>4. Len(I) \in Nat \ {0} /\ Len(T) \in Nat /\ k \in Nat
  BY <1>2, <1>3
<1>5. PICK x \in Input : x = I[1] /\ x.title \in Title /\ x.dest \in Dest /\ x.title = T[k + 1]
  <2>1. 1 \in 1 .. Len(I)
    BY <1>4
  <2>2. I[1] \in Input
    BY <1>2, <2>1
  <2> HIDE DEF k
  <2>3. I[1].title = T[k + 1]
    BY <1>3, <2>1
  <2> QED  BY <2>2, <2>3 DEF Input
<1>6. /\ queued' = [queued EXCEPT ![x.title] = x.dest]
      /\ UNCHANGED <<inventory, disk, deliveries>>
  BY <1>2, <1>5 DEF Enqueue
<1> DEFINE pc == IF Len(I) = 1 THEN "ok" ELSE "enqueue"
           i == [h EXCEPT !.inputs = Tail(I)]
           g == [i EXCEPT !.pc = pc]
<1>7. delivery' = [delivery EXCEPT ![d] = g]
  <2>1. delivery' = [delivery EXCEPT ![d].inputs = Tail(I), ![d].pc = pc]
    BY <1>1, <1>2 DEF Enqueue
  <2> QED  BY <1>1, <2>1 DEF HookTyped
<1>8. PICK J \in Seq(Input) : /\ J = Tail(I) /\ Len(J) = Len(I) - 1
                             /\ \A n \in 1 .. Len(J) : J[n] = I[n + 1]
  <2>1. Tail(I) \in Seq(Input) /\ Len(Tail(I)) = Len(I) - 1
    BY <1>2, <1>3
  <2>2. \A n \in 1 .. Len(I) - 1 : Tail(I)[n] = I[n + 1]
    BY <1>2, <1>3
  <2> QED  BY <2>1, <2>2
<1>9. /\ g \in Handler /\ g.titles = T /\ g.inputs = J /\ g.pc = pc /\ g.event = h.event
      /\ g.removed = h.removed
  <2>1. i \in Handler
    BY <1>1, <1>8, SetHandler
  <2>2. i.titles = h.titles /\ i.inputs = J /\ i.event = h.event /\ i.removed = h.removed
    BY <1>1, <1>8, <2>1 DEF Handler
  <2>3. pc \in HookPC
    BY DEF HookPC
  <2> HIDE DEF i, pc, h
  <2>4. g \in Handler
    BY <2>1, <2>3, SetHandler
  <2> QED  BY <1>2, <2>1, <2>2, <2>4 DEF Handler
<1>10. /\ queued' \in [Title -> Dest \cup {NoRow}] /\ queued'[x.title] # NoRow
       /\ \A t \in Title : queued'[t] = NoRow => queued[t] = NoRow
  <2>1. x.dest # NoRow
    BY <1>5, WebhookAssumption DEF Dest
  <2> QED  BY <1>1, <1>5, <1>6, <2>1 DEF HookTyped
<1>11. delivery'[d] = g
  BY <1>1, <1>7 DEF HookTyped
<1> HIDE DEF g
<1>12. ASSUME NEW n \in 1 .. k + 1 PROVE Settled(d, T[n])'
  <2>1. CASE n \in 1 .. k
    <3>1. n \in 1 .. Len(T)
      BY <1>4, <2>1
    <3>2. T[n] \in Title
      BY <3>1
    <3> HIDE DEF k
    <3>3. Settled(d, T[n])
      BY <1>3, <2>1
    <3> QED  BY <1>9, <1>10, <1>11, <3>2, <3>3 DEF Settled
  <2>2. CASE n = k + 1
    BY <1>5, <1>10, <2>2 DEF Settled
  <2> QED  BY <1>4, <2>1, <2>2
<1>13. HandlerOK(d)'
  <2>1. CASE Len(I) = 1
    <3>1. J = <<>> /\ k + 1 = Len(T) /\ DOMAIN T = 1 .. k + 1 /\ g.pc = "ok"
      BY <1>4, <1>8, <1>9, <2>1
    <3> HIDE DEF k
    <3> QED  BY <1>9, <1>11, <1>12, <3>1 DEF HandlerOK
  <2>2. CASE Len(I) # 1
    <3>1. J # <<>> /\ Len(T) - Len(J) = k + 1 /\ g.pc = "enqueue"
      <4>1. Len(J) # 0 /\ Len(T) - Len(J) = k + 1
        BY <1>4, <1>8, <2>2
      <4> QED  BY <1>9, <2>2, <4>1
    <3>2. ASSUME NEW n \in 1 .. Len(J) PROVE J[n].title = T[(k + 1) + n]
      <4>1. J[n] = I[n + 1] /\ n + 1 \in 1 .. Len(I) /\ k + (n + 1) = (k + 1) + n
        BY <1>4, <1>8
      <4>2. I[n + 1].title = T[k + (n + 1)]
        BY <1>3, <4>1
      <4> QED  BY <4>1, <4>2
    <3>3. k + 1 >= 0
      BY <1>4
    <3> HIDE DEF k
    <3> QED  BY <1>9, <1>11, <1>12, <3>1, <3>2, <3>3 DEF HandlerOK
  <2> QED  BY <2>1, <2>2
<1>14. deliveries' \in Nat
  BY <1>1, <1>6 DEF HookTyped
<1> QED  BY <1>6, <1>7, <1>9, <1>10, <1>13, <1>14, OneHandler

\* A title loses its row, and the other requests know.
LEMMA CleanupStep == ASSUME HookInv, NEW d \in Delivery, Cleanup(d) PROVE HookInv'
<1> DEFINE h == delivery[d]
<1>1. /\ HookTyped /\ HandlerOK(d) /\ h \in Handler /\ h.pc = "cleanup"
      /\ h.titles \in Seq(Title) /\ h.titles # <<>> /\ h.event = "Delete" /\ h.inputs = <<>>
  BY DEF HookInv, HookTyped, Handler, Cleanup, Handling, HandlerOK
<1>2. PICK t \in Title : t = Head(h.titles)
  BY <1>1
<1> DEFINE pc == IF Len(h.titles) = 1 THEN "ok" ELSE "cleanup"
           i == [h EXCEPT !.titles = Tail(h.titles)]
           g == [i EXCEPT !.pc = pc]
<1>3. /\ queued' = [queued EXCEPT ![t] = NoRow] /\ UNCHANGED <<inventory, disk, deliveries>>
      /\ \A x \in Delivery \ {d} :
           delivery'[x] = [delivery[x] EXCEPT !.removed = delivery[x].removed \cup {t}]
      /\ DOMAIN delivery' = Delivery
  BY <1>2 DEF Cleanup
<1>4. delivery'[d] = g
  <2>1. delivery'[d] = [h EXCEPT !.titles = Tail(h.titles), !.pc = pc]
    BY <1>1 DEF Cleanup
  <2> QED  BY <1>1, <2>1 DEF Handler
<1>5. /\ Tail(h.titles) \in Seq(Title) /\ pc \in HookPC
      /\ Len(h.titles) # 1 => Tail(h.titles) # <<>>
  <2>1. PICK T \in Seq(Title) : T = h.titles /\ T # <<>>
    BY <1>1
  <2>2. Tail(T) \in Seq(Title) /\ Len(Tail(T)) = Len(T) - 1 /\ Len(T) \in Nat
    BY <2>1
  <2>3. Len(T) # 1 => Len(Tail(T)) # 0
    BY <2>2
  <2> QED  BY <2>1, <2>2, <2>3 DEF HookPC
<1>6. /\ g \in Handler /\ g.titles = Tail(h.titles) /\ g.inputs = <<>> /\ g.pc = pc
      /\ g.event = "Delete"
  <2>1. i \in Handler
    BY <1>1, <1>5, SetHandler
  <2>2. i.titles = Tail(h.titles) /\ i.inputs = <<>> /\ i.event = "Delete"
    BY <1>1, <1>5, <2>1 DEF Handler
  <2> HIDE DEF i, pc, h
  <2>3. g \in Handler
    BY <1>5, <2>1, SetHandler
  <2> QED  BY <2>1, <2>2, <2>3 DEF Handler
<1> HIDE DEF g
<1>7. ASSUME NEW x \in Delivery \ {d} PROVE delivery'[x] \in Handler /\ HandlerOK(x)'
  <2>1. delivery[x] \in Handler /\ delivery[x].removed \cup {t} \in SUBSET Title
    BY <1>1 DEF HookTyped, Handler
  <2>2. delivery'[x] = [delivery[x] EXCEPT !.removed = delivery[x].removed \cup {t}]
    BY <1>3
  <2>3. delivery'[x] \in Handler
    BY <2>1, <2>2, SetHandler
  <2>4. delivery'[x].removed = delivery[x].removed \cup {t}
    BY <2>1, <2>2 DEF Handler
  <2>5. \A u \in Title : queued'[u] = NoRow => queued[u] = NoRow \/ u \in delivery'[x].removed
    BY <1>1, <1>3, <2>4 DEF HookTyped
  <2> QED  BY <2>2, <2>3, <2>5, HandlerStays
<1>8. HookTyped'
  <2>1. \A x \in Delivery : delivery'[x] \in Handler
    BY <1>4, <1>6, <1>7
  <2>2. delivery' = [x \in Delivery |-> delivery'[x]]
    BY <1>3 DEF Cleanup
  <2>3. delivery' \in [Delivery -> Handler]
    BY <2>1, <2>2
  <2> QED  BY <1>1, <1>3, <2>3 DEF HookTyped
<1>9. HandlerOK(d)'
  <2>1. g.pc \in {"ok", "cleanup"} /\ (g.pc = "cleanup" => g.titles # <<>>)
    BY <1>5, <1>6
  <2> QED  BY <1>4, <1>6, <2>1 DEF HandlerOK
<1> QED  BY <1>7, <1>8, <1>9 DEF HookInv

\* The scans and whoever moves the files touch no request and no row.
LEMMA FilesStep ==
    ASSUME HookInv, NEW f \in File, ScanFile(f) \/ RemoveFile(f)
    PROVE  HookInv'
<1>1. HookTyped /\ UNCHANGED <<queued, delivery, deliveries>>
  BY DEF HookInv, ScanFile, RemoveFile
<1>2. HookTyped'
  <2>1. CASE ScanFile(f)
    <3>1. /\ disk' = disk /\ inventory' \in [File -> {"absent", "pending", "done"}]
          /\ \A x \in File : inventory'[x] # "absent" => x \in InRoot
      BY <1>1, <2>1 DEF ScanFile, HookTyped
    <3> QED  BY <1>1, <3>1 DEF HookTyped
  <2>2. CASE RemoveFile(f)
    BY <1>1, <2>2 DEF RemoveFile, HookTyped
  <2> QED  BY <2>1, <2>2
<1>3. ASSUME NEW d \in Delivery PROVE HandlerOK(d)'
  BY <1>1, HandlerStays
<1> QED  BY <1>2, <1>3 DEF HookInv

\* Every step of the requests, the scans and the files keeps the invariant.
LEMMA HookStep == HookInv /\ [HookNext]_hookVars => HookInv'
<1> SUFFICES ASSUME HookInv, [HookNext]_hookVars PROVE HookInv'
  OBVIOUS
<1>1. CASE UNCHANGED hookVars
  BY <1>1 DEF hookVars, HookInv, HookTyped, HandlerOK, Settled
<1>2. ASSUME NEW d \in Delivery,
             Receive(d) \/ Refuse(d) \/ Resolve(d) \/ Enqueue(d) \/ Cleanup(d) \/ Fails(d)
      PROVE  HookInv'
  BY <1>2, ReceiveStep, EndStep, ResolveStep, EnqueueStep, CleanupStep
<1>3. ASSUME NEW f \in File, ScanFile(f) \/ RemoveFile(f) PROVE HookInv'
  BY <1>3, FilesStep
<1> QED  BY <1>1, <1>2, <1>3 DEF HookNext

\* A Download that was answered with 200 (handleLidarr) has left a row for each of
\* its tracks that no Delete took since, and no row sends lyrics outside the
\* libraries and the output directory: for any number of concurrent and repeated
\* events, titles and files, with lookups that fail and files that move.
THEOREM AcknowledgedTheorem == HookSpec => []Acknowledged
<1>1. HookInv => Acknowledged
  <2> SUFFICES ASSUME HookInv PROVE Acknowledged
    OBVIOUS
  <2>1. \A t \in Title : queued[t] \in InRoot \cup {OutputDir, NoRow}
    BY DEF HookInv, HookTyped, Dest
  <2>2. ASSUME NEW d \in Delivery, Handling(d, "ok"), delivery[d].event = "Download",
               NEW n \in DOMAIN delivery[d].titles
        PROVE  Settled(d, delivery[d].titles[n])
    <3>1. HandlerOK(d)
      BY DEF HookInv
    <3> QED  BY <2>2, <3>1 DEF HandlerOK, Handling
  <2> QED  BY <2>1, <2>2 DEF Acknowledged, Settled
<1> QED  BY <1>1, HookStarts, HookStep, PTL DEF HookSpec

-----------------------------------------------------------------------------
(* The one-shot command                                                    *)

FetchPC == {"parse", "loop", "settle", "list", "exit 0", "exit 1"}
AnyAnswer == {"none"} \cup FindLyrics("musixmatch") \cup FindLyrics("petitlyrics")
FetchRec == [pc : FetchPC, mode : {"cli", "text", "dir"},
             provider : {"musixmatch", "petitlyrics"}, answer : AnyAnswer,
             failures : Nat, delay : 0 .. DefaultMax,
             total : 0 .. Cardinality(Song), success : Int]

FetchTyped ==
    /\ inputs \in Seq(Song) /\ failed \in Seq(Song) /\ listed \in Seq(Song)
    /\ saved \in SUBSET Song /\ interrupted \in BOOLEAN /\ fetch \in FetchRec

Distinct(queue) == \A i, j \in DOMAIN queue : queue[i] = queue[j] => i = j

\* While the command works an input is in one place only, and in it once.
Kept ==
    /\ Distinct(inputs) /\ listed = <<>>
    /\ Len(inputs) + Len(failed) + Cardinality(saved) = fetch.total
    /\ saved \cap (Members(inputs) \cup Members(failed)) = {}
    /\ Members(inputs) \cap Members(failed) = {}

AtWork == fetch.pc \in {"loop", "settle", "list"}

FetchInv ==
    /\ FetchTyped
    /\ fetch.pc = "parse" => inputs = <<>> /\ failed = <<>> /\ saved = {} /\ listed = <<>>
    /\ AtWork => Kept
    /\ fetch.pc = "settle" => inputs # <<>>
    /\ fetch.pc = "list" => inputs = <<>> /\ fetch.success = Cardinality(saved)
    /\ fetch.pc = "exit 0" =>
         /\ fetch.success = Cardinality(saved)
         /\ fetch.mode = "dir" \/ Len(listed) = fetch.total - Cardinality(saved)

-----------------------------------------------------------------------------
(* The queues *)

\* What taking the front input does to the songs of a queue.
LEMMA TailFacts ==
    ASSUME NEW q \in Seq(Song), q # <<>>
    PROVE  /\ Tail(q) \in Seq(Song) /\ Len(Tail(q)) = Len(q) - 1 /\ Head(q) \in Song
           /\ Members(Tail(q)) \subseteq Members(q) /\ Head(q) \in Members(q)
<1>1. Tail(q) \in Seq(Song) /\ Len(Tail(q)) = Len(q) - 1 /\ Head(q) = q[1] /\ Len(q) \in Nat \ {0}
  OBVIOUS
<1>2. 1 \in DOMAIN q /\ DOMAIN q = 1 .. Len(q)
  BY <1>1
<1>3. Head(q) \in Song /\ Head(q) \in Members(q)
  BY <1>1, <1>2 DEF Members
<1>4. \A i \in DOMAIN Tail(q) : Tail(q)[i] = q[i + 1] /\ i + 1 \in DOMAIN q
  BY <1>1
<1>5. Members(Tail(q)) \subseteq Members(q)
  BY <1>4 DEF Members
<1> QED  BY <1>1, <1>3, <1>5

\* In a queue without repetitions the front input is taken for good.
LEMMA TailDistinct ==
    ASSUME NEW q \in Seq(Song), q # <<>>, Distinct(q)
    PROVE  Distinct(Tail(q)) /\ Head(q) \notin Members(Tail(q))
<1>1. Len(Tail(q)) = Len(q) - 1 /\ Head(q) = q[1] /\ Len(q) \in Nat \ {0} /\ 1 \in DOMAIN q
  OBVIOUS
<1>2. \A i \in DOMAIN Tail(q) : Tail(q)[i] = q[i + 1] /\ i + 1 \in DOMAIN q /\ i \in Nat \ {0}
  BY <1>1
<1>3. ASSUME NEW i \in DOMAIN Tail(q), NEW j \in DOMAIN Tail(q), Tail(q)[i] = Tail(q)[j]
      PROVE  i = j
  <2>1. i + 1 = j + 1
    BY <1>2, <1>3 DEF Distinct
  <2> QED  BY <1>2, <2>1
<1>4. ASSUME NEW i \in DOMAIN Tail(q) PROVE Tail(q)[i] # Head(q)
  <2>1. i + 1 # 1
    BY <1>2
  <2> QED  BY <1>1, <1>2, <2>1 DEF Distinct
<1> QED  BY <1>3, <1>4 DEF Distinct, Members

\* What appending does to the songs of a queue.
LEMMA AppendFacts ==
    ASSUME NEW q \in Seq(Song), NEW x \in Song
    PROVE  /\ Append(q, x) \in Seq(Song) /\ Len(Append(q, x)) = Len(q) + 1
           /\ Members(Append(q, x)) \subseteq Members(q) \cup {x}
<1>1. Append(q, x) \in Seq(Song) /\ Len(Append(q, x)) = Len(q) + 1 /\ Len(q) \in Nat
  OBVIOUS
<1>2. ASSUME NEW i \in DOMAIN Append(q, x)
      PROVE  Append(q, x)[i] = x \/ (i \in DOMAIN q /\ Append(q, x)[i] = q[i])
  <2>1. i \in 1 .. Len(q) + 1
    BY <1>1
  <2>2. CASE i = Len(q) + 1
    BY <2>2
  <2>3. CASE i \in 1 .. Len(q)
    BY <2>3
  <2> QED  BY <1>1, <2>1, <2>2, <2>3
<1> QED  BY <1>1, <1>2 DEF Members

\* What joining two queues does to their songs.
LEMMA ConcatFacts ==
    ASSUME NEW p \in Seq(Song), NEW q \in Seq(Song)
    PROVE  /\ p \o q \in Seq(Song) /\ Len(p \o q) = Len(p) + Len(q)
           /\ Members(p \o q) \subseteq Members(p) \cup Members(q)
<1>1. p \o q \in Seq(Song) /\ Len(p \o q) = Len(p) + Len(q) /\ Len(p) \in Nat /\ Len(q) \in Nat
  OBVIOUS
<1>2. ASSUME NEW i \in DOMAIN (p \o q)
      PROVE  \/ i \in DOMAIN p /\ (p \o q)[i] = p[i]
             \/ i - Len(p) \in DOMAIN q /\ (p \o q)[i] = q[i - Len(p)]
  <2>1. i \in 1 .. Len(p) + Len(q)
    BY <1>1
  <2>2. CASE i <= Len(p)
    BY <1>1, <2>1, <2>2
  <2>3. CASE i > Len(p)
    BY <1>1, <2>1, <2>3
  <2> QED  BY <1>1, <2>1, <2>2, <2>3
<1> QED  BY <1>1, <1>2 DEF Members

\* The empty queue.
LEMMA NoMembers == Members(<<>>) = {} /\ <<>> \in Seq(Song) /\ Len(<<>>) = 0 /\ Distinct(<<>>)
  BY DEF Members, Distinct

\* The saved songs are finitely many; a new one counts.
LEMMA SavedCount ==
    ASSUME NEW S \in SUBSET Song
    PROVE  /\ Cardinality(S) \in Nat /\ Cardinality(Song) \in Nat
           /\ \A x \in Song \ S : Cardinality(S \cup {x}) = Cardinality(S) + 1
<1>1. IsFiniteSet(Song) /\ IsFiniteSet(S)
  BY FetchAssumption, FS_Subset
<1>2. \A x : x \notin S => Cardinality(S \cup {x}) = Cardinality(S) + 1
  BY <1>1, FS_AddElement
<1> QED  BY <1>1, <1>2, FS_CardinalityType

-----------------------------------------------------------------------------
(* The command *)

\* The state of the command stays well typed when one field of it is set.
LEMMA SetFetch ==
    ASSUME NEW r \in FetchRec
    PROVE  /\ \A x \in FetchPC : [r EXCEPT !.pc = x] \in FetchRec
           /\ \A x \in AnyAnswer : [r EXCEPT !.answer = x] \in FetchRec
           /\ \A x \in Nat : [r EXCEPT !.failures = x] \in FetchRec
           /\ \A x \in 0 .. DefaultMax : [r EXCEPT !.delay = x] \in FetchRec
           /\ \A x \in 0 .. Cardinality(Song) : [r EXCEPT !.total = x] \in FetchRec
           /\ \A x \in Int : [r EXCEPT !.success = x] \in FetchRec
  BY DEF FetchRec

\* The record after a round of the loop.
LEMMA Rounds ==
    ASSUME NEW r \in FetchRec, NEW n \in Nat, NEW w \in 0 .. DefaultMax
    PROVE  LET s == [r EXCEPT !.pc = "loop", !.answer = "none", !.failures = n, !.delay = w]
           IN  s \in FetchRec
<1> DEFINE a == [r EXCEPT !.pc = "loop"]
           b == [a EXCEPT !.answer = "none"]
           c == [b EXCEPT !.failures = n]
           d == [c EXCEPT !.delay = w]
<1>1. a \in FetchRec
  BY SetFetch DEF FetchPC
<1>2. b \in FetchRec
  <2> HIDE DEF a
  <2> QED  BY <1>1, SetFetch DEF AnyAnswer
<1>3. c \in FetchRec
  <2> HIDE DEF b
  <2> QED  BY <1>2, SetFetch
<1>4. d \in FetchRec
  <2> HIDE DEF c
  <2> QED  BY <1>3, SetFetch
<1> QED  BY <1>4

\* A command that is at work again, or still, with its inputs accounted for.
LEMMA GoesOn ==
    ASSUME FetchTyped', fetch'.pc \in {"loop", "settle", "list"}, Kept',
           fetch'.pc = "settle" => inputs' # <<>>,
           fetch'.pc = "list" => inputs' = <<>> /\ fetch'.success = Cardinality(saved')
    PROVE  FetchInv'
  BY DEF FetchInv, AtWork

\* The invariant holds before the inputs are parsed.
LEMMA FetchStarts == FetchInit => FetchInv
<1> SUFFICES ASSUME FetchInit PROVE FetchInv
  OBVIOUS
<1>1. fetch.pc = "parse" /\ inputs = <<>> /\ failed = <<>> /\ saved = {} /\ listed = <<>>
  BY DEF FetchInit
<1>2. fetch \in FetchRec
  <2>1. 0 \in 0 .. DefaultMax /\ 0 \in 0 .. Cardinality(Song)
    BY FetchAssumption, FS_CardinalityType
  <2>2. "parse" \in FetchPC /\ "none" \in AnyAnswer
    BY DEF FetchPC, AnyAnswer
  <2> QED  BY <2>1, <2>2 DEF FetchInit, FetchRec
<1>3. FetchTyped
  BY <1>1, <1>2, NoMembers DEF FetchTyped, FetchInit
<1> QED  BY <1>1, <1>3 DEF FetchInv, AtWork

\* The parsed inputs are different songs, and all of them are waiting.
LEMMA ParseStep == ASSUME FetchInv, ParseInput PROVE FetchInv'
<1>1. /\ FetchTyped /\ fetch.pc = "parse" /\ failed = <<>> /\ saved = {} /\ listed = <<>>
      /\ fetch \in FetchRec
  BY DEF FetchInv, FetchTyped, ParseInput
<1>0. PICK n \in 0 .. Cardinality(Song) : \E some \in [1 .. n -> Song] :
        /\ \A i, j \in 1 .. n : i < j => some[i] < some[j]
        /\ inputs' = some
  BY DEF ParseInput
<1>2. PICK some \in [1 .. n -> Song] :
        /\ \A i, j \in 1 .. n : i < j => some[i] < some[j]
        /\ inputs' = some
  BY <1>0
<1>3. Cardinality(Song) \in Nat /\ Cardinality({}) = 0
  BY SavedCount, FS_EmptySet
<1>4. some \in Seq(Song) /\ Len(some) = n /\ DOMAIN some = 1 .. n /\ n \in Nat
  BY <1>2, <1>3
<1>5. Distinct(some)
  <2> SUFFICES ASSUME NEW i \in 1 .. n, NEW j \in 1 .. n, some[i] = some[j], i # j PROVE FALSE
    BY <1>4 DEF Distinct
  <2>1. some[i] \in Nat /\ some[j] \in Nat
    <3>1. Song \subseteq Nat
      BY <1>3, FetchAssumption
    <3> QED  BY <1>2, <3>1
  <2>2. i < j \/ j < i
    BY <1>4
  <2> QED  BY <1>2, <2>1, <2>2
<1> DEFINE a == [fetch EXCEPT !.pc = "loop"]
<1>6. /\ fetch' = [a EXCEPT !.total = n]
      /\ failed' = <<>> /\ saved' = {} /\ listed' = <<>> /\ interrupted' = interrupted
  BY <1>1, <1>2, <1>4 DEF ParseInput
<1>7. a \in FetchRec
  BY <1>1, SetFetch DEF FetchPC
<1>8. a.pc = "loop"
  BY <1>1 DEF FetchRec
<1> HIDE DEF a
<1>9. fetch' \in FetchRec
  BY <1>2, <1>6, <1>7, SetFetch
<1>10. fetch'.pc = "loop" /\ fetch'.total = n
  BY <1>6, <1>7, <1>8 DEF FetchRec
<1>11. FetchTyped'
  BY <1>1, <1>2, <1>4, <1>6, <1>9, NoMembers DEF FetchTyped
<1>12. Kept'
  <2>1. Len(inputs') + Len(failed') + Cardinality(saved') = fetch'.total
    BY <1>2, <1>3, <1>4, <1>6, <1>10, NoMembers
  <2> QED  BY <1>2, <1>5, <1>6, <2>1, NoMembers DEF Kept
<1> QED  BY <1>10, <1>11, <1>12, GoesOn

\* Steps that move no song.
LEMMA LookStep == ASSUME FetchInv, ParseFails \/ Interrupt \/ LookUp PROVE FetchInv'
<1>1. FetchTyped /\ fetch \in FetchRec
  BY DEF FetchInv, FetchTyped
<1>2. CASE ParseFails
  <2>1. fetch' = [fetch EXCEPT !.pc = "exit 1"] /\ UNCHANGED <<inputs, failed, saved, listed, interrupted>>
    BY <1>2 DEF ParseFails
  <2>2. fetch' \in FetchRec /\ fetch'.pc = "exit 1"
    <3>1. [fetch EXCEPT !.pc = "exit 1"] \in FetchRec
      BY <1>1, SetFetch DEF FetchPC
    <3>2. [fetch EXCEPT !.pc = "exit 1"].pc = "exit 1"
      BY <1>1 DEF FetchRec
    <3> QED  BY <2>1, <3>1, <3>2
  <2> QED  BY <1>1, <2>1, <2>2 DEF FetchInv, FetchTyped, AtWork
<1>3. CASE Interrupt
  <2>1. interrupted' = TRUE /\ UNCHANGED <<inputs, failed, fetch, saved, listed>>
    BY <1>3 DEF Interrupt
  <2> QED  BY <2>1 DEF FetchInv, FetchTyped, AtWork, Kept
<1>4. CASE LookUp
  <2> DEFINE a == [fetch EXCEPT !.pc = "settle"]
  <2>1. PICK x \in FindLyrics(fetch.provider) :
          /\ fetch' = [a EXCEPT !.answer = x]
          /\ UNCHANGED <<inputs, failed, saved, listed, interrupted>>
          /\ fetch.pc = "loop" /\ inputs # <<>>
    BY <1>1, <1>4 DEF LookUp
  <2>2. x \in AnyAnswer
    BY <1>1, <2>1 DEF AnyAnswer, FetchRec
  <2>3. a \in FetchRec
    BY <1>1, SetFetch DEF FetchPC
  <2>4. a.pc = "settle" /\ a.total = fetch.total
    BY <1>1 DEF FetchRec
  <2> HIDE DEF a
  <2>5. fetch' \in FetchRec
    BY <2>1, <2>2, <2>3, SetFetch
  <2>6. fetch'.pc = "settle" /\ fetch'.total = fetch.total
    BY <2>1, <2>3, <2>4 DEF FetchRec
  <2>7. FetchTyped'
    BY <1>1, <2>1, <2>5 DEF FetchTyped
  <2>8. Kept'
    BY <2>1, <2>6 DEF FetchInv, AtWork, Kept
  <2> QED  BY <2>1, <2>6, <2>7, <2>8, GoesOn
<1> QED  BY <1>2, <1>3, <1>4

\* One input less, one song more in another place.
LEMMA Balance ==
    ASSUME NEW a \in Nat, NEW b \in Nat, NEW c \in Nat, NEW x \in Nat, NEW y \in Nat,
           x + y = b + c + 1
    PROVE  (a - 1) + x + y = a + b + c
  OBVIOUS

\* The front input is taken, and is saved or has failed.
LEMMA TakenStep ==
    ASSUME FetchInv, fetch.pc = "settle", NEW n \in Nat, NEW w \in 0 .. DefaultMax,
           NextInput(n, w), inputs' = Tail(inputs), UNCHANGED <<listed, interrupted>>,
           \/ saved' = saved \cup {Head(inputs)} /\ UNCHANGED failed
           \/ failed' = Append(failed, Head(inputs)) /\ UNCHANGED saved
    PROVE  FetchInv'
<1>1. /\ FetchTyped /\ fetch \in FetchRec /\ Kept /\ inputs # <<>>
      /\ inputs \in Seq(Song) /\ failed \in Seq(Song) /\ saved \in SUBSET Song
  BY DEF FetchInv, FetchTyped, AtWork
<1>2. PICK x \in Song : x = Head(inputs) /\ x \in Members(inputs) /\ x \notin Members(Tail(inputs))
  BY <1>1, TailFacts, TailDistinct DEF Kept
<1>3. PICK v \in 0 .. DefaultMax :
        fetch' = [fetch EXCEPT !.pc = "loop", !.answer = "none", !.failures = n, !.delay = v]
  <2>1. 0 \in 0 .. DefaultMax
    BY FetchAssumption
  <2> QED  BY <2>1 DEF NextInput
<1>4. fetch' \in FetchRec
  BY <1>1, <1>3, Rounds
<1>5. fetch'.pc = "loop" /\ fetch'.total = fetch.total
  BY <1>1, <1>3 DEF FetchRec
<1>6. /\ inputs' \in Seq(Song) /\ Len(inputs') = Len(inputs) - 1 /\ Distinct(inputs')
      /\ Members(inputs') \subseteq Members(inputs) \ {x}
  BY <1>1, <1>2, TailFacts, TailDistinct DEF Kept
<1>7. x \notin saved /\ x \notin Members(failed)
  BY <1>1, <1>2 DEF Kept
<1>8. Len(inputs) \in Nat /\ Len(failed) \in Nat /\ Cardinality(saved) \in Nat
  BY <1>1, SavedCount
<1>9. /\ saved' \in SUBSET Song /\ failed' \in Seq(Song)
      /\ Len(failed') + Cardinality(saved') = Len(failed) + Cardinality(saved) + 1
      /\ Members(failed') \cup saved' \subseteq Members(failed) \cup saved \cup {x}
      /\ Members(failed') \cap saved' = {}
  <2>1. CASE saved' = saved \cup {x} /\ failed' = failed
    <3>1. Cardinality(saved \cup {x}) = Cardinality(saved) + 1
      BY <1>1, <1>7, SavedCount
    <3> QED  BY <1>1, <1>7, <1>8, <2>1, <3>1 DEF Kept
  <2>2. CASE failed' = Append(failed, x) /\ saved' = saved
    <3>1. /\ failed' \in Seq(Song) /\ Len(failed') = Len(failed) + 1
          /\ Members(failed') \subseteq Members(failed) \cup {x}
      BY <1>1, <2>2, AppendFacts
    <3> QED  BY <1>1, <1>7, <1>8, <2>2, <3>1 DEF Kept
  <2> QED  BY <1>2, <2>1, <2>2
<1>10. Kept'
  <2>1. Len(inputs') + Len(failed') + Cardinality(saved') = fetch'.total
    <3>1. /\ Len(failed') \in Nat /\ Cardinality(saved') \in Nat
          /\ Len(inputs) + Len(failed) + Cardinality(saved) = fetch.total
      BY <1>1, <1>9, SavedCount DEF Kept
    <3>2. (Len(inputs) - 1) + Len(failed') + Cardinality(saved') = Len(inputs) + Len(failed) + Cardinality(saved)
      BY <1>8, <1>9, <3>1, Balance
    <3> QED  BY <1>5, <1>6, <3>1, <3>2
  <2>2. /\ saved' \cap (Members(inputs') \cup Members(failed')) = {}
        /\ Members(inputs') \cap Members(failed') = {}
    BY <1>1, <1>6, <1>9 DEF Kept
  <2>3. listed' = <<>>
    BY <1>1 DEF Kept
  <2> QED  BY <1>6, <2>1, <2>2, <2>3 DEF Kept
<1>11. FetchTyped'
  BY <1>1, <1>4, <1>6, <1>9 DEF FetchTyped
<1> QED  BY <1>5, <1>10, <1>11, GoesOn

\* Each way to settle the front input keeps the account.
LEMMA SettleStep == ASSUME FetchInv, SaveLyrics \/ MissLyrics \/ FailLyrics PROVE FetchInv'
<1>1. fetch.failures \in Nat /\ fetch.failures + 1 \in Nat
  <2>1. fetch.failures \in Nat
    BY DEF FetchInv, FetchTyped, FetchRec
  <2> QED  BY <2>1
<1>2. 0 \in 0 .. DefaultMax /\ 0 \in Nat
  BY FetchAssumption
<1>3. Geometric(fetch.failures + 1, DefaultBase, DefaultMax) \in 0 .. DefaultMax
  <2>1. Geometric(fetch.failures + 1, DefaultBase, DefaultMax) \in 1 .. DefaultMax
    <3>1. PICK k \in Int : k = fetch.failures + 1
      BY <1>1
    <3>2. Geometric(k, DefaultBase, DefaultMax) \in 1 .. DefaultMax
      BY FetchAssumption, GeometricBounded
    <3> QED  BY <3>1, <3>2
  <2> QED  BY <2>1, FetchAssumption
<1>4. CASE SaveLyrics
  BY <1>2, <1>4, TakenStep DEF SaveLyrics
<1>5. CASE MissLyrics
  BY <1>1, <1>2, <1>5, TakenStep DEF MissLyrics
<1>6. CASE FailLyrics
  BY <1>1, <1>3, <1>6, TakenStep DEF FailLyrics
<1> QED  BY <1>4, <1>5, <1>6

\* What the account of a command at work says, in numbers.
LEMMA Numbers ==
    ASSUME FetchTyped, Kept
    PROVE  \E i, f, c, t \in Nat :
             /\ i = Len(inputs) /\ f = Len(failed) /\ c = Cardinality(saved) /\ t = fetch.total
             /\ i + f + c = t
<1>1. Len(inputs) \in Nat /\ Len(failed) \in Nat
  BY DEF FetchTyped
<1>2. Cardinality(saved) \in Nat /\ Cardinality(Song) \in Nat
  BY SavedCount DEF FetchTyped
<1>3. fetch.total \in 0 .. Cardinality(Song)
  BY DEF FetchTyped, FetchRec
<1>4. fetch.total \in Nat
  BY <1>2, <1>3
<1>5. Len(inputs) + Len(failed) + Cardinality(saved) = fetch.total
  BY DEF Kept
<1> QED  BY <1>1, <1>2, <1>4, <1>5

\* The inputs that are left join the failed ones; what is reported as a success is
\* the number of those that were saved.
LEMMA HandleStep == ASSUME FetchInv, HandleFailed PROVE FetchInv'
<1>1. /\ FetchTyped /\ fetch \in FetchRec /\ Kept /\ fetch.pc = "loop"
      /\ inputs \in Seq(Song) /\ failed \in Seq(Song) /\ saved \in SUBSET Song
  BY DEF FetchInv, FetchTyped, AtWork, HandleFailed
<1>2. /\ failed' = failed \o inputs /\ inputs' = <<>>
      /\ UNCHANGED <<saved, listed, interrupted>>
  BY DEF HandleFailed
<1>3. /\ failed' \in Seq(Song) /\ Len(failed') = Len(failed) + Len(inputs)
      /\ Members(failed') \subseteq Members(failed) \cup Members(inputs)
  BY <1>1, <1>2, ConcatFacts
<1>4. PICK i, f, c, t \in Nat :
        /\ i = Len(inputs) /\ f = Len(failed) /\ c = Cardinality(saved) /\ t = fetch.total
        /\ i + f + c = t
  BY <1>1, Numbers
<1>5. Len(failed') = f + i /\ f + i \in Nat /\ c \in Int
  BY <1>3, <1>4
<1>6. c = fetch.total - Len(failed') /\ t = (f + i) + c
  <2>1. c = t - (f + i) /\ t = (f + i) + c
    BY <1>4
  <2> QED  BY <1>4, <1>5, <2>1
<1>7. 0 + (f + i) + c = t /\ (failed' = <<>> => 0 = t - c)
  <2>1. f + i = 0 => 0 = t - c
    BY <1>4, <1>6
  <2>2. failed' = <<>> => f + i = 0
    BY <1>5, NoMembers
  <2>3. 0 + (f + i) + c = t
    BY <1>4, <1>6
  <2> QED  BY <2>1, <2>2, <2>3
<1>8. PICK pc \in {"exit 0", "list"} :
        pc = IF failed' = <<>> \/ fetch.mode = "dir" THEN "exit 0" ELSE "list"
  OBVIOUS
<1> DEFINE a == [fetch EXCEPT !.success = c]
<1>9. fetch' = [a EXCEPT !.pc = pc]
  BY <1>1, <1>6, <1>8 DEF HandleFailed
<1>10. a \in FetchRec
  BY <1>1, <1>5, SetFetch
<1>11. a.success = c /\ a.total = fetch.total /\ a.mode = fetch.mode
  BY <1>1 DEF FetchRec
<1> HIDE DEF a
<1>12. fetch' \in FetchRec
  BY <1>9, <1>10, SetFetch DEF FetchPC
<1>13. fetch'.pc = pc /\ fetch'.success = c /\ fetch'.total = fetch.total /\ fetch'.mode = fetch.mode
  BY <1>9, <1>10, <1>11 DEF FetchRec
<1>14. FetchTyped'
  BY <1>1, <1>2, <1>3, <1>12, NoMembers DEF FetchTyped
<1>15. Kept'
  <2>1. Len(inputs') + Len(failed') + Cardinality(saved') = fetch'.total
    <3>1. Len(inputs') = 0 /\ Cardinality(saved') = c /\ fetch'.total = t
      BY <1>2, <1>4, <1>13, NoMembers
    <3> QED  BY <1>5, <1>7, <3>1
  <2>2. Members(inputs') = {} /\ Distinct(inputs') /\ listed' = <<>>
    BY <1>1, <1>2, NoMembers DEF Kept
  <2> QED  BY <1>1, <1>2, <1>3, <2>1, <2>2 DEF Kept
<1>16. CASE pc = "list"
  BY <1>2, <1>4, <1>5, <1>13, <1>14, <1>15, <1>16, GoesOn
<1>17. CASE pc = "exit 0"
  <2>1. fetch'.mode = "dir" \/ failed' = <<>>
    BY <1>8, <1>13, <1>17
  <2>2. failed' = <<>> => Len(listed') = fetch'.total - Cardinality(saved')
    <3>1. listed' = <<>> /\ saved' = saved
      BY <1>1, <1>2 DEF Kept
    <3> QED  BY <1>4, <1>7, <1>13, <3>1, NoMembers
  <2>3. fetch'.success = Cardinality(saved')
    BY <1>2, <1>4, <1>5, <1>13
  <2> QED  BY <1>13, <1>14, <1>17, <2>1, <2>2, <2>3 DEF FetchInv, AtWork
<1> QED  BY <1>16, <1>17

\* The list for the next run has every input that failed, unless it cannot be
\* written.
LEMMA ListStep == ASSUME FetchInv, ListFailed \/ ListFails PROVE FetchInv'
<1>1. /\ FetchTyped /\ fetch \in FetchRec /\ Kept /\ fetch.pc = "list"
      /\ failed \in Seq(Song) /\ saved \in SUBSET Song
      /\ inputs = <<>> /\ fetch.success = Cardinality(saved)
      /\ UNCHANGED <<inputs, saved, interrupted>>
  BY DEF FetchInv, FetchTyped, AtWork, ListFailed, ListFails
<1>2. CASE ListFailed
  <2>1. listed' = failed /\ failed' = <<>> /\ fetch' = [fetch EXCEPT !.pc = "exit 0"]
    BY <1>2 DEF ListFailed
  <2>2. [fetch EXCEPT !.pc = "exit 0"] \in FetchRec
    BY <1>1, SetFetch DEF FetchPC
  <2>3. fetch'.pc = "exit 0" /\ fetch'.total = fetch.total /\ fetch'.success = fetch.success
    BY <1>1, <2>1 DEF FetchRec
  <2>4. FetchTyped'
    BY <1>1, <2>1, <2>2, NoMembers DEF FetchTyped
  <2>5. PICK i, f, c, t \in Nat :
          /\ i = Len(inputs) /\ f = Len(failed) /\ c = Cardinality(saved) /\ t = fetch.total
          /\ i + f + c = t
    BY <1>1, Numbers
  <2>6. Len(listed') = fetch'.total - Cardinality(saved') /\ saved' = saved
    <3>1. i = 0
      BY <1>1, <2>5, NoMembers
    <3>2. f = t - c
      BY <2>5, <3>1
    <3> QED  BY <1>1, <2>1, <2>3, <2>5, <3>2
  <2> QED  BY <1>1, <2>3, <2>4, <2>6 DEF FetchInv, AtWork
<1>3. CASE ListFails
  <2>1. PICK popped \in 0 .. Len(failed) : \E n \in 0 .. popped :
          /\ failed' = SubSeq(failed, popped + 1, Len(failed))
          /\ listed' = SubSeq(failed, 1, n)
    BY <1>3 DEF ListFails
  <2>2. PICK n \in 0 .. popped :
          /\ failed' = SubSeq(failed, popped + 1, Len(failed))
          /\ listed' = SubSeq(failed, 1, n)
    BY <2>1
  <2>3. failed' \in Seq(Song) /\ listed' \in Seq(Song)
    <3>1. Len(failed) \in Nat /\ popped \in Nat /\ n \in Nat /\ n <= Len(failed)
      BY <1>1, <2>1, <2>2
    <3>2. \A i \in popped + 1 .. Len(failed) : failed[i] \in Song
      BY <1>1, <3>1
    <3>3. \A i \in 1 .. n : failed[i] \in Song
      BY <1>1, <3>1
    <3> QED  BY <1>1, <2>2, <3>1, <3>2, <3>3, SubSeqProperties
  <2>4. fetch' = [fetch EXCEPT !.pc = "exit 1"]
    BY <1>3 DEF ListFails
  <2>5. [fetch EXCEPT !.pc = "exit 1"] \in FetchRec
    BY <1>1, SetFetch DEF FetchPC
  <2>6. fetch'.pc = "exit 1"
    BY <1>1, <2>4 DEF FetchRec
  <2> QED  BY <1>1, <2>3, <2>4, <2>5, <2>6 DEF FetchInv, FetchTyped, AtWork
<1> QED  BY <1>2, <1>3

\* Every step of the command keeps the invariant.
LEMMA FetchStep == FetchInv /\ [FetchNext]_fetchVars => FetchInv'
<1> SUFFICES ASSUME FetchInv, [FetchNext]_fetchVars PROVE FetchInv'
  OBVIOUS
<1>1. CASE UNCHANGED fetchVars
  BY <1>1 DEF fetchVars, FetchInv, FetchTyped, AtWork, Kept
<1> QED  BY <1>1, ParseStep, LookStep, SettleStep, HandleStep, ListStep DEF FetchNext

\* The one-shot command's type invariant: its wait never exceeds the maximum.
THEOREM FetchTypeTheorem == FetchSpec => []FetchTypeOK
<1>1. FetchInv => FetchTypeOK
  <2> SUFFICES ASSUME FetchInv PROVE FetchTypeOK
    OBVIOUS
  <2>1. /\ fetch.pc \in FetchPC /\ fetch.delay \in 0 .. DefaultMax
        /\ fetch.total \in 0 .. Cardinality(Song)
    BY DEF FetchInv, FetchTyped, FetchRec
  <2> QED  BY <2>1 DEF FetchInv, FetchTyped, FetchTypeOK, FetchPC
<1> QED  BY <1>1, FetchStarts, FetchStep, PTL DEF FetchSpec

\* App.Run loses no input, wherever it is interrupted, and a command that ends well
\* has reported and listed them all (handleFailed), for any songs, providers and answers.
THEOREM AccountedTheorem == FetchSpec => []Accounted
<1>1. FetchInv => Accounted
  BY DEF FetchInv, AtWork, Kept, Accounted
<1> QED  BY <1>1, FetchStarts, FetchStep, PTL DEF FetchSpec

-----------------------------------------------------------------------------
(* The pace of retries                                                     *)

\* The doubling without its cap as a function of the number of its turns.
Doublings(f, n, base) == f = [i \in 1 .. n |-> IF i = 1 THEN base ELSE 2 * f[i - 1]]

\* It exists, whatever the number of turns.
LEMMA DoublingsExist ==
    ASSUME NEW base, NEW n \in Nat \ {0}
    PROVE  \E f : Doublings(f, n, base)
<1> DEFINE T == {k \in Nat : k > 0 /\ ~ \E f : Doublings(f, k, base)}
<1> SUFFICES ASSUME T # {} PROVE FALSE
  OBVIOUS
<1>1. PICK m \in T : \A k \in T : m <= k
  BY LeastNatural
<1>2. m \in Nat /\ m > 0 /\ ~ \E f : Doublings(f, m, base)
  OBVIOUS
<1>3. CASE m = 1
  <2> DEFINE g == [i \in 1 .. 1 |-> base]
  <2>1. Doublings(g, 1, base)
    BY DEF Doublings
  <2> QED  BY <1>2, <1>3, <2>1
<1>4. CASE m # 1
  <2>1. m - 1 \in Nat /\ m - 1 > 0 /\ ~(m <= m - 1)
    BY <1>2, <1>4
  <2>2. m - 1 \notin T
    BY <1>1, <2>1
  <2>3. PICK f : Doublings(f, m - 1, base)
    BY <2>1, <2>2
  <2> DEFINE g == [i \in 1 .. m |-> IF i = m THEN 2 * f[m - 1] ELSE f[i]]
  <2>4. \A i \in 1 .. m : g[i] = IF i = 1 THEN base ELSE 2 * g[i - 1]
    <3> TAKE i \in 1 .. m
    <3>1. CASE i = m
      <4>1. g[i] = 2 * f[m - 1]
        BY <3>1
      <4>2. g[m - 1] = f[m - 1]
        BY <2>1
      <4> QED  BY <1>4, <3>1, <4>1, <4>2
    <3>2. CASE i # m
      <4>1. i \in 1 .. m - 1 /\ g[i] = f[i]
        BY <1>2, <3>2
      <4>2. f[i] = IF i = 1 THEN base ELSE 2 * f[i - 1]
        BY <2>3, <4>1 DEF Doublings
      <4>3. i # 1 => i - 1 \in 1 .. m /\ i - 1 # m /\ g[i - 1] = f[i - 1]
        BY <1>2, <4>1
      <4> HIDE DEF g
      <4> QED  BY <4>1, <4>2, <4>3
    <3> QED  BY <3>1, <3>2
  <2>5. g = [i \in 1 .. m |-> g[i]]
    OBVIOUS
  <2> HIDE DEF g
  <2>6. Doublings(g, m, base)
    BY <2>4, <2>5 DEF Doublings
  <2> QED  BY <1>2, <2>6
<1> QED  BY <1>3, <1>4

\* One turn: capping before or after it is the same.
LEMMA CapTurn ==
    ASSUME NEW d \in Nat \ {0}, NEW e \in Nat \ {0}, NEW max \in Nat \ {0},
           Least(max, d) = Least(max, e)
    PROVE  Least(max, Doubled(d, max)) = Least(max, 2 * e) /\ 2 * e \in Nat \ {0}
  BY DEF Least, Doubled

\* After every turn the capped and the free doubling agree up to the cap.
LEMMA TurnsAreDoublings ==
    ASSUME NEW base \in Nat \ {0}, NEW max \in Nat \ {0}, NEW n \in Nat \ {0},
           NEW f, NEW g, Turns(f, n, base, max), Doublings(g, n, base)
    PROVE  \A i \in 1 .. n : g[i] \in Nat \ {0} /\ Least(max, f[i]) = Least(max, g[i])
<1> DEFINE T == {k \in 1 .. n : ~(g[k] \in Nat \ {0} /\ Least(max, f[k]) = Least(max, g[k]))}
<1> SUFFICES ASSUME T # {} PROVE FALSE
  OBVIOUS
<1>1. T \in SUBSET Nat /\ T # {}
  OBVIOUS
<1> HIDE DEF T
<1>2. PICK m \in T : \A k \in T : m <= k
  BY <1>1, LeastNatural
<1>3. m \in 1 .. n /\ ~(g[m] \in Nat \ {0} /\ Least(max, f[m]) = Least(max, g[m]))
  BY DEF T
<1>4. /\ f[m] = IF m = 1 THEN base ELSE Doubled(f[m - 1], max)
      /\ g[m] = IF m = 1 THEN base ELSE 2 * g[m - 1]
  BY <1>3 DEF Turns, Doublings
<1>5. m # 1
  BY <1>3, <1>4
<1>6. m - 1 \in 1 .. n /\ ~(m <= m - 1)
  BY <1>3, <1>5
<1>7. g[m - 1] \in Nat \ {0} /\ Least(max, f[m - 1]) = Least(max, g[m - 1])
  BY <1>2, <1>6 DEF T
<1>8. f[m - 1] \in Nat \ {0}
  BY <1>6, TurnsPositive
<1>9. f[m] = Doubled(f[m - 1], max) /\ g[m] = 2 * g[m - 1]
  BY <1>4, <1>5
<1>10. Least(max, Doubled(f[m - 1], max)) = Least(max, 2 * g[m - 1]) /\ 2 * g[m - 1] \in Nat \ {0}
  BY <1>7, <1>8, CapTurn
<1> QED  BY <1>3, <1>9, <1>10

\* Geometric is the doubling of the base, capped at the end.
LEMMA GeometricDoubles ==
    ASSUME NEW base \in Nat \ {0}, NEW max \in Nat \ {0}, attempt \in Nat
    PROVE  CappedDoubling(Geometric(attempt, base, max), base, max)
<1> DEFINE n == IF attempt < 1 THEN 1 ELSE attempt
           h == CHOOSE g : g = [i \in 1 .. n |-> IF i = 1 THEN base ELSE 2 * g[i - 1]]
<1>1. n \in Nat \ {0} /\ n \in 1 .. n /\ attempt \in Int
  OBVIOUS
<1>2. Doublings(h, n, base)
  <2> HIDE DEF n
  <2>1. PICK g : Doublings(g, n, base)
    BY <1>1, DoublingsExist
  <2>2. g = [i \in 1 .. n |-> IF i = 1 THEN base ELSE 2 * g[i - 1]]
    BY <2>1 DEF Doublings
  <2> QED  BY <2>2 DEF Doublings
<1>3. PICK f : /\ Turns(f, n, base, max)
               /\ Geometric(attempt, base, max) = IF f[n] > max THEN max ELSE f[n]
  BY <1>1, GeometricTurns
<1>4. CappedDoubling(Geometric(attempt, base, max), base, max)
        <=> Geometric(attempt, base, max) = Least(max, h[n])
  BY DEF CappedDoubling
<1> HIDE DEF n, h
<1>5. f[n] \in Nat \ {0}
  BY <1>1, <1>3, TurnsPositive
<1>6. Least(max, f[n]) = Least(max, h[n])
  BY <1>1, <1>2, <1>3, TurnsAreDoublings
<1>7. Geometric(attempt, base, max) = Least(max, f[n])
  BY <1>3, <1>5 DEF Least
<1> QED  BY <1>4, <1>6, <1>7

-----------------------------------------------------------------------------
(* What is in force                                                        *)

CadenceInv ==
    /\ attempt \in Nat
    /\ written \in [Number -> Int \cup {Unset}] /\ exported \in [Number -> Int \cup {Unset, Garbage}]

\* The defaults are numbers.
LEMMA DefaultsInt == defaults \in [Number -> Int]
  BY CadenceAssumption DEF defaults, Number

\* So is everything before the clamps, and the environment goes first.
LEMMA DecodedInt ==
    ASSUME CadenceInv
    PROVE  LET cfg == applyEnvOverrides(Decoded(written), exported)
           IN  /\ cfg \in [Number -> Int]
               /\ EnvAccepted("open", exported.open) => cfg.open = exported.open /\ cfg.open > 0
<1> DEFINE d == Decoded(written)
           cfg == applyEnvOverrides(d, exported)
<1>1. ASSUME NEW x \in Number PROVE d[x] \in Int
  <2>1. written[x] \in Int \cup {Unset} /\ defaults[x] \in Int
    BY DefaultsInt DEF CadenceInv
  <2> QED  BY <2>1 DEF Decoded
<1>2. ASSUME NEW x \in Number PROVE cfg[x] \in Int /\ cfg[x] = IF EnvAccepted(x, exported[x]) THEN exported[x] ELSE d[x]
  <2>1. exported[x] \in Int \cup {Unset, Garbage}
    BY DEF CadenceInv
  <2> HIDE DEF d
  <2> QED  BY <1>1, <2>1 DEF applyEnvOverrides, EnvAccepted
<1>3. cfg \in [Number -> Int]
  <2>1. cfg = [x \in Number |-> cfg[x]]
    BY DEF applyEnvOverrides
  <2> HIDE DEF cfg
  <2> QED  BY <1>2, <2>1
<1>4. "open" \in Number
  BY DEF Number
<1> HIDE DEF cfg
<1>5. EnvAccepted("open", exported.open) => cfg["open"] = exported["open"] /\ exported["open"] > 0
  BY <1>2, <1>4 DEF EnvAccepted
<1> QED  BY <1>3, <1>5 DEF cfg

\* The three clamps, one after the other.
LEMMA Clamped ==
    ASSUME NEW cfg \in [Number -> Int]
    PROVE  LET c == clampMissBackoff(clampCircuitBackoffBase(clampCircuitOpenDuration(cfg)))
           IN  /\ c \in [Number -> Int]
               /\ BaseMin <= c.base /\ c.base <= c.open /\ OpenMin <= c.open
               /\ MissBaseMin <= c.missBase /\ c.missBase <= c.missCap
               /\ 0 <= c.maxMiss
               /\ cfg.open > 0 => c.open = IF cfg.open < OpenMin THEN OpenMin ELSE cfg.open
<1> DEFINE a == clampCircuitOpenDuration(cfg)
           b == clampCircuitBackoffBase(a)
           c == clampMissBackoff(b)
<1>1. /\ a \in [Number -> Int] /\ OpenMin <= a.open
      /\ cfg.open > 0 => a.open = IF cfg.open < OpenMin THEN OpenMin ELSE cfg.open
  BY CadenceAssumption DEF clampCircuitOpenDuration, Number
<1> HIDE DEF a
<1>2. b \in [Number -> Int] /\ BaseMin <= b.base /\ b.base <= b.open /\ b.open = a.open
  BY <1>1, CadenceAssumption DEF clampCircuitBackoffBase, Number
<1> HIDE DEF b
<1>3. /\ c \in [Number -> Int] /\ c.base = b.base /\ c.open = b.open
      /\ MissBaseMin <= c.missBase /\ c.missBase <= c.missCap /\ 0 <= c.maxMiss
  <2> DEFINE base == IF b.missBase < MissBaseMin THEN MissBaseMin ELSE b.missBase
             d == [b EXCEPT !.missBase = base]
             e == [d EXCEPT !.missCap = IF b.missCap < base THEN base ELSE b.missCap]
             g == [e EXCEPT !.maxMiss = IF b.maxMiss < 0 THEN 0 ELSE b.maxMiss]
  <2>1. c = g
    BY DEF clampMissBackoff
  <2>2. base \in Int /\ MissBaseMin <= base
    BY <1>2, CadenceAssumption DEF Number
  <2>3. b.missCap \in Int /\ b.maxMiss \in Int
    BY <1>2 DEF Number
  <2> HIDE DEF base
  <2>4. d \in [Number -> Int] /\ d.missBase = base /\ d.base = b.base /\ d.open = b.open
    BY <1>2, <2>2 DEF Number
  <2> HIDE DEF d
  <2>5. /\ e \in [Number -> Int] /\ e.missBase = base /\ e.base = b.base /\ e.open = b.open
        /\ base <= e.missCap
    BY <2>2, <2>3, <2>4 DEF Number
  <2> HIDE DEF e
  <2>6. /\ g \in [Number -> Int] /\ g.missBase = base /\ g.base = b.base /\ g.open = b.open
        /\ g.missCap = e.missCap /\ 0 <= g.maxMiss
    BY <2>3, <2>5 DEF Number
  <2> HIDE DEF g
  <2> QED  BY <2>1, <2>2, <2>5, <2>6
<1> HIDE DEF c
<1> QED  BY <1>1, <1>2, <1>3 DEF a, b, c

\* A larger number of a unit is no shorter.
LEMMA ProductMonotone ==
    ASSUME NEW a \in Int, NEW b \in Int, a <= b, NEW u \in Nat
    PROVE  a * u \in Int /\ b * u \in Int /\ a * u <= b * u
<1>1. b * u = a * u + (b - a) * u
  BY SMT
<1>2. (b - a) * u >= 0
  BY SMT
<1> QED  BY <1>1, <1>2

\* A product that fits the word is the duration; any other is some duration.
LEMMA DurationExact ==
    ASSUME NEW n \in Int, NEW u \in Nat \ {0}, n > 0
    PROVE  /\ Duration(n, u) \in Int
           /\ n * u \in Nat \ {0}
           /\ n * u < HalfWord => Duration(n, u) = n * u
<1> DEFINE m == n * u
<1>1. m \in Nat \ {0}
  BY SMT
<1> HIDE DEF m
<1>2. ASSUME NEW a \in Nat, NEW b \in Nat \ {0} PROVE a % b \in Int /\ (a < b => a % b = a)
  BY SMT
<1>3. Duration(n, u) = ((m + HalfWord) % (2 * HalfWord)) - HalfWord
  BY DEF Duration, m
<1>4. HalfWord \in Nat \ {0} /\ m + HalfWord \in Nat /\ 2 * HalfWord \in Nat \ {0}
  BY <1>1, CadenceAssumption
<1>5. (m + HalfWord) % (2 * HalfWord) \in Int
  BY <1>2, <1>4
<1>6. m < HalfWord => (m + HalfWord) % (2 * HalfWord) = m + HalfWord
  BY <1>1, <1>2, <1>4
<1> QED  BY <1>1, <1>3, <1>4, <1>5, <1>6 DEF m

\* A positive duration d, which is n units if these fit the word.
Honours(d, n, u) == d \in Nat \ {0} /\ (n * u < HalfWord => d = n * u)

\* The setters leave such a duration.
LEMMA SetterKeeps ==
    ASSUME NEW old \in Nat \ {0}, NEW n \in Nat \ {0}, NEW u \in Nat \ {0}
    PROVE  Honours(Positive(old * u, Duration(n, u)), n, u)
<1> DEFINE d == Duration(n, u)
           w == old * u
           m == n * u
<1>1. w \in Nat \ {0} /\ d \in Int /\ m \in Nat \ {0} /\ (m < HalfWord => d = m)
  BY DurationExact
<1> HIDE DEF d, w, m
<1>2. Positive(w, d) \in Nat \ {0} /\ (m < HalfWord => Positive(w, d) = m)
  BY <1>1 DEF Positive
<1> QED  BY <1>2 DEF d, w, m, Honours

\* What the clamps leave of a configuration is ordered and positive.
LEMMA Loaded ==
    ASSUME CadenceInv
    PROVE  LET l == LoadWithSources(written, exported)
           IN  /\ l \in [Number -> Int]
               /\ l.base \in Nat \ {0} /\ l.open \in Nat \ {0}
               /\ l.missBase \in Nat \ {0} /\ l.missCap \in Nat \ {0}
               /\ BaseMin <= l.base /\ l.base <= l.open /\ OpenMin <= l.open
               /\ MissBaseMin <= l.missBase /\ l.missBase <= l.missCap
               /\ EnvAccepted("open", exported.open) =>
                     l.open = IF exported.open < OpenMin THEN OpenMin ELSE exported.open
               /\ 0 <= l.maxMiss
<1> DEFINE cfg == applyEnvOverrides(Decoded(written), exported)
           l == LoadWithSources(written, exported)
<1>1. /\ cfg \in [Number -> Int]
      /\ EnvAccepted("open", exported.open) => cfg.open = exported.open /\ cfg.open > 0
  BY DecodedInt
<1>2. /\ l \in [Number -> Int]
      /\ BaseMin <= l.base /\ l.base <= l.open /\ OpenMin <= l.open
      /\ MissBaseMin <= l.missBase /\ l.missBase <= l.missCap
      /\ 0 <= l.maxMiss
      /\ cfg.open > 0 => l.open = IF cfg.open < OpenMin THEN OpenMin ELSE cfg.open
  <2>1. l = clampMissBackoff(clampCircuitBackoffBase(clampCircuitOpenDuration(cfg)))
    BY DEF LoadWithSources
  <2> HIDE DEF l, cfg
  <2> QED  BY <1>1, <2>1, Clamped
<1> HIDE DEF l, cfg
<1>3. /\ l.base \in Int /\ l.open \in Int /\ l.missBase \in Int /\ l.missCap \in Int
      /\ l.maxMiss \in Int
  BY <1>2 DEF Number
<1>4. /\ l.base \in Nat \ {0} /\ l.open \in Nat \ {0}
      /\ l.missBase \in Nat \ {0} /\ l.missCap \in Nat \ {0}
  BY <1>2, <1>3, CadenceAssumption
<1> QED  BY <1>1, <1>2, <1>4 DEF l

\* What the worker's setters leave of it: positive durations, and the
\* configured ones where these fit the word.
LEMMA InForce ==
    ASSUME NEW l \in [Number -> Int],
           l.base \in Nat \ {0}, l.open \in Nat \ {0},
           l.missBase \in Nat \ {0}, l.missCap \in Nat \ {0}, 0 <= l.maxMiss
    PROVE  LET c == WorkerCadence(l)
           IN  /\ Honours(c.base, l.base, Second) /\ Honours(c.open, l.open, Second)
               /\ Honours(c.missBase, l.missBase, Hour) /\ Honours(c.missCap, l.missCap, Hour)
               /\ c.maxMiss = l.maxMiss
<1> DEFINE c == WorkerCadence(l)
<1>1. /\ BaseDefault \in Nat \ {0} /\ OpenDefault \in Nat \ {0}
      /\ MissBaseDefault \in Nat \ {0} /\ MissCapDefault \in Nat \ {0}
      /\ Second \in Nat \ {0} /\ Hour \in Nat \ {0}
  BY CadenceAssumption
<1>2. /\ c.base = Positive(BaseDefault * Second, Duration(l.base, Second))
      /\ c.open = Positive(OpenDefault * Second, Duration(l.open, Second))
      /\ c.missBase = Positive(MissBaseDefault * Hour, Duration(l.missBase, Hour))
      /\ c.missCap = Positive(MissCapDefault * Hour, Duration(l.missCap, Hour))
      /\ c.maxMiss = IF l.maxMiss < 0 THEN 0 ELSE l.maxMiss
  BY DEF WorkerCadence, Unit, Number, defaults
<1> HIDE DEF c
<1>3. /\ Honours(Positive(BaseDefault * Second, Duration(l.base, Second)), l.base, Second)
      /\ Honours(Positive(OpenDefault * Second, Duration(l.open, Second)), l.open, Second)
  BY <1>1, SetterKeeps, Zenon
<1>4. /\ Honours(Positive(MissBaseDefault * Hour, Duration(l.missBase, Hour)), l.missBase, Hour)
      /\ Honours(Positive(MissCapDefault * Hour, Duration(l.missCap, Hour)), l.missCap, Hour)
  BY <1>1, SetterKeeps, Zenon
<1>5. /\ Honours(c.base, l.base, Second) /\ Honours(c.open, l.open, Second)
      /\ Honours(c.missBase, l.missBase, Hour) /\ Honours(c.missCap, l.missCap, Hour)
  BY <1>2, <1>3, <1>4, Zenon
<1>6. c.maxMiss = l.maxMiss
  <2>1. l.maxMiss \in Int
    BY DEF Number
  <2> QED  BY <1>2, <2>1
<1> QED  BY <1>5, <1>6, Zenon DEF c

\* A delay between a base and a cap that both fit is not below the least one.
LEMMA FittingDelay ==
    ASSUME NEW least \in Int, NEW base \in Int, NEW cap \in Int, least <= base, base <= cap,
           NEW u \in Nat \ {0}, cap * u < HalfWord,
           NEW b, NEW c, Honours(b, base, u), Honours(c, cap, u), attempt \in Nat
    PROVE  least * u <= Geometric(attempt, b, c)
<1> DEFINE lu == least * u
           bu == base * u
           cu == cap * u
<1>1. lu \in Int /\ bu \in Int /\ lu <= bu /\ cu \in Int /\ bu <= cu
  BY ProductMonotone
<1>2. /\ b \in Nat \ {0} /\ (bu < HalfWord => b = bu)
      /\ c \in Nat \ {0} /\ (cu < HalfWord => c = cu) /\ cu < HalfWord
  BY DEF Honours
<1> HIDE DEF lu, bu, cu
<1>3. lu <= b /\ b <= c
  BY <1>1, <1>2, CadenceAssumption
<1>4. b <= Geometric(attempt, b, c) /\ Geometric(attempt, b, c) \in Int
  <2>1. attempt \in Int
    OBVIOUS
  <2> QED  BY <1>2, <1>3, <2>1, GeometricBetween
<1>5. lu <= Geometric(attempt, b, c)
  BY <1>1, <1>2, <1>3, <1>4
<1> QED  BY <1>5 DEF lu

\* The numbers in force never change, and attempts are counted up.
LEMMA CadenceStep == CadenceInv /\ [Attempt]_cadenceVars => CadenceInv'
  BY DEF CadenceInv, Attempt, cadenceVars

\* The configurations looked at are numbers.
LEMMA CadenceStarts == CadenceInit => CadenceInv
  BY ConfigurationsAssumption DEF CadenceInit, CadenceInv

\* The delays are those that PacedRetries asks for.
LEMMA Paced == ASSUME CadenceInv PROVE PacedRetries
<1> DEFINE l == LoadWithSources(written, exported)
           c == WorkerCadence(l)
           window == Geometric(attempt, c.base, c.open)
           cooldown == Geometric(attempt, c.missBase, c.missCap)
<1>1. /\ l \in [Number -> Int]
      /\ l.base \in Nat \ {0} /\ l.open \in Nat \ {0}
      /\ l.missBase \in Nat \ {0} /\ l.missCap \in Nat \ {0}
      /\ BaseMin <= l.base /\ l.base <= l.open /\ OpenMin <= l.open
      /\ MissBaseMin <= l.missBase /\ l.missBase <= l.missCap
      /\ EnvAccepted("open", exported.open) =>
            l.open = IF exported.open < OpenMin THEN OpenMin ELSE exported.open
      /\ 0 <= l.maxMiss
  BY Loaded
<1> HIDE DEF l
<1>2. /\ Honours(c.base, l.base, Second) /\ Honours(c.open, l.open, Second)
      /\ Honours(c.missBase, l.missBase, Hour) /\ Honours(c.missCap, l.missCap, Hour)
      /\ c.maxMiss = l.maxMiss
  BY <1>1, InForce
<1> HIDE DEF c
<1>3. /\ c.base \in Nat \ {0} /\ c.open \in Nat \ {0}
      /\ c.missBase \in Nat \ {0} /\ c.missCap \in Nat \ {0}
  BY <1>2 DEF Honours
<1>4. /\ attempt \in Nat /\ attempt \in Int
      /\ Second \in Nat \ {0} /\ Hour \in Nat \ {0}
      /\ BaseMin \in Int /\ OpenMin \in Int /\ MissBaseMin \in Int
  BY CadenceAssumption DEF CadenceInv
<1>5. CappedDoubling(window, c.base, c.open) /\ CappedDoubling(cooldown, c.missBase, c.missCap)
  BY <1>3, <1>4, GeometricDoubles
<1>6. 0 < window /\ window <= c.open
  <2>1. window \in 1 .. c.open
    BY <1>3, <1>4, GeometricBounded
  <2> HIDE DEF window
  <2> QED  BY <1>3, <2>1
<1>7. 0 < cooldown /\ cooldown <= c.missCap
  <2>1. cooldown \in 1 .. c.missCap
    BY <1>3, <1>4, GeometricBounded
  <2> HIDE DEF cooldown
  <2> QED  BY <1>3, <2>1
<1> HIDE DEF window, cooldown
<1>8. ASSUME l.open * Second < HalfWord PROVE BaseMin * Second <= window
  <2>1. l.base \in Int /\ l.open \in Int
    BY <1>1
  <2>2. BaseMin * Second <= Geometric(attempt, c.base, c.open)
    BY <1>1, <1>2, <1>4, <1>8, <2>1, FittingDelay, Zenon
  <2> QED  BY <2>2, Zenon DEF window
<1>9. ASSUME l.missCap * Hour < HalfWord PROVE MissBaseMin * Hour <= cooldown
  <2>1. l.missBase \in Int /\ l.missCap \in Int
    BY <1>1
  <2>2. MissBaseMin * Hour <= Geometric(attempt, c.missBase, c.missCap)
    BY <1>1, <1>2, <1>4, <1>9, <2>1, FittingDelay, Zenon
  <2> QED  BY <2>2, Zenon DEF cooldown
<1>10. ASSUME l.open * Second < HalfWord
      PROVE  /\ OpenMin * Second <= c.open
             /\ EnvAccepted("open", exported.open) =>
                   c.open = (IF exported.open < OpenMin THEN OpenMin ELSE exported.open) * Second
  <2>1. c.open = l.open * Second
    BY <1>2, <1>10 DEF Honours
  <2>2. OpenMin * Second <= l.open * Second
    BY <1>1, <1>4, ProductMonotone
  <2> QED  BY <1>1, <2>1, <2>2
<1>11. 0 <= c.maxMiss
  BY <1>1, <1>2
<1> QED  BY <1>5, <1>6, <1>7, <1>8, <1>9, <1>10, <1>11
         DEF PacedRetries, MissCooldown, l, c, window, cooldown

\* Whatever config.toml and the environment say (LoadWithSources, the conversion
\* to a time.Duration and its overflow, the worker's setters), and however often
\* a lookup has failed, the delay is the base in force doubled per attempt and
\* capped (Geometric, MissCooldown), never 0 and never above the maximum in
\* force; and not below the least delay where the configured maximum is within
\* the range of a time.Duration.
THEOREM PacedTheorem == CadenceSpec => []PacedRetries
  BY CadenceStarts, CadenceStep, Paced, PTL DEF CadenceSpec

-----------------------------------------------------------------------------
(* All parts together                                                      *)

\* The settings keep their types, for any number of requests.
LEMMA SettingsTypes == SettingsSpec => []SettingsTypeOK
<1>1. SettingsInv => SettingsTypeOK
  <2> SUFFICES ASSUME SettingsInv PROVE SettingsTypeOK
    OBVIOUS
  <2>1. SettingsTyped
    BY DEF SettingsInv
  <2>2. ASSUME NEW r \in Request
        PROVE  /\ save[r].pc \in SavePC /\ save[r].change \in SaveChange
               /\ save[r].doc \in Config /\ save[r].token \in Token \cup {NoToken}
    BY <2>1 DEF SettingsTyped, Save
  <2>3. ASSUME NEW r \in Request PROVE DOMAIN save[r].change \subseteq Field
    BY <2>2, ChangeFields DEF AnyChange
  <2>4. cli.pc \in {"none", "truncate", "encode"} /\ cli.doc \in Config
    BY <2>1 DEF SettingsTyped, CliRec
  <2> QED  BY <2>1, <2>2, <2>3, <2>4 DEF SettingsTyped, SavePC, SettingsTypeOK
<1> QED  BY <1>1, SettingsStarts, SettingsStep, PTL DEF SettingsSpec

\* So do the files of a volume and the processes that start on it.
LEMMA StartupTypes == StartupSpec => []StartupTypeOK
<1>1. StartupInv => StartupTypeOK
  <2> SUFFICES ASSUME StartupInv PROVE StartupTypeOK
    OBVIOUS
  <2>1. FilesOK /\ ProcsOK
    BY DEF StartupInv
  <2>2. ASSUME NEW p \in Process
        PROVE  /\ proc[p].id \in StartId \cup {0} /\ proc[p].hosts \subseteq Host
               /\ proc[p].key \in StartId \cup {None} /\ proc[p].loops \subseteq Loop
               /\ proc[p].open \in BOOLEAN
               /\ proc[p].cert = None \/ (proc[p].cert.cert \in Certificate /\ proc[p].cert.key \in StartId)
    <3>1. proc[p] \in ProcRec
      BY <2>1 DEF ProcsOK
    <3>2. proc[p].id \in StartId \cup {0}
      BY <3>1, StartupAssumption DEF ProcRec, StartId
    <3> QED  BY <3>1, <3>2 DEF ProcRec
  <2> QED  BY <2>1, <2>2 DEF FilesOK, StartupTypeOK, StartId, Certificate
<1> QED  BY <1>1, StartupInitInv, StartupInvStep, PTL DEF StartupSpec

\* And the webhook's requests.
LEMMA HookTypes == HookSpec => []HookTypeOK
<1>1. HookInv => HookTypeOK
  <2> SUFFICES ASSUME HookInv PROVE HookTypeOK
    OBVIOUS
  <2>1. HookTyped /\ \A d \in Delivery : HandlerOK(d)
    BY DEF HookInv
  <2>2. ASSUME NEW d \in Delivery PROVE delivery[d].pc \in HookPC
    BY <2>1 DEF HookTyped, Handler
  <2>3. ASSUME NEW d \in Delivery PROVE Len(delivery[d].inputs) <= Len(delivery[d].titles)
    <3> DEFINE h == delivery[d]
    <3>1. h \in Handler /\ HandlerOK(d)
      BY <2>1 DEF HookTyped
    <3>2. h.pc \in HookPC /\ Len(h.titles) \in Nat /\ Len(h.inputs) \in Nat
      BY <3>1 DEF Handler
    <3>3. /\ h.pc = "resolve" => Len(h.inputs) < Len(h.titles)
          /\ h.pc = "enqueue" => Len(h.titles) - Len(h.inputs) >= 0
          /\ h.pc \in {"ok", "error", "cleanup", "idle"} => h.inputs = <<>>
      BY <3>1 DEF HandlerOK
    <3>4. h.inputs = <<>> => Len(h.inputs) = 0
      OBVIOUS
    <3> HIDE DEF h
    <3>5. Len(h.inputs) <= Len(h.titles)
      BY <3>2, <3>3, <3>4 DEF HookPC
    <3> QED  BY <3>5 DEF h
  <2>4. InRoot \subseteq File
    BY WebhookAssumption
  <2> QED  BY <2>1, <2>2, <2>3, <2>4 DEF HookTyped, HookPC, Dest, HookTypeOK
<1> QED  BY <1>1, HookStarts, HookStep, PTL DEF HookSpec

\* And the detector.
LEMMA DetectorTypes == DetectorSpec => []DetectorTypeOK
<1> DEFINE Call == [pc : {"none", "wait", "cooldown", "classify"}, heard : SUBSET VocalClass]
           Verdict == [instrumental : BOOLEAN, heard : SUBSET VocalClass]
<1>1. DetectorInit => DetectorTypeOK
  BY DEF DetectorInit, DetectorTypeOK, Undetected, NoVerdict
<1>2. DetectorTypeOK /\ [DetectorNext]_detectorVars => DetectorTypeOK'
  <2> SUFFICES ASSUME DetectorTypeOK, [DetectorNext]_detectorVars PROVE DetectorTypeOK'
    OBVIOUS
  <2>1. detection \in [Listener -> Call] /\ verdict \in Verdict
    BY DEF DetectorTypeOK
  <2>2. CASE UNCHANGED detectorVars \/ CooldownEnds
    BY <2>2 DEF DetectorTypeOK, detectorVars, CooldownEnds
  <2>3. ASSUME NEW c \in Listener,
               Detect(c) \/ LockDetector(c) \/ CooldownInterrupted(c)
               \/ Sample(c) \/ SampleFails(c) \/ ClassifyFails(c)
        PROVE  DetectorTypeOK'
    <3>1. detection' \in [Listener -> Call]
      BY <2>1, <2>3 DEF Detect, LockDetector, CooldownInterrupted, Sample, SampleFails,
                        ClassifyFails, ReturnVerdict, Goes, Undetected
    <3>2. mutex' \in Listener \cup {NoListener} /\ inference' \in {"never", "recent", "cooled"}
          /\ UNCHANGED <<vocalBaseline, reported, verdict>>
      BY <2>3 DEF Detect, LockDetector, CooldownInterrupted, Sample, SampleFails,
                  ClassifyFails, ReturnVerdict, Goes, DetectorTypeOK
    <3> QED  BY <3>1, <3>2 DEF DetectorTypeOK
  <2>4. ASSUME NEW c \in Listener, Decide(c) PROVE DetectorTypeOK'
    <3>1. detection' \in [Listener -> Call] /\ detection[c].heard \subseteq VocalClass
      BY <2>1, <2>4 DEF Decide, ReturnVerdict, Undetected
    <3>2. mutex' = NoListener /\ inference' = "recent"
      BY <2>4 DEF Decide, ReturnVerdict
    <3>3. PICK answer \in Answers :
            LET baseline == IF answer.max = {} THEN vocalBaseline ELSE growVocalBaseline(answer)
            IN  /\ vocalBaseline' = baseline
                /\ verdict' = [instrumental |-> Instrumental(answer, detection[c].heard, baseline),
                               heard |-> detection[c].heard]
                /\ reported' = reported \cup (answer.max \cap VocalClass)
      BY <2>4 DEF Decide
    <3>4. vocalBaseline' \subseteq VocalClass /\ reported' \subseteq VocalClass
      BY <3>3 DEF growVocalBaseline, DetectorTypeOK
    <3>5. verdict' \in Verdict
      <4>1. ASSUME NEW b PROVE Instrumental(answer, detection[c].heard, b) \in BOOLEAN
        BY DEF Instrumental
      <4> QED  BY <3>1, <3>3, <4>1
    <3> QED  BY <3>1, <3>2, <3>4, <3>5 DEF DetectorTypeOK
  <2> QED  BY <2>2, <2>3, <2>4 DEF DetectorNext
<1> QED  BY <1>1, <1>2, PTL DEF DetectorSpec

\* The parts share no state: what MCServe lets them do is what each may do alone.
LEMMA ServeParts ==
    ServeSpec => /\ AccessSpec /\ SettingsSpec /\ StartupSpec /\ Spec /\ RootsSpec
                 /\ DetectorSpec /\ FetchSpec /\ CadenceSpec /\ HookSpec
<1> DEFINE all == <<part, accessVars, settingsVars, startupVars, vars, rootsVars,
                    detectorVars, fetchVars, cadenceVars, hookVars>>
<1>1. ServeInit => /\ AccessInit /\ SettingsInit /\ StartupInit /\ Init /\ RootsInit
                   /\ DetectorInit /\ FetchInit /\ CadenceInit /\ HookInit
  BY DEF ServeInit
<1>2. [ServeNext]_all =>
        /\ [AccessNext]_accessVars /\ [SettingsNext]_settingsVars /\ [StartupNext]_startupVars
        /\ [Next]_vars /\ [RootsNext]_rootsVars /\ [DetectorNext]_detectorVars
        /\ [FetchNext]_fetchVars /\ [Attempt]_cadenceVars /\ [HookNext]_hookVars
  BY DEF ServeNext
<1> QED  BY <1>1, <1>2, PTL DEF ServeSpec, AccessSpec, SettingsSpec, StartupSpec, Spec, RootsSpec,
                              DetectorSpec, FetchSpec, CadenceSpec, HookSpec

\* The type invariant of all parts: accounts, sessions, configuration, files,
\* pacer, detector, one-shot command and the webhook's requests keep their
\* types, whichever handlers of theirs run, for every value of the constants.
THEOREM ServeTypes == ServeSpec => []ServeTypeOK
<1>1. IInv => TypeOK
  BY DEF IInv
<1> QED  BY <1>1, ServeParts, AccessTypeTheorem, SettingsTypes, StartupTypes, PacerInvariant,
            DetectorTypes, FetchTypeTheorem, HookTypes, PTL DEF ServeTypeOK

=============================================================================
