------------------------------ MODULE WebAccess ------------------------------
(***************************************************************************)
(* Who may use the service: the first-run setup (internal/web/setup.go,    *)
(* internal/webauth), the login with its per-address rate limiter          *)
(* (internal/web/auth.go, ratelimit.go), the sessions and their sweeper,   *)
(* the admin bootstrapped from the environment, and the webhook API keys   *)
(* (internal/auth, internal/web/keys.go, the keys command).                *)
(*                                                                         *)
(* A client is one browser request at a time; requests interleave between  *)
(* their database and limiter calls. A request that fails the same-origin, *)
(* CSRF or form checks changes nothing and is left out. Users, sessions,   *)
(* secrets and keys are in the database and survive a restart; the latch   *)
(* and the limiter are in memory.                                          *)
(***************************************************************************)
EXTENDS Naturals, FiniteSets

CONSTANTS
    Client, Address,
    AddressOf,      \* clientKey: the resolved address of a client
    TrustedClient,  \* clients on a trusted network
    Environment,    \* the admin named by MXLRC_WEBAUTH_ADMIN_USER
    Cli,            \* the keys command
    Key,
    ConfigKey,      \* the keys of server.webhook_api_keys
    MaxFailures, Lockout, IdleEvict, MaxEntries, SessionTTL,
    SecretName,     \* the secrets of the setup form
    MaxNow,         \* bound: the clock
    MaxSessions,    \* bound: sessions in the table
    MaxRestarts     \* bound: restarts of the daemon

ASSUME AccessAssumption ==
    /\ AddressOf \in [Client -> Address] /\ TrustedClient \subseteq Client
    /\ IsFiniteSet(Client) /\ Environment \notin Client /\ Cli \notin Client /\ ConfigKey \subseteq Key
    /\ MaxFailures \in Nat \ {0} /\ Lockout \in Nat \ {0} /\ IdleEvict \in Nat
    /\ MaxEntries \in Nat \ {0} /\ SessionTTL \in Nat \ {0}
    /\ MaxNow \in Nat /\ MaxSessions \in Nat /\ MaxRestarts \in Nat

VARIABLES
    users,     \* the creators of the rows of the users table
    secret,    \* the secrets store, by who wrote the value
    sessions,  \* the sessions table
    keys,      \* api_key_metadata: "absent", "active" or "revoked"
    latch,     \* Onboarding.adminExists
    attempts,  \* loginLimiter.attempts
    request,   \* where the request of a client is
    clock, restarts

stored == <<users, secret, sessions, keys>>
inMemory == <<latch, attempts, request>>
accessVars == <<stored, inMemory, clock, restarts>>

NoEntry == [failures |-> 0, lockedUntil |-> 0, lastSeen |-> 0]
Tracked == {a \in Address : attempts[a].failures > 0}

AccessInit ==
    /\ users \in {{}, {Environment}}
    /\ secret = [n \in SecretName |-> "unset"]
    /\ sessions = {}
    /\ keys = [k \in Key |-> IF k \in ConfigKey THEN "active" ELSE "absent"]
    /\ latch = FALSE /\ attempts = [a \in Address |-> NoEntry]
    /\ request = [c \in Client |-> "none"]
    /\ clock = 0 /\ restarts = 0

\* A lockout is zero when unset; an active one ends after clock.
Locked(a) == attempts[a].lockedUntil > clock

Proceed(c, to) == request' = [request EXCEPT ![c] = to]

-----------------------------------------------------------------------------
(* First run                                                               *)

\* hasAdmin, before any page (FirstRunGate) and before the setup form.
LearnAdmin ==
    /\ ~latch /\ users # {}
    /\ latch' = TRUE
    /\ UNCHANGED <<stored, attempts, request, clock, restarts>>

\* POST /setup, from a trusted network, finds no admin.
SetupStarts(c) ==
    /\ request[c] = "none" /\ c \in TrustedClient
    /\ ~latch /\ users = {}
    /\ Proceed(c, "setup")
    /\ UNCHANGED <<stored, latch, attempts, clock, restarts>>

\* webauth.Setup looks again before it hashes the password.
SetupLooksAgain(c) ==
    /\ request[c] = "setup"
    /\ IF users = {} THEN Proceed(c, "insert") /\ UNCHANGED latch
                     ELSE Proceed(c, "none") /\ latch' = TRUE
    /\ UNCHANGED <<stored, attempts, clock, restarts>>

\* Faulty: the loser of the race goes on to store its secrets.
CreateFirstUserShared(c) ==
    /\ request[c] = "insert"
    /\ users' = IF users = {} THEN {c} ELSE users
    /\ Proceed(c, "welcome") /\ latch' = TRUE
    /\ UNCHANGED <<secret, sessions, keys, attempts, clock, restarts>>

\* The conditional insert: zero rows when somebody was faster.
CreateFirstUser(c) ==
    /\ request[c] = "insert"
    /\ IF users = {} THEN users' = {c} /\ Proceed(c, "welcome")
                     ELSE UNCHANGED users /\ Proceed(c, "none")
    /\ latch' = TRUE
    /\ UNCHANGED <<secret, sessions, keys, attempts, clock, restarts>>

\* A database error in the course of the setup.
SetupFails(c) ==
    /\ request[c] \in {"setup", "insert"}
    /\ Proceed(c, "none")
    /\ UNCHANGED <<stored, latch, attempts, clock, restarts>>

\* writeSecrets: the fields that are filled in and whose write succeeds.
WriteSecrets(c) ==
    /\ request[c] = "welcome"
    /\ \E some \in SUBSET SecretName :
         secret' = [n \in SecretName |-> IF n \in some THEN c ELSE secret[n]]
    /\ Proceed(c, "enter")
    /\ UNCHANGED <<users, sessions, keys, latch, attempts, clock, restarts>>

\* Faulty: a lifetime that was left at its zero value.
NewSessionZero(c) == [owner |-> c, expires |-> clock]

\* A session for c.
NewSession(c) == [owner |-> c, expires |-> clock + SessionTTL]

\* The new admin is logged in; a failing login only redirects to /login.
SetupLogsIn(c) ==
    /\ request[c] = "enter"
    /\ \/ Cardinality(sessions) < MaxSessions /\ sessions' = sessions \cup {NewSession(c)}
       \/ UNCHANGED sessions
    /\ Proceed(c, "none")
    /\ UNCHANGED <<users, secret, keys, latch, attempts, clock, restarts>>

-----------------------------------------------------------------------------
(* Login                                                                   *)

\* limiter.allow: a lockout that has run out is forgotten, an active one
\* refuses the request before its credentials are looked at.
LoginAllowed(c) ==
    /\ request[c] = "none" /\ ~Locked(AddressOf[c])
    /\ attempts' = IF attempts[AddressOf[c]].lockedUntil > 0
                   THEN [attempts EXCEPT ![AddressOf[c]] = NoEntry]
                   ELSE attempts
    /\ Proceed(c, "verify")
    /\ UNCHANGED <<stored, latch, clock, restarts>>

\* The right password: the session is created, the address forgotten.
LoginSucceeds(c) ==
    /\ request[c] = "verify" /\ users # {} /\ Cardinality(sessions) < MaxSessions
    /\ sessions' = sessions \cup {NewSession(c)}
    /\ attempts' = [attempts EXCEPT ![AddressOf[c]] = NoEntry]
    /\ Proceed(c, "none")
    /\ UNCHANGED <<users, secret, keys, latch, clock, restarts>>

Full(map) == Cardinality({a \in Address : map[a].failures > 0}) >= MaxEntries
Without(map, gone) == [a \in Address |-> IF a \in gone THEN NoEntry ELSE map[a]]

\* evictIdleLocked: entries without an active lockout and long unseen.
EvictIdle == Without(attempts,
    {a \in Tracked : ~Locked(a) /\ attempts[a].lastSeen + IdleEvict < clock})

\* Faulty: the oldest entry goes, locked or not.
EvictOldestAny(map) ==
    LET entries == {a \in Address : map[a].failures > 0}
    IN  {Without(map, {a}) : a \in {b \in entries :
             \A o \in entries : map[b].lastSeen <= map[o].lastSeen}}

\* evictOldestLocked: one of the oldest entries without an active lockout,
\* if there is one.
EvictOldest(map) ==
    LET open == {a \in Address : map[a].failures > 0 /\ map[a].lockedUntil <= clock}
        oldest == {a \in open : \A o \in open : map[a].lastSeen <= map[o].lastSeen}
    IN  IF open = {} THEN {map} ELSE {Without(map, {a}) : a \in oldest}

\* The maps that make room for a new address: the limiter's map itself, that
\* map without the idle entries, or without the oldest one as well.
RoomFor(a) ==
    IF a \in Tracked \/ ~Full(attempts) THEN {attempts}
    ELSE IF ~Full(EvictIdle) THEN {EvictIdle} ELSE EvictOldest(EvictIdle)

\* The entry after one more failure; the limit locks the address.
Failed(entry) ==
    [failures |-> entry.failures + 1,
     lockedUntil |-> IF entry.failures + 1 >= MaxFailures THEN clock + Lockout
                     ELSE entry.lockedUntil,
     lastSeen |-> clock]

\* An unknown user, a wrong password or a database error: limiter.fail. When
\* every entry holds an active lockout the address is not stored.
LoginFails(c) ==
    /\ request[c] = "verify"
    /\ \E map \in RoomFor(AddressOf[c]) :
         attempts' = IF AddressOf[c] \notin Tracked /\ Full(map) THEN map
                     ELSE [map EXCEPT ![AddressOf[c]] = Failed(@)]
    /\ Proceed(c, "none")
    /\ UNCHANGED <<stored, latch, clock, restarts>>

\* ValidateSession: known, not expired, its user still there.
SessionValid(s) == s.expires > clock /\ users # {}

\* RequireSession behind FirstRunGate: a trusted network or a valid session.
Admitted(c) ==
    /\ users # {}
    /\ c \in TrustedClient \/ \E s \in sessions : s.owner = c /\ SessionValid(s)

\* The session is deleted; a failure only clears the cookie.
Logout(c) ==
    /\ request[c] = "none"
    /\ \E s \in sessions : s.owner = c /\ sessions' = sessions \ {s}
    /\ UNCHANGED <<users, secret, keys, inMemory, clock, restarts>>

Expired == {s \in sessions : s.expires <= clock}

\* runSessionSweeper, every hour.
Sweep ==
    /\ Expired # {}
    /\ sessions' = sessions \ Expired
    /\ UNCHANGED <<users, secret, keys, inMemory, clock, restarts>>

-----------------------------------------------------------------------------
(* API keys                                                                *)

\* CreateKey, from the keys page or the keys command.
CreateKey(c, k) ==
    /\ c = Cli \/ Admitted(c)
    /\ keys[k] = "absent"
    /\ keys' = [keys EXCEPT ![k] = "active"]
    /\ UNCHANGED <<users, secret, sessions, inMemory, clock, restarts>>

\* RevokeByID and RevokeByHash, of a key that exists.
RevokeKey(c, k) ==
    /\ c = Cli \/ Admitted(c)
    /\ keys[k] # "absent"
    /\ keys' = [keys EXCEPT ![k] = "revoked"]
    /\ UNCHANGED <<users, secret, sessions, inMemory, clock, restarts>>

\* Faulty: the configured keys are written over the rows they have.
ImportKeysAnew == [k \in Key |-> IF k \in ConfigKey THEN "active" ELSE keys[k]]

\* keyService: a configured key gets a row if its hash has none.
ImportKeys ==
    [k \in Key |-> IF k \in ConfigKey /\ keys[k] = "absent" THEN "active" ELSE keys[k]]

-----------------------------------------------------------------------------
(* The process                                                             *)

\* bootstrapAdminFromEnv, when both variables are set: never an overwrite.
Bootstrap(isSet) == IF isSet /\ users = {} THEN {Environment} ELSE users

\* The daemon ends at any point and starts again: the admin from the
\* environment, the configured keys, and the first sweep.
Restart ==
    /\ restarts < MaxRestarts
    /\ restarts' = restarts + 1
    /\ \E isSet \in BOOLEAN : users' = Bootstrap(isSet)
    /\ keys' = ImportKeys
    /\ sessions' = sessions \ Expired
    /\ latch' = FALSE /\ attempts' = [a \in Address |-> NoEntry]
    /\ request' = [c \in Client |-> "none"]
    /\ UNCHANGED <<secret, clock>>

ClockTicks ==
    /\ clock < MaxNow
    /\ clock' = clock + 1
    /\ UNCHANGED <<stored, inMemory, restarts>>

AccessNext ==
    \/ LearnAdmin \/ Sweep \/ Restart \/ ClockTicks
    \/ \E c \in Client :
         \/ SetupStarts(c) \/ SetupLooksAgain(c) \/ CreateFirstUser(c)
         \/ SetupFails(c) \/ WriteSecrets(c) \/ SetupLogsIn(c)
         \/ LoginAllowed(c) \/ LoginSucceeds(c) \/ LoginFails(c) \/ Logout(c)
    \/ \E c \in Client \cup {Cli}, k \in Key : CreateKey(c, k) \/ RevokeKey(c, k)

AccessSpec == AccessInit /\ [][AccessNext]_accessVars

-----------------------------------------------------------------------------
(* Properties                                                              *)

\* Type invariant of the accounts, the sessions, the keys and the limiter.
AccessTypeOK ==
    /\ users \subseteq Client \cup {Environment}
    /\ secret \in [SecretName -> Client \cup {"unset"}]
    /\ sessions \subseteq [owner : Client, expires : 1 .. MaxNow + SessionTTL]
    /\ keys \in [Key -> {"absent", "active", "revoked"}]
    /\ latch \in BOOLEAN
    /\ attempts \in [Address -> [failures : Nat, lockedUntil : Nat, lastSeen : 0 .. MaxNow]]
    /\ request \in [Client -> {"none", "setup", "insert", "welcome", "enter", "verify"}]
    /\ clock \in 0 .. MaxNow /\ restarts \in 0 .. MaxRestarts

\* The secrets in the store are those of the client whose account was created.
SecretsFromAdmin == \A n \in SecretName : secret[n] # "unset" => secret[n] \in users

\* There is at most one admin, and it stays the one there is: concurrent
\* setups, and a bootstrap at the next start, never add or replace a row, and
\* the loser of the race leaves none of its secrets behind; and a latched
\* process has an admin, so it never hides the setup page for good.
AdminStays == [][/\ (users # {} => users' = users) /\ Cardinality(users') <= 1
                 /\ SecretsFromAdmin' /\ (latch' => users' # {})]_accessVars

\* The limiter's two bounds: it never tracks more addresses than maxEntries,
\* also when every entry is locked; and an address exceeds the limit of
\* failures at most by the requests that were let in together.
LimiterBounded ==
    /\ Cardinality(Tracked) <= MaxEntries
    /\ \A a \in Address :
         attempts[a].failures < MaxFailures + Cardinality({c \in Client : AddressOf[c] = a})

\* An active lockout ends by its time, by a restart, or by the successful login
\* of a request that was let in before; making room for other addresses never
\* lifts or shortens it, and the limiter stays within its bounds all the same.
LockoutHeld ==
    [][/\ LimiterBounded'
       /\ \A a \in Address : Locked(a) /\ restarts' = restarts =>
            \/ attempts'[a].lockedUntil >= attempts[a].lockedUntil
            \/ \E c \in Client : /\ AddressOf[c] = a /\ NewSession(c) \in sessions'
                                 /\ request[c] = "verify" /\ request'[c] = "none"]_accessVars

\* A revoked key is never accepted again, also when the configuration still
\* lists it at the next start.
RevokedStays ==
    [][\A k \in Key : keys[k] = "revoked" => keys'[k] = "revoked"]_accessVars
=============================================================================
