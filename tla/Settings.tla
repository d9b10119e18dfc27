------------------------------ MODULE Settings ------------------------------
(***************************************************************************)
(* The configuration file and everybody who writes it: the save handlers   *)
(* of the settings page (internal/web/settings_save*.go) over the comment- *)
(* preserving writer (internal/config/writer.go, validate.go), and the     *)
(* commands `config set` and `secrets`. A start of serve reads the file    *)
(* back (internal/config/config.go, the head of runServe).                 *)
(*                                                                         *)
(* The fields kept are those that a check relates to one another: the      *)
(* provider selection, the TLS files, the verifier, and the Musixmatch     *)
(* token with its two homes, the file and the encrypted store. All others  *)
(* are accepted or refused one by one (ValidateAndSet) and restored to     *)
(* their defaults or clamped at the next load; a refused value changes     *)
(* nothing. A path or a URL is set or not.                                 *)
(***************************************************************************)
EXTENDS Naturals

CONSTANTS
    Request,     \* requests of the settings page
    Provider,    \* providers.Known
    DefaultPrimary,
    Token, NoToken,
    Free,        \* nobody holds saveMu
    Down,        \* serve is not running
    MaxSaves     \* bound: saves and commands

ASSUME SettingsAssumption ==
    /\ DefaultPrimary \in Provider /\ "unset" \notin Provider /\ NoToken \notin Token
    /\ Free \notin Request /\ MaxSaves \in Nat

VARIABLES
    file,      \* config.toml
    store,     \* the Musixmatch token in the secrets table
    env,       \* the environment of the daemon, fixed
    running,   \* the effective configuration serve was started with
    lock,      \* UI.saveMu
    save,      \* where a request is
    cli,       \* `config set` in the course of its write
    saves,     \* the bounded counter
    acked,     \* a token save was answered with "saved"
    outside    \* the file was written past the page's checks: by config set or the
               \* secrets command, or by a page save that was checked against the
               \* configuration of the start because the file could not be loaded

settingsVars == <<file, store, env, running, lock, save, cli, saves, acked, outside>>

Field == {"primary", "disabled", "cert", "key", "selfSigned", "verify", "whisper", "token"}

Empty == [primary |-> "unset", disabled |-> {}, cert |-> FALSE, key |-> FALSE,
          selfSigned |-> FALSE, verify |-> FALSE, whisper |-> FALSE, token |-> NoToken]

\* The file on top of the defaults, where a blank field is as good as none.
Decode(f) == [f EXCEPT !.primary = IF @ = "unset" THEN DefaultPrimary ELSE @]

\* applyEnvOverrides, as far as a field of the page is locked by it.
EnvOverrides(c) ==
    [c EXCEPT !.primary = IF env.primary # "unset" THEN env.primary ELSE @,
              !.token = IF env.token # NoToken THEN env.token ELSE @]

\* LoadWithSources
Effective(f) == EnvOverrides(Decode(f))

\* ValidateTLSSelection
TLSValid(c) == /\ ~(c.selfSigned /\ (c.cert \/ c.key))
               /\ c.cert = c.key

\* providers.ValidateSelection: the primary is enabled, and so is some provider.
SelectionValid(c) == c.primary \notin c.disabled /\ Provider \ c.disabled # {}

\* newVerifier
VerifierBuilt(c) == c.verify => c.whisper

\* What LoadWithSources accepts, and what serve starts with.
Loads(c) == TLSValid(c)
Boots(c) == Loads(c) /\ c.primary \notin c.disabled /\ VerifierBuilt(c)

\* resolveTokenWithStore: the store comes last.
ResolveToken(c) == IF c.token # NoToken THEN c.token ELSE store

\* fieldEnvLocked
EnvLocked(field) == \/ field = "primary" /\ env.primary # "unset"
                    \/ field = "token" /\ env.token # NoToken

\* The forms of the page: one field, or a section of related fields.
FieldChange ==
    UNION {[primary : Provider], [disabled : SUBSET Provider],
           [cert : BOOLEAN], [key : BOOLEAN], [selfSigned : BOOLEAN],
           [verify : BOOLEAN], [whisper : BOOLEAN]}
SectionChange ==
    {ch \in [cert : BOOLEAN, key : BOOLEAN, selfSigned : BOOLEAN] : ch.cert = ch.key}
    \cup [primary : Provider, disabled : SUBSET Provider]

\* SetValue for every field of the change, Remove for a token that is none.
Over(ch, c) == [x \in DOMAIN c |-> IF x \in DOMAIN ch THEN ch[x] ELSE c[x]]

NoChange == [token |-> NoToken]
NoSave == [pc |-> "none", change |-> NoChange, doc |-> Empty, token |-> NoToken]
NoCli == [pc |-> "none", doc |-> Empty]

SettingsInit ==
    /\ file \in {Empty, [Empty EXCEPT !.token = "old"],
                 [Empty EXCEPT !.disabled = Provider \ {DefaultPrimary}, !.selfSigned = TRUE]}
    /\ store \in {NoToken, "old"}
    /\ env \in [primary : {"unset", DefaultPrimary}, token : {NoToken, "old"}]
    /\ running = [Effective(file) EXCEPT !.token = ResolveToken(Effective(file))]
    /\ lock = Free /\ save = [r \in Request |-> NoSave] /\ cli = NoCli
    /\ saves = 0 /\ acked = FALSE /\ outside = FALSE

-----------------------------------------------------------------------------
(* The page                                                                *)

\* handleSaveField and handleSaveSection up to the lock: the fields are known,
\* not locked by the environment, and each value is well formed.
SubmitSave(r) ==
    /\ save[r].pc = "none" /\ running # Down /\ saves < MaxSaves
    /\ \E ch \in FieldChange \cup SectionChange :
         /\ \A x \in DOMAIN ch : ~EnvLocked(x)
         /\ save' = [save EXCEPT ![r] = [@ EXCEPT !.pc = "wait", !.change = ch]]
    /\ saves' = saves + 1
    /\ UNCHANGED <<file, store, env, running, lock, cli, acked, outside>>

\* saveSecretToken, a blank value aside.
SubmitToken(r) ==
    /\ save[r].pc = "none" /\ running # Down /\ saves < MaxSaves /\ ~EnvLocked("token")
    /\ \E t \in Token :
         save' = [save EXCEPT ![r] = [@ EXCEPT !.pc = "wait", !.token = t]]
    /\ saves' = saves + 1
    /\ UNCHANGED <<file, store, env, running, lock, cli, acked, outside>>

\* Faulty: the mutex was dropped.
LockSavesNot(r) ==
    /\ save[r].pc = "wait"
    /\ UNCHANGED lock
    /\ save' = [save EXCEPT ![r].pc = IF save[r].token = NoToken THEN "check" ELSE "store"]
    /\ UNCHANGED <<file, store, env, running, cli, saves, acked, outside>>

LockSaves(r) ==
    /\ save[r].pc = "wait" /\ lock = Free
    /\ lock' = r
    /\ save' = [save EXCEPT ![r].pc = IF save[r].token = NoToken THEN "check" ELSE "store"]
    /\ UNCHANGED <<file, store, env, running, cli, saves, acked, outside>>

\* The handler returns and unlocks.
Return(r) == /\ save' = [save EXCEPT ![r] = NoSave]
             /\ lock' = IF lock = r THEN Free ELSE lock

\* checkProviderInvariant and checkTLSInvariant: the change on top of cur.
Check(r, cur) ==
    IF SelectionValid(Over(save[r].change, cur)) /\ TLSValid(Over(save[r].change, cur))
    THEN save' = [save EXCEPT ![r].pc = "read"] /\ UNCHANGED lock
    ELSE Return(r)

\* Against currentConfig, the file as it is now.
CheckFile(r) ==
    /\ save[r].pc = "check" /\ Loads(Effective(file))
    /\ Check(r, Effective(file))
    /\ UNCHANGED <<file, store, env, running, cli, saves, acked, outside>>

\* The file cannot be loaded: currentConfig is the startup snapshot.
CheckSnapshot(r) ==
    /\ save[r].pc = "check"
    /\ Check(r, running)
    /\ outside' = (outside \/ save'[r].pc = "read")
    /\ UNCHANGED <<file, store, env, running, cli, saves, acked>>

\* ApplyChanges: LoadDocument ...
ReadDocument(r) ==
    /\ save[r].pc = "read"
    /\ save' = [save EXCEPT ![r] = [@ EXCEPT !.pc = "rename", !.doc = file]]
    /\ UNCHANGED <<file, store, env, running, lock, cli, saves, acked, outside>>

\* ... SetValue or Remove, and WriteAtomic: temporary file, backup, rename.
RenameDocument(r) ==
    /\ save[r].pc = "rename"
    /\ file' = Over(save[r].change, save[r].doc)
    /\ acked' = (acked \/ save[r].token # NoToken)
    /\ Return(r)
    /\ UNCHANGED <<store, env, running, cli, saves, outside>>

\* Any step of the write fails; the file is as it was.
WriteFails(r) ==
    /\ save[r].pc \in {"read", "rename", "store"}
    /\ Return(r)
    /\ UNCHANGED <<file, store, env, running, cli, saves, acked, outside>>

StoreToken(r) ==
    /\ save[r].pc = "store"
    /\ store' = save[r].token
    /\ save' = [save EXCEPT ![r].pc = "strip"]
    /\ UNCHANGED <<file, env, running, lock, cli, saves, acked, outside>>

\* Faulty: the token is in the store, and that is that.
StripTokenNot(r) ==
    /\ save[r].pc = "strip"
    /\ acked' = TRUE /\ Return(r)
    /\ UNCHANGED <<file, store, env, running, cli, saves, outside>>

\* RemoveKeyIfPresent: nothing to do, or the document without the token.
StripToken(r) ==
    /\ save[r].pc = "strip"
    /\ IF file.token = NoToken
       THEN acked' = TRUE /\ Return(r)
       ELSE /\ save' = [save EXCEPT ![r] = [@ EXCEPT !.pc = "rename", !.doc = file,
                                                     !.change = NoChange]]
            /\ UNCHANGED <<lock, acked>>
    /\ UNCHANGED <<file, store, env, running, cli, saves, outside>>

-----------------------------------------------------------------------------
(* The commands                                                            *)

\* runSecretsSet and runSecretsImport.
Secrets ==
    /\ saves < MaxSaves
    /\ \E t \in (Token \cup {Effective(file).token}) \ {NoToken} : store' = t
    /\ saves' = saves + 1
    /\ UNCHANGED <<file, env, running, lock, save, cli, acked, outside>>

\* `config set`: load the effective configuration and change one value of it.
ConfigSetLoads ==
    /\ cli.pc = "none" /\ saves < MaxSaves /\ Loads(Effective(file))
    /\ \E ch \in FieldChange \cup [token : Token] :
         /\ DOMAIN ch \cap {"cert", "key", "selfSigned"} = {}
         /\ cli' = [pc |-> "truncate", doc |-> Over(ch, Effective(file))]
    /\ saves' = saves + 1
    /\ UNCHANGED <<file, store, env, running, lock, save, acked, outside>>

\* OpenFile with O_TRUNC, then the encoder; no lock and no check.
ConfigSetTruncates ==
    /\ cli.pc = "truncate"
    /\ file' = Empty /\ outside' = TRUE
    /\ cli' = [cli EXCEPT !.pc = "encode"]
    /\ UNCHANGED <<store, env, running, lock, save, saves, acked>>

ConfigSetEncodes ==
    /\ cli.pc = "encode"
    /\ file' = cli.doc /\ cli' = NoCli
    /\ UNCHANGED <<store, env, running, lock, save, saves, acked, outside>>

\* The command fails or is killed.
ConfigSetDies ==
    /\ cli.pc # "none"
    /\ cli' = NoCli
    /\ UNCHANGED <<file, store, env, running, lock, save, saves, acked, outside>>

-----------------------------------------------------------------------------
(* The daemon                                                              *)

\* Serve ends at any point and is started again.
RestartServe ==
    /\ running' = IF Boots(Effective(file))
                  THEN [Effective(file) EXCEPT !.token = ResolveToken(Effective(file))]
                  ELSE Down
    /\ lock' = Free /\ save' = [r \in Request |-> NoSave]
    /\ UNCHANGED <<file, store, env, cli, saves, acked, outside>>

SettingsNext ==
    \/ \E r \in Request :
         \/ SubmitSave(r) \/ SubmitToken(r) \/ LockSaves(r) \/ CheckFile(r) \/ CheckSnapshot(r)
         \/ ReadDocument(r) \/ RenameDocument(r) \/ WriteFails(r)
         \/ StoreToken(r) \/ StripToken(r)
    \/ Secrets \/ ConfigSetLoads \/ ConfigSetTruncates \/ ConfigSetEncodes \/ ConfigSetDies
    \/ RestartServe

SettingsSpec == SettingsInit /\ [][SettingsNext]_settingsVars

-----------------------------------------------------------------------------
(* Properties                                                              *)

Config == [primary : Provider \cup {"unset"}, disabled : SUBSET Provider,
           cert : BOOLEAN, key : BOOLEAN, selfSigned : BOOLEAN,
           verify : BOOLEAN, whisper : BOOLEAN, token : Token \cup {NoToken, "old"}]

\* Type invariant of the file, the store, the lock and the saves.
SettingsTypeOK ==
    /\ file \in Config /\ store \in Token \cup {NoToken, "old"}
    /\ running \in Config \cup {Down}
    /\ lock \in Request \cup {Free}
    /\ \A r \in Request :
         /\ save[r].pc \in {"none", "wait", "check", "read", "rename", "store", "strip"}
         /\ DOMAIN save[r].change \subseteq Field
         /\ save[r].doc \in Config /\ save[r].token \in Token \cup {NoToken}
    /\ cli.pc \in {"none", "truncate", "encode"} /\ cli.doc \in Config
    /\ saves \in 0 .. MaxSaves /\ acked \in BOOLEAN /\ outside \in BOOLEAN

\* However saves of one field and of sections interleave, fail or are cut off
\* by a restart, the file they leave has a provider selection and a TLS
\* selection that the next start accepts; provided nobody wrote past the checks
\* (outside): not config set, nor the secrets command, nor a save of the page
\* itself while the file could not be loaded, which it checks against the
\* configuration of the start (currentConfig).
SelectionBoots ==
    ~outside => SelectionValid(Effective(file)) /\ TLSValid(Effective(file))

\* After a token save was acknowledged the next start takes the token from the
\* store: no save that runs beside it, and no copy in the file, masks it; again
\* provided nobody wrote past the checks.
TokenServed ==
    acked /\ ~outside /\ env.token = NoToken => ResolveToken(Effective(file)) = store

=============================================================================
