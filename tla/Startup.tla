------------------------------- MODULE Startup -------------------------------
(***************************************************************************)
(* What a process prepares before it works, and how serve ends: the master *)
(* key of the secrets store (internal/secrets/key.go), the ffmpeg binary   *)
(* (internal/ffmpeg), the self-signed certificate (internal/servetls), and *)
(* the background loops and the database of runServe                       *)
(* (internal/commands/commands.go). All three files live beside the        *)
(* database and are shared: serve and a command, or two daemons on one     *)
(* volume, start at the same time, and any of them may die anywhere.       *)
(*                                                                         *)
(* Every process takes the steps in the order of runServe; a command stops *)
(* after the ones it needs. A generated key, binary or certificate is      *)
(* known by the number of the start that made it.                          *)
(***************************************************************************)
EXTENDS Naturals, FiniteSets

CONSTANTS
    Process,
    Host,        \* self_signed_hosts
    Loop,        \* the background loops
    LyricsLoop,  \* those that need a lyrics provider
    FragileLoop, \* those that an error ends for good
    None,        \* nothing there
    Blank,       \* a file without content
    MaxStarts    \* bound: process starts

ASSUME StartupAssumption ==
    /\ LyricsLoop \subseteq Loop /\ FragileLoop \subseteq Loop /\ MaxStarts \in Nat
    /\ None \notin Nat \cup {Blank, "partial"} /\ Blank \notin Nat

VARIABLES
    keyFile,   \* .mxlrcgo.key: None, Blank or a key
    binary,    \* the cached ffmpeg: None, "partial" or "whole"
    tlsKey,    \* key.pem: None or the pair it is half of
    tlsCert,   \* cert.pem: None or [pair, hosts, fresh]
    proc,      \* the processes
    starts,    \* number of starts
    keysUsed   \* the keys that sealed secrets so far

onDisk == <<keyFile, binary, tlsKey, tlsCert>>
startupVars == <<onDisk, proc, starts, keysUsed>>

\* Where a process is, its start, the hosts it is configured with, the key,
\* the binary and the certificate it works with, its loops and its database.
Off == [pc |-> "off", id |-> 0, hosts |-> {}, key |-> None, binary |-> None,
        cert |-> None, loops |-> {}, open |-> FALSE]

StartupInit ==
    /\ keyFile = None /\ binary = None /\ tlsKey = None /\ tlsCert = None
    /\ proc = [p \in Process |-> Off]
    /\ starts = 0 /\ keysUsed = {}

At(p, pc) == proc[p].pc = pc
GoTo(p, pc) == proc' = [proc EXCEPT ![p].pc = pc]

Start(p) ==
    /\ At(p, "off") /\ starts < MaxStarts
    /\ starts' = starts + 1
    /\ \E h \in SUBSET Host :
         proc' = [proc EXCEPT ![p] = [Off EXCEPT !.pc = "stat", !.id = starts + 1,
                                                 !.hosts = h, !.open = TRUE]]
    /\ UNCHANGED <<onDisk, keysUsed>>

\* The process is killed at any point, or fails and closes the database.
Die(p) ==
    /\ ~At(p, "off")
    /\ proc' = [proc EXCEPT ![p] = Off]
    /\ UNCHANGED <<onDisk, starts, keysUsed>>

-----------------------------------------------------------------------------
(* The master key                                                          *)

\* loadOrCreateKeyFile: is there a file?
StatKey(p) ==
    /\ At(p, "stat")
    /\ GoTo(p, IF keyFile = None THEN "create" ELSE "readkey")
    /\ UNCHANGED <<onDisk, starts, keysUsed>>

UseKey(p, k) ==
    /\ proc' = [proc EXCEPT ![p] = [@ EXCEPT !.pc = "ffmpeg", !.key = k]]
    /\ keysUsed' = keysUsed \cup {k}

\* A key is 32 bytes; anything else is fatal.
ReadKey(p) ==
    /\ At(p, "readkey")
    /\ IF keyFile = Blank THEN GoTo(p, "keyless") /\ UNCHANGED keysUsed
                            ELSE UseKey(p, keyFile)
    /\ UNCHANGED <<onDisk, starts>>

\* Faulty: the file is created or truncated.
CreateKeyFileAnyway(p) ==
    /\ At(p, "create")
    /\ keyFile' = Blank /\ GoTo(p, "writekey")
    /\ UNCHANGED <<binary, tlsKey, tlsCert, starts, keysUsed>>

\* createKeyFile: the exclusive create; the loser reads what there is.
CreateKeyFile(p) ==
    /\ At(p, "create")
    /\ IF keyFile = None THEN keyFile' = Blank /\ GoTo(p, "writekey")
                         ELSE UNCHANGED keyFile /\ GoTo(p, "readkey")
    /\ UNCHANGED <<binary, tlsKey, tlsCert, starts, keysUsed>>

WriteKey(p) ==
    /\ At(p, "writekey")
    /\ keyFile' = proc[p].id /\ UseKey(p, proc[p].id)
    /\ UNCHANGED <<binary, tlsKey, tlsCert, starts>>

-----------------------------------------------------------------------------
(* ffmpeg                                                                  *)

\* Resolve: not needed or configured or on the PATH; the cached binary; or a
\* download.
ResolveFFmpeg(p) ==
    /\ At(p, "ffmpeg")
    /\ \/ GoTo(p, "tls")
       \/ /\ binary # None
          /\ proc' = [proc EXCEPT ![p] = [@ EXCEPT !.pc = "tls", !.binary = binary]]
       \/ binary = None /\ GoTo(p, "extract")
    /\ UNCHANGED <<onDisk, starts, keysUsed>>

\* Faulty: the archive is unpacked where the binary is looked for.
ExtractBinaryInPlace(p) ==
    /\ At(p, "extract")
    /\ binary' = "partial" /\ GoTo(p, "install")
    /\ UNCHANGED <<keyFile, tlsKey, tlsCert, starts, keysUsed>>

\* downloadVerified and extractBinary, each into a temporary file of its own;
\* a wrong checksum or a failing copy ends in Die.
ExtractBinary(p) ==
    /\ At(p, "extract")
    /\ GoTo(p, "install")
    /\ UNCHANGED <<onDisk, starts, keysUsed>>

\* The rename; a binary that another process installed is as good.
InstallBinary(p) ==
    /\ At(p, "install")
    /\ binary' = "whole"
    /\ proc' = [proc EXCEPT ![p] = [@ EXCEPT !.pc = "tls", !.binary = "whole"]]
    /\ UNCHANGED <<keyFile, tlsKey, tlsCert, starts, keysUsed>>

-----------------------------------------------------------------------------
(* The self-signed certificate                                             *)

\* loadValidCert and sansCovered: the halves match, thirty days are left, and
\* the configured hosts are covered.
Reusable(p) ==
    /\ tlsCert # None /\ tlsKey = tlsCert.pair
    /\ tlsCert.fresh /\ proc[p].hosts \subseteq tlsCert.hosts

\* ensureSelfSignedCert: reuse the stored pair or generate one.
LoadPair(p) ==
    /\ At(p, "tls")
    /\ IF Reusable(p)
       THEN proc' = [proc EXCEPT ![p] = [@ EXCEPT !.pc = "listen",
                                         !.cert = [cert |-> tlsCert, key |-> tlsKey]]]
       ELSE GoTo(p, "genkey")
    /\ UNCHANGED <<onDisk, starts, keysUsed>>

\* TLS is off, or the certificate is the operator's own.
NoSelfSigned(p) ==
    /\ At(p, "tls") /\ GoTo(p, "listen")
    /\ UNCHANGED <<onDisk, starts, keysUsed>>

\* The key is written first ...
WriteTLSKey(p) ==
    /\ At(p, "genkey")
    /\ tlsKey' = proc[p].id /\ GoTo(p, "gencert")
    /\ UNCHANGED <<keyFile, binary, tlsCert, starts, keysUsed>>

\* ... then the certificate; the process serves the pair it generated.
WriteTLSCert(p) ==
    /\ At(p, "gencert")
    /\ tlsCert' = [pair |-> proc[p].id, hosts |-> proc[p].hosts, fresh |-> TRUE]
    /\ proc' = [proc EXCEPT ![p] = [@ EXCEPT !.pc = "listen",
                                    !.cert = [cert |-> tlsCert', key |-> proc[p].id]]]
    /\ UNCHANGED <<keyFile, binary, tlsKey, starts, keysUsed>>

\* Most of a year goes by.
CertAges ==
    /\ tlsCert # None /\ tlsCert.fresh
    /\ tlsCert' = [tlsCert EXCEPT !.fresh = FALSE]
    /\ UNCHANGED <<keyFile, binary, tlsKey, proc, starts, keysUsed>>

-----------------------------------------------------------------------------
(* The run of serve                                                        *)

\* The background loops start; without a usable lyrics provider the worker and
\* the scheduler do not, and the watcher and the sweeper are optional.
StartLoops(p) ==
    /\ At(p, "listen")
    /\ \E some \in SUBSET (Loop \ LyricsLoop), lyrics \in BOOLEAN :
         proc' = [proc EXCEPT ![p] = [@ EXCEPT !.pc = "serving",
                                      !.loops = some \cup (IF lyrics THEN LyricsLoop ELSE {})]]
    /\ UNCHANGED <<onDisk, starts, keysUsed>>

\* A signal, or a listener that cannot bind: the run context is canceled.
Stop(p) ==
    /\ At(p, "serving") /\ GoTo(p, "stopping")
    /\ UNCHANGED <<onDisk, starts, keysUsed>>

\* A loop sees the canceled context; the scheduler and the watcher also end
\* when one of their steps fails.
LoopEnds(p) ==
    /\ proc[p].pc \in {"serving", "stopping"}
    /\ \E l \in proc[p].loops :
         /\ At(p, "stopping") \/ l \in FragileLoop
         /\ proc' = [proc EXCEPT ![p].loops = @ \ {l}]
    /\ UNCHANGED <<onDisk, starts, keysUsed>>

\* wg.Wait, then Close.
CloseDatabase(p) ==
    /\ At(p, "stopping") /\ proc[p].loops = {}
    /\ proc' = [proc EXCEPT ![p] = [@ EXCEPT !.pc = "ended", !.open = FALSE]]
    /\ UNCHANGED <<onDisk, starts, keysUsed>>

StartupNext ==
    \/ CertAges
    \/ \E p \in Process :
         \/ Start(p) \/ Die(p) \/ StatKey(p) \/ ReadKey(p) \/ CreateKeyFile(p) \/ WriteKey(p)
         \/ ResolveFFmpeg(p) \/ ExtractBinary(p) \/ InstallBinary(p)
         \/ LoadPair(p) \/ NoSelfSigned(p) \/ WriteTLSKey(p) \/ WriteTLSCert(p)
         \/ StartLoops(p) \/ Stop(p) \/ LoopEnds(p) \/ CloseDatabase(p)

StartupSpec == StartupInit /\ [][StartupNext]_startupVars

-----------------------------------------------------------------------------
(* Properties                                                              *)

\* Type invariant of the shared files and the processes.
StartupTypeOK ==
    LET Id == 1 .. MaxStarts
        Cert == [pair : Id, hosts : SUBSET Host, fresh : BOOLEAN]
    IN  /\ keyFile \in Id \cup {None, Blank} /\ binary \in {None, "partial", "whole"}
        /\ tlsKey \in Id \cup {None} /\ tlsCert \in Cert \cup {None}
        /\ starts \in 0 .. MaxStarts /\ keysUsed \subseteq Id
        /\ \A p \in Process :
             /\ proc[p].id \in Id \cup {0} /\ proc[p].hosts \subseteq Host
             /\ proc[p].key \in Id \cup {None} /\ proc[p].loops \subseteq Loop
             /\ proc[p].cert = None \/ (proc[p].cert.cert \in Cert /\ proc[p].cert.key \in Id)
             /\ proc[p].open \in BOOLEAN

\* All secrets are sealed under one key, however many processes start for the
\* first time together and die half way: what one sealed the others can open.
OneMasterKey == Cardinality(keysUsed) <= 1

\* A process that got past its preparations has an ffmpeg binary that was
\* unpacked to the end, and a certificate whose key is the one beside it and
\* which names the configured hosts, whatever an earlier start left behind.
WholeFiles ==
    \A p \in Process :
        /\ proc[p].binary # "partial"
        /\ proc[p].cert # None =>
             /\ proc[p].cert.key = proc[p].cert.cert.pair
             /\ proc[p].hosts \subseteq proc[p].cert.cert.hosts

=============================================================================
