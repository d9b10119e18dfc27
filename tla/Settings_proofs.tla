-------------------------- MODULE Settings_proofs ---------------------------
(***************************************************************************)
(* Proofs about what a start of the program works with: the files it       *)
(* prepares (Startup) and its configuration with all who write it          *)
(* (Settings), for any number of processes, requests, providers and tokens.*)
(***************************************************************************)
EXTENDS Startup, Settings, FiniteSetTheorems, TLAPS

-----------------------------------------------------------------------------
(* What a start prepares                                                   *)

ProcPC == {"off", "stat", "create", "readkey", "keyless", "writekey", "ffmpeg", "extract",
           "install", "tls", "genkey", "gencert", "listen", "serving", "stopping", "ended"}

StartId == 1 .. MaxStarts
Certificate == [pair : StartId, hosts : SUBSET Host, fresh : BOOLEAN]
ProcRec == [pc : ProcPC, id : 0 .. MaxStarts, hosts : SUBSET Host,
            key : StartId \cup {None}, binary : {None, "whole"},
            cert : [cert : Certificate, key : StartId] \cup {None},
            loops : SUBSET Loop, open : BOOLEAN]

\* What is said of one process: a start that runs has a number, and the
\* certificate it works with is half of a pair that names its hosts.
ProcOK(r) ==
    /\ r.pc # "off" => r.id # 0
    /\ r.cert # None => /\ r.cert.key = r.cert.cert.pair
                        /\ r.hosts \subseteq r.cert.cert.hosts

ProcsOK ==
    /\ proc \in [Process -> ProcRec]
    /\ \A p \in Process : ProcOK(proc[p])

FilesOK ==
    /\ keyFile \in StartId \cup {None, Blank} /\ binary \in {None, "whole"}
    /\ tlsKey \in StartId \cup {None} /\ tlsCert \in Certificate \cup {None}
    /\ starts \in 0 .. MaxStarts /\ keysUsed \subseteq StartId

\* Whoever sealed a secret used the key in the file; a process that is about
\* to write the key is alone and found no file, one that is about to read it
\* found one.
KeyHeld ==
    /\ \A k \in keysUsed : keyFile = k
    /\ \A p \in Process :
         /\ proc[p].pc = "readkey" => keyFile # None
         /\ proc[p].pc = "writekey" => keyFile = Blank
    /\ \A p, q \in Process : proc[p].pc = "writekey" /\ proc[q].pc = "writekey" => p = q

StartupInv == FilesOK /\ ProcsOK /\ KeyHeld

\* A process that is off satisfies all of it.
LEMMA OffGood == Off \in ProcRec /\ ProcOK(Off)
  BY StartupAssumption DEF Off, ProcRec, ProcPC, ProcOK

\* A volume on which nothing has started yet satisfies the invariant.
LEMMA StartupInitInv == StartupInit => StartupInv
<1> SUFFICES ASSUME StartupInit PROVE StartupInv
  OBVIOUS
<1>1. FilesOK
  BY StartupAssumption DEF StartupInit, FilesOK
<1>2. ProcsOK
  BY OffGood DEF StartupInit, ProcsOK
<1>3. KeyHeld
  BY DEF StartupInit, KeyHeld, Off
<1> QED BY <1>1, <1>2, <1>3 DEF StartupInv

\* One process moves on and leaves the key file alone.
LEMMA QuietStep ==
    ASSUME StartupInv, NEW p \in Process, NEW r \in ProcRec, ProcOK(r),
           proc' = [proc EXCEPT ![p] = r], FilesOK',
           UNCHANGED <<keyFile, keysUsed>>,
           r.pc # "writekey", r.pc = "readkey" => keyFile # None
    PROVE  StartupInv'
<1>1. proc'[p] = r /\ \A q \in Process \ {p} : proc'[q] = proc[q]
  BY DEF StartupInv, ProcsOK
<1>2. ProcsOK'
  BY <1>1 DEF StartupInv, ProcsOK
<1>3. KeyHeld'
  BY <1>1 DEF StartupInv, KeyHeld
<1> QED BY <1>2, <1>3 DEF StartupInv

\* What GoTo makes of a process.
LEMMA Moved ==
    ASSUME ProcsOK, NEW p \in Process, NEW to \in ProcPC, proc[p].pc # "off"
    PROVE  LET r == [proc[p] EXCEPT !.pc = to]
           IN  /\ r \in ProcRec /\ ProcOK(r) /\ r.pc = to
               /\ GoTo(p, to) => proc' = [proc EXCEPT ![p] = r]
<1> DEFINE r == [proc[p] EXCEPT !.pc = to]
<1>1. proc[p] \in ProcRec /\ ProcOK(proc[p])
  BY DEF ProcsOK
<1>2. r \in ProcRec /\ r.pc = to /\ r.id = proc[p].id /\ r.cert = proc[p].cert
      /\ r.hosts = proc[p].hosts
  BY <1>1 DEF ProcRec
<1>3. ProcOK(r)
  BY <1>1, <1>2 DEF ProcOK
<1>4. GoTo(p, to) => proc' = [proc EXCEPT ![p] = r]
  BY DEF GoTo
<1> QED BY <1>2, <1>3, <1>4

\* The steps that only move a process.
LEMMA PlainSteps ==
    ASSUME StartupInv, NEW p \in Process,
           \/ StatKey(p) \/ ExtractBinary(p) \/ NoSelfSigned(p) \/ Stop(p)
    PROVE  StartupInv'
<1>1. UNCHANGED <<onDisk, starts, keysUsed>> /\ FilesOK'
  BY DEF StatKey, ExtractBinary, NoSelfSigned, Stop, StartupInv, FilesOK, onDisk
<1>2. ASSUME NEW to \in ProcPC, GoTo(p, to), proc[p].pc # "off",
             to # "writekey", to = "readkey" => keyFile # None
      PROVE  StartupInv'
  <2> DEFINE r == [proc[p] EXCEPT !.pc = to]
  <2>1. r \in ProcRec /\ ProcOK(r) /\ r.pc = to /\ proc' = [proc EXCEPT ![p] = r]
    BY <1>2, Moved DEF StartupInv
  <2> HIDE DEF r
  <2> QED  BY <1>1, <1>2, <2>1, QuietStep DEF onDisk
<1>3. CASE StatKey(p)
  BY <1>2, <1>3 DEF StatKey, At, ProcPC
<1>4. CASE ExtractBinary(p)
  BY <1>2, <1>4 DEF ExtractBinary, At, ProcPC
<1>5. CASE NoSelfSigned(p)
  BY <1>2, <1>5 DEF NoSelfSigned, At, ProcPC
<1>6. CASE Stop(p)
  BY <1>2, <1>6 DEF Stop, At, ProcPC
<1> QED BY <1>3, <1>4, <1>5, <1>6

\* The steps that change more of a process, but not the key.
LEMMA OtherSteps ==
    ASSUME StartupInv, NEW p \in Process,
           \/ Start(p) \/ Die(p) \/ ResolveFFmpeg(p) \/ InstallBinary(p) \/ LoadPair(p)
           \/ WriteTLSKey(p) \/ WriteTLSCert(p) \/ StartLoops(p) \/ LoopEnds(p)
           \/ CloseDatabase(p)
    PROVE  StartupInv'
<1>1. /\ proc[p] \in ProcRec /\ ProcOK(proc[p]) /\ FilesOK /\ ProcsOK
      /\ MaxStarts \in Nat /\ None \notin Nat /\ Blank \notin Nat /\ None # Blank
  BY StartupAssumption DEF StartupInv, ProcsOK
<1>2. UNCHANGED <<keyFile, keysUsed>>
  BY DEF Start, Die, ResolveFFmpeg, InstallBinary, LoadPair, WriteTLSKey, WriteTLSCert,
         StartLoops, LoopEnds, CloseDatabase, onDisk
<1>3. ASSUME NEW to \in ProcPC, GoTo(p, to), proc[p].pc # "off", FilesOK',
             to \notin {"writekey", "readkey"}
      PROVE  StartupInv'
  <2> DEFINE r == [proc[p] EXCEPT !.pc = to]
  <2>1. r \in ProcRec /\ ProcOK(r) /\ r.pc = to /\ proc' = [proc EXCEPT ![p] = r]
    BY <1>1, <1>3, Moved
  <2> HIDE DEF r
  <2> QED  BY <1>2, <1>3, <2>1, QuietStep
<1>4. CASE Start(p)
  <2>1. PICK h \in SUBSET Host :
          proc' = [proc EXCEPT ![p] = [Off EXCEPT !.pc = "stat", !.id = starts + 1,
                                                 !.hosts = h, !.open = TRUE]]
    BY <1>4 DEF Start
  <2> DEFINE r == [Off EXCEPT !.pc = "stat", !.id = starts + 1, !.hosts = h, !.open = TRUE]
  <2>2. starts \in Nat /\ starts + 1 \in 0 .. MaxStarts /\ starts + 1 # 0
    <3>1. starts \in 0 .. MaxStarts
      BY <1>1 DEF FilesOK
    <3>2. starts < MaxStarts
      BY <1>4 DEF Start
    <3> QED  BY <1>1, <3>1, <3>2
  <2>3. FilesOK'
    <3>1. starts' \in 0 .. MaxStarts
      BY <1>1, <1>4, <2>2 DEF Start
    <3>2. UNCHANGED <<keyFile, binary, tlsKey, tlsCert, keysUsed>>
      BY <1>4 DEF Start, onDisk
    <3> QED  BY <1>1, <3>1, <3>2 DEF FilesOK
  <2>4. Off \in ProcRec /\ Off.cert = None
    BY OffGood DEF Off
  <2>5. /\ r \in ProcRec /\ r.pc = "stat" /\ r.id = starts + 1 /\ r.cert = None
    BY <2>2, <2>4 DEF ProcRec, ProcPC
  <2>6. ProcOK(r) /\ r.pc = "stat"
    BY <2>2, <2>5 DEF ProcOK
  <2> HIDE DEF r
  <2> QED  BY <1>2, <2>1, <2>3, <2>5, <2>6, QuietStep DEF r
<1>5. CASE Die(p)
  <2>1. FilesOK' /\ proc' = [proc EXCEPT ![p] = Off] /\ Off.pc = "off"
    BY <1>1, <1>5 DEF Die, FilesOK, onDisk, Off
  <2> QED  BY <1>2, <2>1, OffGood, QuietStep
<1>6. CASE ResolveFFmpeg(p)
  <2>1. FilesOK' /\ proc[p].pc = "ffmpeg"
    BY <1>1, <1>6 DEF ResolveFFmpeg, FilesOK, onDisk, At
  <2>2. CASE GoTo(p, "tls") \/ GoTo(p, "extract")
    BY <1>3, <2>1, <2>2 DEF ProcPC
  <2>3. CASE binary # None /\ proc' = [proc EXCEPT ![p] = [@ EXCEPT !.pc = "tls", !.binary = binary]]
    <3> DEFINE r == [proc[p] EXCEPT !.pc = "tls", !.binary = binary]
    <3>1. r \in ProcRec /\ r.pc = "tls" /\ r.id = proc[p].id /\ r.cert = proc[p].cert
          /\ r.hosts = proc[p].hosts
      BY <1>1 DEF ProcRec, ProcPC, FilesOK
    <3>2. ProcOK(r) /\ proc' = [proc EXCEPT ![p] = r]
      BY <1>1, <2>1, <2>3, <3>1 DEF ProcOK
    <3> HIDE DEF r
    <3> QED  BY <1>2, <2>1, <3>1, <3>2, QuietStep
  <2> QED  BY <1>6, <2>2, <2>3 DEF ResolveFFmpeg
<1>7. CASE InstallBinary(p)
  <2> DEFINE r == [proc[p] EXCEPT !.pc = "tls", !.binary = "whole"]
  <2>1. FilesOK' /\ proc[p].pc = "install" /\ proc' = [proc EXCEPT ![p] = r]
    BY <1>1, <1>7 DEF InstallBinary, FilesOK, At
  <2>2. r \in ProcRec /\ r.pc = "tls" /\ r.id = proc[p].id /\ r.cert = proc[p].cert
        /\ r.hosts = proc[p].hosts
    BY <1>1 DEF ProcRec, ProcPC
  <2>3. ProcOK(r)
    BY <1>1, <2>1, <2>2 DEF ProcOK
  <2> HIDE DEF r
  <2> QED  BY <1>2, <2>1, <2>2, <2>3, QuietStep
<1>8. CASE LoadPair(p)
  <2>1. FilesOK' /\ proc[p].pc = "tls"
    BY <1>1, <1>8 DEF LoadPair, FilesOK, onDisk, At
  <2>2. CASE ~Reusable(p)
    BY <1>3, <1>8, <2>1, <2>2 DEF LoadPair, ProcPC
  <2>3. CASE Reusable(p)
    <3> DEFINE pair == [cert |-> tlsCert, key |-> tlsKey]
               r == [proc[p] EXCEPT !.pc = "listen", !.cert = pair]
    <3>1. proc' = [proc EXCEPT ![p] = r]
      BY <1>8, <2>3 DEF LoadPair
    <3>2. /\ tlsCert \in Certificate /\ tlsKey \in StartId /\ tlsKey = tlsCert.pair
          /\ proc[p].hosts \subseteq tlsCert.hosts
      BY <1>1, <2>3 DEF Reusable, FilesOK, Certificate
    <3>3. r \in ProcRec /\ r.pc = "listen" /\ r.id = proc[p].id /\ r.cert = pair
          /\ r.hosts = proc[p].hosts
      BY <1>1, <3>2 DEF ProcRec, ProcPC
    <3>4. ProcOK(r)
      BY <1>1, <2>1, <3>2, <3>3 DEF ProcOK
    <3> HIDE DEF r
    <3> QED  BY <1>2, <2>1, <3>1, <3>3, <3>4, QuietStep
  <2> QED  BY <2>2, <2>3
<1>9. CASE WriteTLSKey(p)
  <2>1. FilesOK' /\ proc[p].pc = "genkey"
    BY <1>1, <1>9 DEF WriteTLSKey, FilesOK, At, ProcRec, ProcOK, StartId
  <2> QED  BY <1>3, <1>9, <2>1 DEF WriteTLSKey, ProcPC
<1>10. CASE WriteTLSCert(p)
  <2> DEFINE made == [pair |-> proc[p].id, hosts |-> proc[p].hosts, fresh |-> TRUE]
             pair == [cert |-> made, key |-> proc[p].id]
             r == [proc[p] EXCEPT !.pc = "listen", !.cert = pair]
  <2>1. proc[p].pc = "gencert" /\ proc' = [proc EXCEPT ![p] = r] /\ tlsCert' = made
    BY <1>10 DEF WriteTLSCert, At
  <2>2. proc[p].id \in StartId /\ made \in Certificate
    BY <1>1, <2>1 DEF ProcRec, ProcOK, StartId, Certificate
  <2>3. FilesOK'
    BY <1>1, <1>10, <2>1, <2>2 DEF WriteTLSCert, FilesOK
  <2>4. r \in ProcRec /\ r.pc = "listen" /\ r.id = proc[p].id /\ r.cert = pair
        /\ r.hosts = proc[p].hosts
    BY <1>1, <2>2 DEF ProcRec, ProcPC
  <2>5. ProcOK(r)
    BY <1>1, <2>1, <2>4 DEF ProcOK
  <2> HIDE DEF r
  <2> QED  BY <1>2, <2>1, <2>3, <2>4, <2>5, QuietStep
<1>11. CASE StartLoops(p) \/ LoopEnds(p)
  <2>1. PICK to \in {"serving", "stopping"}, some \in SUBSET Loop :
          proc' = [proc EXCEPT ![p] = [@ EXCEPT !.pc = to, !.loops = some]]
    <3>1. CASE StartLoops(p)
      BY <3>1, StartupAssumption DEF StartLoops
    <3>2. CASE LoopEnds(p)
      <4>1. PICK l \in proc[p].loops : proc' = [proc EXCEPT ![p].loops = @ \ {l}]
        BY <3>2 DEF LoopEnds
      <4>2. /\ proc[p].loops \ {l} \in SUBSET Loop /\ proc[p].pc \in {"serving", "stopping"}
            /\ [proc[p] EXCEPT !.loops = @ \ {l}] =
                 [proc[p] EXCEPT !.pc = proc[p].pc, !.loops = proc[p].loops \ {l}]
        BY <1>1, <3>2 DEF LoopEnds, ProcRec
      <4> QED  BY <4>1, <4>2
    <3> QED  BY <1>11, <3>1, <3>2
  <2> DEFINE r == [proc[p] EXCEPT !.pc = to, !.loops = some]
  <2>2. FilesOK' /\ proc[p].pc # "off" /\ proc' = [proc EXCEPT ![p] = r]
    BY <1>1, <1>11, <2>1 DEF StartLoops, LoopEnds, At, FilesOK, onDisk
  <2>3. r \in ProcRec /\ r.pc = to /\ r.id = proc[p].id /\ r.cert = proc[p].cert
        /\ r.hosts = proc[p].hosts
    BY <1>1 DEF ProcRec, ProcPC
  <2>4. ProcOK(r)
    BY <1>1, <2>2, <2>3 DEF ProcOK
  <2> HIDE DEF r
  <2> QED  BY <1>2, <2>2, <2>3, <2>4, QuietStep
<1>12. CASE CloseDatabase(p)
  <2> DEFINE r == [proc[p] EXCEPT !.pc = "ended", !.open = FALSE]
  <2>1. FilesOK' /\ proc[p].pc = "stopping" /\ proc' = [proc EXCEPT ![p] = r]
    BY <1>1, <1>12 DEF CloseDatabase, FilesOK, At, onDisk
  <2>2. r \in ProcRec /\ r.pc = "ended" /\ r.id = proc[p].id /\ r.cert = proc[p].cert
        /\ r.hosts = proc[p].hosts
    BY <1>1 DEF ProcRec, ProcPC
  <2>3. ProcOK(r)
    BY <1>1, <2>1, <2>2 DEF ProcOK
  <2> HIDE DEF r
  <2> QED  BY <1>2, <2>1, <2>2, <2>3, QuietStep
<1> QED
  BY <1>4, <1>5, <1>6, <1>7, <1>8, <1>9, <1>10, <1>11, <1>12

\* The steps on the key file.
LEMMA KeySteps ==
    ASSUME StartupInv, NEW p \in Process,
           ReadKey(p) \/ CreateKeyFile(p) \/ WriteKey(p)
    PROVE  StartupInv'
<1>1. /\ proc[p] \in ProcRec /\ ProcOK(proc[p]) /\ FilesOK /\ ProcsOK /\ KeyHeld
      /\ MaxStarts \in Nat /\ None \notin Nat /\ Blank \notin Nat /\ None # Blank
  BY StartupAssumption DEF StartupInv, ProcsOK
\* With the key in hand the process goes on to ffmpeg.
<1>2. ASSUME NEW k \in StartId, UseKey(p, k), proc[p].pc # "off", keyFile' = k,
             FilesOK', \A o \in keysUsed : o = k,
             \A q \in Process \ {p} : proc[q].pc # "writekey"
      PROVE  StartupInv'
  <2> DEFINE r == [proc[p] EXCEPT !.pc = "ffmpeg", !.key = k]
  <2>1. /\ r \in ProcRec /\ r.pc = "ffmpeg" /\ r.id = proc[p].id /\ r.cert = proc[p].cert
        /\ r.hosts = proc[p].hosts /\ proc' = [proc EXCEPT ![p] = r]
    BY <1>1, <1>2 DEF ProcRec, ProcPC, UseKey
  <2>2. ProcOK(r)
    BY <1>1, <1>2, <2>1 DEF ProcOK
  <2> HIDE DEF r
  <2>3. proc'[p] = r /\ \A q \in Process \ {p} : proc'[q] = proc[q]
    BY <1>1, <2>1 DEF ProcsOK
  <2>4. ProcsOK'
    BY <1>1, <2>1, <2>2, <2>3 DEF ProcsOK
  <2>5. keyFile' # None /\ \A o \in keysUsed' : keyFile' = o
    BY <1>1, <1>2 DEF UseKey, StartId
  <2>6. \A q \in Process : proc'[q].pc # "writekey"
    BY <1>2, <2>1, <2>3
  <2>7. KeyHeld'
    BY <2>5, <2>6 DEF KeyHeld
  <2> QED  BY <1>2, <2>4, <2>7 DEF StartupInv
<1>3. CASE ReadKey(p)
  <2>1. proc[p].pc = "readkey" /\ keyFile # None /\ UNCHANGED <<onDisk, starts>>
    BY <1>1, <1>3 DEF ReadKey, At, KeyHeld
  <2>2. CASE keyFile = Blank
    <3> DEFINE r == [proc[p] EXCEPT !.pc = "keyless"]
    <3>1. GoTo(p, "keyless") /\ UNCHANGED <<keyFile, keysUsed>>
      BY <1>3, <2>1, <2>2 DEF ReadKey, onDisk
    <3>2. r \in ProcRec /\ ProcOK(r) /\ r.pc = "keyless" /\ proc' = [proc EXCEPT ![p] = r]
      BY <1>1, <2>1, <3>1, Moved DEF ProcPC
    <3>3. FilesOK'
      BY <1>1, <2>1, <3>1 DEF FilesOK, onDisk
    <3> HIDE DEF r
    <3> QED  BY <3>1, <3>2, <3>3, QuietStep
  <2>3. CASE keyFile # Blank
    <3>1. keyFile \in StartId /\ UseKey(p, keyFile) /\ keyFile' = keyFile
      BY <1>1, <1>3, <2>1, <2>3 DEF ReadKey, FilesOK, onDisk
    <3>2. FilesOK'
      BY <1>1, <2>1, <3>1 DEF FilesOK, onDisk, UseKey
    <3>3. \A q \in Process : proc[q].pc # "writekey"
      BY <1>1, <2>3 DEF KeyHeld
    <3>4. \A o \in keysUsed : o = keyFile
      BY <1>1 DEF KeyHeld
    <3> QED  BY <1>2, <2>1, <3>1, <3>2, <3>3, <3>4
  <2> QED  BY <2>2, <2>3
<1>4. CASE CreateKeyFile(p)
  <2>1. proc[p].pc = "create" /\ UNCHANGED <<binary, tlsKey, tlsCert, starts, keysUsed>>
    BY <1>4 DEF CreateKeyFile, At
  <2>2. CASE keyFile # None
    <3> DEFINE r == [proc[p] EXCEPT !.pc = "readkey"]
    <3>1. GoTo(p, "readkey") /\ UNCHANGED <<keyFile, keysUsed>>
      BY <1>4, <2>1, <2>2 DEF CreateKeyFile
    <3>2. r \in ProcRec /\ ProcOK(r) /\ r.pc = "readkey" /\ proc' = [proc EXCEPT ![p] = r]
      BY <1>1, <2>1, <3>1, Moved DEF ProcPC
    <3>3. FilesOK'
      BY <1>1, <2>1, <3>1 DEF FilesOK
    <3> HIDE DEF r
    <3> QED  BY <2>2, <3>1, <3>2, <3>3, QuietStep
  <2>3. CASE keyFile = None
    <3> DEFINE r == [proc[p] EXCEPT !.pc = "writekey"]
    <3>1. GoTo(p, "writekey") /\ keyFile' = Blank
      BY <1>4, <2>3 DEF CreateKeyFile
    <3>2. r \in ProcRec /\ ProcOK(r) /\ r.pc = "writekey" /\ proc' = [proc EXCEPT ![p] = r]
      BY <1>1, <2>1, <3>1, Moved DEF ProcPC
    <3> HIDE DEF r
    <3>3. FilesOK'
      BY <1>1, <2>1, <3>1 DEF FilesOK
    <3>4. proc'[p] = r /\ \A q \in Process \ {p} : proc'[q] = proc[q]
      BY <1>1, <3>2 DEF ProcsOK
    <3>5. ProcsOK'
      BY <1>1, <3>2, <3>4 DEF ProcsOK
    <3>6. keysUsed = {} /\ \A q \in Process : proc[q].pc \notin {"readkey", "writekey"}
      BY <1>1, <2>3 DEF KeyHeld, FilesOK, StartId
    <3> QED  BY <2>1, <3>1, <3>2, <3>3, <3>4, <3>5, <3>6 DEF StartupInv, KeyHeld
  <2> QED  BY <2>2, <2>3
<1>5. CASE WriteKey(p)
  <2>1. proc[p].pc = "writekey" /\ keyFile' = proc[p].id /\ UseKey(p, proc[p].id)
    BY <1>5 DEF WriteKey, At
  <2>2. proc[p].id \in StartId
    BY <1>1, <2>1 DEF ProcRec, ProcOK, StartId
  <2>3. FilesOK'
    BY <1>1, <1>5, <2>1, <2>2 DEF WriteKey, FilesOK, UseKey
  <2>4. keysUsed = {} /\ \A q \in Process \ {p} : proc[q].pc # "writekey"
    BY <1>1, <2>1 DEF KeyHeld, FilesOK, StartId
  <2> QED  BY <1>2, <2>1, <2>2, <2>3, <2>4
<1> QED  BY <1>3, <1>4, <1>5

\* Every step of Startup keeps the invariant.
LEMMA StartupInvStep == StartupInv /\ [StartupNext]_startupVars => StartupInv'
<1> SUFFICES ASSUME StartupInv, [StartupNext]_startupVars PROVE StartupInv'
  OBVIOUS
<1>1. CASE UNCHANGED startupVars
  BY <1>1 DEF startupVars, onDisk, StartupInv, FilesOK, ProcsOK, KeyHeld
<1>2. CASE CertAges
  <2>1. FilesOK'
    BY <1>2 DEF CertAges, StartupInv, FilesOK, Certificate
  <2> QED  BY <1>2, <2>1 DEF CertAges, StartupInv, ProcsOK, KeyHeld
<1> QED  BY <1>1, <1>2, PlainSteps, OtherSteps, KeySteps DEF StartupNext

\* All secrets are sealed under one key, however many processes start at once
\* on an empty volume and wherever a start is cut short (loadOrCreateKeyFile,
\* createKeyFile), for any number of processes and starts.
THEOREM KeyTheorem == StartupSpec => []OneMasterKey
<1>1. StartupInv => OneMasterKey
  <2> SUFFICES ASSUME StartupInv PROVE OneMasterKey
    OBVIOUS
  <2>1. CASE keysUsed = {}
    BY <2>1, FS_EmptySet DEF OneMasterKey
  <2>2. CASE keysUsed # {}
    <3>1. keysUsed = {keyFile}
      BY <2>2 DEF StartupInv, KeyHeld
    <3>2. Cardinality({keyFile}) = 1
      BY FS_Singleton
    <3> QED  BY <3>1, <3>2 DEF OneMasterKey
  <2> QED  BY <2>1, <2>2
<1> QED  BY <1>1, StartupInitInv, StartupInvStep, PTL DEF StartupSpec

\* A process past its preparations works with a whole ffmpeg binary and with a
\* certificate that goes with its key and names the hosts (ffmpeg.provision,
\* ensureSelfSignedCert), whatever the starts before it and beside it left half done.
THEOREM WholeTheorem == StartupSpec => []WholeFiles
<1>1. StartupInv => WholeFiles
  BY StartupAssumption DEF StartupInv, ProcsOK, ProcRec, ProcOK, WholeFiles
<1> QED  BY <1>1, StartupInitInv, StartupInvStep, PTL DEF StartupSpec

-----------------------------------------------------------------------------
(* The configuration                                                       *)

\* What a save of the page writes, and what any writer may.
SaveChange == FieldChange \cup SectionChange \cup {NoChange}
AnyChange == SaveChange \cup [token : Token]

SavePC == {"none", "wait", "check", "read", "rename", "store", "strip"}
PastLock == {"check", "read", "rename", "store", "strip"}
Save == [pc : SavePC, change : SaveChange, doc : Config, token : Token \cup {NoToken}]
CliRec == [pc : {"none", "truncate", "encode"}, doc : Config]
Envs == [primary : {"unset", DefaultPrimary}, token : {NoToken, "old"}]

SettingsTyped ==
    /\ file \in Config /\ store \in Token \cup {NoToken, "old"} /\ env \in Envs
    /\ running \in Config \cup {Down} /\ lock \in Request \cup {Free}
    /\ save \in [Request -> Save] /\ cli \in CliRec
    /\ saves \in 0 .. MaxSaves /\ acked \in BOOLEAN /\ outside \in BOOLEAN

Valid(c) == SelectionValid(c) /\ TLSValid(c)

\* A save past the mutex holds it; its change is free of what the environment
\* fixes, and as long as nobody wrote past the page, a checked save is still
\* valid against the file, and the document it is about to rename is the file.
SaveOK(r) ==
    /\ save[r].pc = "none" => save[r].change = NoChange /\ save[r].token = NoToken
    /\ save[r].token # NoToken => save[r].change = NoChange
    /\ "primary" \in DOMAIN save[r].change => env.primary = "unset"
    /\ save[r].pc \in PastLock => lock = r
    /\ ~outside => /\ save[r].pc = "read" => Valid(Effective(Over(save[r].change, file)))
                   /\ save[r].pc = "rename" => /\ save[r].doc = file
                                               /\ Valid(Effective(Over(save[r].change, file)))

\* The file itself: `config set` has not touched it.
FileOK ==
    ~outside => /\ Valid(Effective(file)) /\ cli.pc # "encode"
                /\ acked => file.token = NoToken

SettingsInv == SettingsTyped /\ FileOK /\ \A r \in Request : SaveOK(r)

-----------------------------------------------------------------------------
(* Changes on top of a configuration *)

\* The types of the fields of a configuration.
LEMMA ConfigFields ==
    ASSUME NEW c \in Config
    PROVE  /\ DOMAIN c = Field /\ c = [x \in Field |-> c[x]]
           /\ c.primary \in Provider \cup {"unset"} /\ c.disabled \in SUBSET Provider
           /\ c.cert \in BOOLEAN /\ c.key \in BOOLEAN /\ c.selfSigned \in BOOLEAN
           /\ c.verify \in BOOLEAN /\ c.whisper \in BOOLEAN
           /\ c.token \in Token \cup {NoToken, "old"}
BY DEF Field, Config

\* A record with those fields, and fields of those types, is a configuration.
LEMMA IsConfig ==
    ASSUME NEW f, f = [x \in Field |-> f[x]],
           f["primary"] \in Provider \cup {"unset"}, f["disabled"] \in SUBSET Provider,
           f["cert"] \in BOOLEAN, f["key"] \in BOOLEAN, f["selfSigned"] \in BOOLEAN,
           f["verify"] \in BOOLEAN, f["whisper"] \in BOOLEAN,
           f["token"] \in Token \cup {NoToken, "old"}
    PROVE  f \in Config
BY DEF Field, Config

\* What a change of the page may set, field by field.
LEMMA ChangeFields ==
    ASSUME NEW ch \in AnyChange
    PROVE  /\ DOMAIN ch \subseteq Field
           /\ "primary" \in DOMAIN ch => ch["primary"] \in Provider
           /\ "disabled" \in DOMAIN ch => ch["disabled"] \in SUBSET Provider
           /\ "token" \in DOMAIN ch => ch["token"] \in Token \cup {NoToken}
           /\ \A x \in DOMAIN ch \ {"primary", "disabled", "token"} : ch[x] \in BOOLEAN
<1>1. CASE ch \in [primary : Provider] \cup [disabled : SUBSET Provider] \cup [token : Token]
  BY <1>1 DEF Field
<1>2. CASE ch \in [cert : BOOLEAN] \cup [key : BOOLEAN] \cup [selfSigned : BOOLEAN]
                  \cup [verify : BOOLEAN] \cup [whisper : BOOLEAN]
  BY <1>2 DEF Field
<1>3. CASE ch \in SectionChange
  BY <1>3 DEF SectionChange, Field
<1>4. CASE ch = NoChange
  BY <1>4 DEF NoChange, Field
<1> QED  BY <1>1, <1>2, <1>3, <1>4 DEF FieldChange, AnyChange, SaveChange

\* A save of the page never writes a token.
LEMMA NoTokenWritten ==
    ASSUME NEW ch \in SaveChange, "token" \in DOMAIN ch
    PROVE  ch["token"] = NoToken
<1>1. CASE ch \in [primary : Provider] \cup [disabled : SUBSET Provider]
  BY <1>1
<1>2. CASE ch \in [cert : BOOLEAN] \cup [key : BOOLEAN] \cup [selfSigned : BOOLEAN]
                  \cup [verify : BOOLEAN] \cup [whisper : BOOLEAN]
  BY <1>2
<1>3. CASE ch \in SectionChange
  BY <1>3 DEF SectionChange
<1>4. CASE ch = NoChange
  BY <1>4 DEF NoChange
<1> QED  BY <1>1, <1>2, <1>3, <1>4 DEF FieldChange, SaveChange

\* A changed configuration has the new values of the changed fields, and the
\* old ones of the others.
LEMMA OverFields ==
    ASSUME NEW c \in Config, NEW ch
    PROVE  /\ Over(ch, c) = [x \in Field |-> Over(ch, c)[x]]
           /\ \A x \in Field : Over(ch, c)[x] = IF x \in DOMAIN ch THEN ch[x] ELSE c[x]
BY ConfigFields DEF Over

\* A configuration stays one under every change.
LEMMA OverConfig ==
    ASSUME NEW c \in Config, NEW ch \in AnyChange
    PROVE  Over(ch, c) \in Config
<1> DEFINE o == Over(ch, c)
<1>1. o = [x \in Field |-> o[x]]
  BY OverFields
<1>2. \A x \in Field : o[x] = IF x \in DOMAIN ch THEN ch[x] ELSE c[x]
  BY OverFields
<1> HIDE DEF o
<1>3. /\ \A x \in Field : x \in DOMAIN ch => o[x] = ch[x]
      /\ \A x \in Field : x \notin DOMAIN ch => o[x] = c[x]
  BY <1>2
<1>4. /\ "primary" \in Field /\ "disabled" \in Field /\ "token" \in Field /\ "cert" \in Field
      /\ "key" \in Field /\ "selfSigned" \in Field /\ "verify" \in Field /\ "whisper" \in Field
  BY DEF Field
<1>5. o["primary"] \in Provider \cup {"unset"} /\ o["disabled"] \in SUBSET Provider
  BY <1>3, <1>4, ConfigFields, ChangeFields
<1>6. o["token"] \in Token \cup {NoToken, "old"}
  BY <1>3, <1>4, ConfigFields, ChangeFields
<1>7. \A x \in {"cert", "key", "selfSigned", "verify", "whisper"} : c[x] \in BOOLEAN
  BY ConfigFields
<1>8. \A x \in {"cert", "key", "selfSigned", "verify", "whisper"} : o[x] \in BOOLEAN
  BY <1>3, <1>4, <1>7, ChangeFields
<1>9. o \in Config
  BY <1>1, <1>5, <1>6, <1>8, IsConfig
<1> QED  BY <1>9 DEF o

\* What the environment and the defaults do to a configuration, field by field.
LEMMA EffectiveFields ==
    ASSUME NEW f \in Config, env \in Envs
    PROVE  /\ Effective(f) \in Config
           /\ Effective(f).primary = IF env.primary # "unset" THEN env.primary
                                     ELSE IF f.primary = "unset" THEN DefaultPrimary ELSE f.primary
           /\ Effective(f).token = IF env.token # NoToken THEN env.token ELSE f.token
           /\ Effective(f).disabled = f.disabled /\ Effective(f).cert = f.cert
           /\ Effective(f).key = f.key /\ Effective(f).selfSigned = f.selfSigned
<1> DEFINE p == IF f.primary = "unset" THEN DefaultPrimary ELSE f.primary
           d == [f EXCEPT !.primary = p]
           q == IF env.primary # "unset" THEN env.primary ELSE p
           e == [d EXCEPT !.primary = q]
           t == IF env.token # NoToken THEN env.token ELSE f.token
           g == [e EXCEPT !.token = t]
<1>1. /\ p \in Provider \cup {"unset"} /\ q \in Provider \cup {"unset"}
      /\ t \in Token \cup {NoToken, "old"}
  BY SettingsAssumption DEF Config, Envs
<1>2. Decode(f) = d
  BY DEF Decode
<1> HIDE DEF p, q, t
<1>3. d \in Config /\ d.primary = p /\ d.token = f.token
  BY <1>1 DEF Config
<1>4. e \in Config
  BY <1>1, <1>3 DEF Config
<1>5. g \in Config
  BY <1>1, <1>4 DEF Config
<1>6. Effective(f) = g
  BY <1>2, <1>3 DEF Effective, EnvOverrides, q, t
<1>7. /\ g.primary = q /\ g.token = t /\ g.disabled = f.disabled /\ g.cert = f.cert
      /\ g.key = f.key /\ g.selfSigned = f.selfSigned
  BY <1>1, <1>3, <1>4, <1>5 DEF Config
<1> QED  BY <1>5, <1>6, <1>7 DEF p, q, t

\* The checks look at these fields only.
LEMMA ValidFields ==
    ASSUME NEW c, NEW d, c.primary = d.primary, c.disabled = d.disabled,
           c.cert = d.cert, c.key = d.key, c.selfSigned = d.selfSigned, Valid(c)
    PROVE  Valid(d)
BY DEF Valid, SelectionValid, TLSValid

\* What was checked on top of the effective configuration is what the next
\* start will find: no change sets a field that the environment fixes.
LEMMA CheckedHolds ==
    ASSUME NEW f \in Config, env \in Envs, NEW ch \in SaveChange,
           "primary" \in DOMAIN ch => env.primary = "unset",
           Valid(Over(ch, Effective(f)))
    PROVE  Valid(Effective(Over(ch, f)))
<1> DEFINE o == Over(ch, f)
           m == Over(ch, Effective(f))
<1>1. /\ ch \in AnyChange /\ o \in Config /\ Effective(f) \in Config
  BY OverConfig, EffectiveFields DEF AnyChange
<1>2. \A x \in Field : o[x] = IF x \in DOMAIN ch THEN ch[x] ELSE f[x]
  BY OverFields
<1>3. \A x \in Field : m[x] = IF x \in DOMAIN ch THEN ch[x] ELSE Effective(f)[x]
  BY <1>1, OverFields
<1> HIDE DEF o, m
<1>4. /\ "primary" \in Field /\ "disabled" \in Field /\ "cert" \in Field
      /\ "key" \in Field /\ "selfSigned" \in Field
  BY DEF Field
<1>5. /\ Effective(o).disabled = m.disabled /\ Effective(o).cert = m.cert
      /\ Effective(o).key = m.key /\ Effective(o).selfSigned = m.selfSigned
  BY <1>1, <1>2, <1>3, <1>4, EffectiveFields
<1>6. Effective(o).primary = m.primary
  <2>1. CASE "primary" \in DOMAIN ch
    <3>1. m.primary = ch["primary"] /\ o.primary = ch["primary"]
      BY <1>2, <1>3, <1>4, <2>1
    <3>2. o.primary # "unset" /\ env.primary = "unset"
      BY <1>1, <2>1, <3>1, ChangeFields, SettingsAssumption
    <3> QED  BY <1>1, <3>1, <3>2, EffectiveFields
  <2>2. CASE "primary" \notin DOMAIN ch
    <3>1. m.primary = Effective(f).primary /\ o.primary = f.primary
      BY <1>2, <1>3, <1>4, <2>2
    <3> QED  BY <1>1, <3>1, EffectiveFields
  <2> QED  BY <2>1, <2>2
<1>7. Valid(m)
  BY DEF m
<1>8. Valid(Effective(o))
  BY <1>5, <1>6, <1>7, ValidFields
<1> QED  BY <1>8 DEF o

\* Taking the token out of a document changes nothing the checks look at.
LEMMA StrippedValid ==
    ASSUME NEW f \in Config, env \in Envs, Valid(Effective(f))
    PROVE  Valid(Effective(Over(NoChange, f)))
<1> DEFINE o == Over(NoChange, f)
<1>1. o \in Config
  BY OverConfig DEF AnyChange, SaveChange
<1>2. /\ \A x \in Field : o[x] = IF x \in DOMAIN NoChange THEN NoChange[x] ELSE f[x]
      /\ DOMAIN NoChange = {"token"}
  BY OverFields DEF NoChange
<1> HIDE DEF o
<1>3. /\ o.primary = f.primary /\ o.disabled = f.disabled /\ o.cert = f.cert
      /\ o.key = f.key /\ o.selfSigned = f.selfSigned
  BY <1>2 DEF Field
<1>4. Valid(Effective(o))
  BY <1>1, <1>3, EffectiveFields, ValidFields
<1> QED  BY <1>4 DEF o

-----------------------------------------------------------------------------
(* Types *)

\* A request that does nothing is well typed.
LEMMA NoSaveType ==
    /\ Empty \in Config /\ NoChange \in SaveChange /\ NoSave \in Save /\ NoCli \in CliRec
    /\ NoSave.pc = "none" /\ NoSave.change = NoChange /\ NoSave.token = NoToken
    /\ NoCli.pc = "none"
<1>1. Empty \in Config
  BY DEF Empty, Config
<1>2. NoChange \in SaveChange
  BY DEF SaveChange
<1> HIDE DEF NoChange
<1>3. NoSave \in Save
  BY <1>1, <1>2 DEF NoSave, Save, SavePC
<1> QED  BY <1>1, <1>2, <1>3 DEF NoSave, NoCli, CliRec

\* A request stays well typed when one field of it is set.
LEMMA SetSave ==
    ASSUME NEW s \in Save
    PROVE  /\ \A x \in SavePC : [s EXCEPT !.pc = x] \in Save
           /\ \A x \in SaveChange : [s EXCEPT !.change = x] \in Save
           /\ \A x \in Config : [s EXCEPT !.doc = x] \in Save
           /\ \A x \in Token \cup {NoToken} : [s EXCEPT !.token = x] \in Save
BY DEF Save

\* The moves of a request through a handler keep its type.
LEMMA SaveMoves ==
    ASSUME NEW s \in Save, NEW p \in SavePC, NEW ch \in SaveChange, NEW c \in Config,
           NEW t \in Token \cup {NoToken}
    PROVE  /\ [s EXCEPT !.pc = p, !.change = ch] \in Save
           /\ [s EXCEPT !.pc = p, !.token = t] \in Save
           /\ [s EXCEPT !.pc = p, !.doc = c] \in Save
           /\ [s EXCEPT !.pc = p, !.doc = c, !.change = ch] \in Save
<1>1. [s EXCEPT !.pc = p] \in Save
  BY SetSave
<1>2. /\ [[s EXCEPT !.pc = p] EXCEPT !.change = ch] \in Save
      /\ [[s EXCEPT !.pc = p] EXCEPT !.token = t] \in Save
      /\ [[s EXCEPT !.pc = p] EXCEPT !.doc = c] \in Save
  BY <1>1, SetSave
<1>3. [[[s EXCEPT !.pc = p] EXCEPT !.doc = c] EXCEPT !.change = ch] \in Save
  BY <1>2, SetSave
<1> QED  BY <1>2, <1>3

\* The invariant holds of every file, store and environment serve may start with.
LEMMA SettingsStarts == SettingsInit => SettingsInv
<1> SUFFICES ASSUME SettingsInit PROVE SettingsInv
  OBVIOUS
<1>1. file \in Config
  <2>1. Empty \in Config /\ [Empty EXCEPT !.token = "old"] \in Config
    BY DEF Empty, Config
  <2>2. [Empty EXCEPT !.disabled = Provider \ {DefaultPrimary}] \in Config
    BY <2>1 DEF Config
  <2>3. [[Empty EXCEPT !.disabled = Provider \ {DefaultPrimary}] EXCEPT !.selfSigned = TRUE] \in Config
    BY <2>2 DEF Config
  <2> QED  BY <2>1, <2>3 DEF SettingsInit
<1>2. env \in Envs
  BY DEF SettingsInit, Envs
<1>3. running \in Config
  <2>1. Effective(file) \in Config /\ ResolveToken(Effective(file)) \in Token \cup {NoToken, "old"}
    BY <1>1, <1>2, EffectiveFields, ConfigFields DEF ResolveToken, SettingsInit
  <2> QED  BY <2>1 DEF SettingsInit, Config
<1>4. SettingsTyped
  <2>1. /\ store \in {NoToken, "old"} /\ lock = Free /\ save = [r \in Request |-> NoSave]
        /\ cli = NoCli /\ saves = 0 /\ acked = FALSE /\ outside = FALSE
    BY DEF SettingsInit
  <2>2. save \in [Request -> Save] /\ cli \in CliRec
    BY <2>1, NoSaveType
  <2>3. 0 \in 0 .. MaxSaves
    BY SettingsAssumption
  <2> QED  BY <1>1, <1>2, <1>3, <2>1, <2>2, <2>3 DEF SettingsTyped
<1>5. /\ file.primary = "unset" /\ file.cert = FALSE /\ file.key = FALSE
      /\ file.disabled \subseteq Provider \ {DefaultPrimary}
  <2>1. CASE file = Empty
    BY <2>1 DEF Empty
  <2>2. CASE file = [Empty EXCEPT !.token = "old"]
    BY <2>2 DEF Empty
  <2>3. CASE file = [Empty EXCEPT !.disabled = Provider \ {DefaultPrimary}, !.selfSigned = TRUE]
    BY <2>3 DEF Empty
  <2> QED  BY <2>1, <2>2, <2>3 DEF SettingsInit
<1>6. Valid(Effective(file))
  <2>1. Effective(file).primary = DefaultPrimary
    BY <1>1, <1>2, <1>5, EffectiveFields DEF Envs
  <2>2. /\ Effective(file).cert = FALSE /\ Effective(file).key = FALSE
        /\ Effective(file).disabled \subseteq Provider \ {DefaultPrimary}
    BY <1>1, <1>2, <1>5, EffectiveFields
  <2>3. SelectionValid(Effective(file))
    BY <2>1, <2>2, SettingsAssumption DEF SelectionValid
  <2>4. TLSValid(Effective(file))
    BY <2>2 DEF TLSValid
  <2> QED  BY <2>3, <2>4 DEF Valid
<1>7. FileOK
  BY <1>6, NoSaveType DEF FileOK, SettingsInit
<1>8. ASSUME NEW r \in Request PROVE SaveOK(r)
  <2>1. save[r] = NoSave /\ "primary" \notin DOMAIN NoChange
    BY DEF SettingsInit, NoChange
  <2> QED  BY <2>1, NoSaveType DEF SaveOK, PastLock
<1> QED  BY <1>4, <1>7, <1>8 DEF SettingsInv

-----------------------------------------------------------------------------
(* Steps *)

\* The other saves: they wait for the mutex, or nothing they rely on changes.
LEMMA OtherSaves ==
    ASSUME SettingsInv, NEW r \in Request, env' = env, outside => outside',
           \A q \in Request \ {r} : save'[q] = save[q] /\ (lock = q => lock' = q),
           file' = file \/ lock = r
    PROVE  \A q \in Request \ {r} : SaveOK(q)'
<1> SUFFICES ASSUME NEW q \in Request \ {r} PROVE SaveOK(q)'
  OBVIOUS
<1>1. SaveOK(q) /\ save'[q] = save[q] /\ (lock = q => lock' = q)
  BY DEF SettingsInv
<1>2. save[q].pc \in PastLock => lock = q /\ lock' = q
  BY <1>1 DEF SaveOK
<1>3. CASE file' = file
  BY <1>1, <1>2, <1>3 DEF SaveOK, Effective, EnvOverrides, Decode
<1>4. CASE lock = r
  <2>1. save[q].pc \notin PastLock
    BY <1>2, <1>4
  <2> QED  BY <1>1, <2>1 DEF SaveOK, PastLock
<1> QED  BY <1>3, <1>4

\* A step of one save that leaves the file alone.
LEMMA SaveMove ==
    ASSUME SettingsInv, NEW r \in Request, NEW s \in Save, save' = [save EXCEPT ![r] = s],
           UNCHANGED <<file, env, running, cli>>, outside => outside',
           store' \in Token \cup {NoToken, "old"}, lock' \in Request \cup {Free},
           saves' \in 0 .. MaxSaves, acked' \in BOOLEAN, outside' \in BOOLEAN,
           acked' => acked \/ file.token = NoToken,
           \A q \in Request \ {r} : lock = q => lock' = q,
           SaveOK(r)'
    PROVE  SettingsInv'
<1>1. SettingsTyped /\ FileOK
  BY DEF SettingsInv
<1>2. SettingsTyped'
  BY <1>1 DEF SettingsTyped
<1>3. FileOK'
  BY <1>1 DEF FileOK, Effective, EnvOverrides, Decode
<1>4. \A q \in Request \ {r} : save'[q] = save[q] /\ (lock = q => lock' = q)
  BY <1>1 DEF SettingsTyped
<1>5. \A q \in Request \ {r} : SaveOK(q)'
  BY <1>4, OtherSaves
<1> QED  BY <1>2, <1>3, <1>5 DEF SettingsInv

\* Nothing is to be said of a request whose handler has returned.
LEMMA ReturnedOK == ASSUME NEW r \in Request, save'[r] = NoSave PROVE SaveOK(r)'
<1>1. "primary" \notin DOMAIN NoChange
  BY DEF NoChange
<1> QED  BY <1>1, NoSaveType DEF SaveOK, PastLock

\* The handler returns: its record is clear and the mutex free.
LEMMA Returns ==
    ASSUME SettingsInv, NEW r \in Request, Return(r),
           UNCHANGED <<file, env, running, cli, saves, store>>, outside => outside',
           acked' \in BOOLEAN, outside' \in BOOLEAN, acked' => acked \/ file.token = NoToken
    PROVE  SettingsInv'
<1>1. SettingsTyped
  BY DEF SettingsInv
<1>2. /\ save' = [save EXCEPT ![r] = NoSave] /\ NoSave \in Save
      /\ lock' \in Request \cup {Free} /\ \A q \in Request \ {r} : lock = q => lock' = q
  BY <1>1, NoSaveType DEF Return, SettingsTyped
<1>3. save'[r] = NoSave
  BY <1>1, <1>2 DEF SettingsTyped
<1>4. SaveOK(r)'
  BY <1>3, ReturnedOK
<1>5. store' \in Token \cup {NoToken, "old"} /\ saves' \in 0 .. MaxSaves
  BY <1>1 DEF SettingsTyped
<1> QED  BY <1>2, <1>4, <1>5, SaveMove

\* The steps of a handler before it writes keep the invariant.
LEMMA SaveStep ==
    ASSUME SettingsInv, NEW r \in Request,
           \/ SubmitSave(r) \/ SubmitToken(r) \/ LockSaves(r) \/ CheckFile(r) \/ CheckSnapshot(r)
           \/ ReadDocument(r) \/ WriteFails(r) \/ StoreToken(r) \/ StripToken(r)
    PROVE  SettingsInv'
<1>1. /\ SettingsTyped /\ FileOK /\ SaveOK(r)
      /\ file \in Config /\ env \in Envs /\ save \in [Request -> Save] /\ save[r] \in Save
      /\ lock \in Request \cup {Free} /\ Free \notin Request
      /\ saves \in 0 .. MaxSaves /\ acked \in BOOLEAN /\ outside \in BOOLEAN
      /\ store \in Token \cup {NoToken, "old"}
      /\ save[r].pc \in SavePC /\ save[r].change \in SaveChange /\ save[r].doc \in Config
      /\ save[r].token \in Token \cup {NoToken}
  BY SettingsAssumption DEF SettingsInv, SettingsTyped, Save
<1>2. ASSUME saves < MaxSaves, saves' = saves + 1 PROVE saves' \in 0 .. MaxSaves
  BY <1>1, <1>2, SettingsAssumption
<1>3. ASSUME NEW s, save' = [save EXCEPT ![r] = s] PROVE save'[r] = s
  BY <1>1, <1>3
<1>4. CASE SubmitSave(r)
  <2>1. PICK ch \in FieldChange \cup SectionChange :
          /\ \A x \in DOMAIN ch : ~EnvLocked(x)
          /\ save' = [save EXCEPT ![r] = [save[r] EXCEPT !.pc = "wait", !.change = ch]]
    BY <1>4 DEF SubmitSave
  <2> DEFINE s == [save[r] EXCEPT !.pc = "wait", !.change = ch]
  <2>2. s \in Save
    BY <1>1, SaveMoves DEF SaveChange, SavePC
  <2>3. s.pc = "wait" /\ s.change = ch /\ s.token = save[r].token
    BY <1>1, <2>2 DEF Save
  <2> HIDE DEF s
  <2>4. /\ save' = [save EXCEPT ![r] = s] /\ save'[r] = s /\ save[r].pc = "none"
        /\ UNCHANGED <<file, env, lock, outside, acked, cli, store, running>>
        /\ saves' \in 0 .. MaxSaves
    BY <1>2, <1>3, <1>4, <2>1 DEF SubmitSave, s
  <2>5. SaveOK(r)'
    <3>1. save[r].token = NoToken
      BY <1>1, <2>4 DEF SaveOK
    <3>2. "primary" \in DOMAIN ch => env.primary = "unset"
      BY <2>1 DEF EnvLocked
    <3> QED  BY <2>3, <2>4, <3>1, <3>2 DEF SaveOK, PastLock
  <2> QED  BY <1>1, <2>2, <2>4, <2>5, SaveMove
<1>5. CASE SubmitToken(r)
  <2>1. PICK t \in Token :
          save' = [save EXCEPT ![r] = [save[r] EXCEPT !.pc = "wait", !.token = t]]
    BY <1>5 DEF SubmitToken
  <2> DEFINE s == [save[r] EXCEPT !.pc = "wait", !.token = t]
  <2>2. s \in Save
    BY <1>1, SaveMoves DEF SavePC
  <2>3. s.pc = "wait" /\ s.change = save[r].change
    BY <1>1, <2>2 DEF Save
  <2> HIDE DEF s
  <2>4. /\ save' = [save EXCEPT ![r] = s] /\ save'[r] = s /\ save[r].pc = "none"
        /\ UNCHANGED <<file, env, lock, outside, acked, cli, store, running>>
        /\ saves' \in 0 .. MaxSaves
    BY <1>2, <1>3, <1>5, <2>1 DEF SubmitToken, s
  <2>5. SaveOK(r)'
    <3>1. save[r].change = NoChange /\ "primary" \notin DOMAIN NoChange
      BY <1>1, <2>4 DEF SaveOK, NoChange
    <3> QED  BY <2>3, <2>4, <3>1 DEF SaveOK, PastLock
  <2> QED  BY <1>1, <2>2, <2>4, <2>5, SaveMove
<1>6. CASE LockSaves(r)
  <2>1. PICK p \in {"check", "store"} : save' = [save EXCEPT ![r] = [save[r] EXCEPT !.pc = p]]
    BY <1>6 DEF LockSaves
  <2> DEFINE s == [save[r] EXCEPT !.pc = p]
  <2>2. s \in Save
    BY <1>1, SetSave DEF SavePC
  <2>3. s.pc = p /\ s.change = save[r].change /\ s.token = save[r].token
    BY <1>1, <2>2 DEF Save
  <2> HIDE DEF s
  <2>4. /\ save' = [save EXCEPT ![r] = s] /\ save'[r] = s /\ save[r].pc = "wait"
        /\ UNCHANGED <<file, env, outside, acked, cli, store, running, saves>>
        /\ lock = Free /\ lock' = r
    BY <1>3, <1>6, <2>1 DEF LockSaves, s
  <2>5. SaveOK(r)'
    BY <1>1, <2>1, <2>3, <2>4 DEF SaveOK, PastLock
  <2> QED  BY <1>1, <2>2, <2>4, <2>5, SaveMove
<1>7. CASE CheckFile(r)
  <2>1. CASE Return(r)
    BY <1>1, <1>7, <2>1, Returns DEF CheckFile
  <2>2. CASE ~Return(r)
    <3> DEFINE s == [save[r] EXCEPT !.pc = "read"]
    <3>1. /\ Valid(Over(save[r].change, Effective(file))) /\ save' = [save EXCEPT ![r] = s]
          /\ UNCHANGED <<file, env, outside, acked, cli, store, running, saves, lock>>
          /\ save[r].pc = "check"
      BY <1>7, <2>2 DEF CheckFile, Check, Valid
    <3>2. s \in Save
      BY <1>1, SetSave DEF SavePC
    <3>3. s.pc = "read" /\ s.change = save[r].change /\ s.token = save[r].token
      BY <1>1, <3>2 DEF Save
    <3> HIDE DEF s
    <3>4. save'[r] = s
      BY <1>3, <3>1
    <3>5. Valid(Effective(Over(save[r].change, file)))
      BY <1>1, <3>1, CheckedHolds DEF SaveOK
    <3>6. Valid(Effective(Over(save[r].change, file)))'
      BY <3>1, <3>3, <3>4, <3>5 DEF Effective, EnvOverrides, Decode
    <3>7. SaveOK(r)'
      BY <1>1, <3>1, <3>3, <3>4, <3>6 DEF SaveOK, PastLock
    <3> QED  BY <1>1, <3>1, <3>2, <3>7, SaveMove
  <2> QED  BY <2>1, <2>2
<1>8. CASE CheckSnapshot(r)
  <2>1. outside' \in BOOLEAN /\ (outside => outside')
    BY <1>1, <1>8 DEF CheckSnapshot
  <2>2. CASE Return(r)
    BY <1>1, <1>8, <2>1, <2>2, Returns DEF CheckSnapshot
  <2>3. CASE ~Return(r)
    <3> DEFINE s == [save[r] EXCEPT !.pc = "read"]
    <3>1. /\ save' = [save EXCEPT ![r] = s] /\ save[r].pc = "check"
          /\ UNCHANGED <<file, env, acked, cli, store, running, saves, lock>>
          /\ outside' = (outside \/ save'[r].pc = "read")
      BY <1>8, <2>3 DEF CheckSnapshot, Check
    <3>2. s \in Save
      BY <1>1, SetSave DEF SavePC
    <3>3. s.pc = "read" /\ s.change = save[r].change /\ s.token = save[r].token
      BY <1>1, <3>2 DEF Save
    <3> HIDE DEF s
    <3>4. save'[r] = s
      BY <1>3, <3>1
    <3>5. outside'
      BY <3>1, <3>3, <3>4
    <3>6. SaveOK(r)'
      BY <1>1, <3>1, <3>3, <3>4, <3>5 DEF SaveOK, PastLock
    <3> QED  BY <1>1, <2>1, <3>1, <3>2, <3>6, SaveMove
  <2> QED  BY <2>2, <2>3
<1>9. CASE ReadDocument(r)
  <2> DEFINE s == [save[r] EXCEPT !.pc = "rename", !.doc = file]
  <2>1. /\ save' = [save EXCEPT ![r] = s] /\ save[r].pc = "read"
        /\ UNCHANGED <<file, env, outside, acked, cli, store, running, saves, lock>>
    BY <1>9 DEF ReadDocument
  <2>2. s \in Save
    BY <1>1, SaveMoves DEF SavePC
  <2>3. s.pc = "rename" /\ s.change = save[r].change /\ s.token = save[r].token /\ s.doc = file
    BY <1>1, <2>2 DEF Save
  <2> HIDE DEF s
  <2>4. save'[r] = s
    BY <1>3, <2>1
  <2>5. ~outside => Valid(Effective(Over(save[r].change, file)))'
    BY <1>1, <2>1, <2>3, <2>4 DEF SaveOK, Effective, EnvOverrides, Decode
  <2>6. SaveOK(r)'
    BY <1>1, <2>1, <2>3, <2>4, <2>5 DEF SaveOK, PastLock
  <2> QED  BY <1>1, <2>1, <2>2, <2>6, SaveMove
<1>10. CASE WriteFails(r)
  BY <1>1, <1>10, Returns DEF WriteFails
<1>11. CASE StoreToken(r)
  <2> DEFINE s == [save[r] EXCEPT !.pc = "strip"]
  <2>1. /\ save' = [save EXCEPT ![r] = s] /\ save[r].pc = "store" /\ store' = save[r].token
        /\ UNCHANGED <<file, env, outside, acked, cli, running, saves, lock>>
    BY <1>11 DEF StoreToken
  <2>2. s \in Save
    BY <1>1, SetSave DEF SavePC
  <2>3. s.pc = "strip" /\ s.change = save[r].change /\ s.token = save[r].token
    BY <1>1, <2>2 DEF Save
  <2> HIDE DEF s
  <2>4. save'[r] = s
    BY <1>3, <2>1
  <2>5. SaveOK(r)'
    BY <1>1, <2>1, <2>3, <2>4 DEF SaveOK, PastLock
  <2> QED  BY <1>1, <2>1, <2>2, <2>5, SaveMove
<1>12. CASE StripToken(r)
  <2>1. CASE file.token = NoToken
    BY <1>1, <1>12, <2>1, Returns DEF StripToken
  <2>2. CASE file.token # NoToken
    <3> DEFINE s == [save[r] EXCEPT !.pc = "rename", !.doc = file, !.change = NoChange]
    <3>1. /\ save' = [save EXCEPT ![r] = s] /\ save[r].pc = "strip"
          /\ UNCHANGED <<file, env, outside, acked, cli, store, running, saves, lock>>
      BY <1>12, <2>2 DEF StripToken
    <3>2. s \in Save
      BY <1>1, SaveMoves, NoSaveType DEF SavePC
    <3>3. s.pc = "rename" /\ s.change = NoChange /\ s.doc = file
      BY <1>1, <3>2 DEF Save
    <3> HIDE DEF s
    <3>4. save'[r] = s
      BY <1>3, <3>1
    <3>5. ~outside => Valid(Effective(Over(NoChange, file)))
      BY <1>1, StrippedValid DEF FileOK
    <3>6. ~outside => Valid(Effective(Over(save[r].change, file)))'
      BY <3>1, <3>3, <3>4, <3>5 DEF Effective, EnvOverrides, Decode
    <3>7. "primary" \notin DOMAIN NoChange
      BY DEF NoChange
    <3>8. SaveOK(r)'
      BY <1>1, <3>1, <3>3, <3>4, <3>6, <3>7 DEF SaveOK, PastLock
    <3> QED  BY <1>1, <3>1, <3>2, <3>8, SaveMove
  <2> QED  BY <2>1, <2>2
<1> QED  BY <1>4, <1>5, <1>6, <1>7, <1>8, <1>9, <1>10, <1>11, <1>12

\* The rename: what it leaves was checked against the very file it replaces.
LEMMA RenameStep ==
    ASSUME SettingsInv, NEW r \in Request, RenameDocument(r)
    PROVE  SettingsInv'
<1> DEFINE ch == save[r].change
           doc == save[r].doc
<1>1. /\ SettingsTyped /\ FileOK /\ SaveOK(r)
      /\ env \in Envs /\ save \in [Request -> Save] /\ lock \in Request \cup {Free}
      /\ acked \in BOOLEAN /\ ch \in SaveChange /\ doc \in Config
      /\ save[r].token \in Token \cup {NoToken}
  BY DEF SettingsInv, SettingsTyped, Save
<1>2. /\ file' = Over(ch, doc) /\ acked' = (acked \/ save[r].token # NoToken)
      /\ save' = [save EXCEPT ![r] = NoSave] /\ lock' = IF lock = r THEN Free ELSE lock
      /\ UNCHANGED <<store, env, running, cli, saves, outside>> /\ lock = r
  BY <1>1 DEF RenameDocument, Return, SaveOK, PastLock
<1>3. file' \in Config
  BY <1>1, <1>2, OverConfig DEF AnyChange
<1>4. SettingsTyped'
  BY <1>1, <1>2, <1>3, NoSaveType DEF SettingsTyped
<1>5. /\ save'[r] = NoSave
      /\ \A q \in Request \ {r} : save'[q] = save[q] /\ (lock = q => lock' = q)
  BY <1>1, <1>2
<1>6. SaveOK(r)'
  BY <1>5, ReturnedOK
<1>7. \A q \in Request \ {r} : SaveOK(q)'
  BY <1>2, <1>5, OtherSaves
<1>8. FileOK'
  <2> SUFFICES ASSUME ~outside
               PROVE  /\ Valid(Effective(file))' /\ cli'.pc # "encode"
                      /\ acked' => file'.token = NoToken
    BY <1>2 DEF FileOK
  <2>1. doc = file /\ Valid(Effective(Over(ch, file)))
    BY <1>1 DEF SaveOK, RenameDocument
  <2>2. Valid(Effective(file))'
    BY <1>2, <2>1 DEF Effective, EnvOverrides, Decode
  <2>3. ASSUME acked' PROVE file'.token = NoToken
    <3>1. file'.token = IF "token" \in DOMAIN ch THEN ch["token"] ELSE file.token
      BY <1>1, <1>2, <2>1, OverFields DEF Field
    <3>2. CASE "token" \in DOMAIN ch
      BY <1>1, <3>1, <3>2, NoTokenWritten
    <3>3. CASE "token" \notin DOMAIN ch
      <4>1. ch # NoChange
        BY <3>3 DEF NoChange
      <4>2. acked
        BY <1>1, <1>2, <2>3, <4>1 DEF SaveOK
      <4> QED  BY <1>1, <3>1, <3>3, <4>2 DEF FileOK
    <3> QED  BY <3>2, <3>3
  <2> QED  BY <1>1, <1>2, <2>2, <2>3 DEF FileOK
<1> QED  BY <1>4, <1>6, <1>7, <1>8 DEF SettingsInv

\* A step that leaves the requests, the lock and the file alone disturbs no save.
LEMMA SavesStay ==
    ASSUME SettingsInv, UNCHANGED <<file, env, save, lock, outside>>
    PROVE  \A r \in Request : SaveOK(r)'
<1> SUFFICES ASSUME NEW r \in Request PROVE SaveOK(r)'
  OBVIOUS
<1>1. SaveOK(r)
  BY DEF SettingsInv
<1> QED  BY <1>1 DEF SaveOK, Effective, EnvOverrides, Decode

\* The commands and a restart.
LEMMA OtherStep ==
    ASSUME SettingsInv,
           Secrets \/ ConfigSetLoads \/ ConfigSetTruncates \/ ConfigSetEncodes \/ ConfigSetDies
           \/ RestartServe
    PROVE  SettingsInv'
<1>1. /\ SettingsTyped /\ FileOK /\ \A r \in Request : SaveOK(r)
      /\ file \in Config /\ env \in Envs /\ store \in Token \cup {NoToken, "old"}
      /\ running \in Config \cup {Down} /\ lock \in Request \cup {Free}
      /\ save \in [Request -> Save] /\ cli \in CliRec /\ saves \in 0 .. MaxSaves
      /\ acked \in BOOLEAN /\ outside \in BOOLEAN
  BY DEF SettingsInv, SettingsTyped
<1>2. Effective(file) \in Config /\ Effective(file).token \in Token \cup {NoToken, "old"}
  BY <1>1, EffectiveFields, ConfigFields
<1>3. ASSUME saves < MaxSaves, saves' = saves + 1 PROVE saves' \in 0 .. MaxSaves
  BY <1>1, <1>3, SettingsAssumption
<1>4. ASSUME UNCHANGED <<file, env, save, lock, outside>>
      PROVE  \A r \in Request : SaveOK(r)'
  BY <1>4, SavesStay
<1>5. CASE Secrets
  <2>1. /\ store' \in Token \cup {NoToken, "old"} /\ saves' \in 0 .. MaxSaves
        /\ UNCHANGED <<file, env, running, lock, save, cli, acked, outside>>
    BY <1>2, <1>3, <1>5 DEF Secrets
  <2>2. SettingsTyped'
    BY <1>1, <2>1 DEF SettingsTyped
  <2>3. FileOK'
    BY <1>1, <2>1 DEF FileOK, Effective, EnvOverrides, Decode
  <2> QED  BY <1>4, <2>1, <2>2, <2>3 DEF SettingsInv
<1>6. CASE ConfigSetLoads
  <2>1. PICK ch \in FieldChange \cup [token : Token] :
          cli' = [pc |-> "truncate", doc |-> Over(ch, Effective(file))]
    BY <1>6 DEF ConfigSetLoads
  <2>2. Over(ch, Effective(file)) \in Config
    BY <1>2, OverConfig DEF AnyChange, SaveChange
  <2>3. cli' \in CliRec /\ cli'.pc = "truncate"
    BY <2>1, <2>2 DEF CliRec
  <2>4. /\ UNCHANGED <<file, store, env, running, lock, save, acked, outside>>
        /\ saves' \in 0 .. MaxSaves
    BY <1>3, <1>6 DEF ConfigSetLoads
  <2>5. SettingsTyped'
    BY <1>1, <2>3, <2>4 DEF SettingsTyped
  <2>6. FileOK'
    BY <1>1, <2>3, <2>4 DEF FileOK, Effective, EnvOverrides, Decode
  <2> QED  BY <1>4, <2>4, <2>5, <2>6 DEF SettingsInv
<1>7. CASE ConfigSetTruncates \/ ConfigSetEncodes
  <2>1. /\ outside' \in BOOLEAN /\ UNCHANGED <<store, env, running, lock, save, saves, acked>>
        /\ outside'
    BY <1>1, <1>7 DEF ConfigSetTruncates, ConfigSetEncodes, FileOK
  <2>2. file' \in Config /\ cli' \in CliRec
    <3>1. CASE ConfigSetTruncates
      BY <1>1, <3>1, NoSaveType DEF ConfigSetTruncates, CliRec
    <3>2. CASE ConfigSetEncodes
      BY <1>1, <3>2, NoSaveType DEF ConfigSetEncodes, CliRec
    <3> QED  BY <1>7, <3>1, <3>2
  <2>3. SettingsTyped'
    BY <1>1, <2>1, <2>2 DEF SettingsTyped
  <2>4. FileOK' /\ \A r \in Request : SaveOK(r)'
    BY <1>1, <2>1 DEF FileOK, SaveOK
  <2> QED  BY <2>3, <2>4 DEF SettingsInv
<1>8. CASE ConfigSetDies
  <2>1. /\ cli' = NoCli
        /\ UNCHANGED <<file, store, env, running, lock, save, saves, acked, outside>>
    BY <1>8 DEF ConfigSetDies
  <2>2. SettingsTyped'
    BY <1>1, <2>1, NoSaveType DEF SettingsTyped
  <2>3. FileOK'
    BY <1>1, <2>1, NoSaveType DEF FileOK, Effective, EnvOverrides, Decode
  <2> QED  BY <1>4, <2>1, <2>2, <2>3 DEF SettingsInv
<1>9. CASE RestartServe
  <2>1. /\ lock' = Free /\ save' = [r \in Request |-> NoSave]
        /\ UNCHANGED <<file, store, env, cli, saves, acked, outside>>
    BY <1>9 DEF RestartServe
  <2>2. running' \in Config \cup {Down}
    <3> DEFINE c == Effective(file)
               t == ResolveToken(Effective(file))
    <3>1. c \in Config /\ t \in Token \cup {NoToken, "old"}
      BY <1>1, <1>2 DEF ResolveToken
    <3>2. running' = [c EXCEPT !.token = t] \/ running' = Down
      BY <1>9 DEF RestartServe
    <3> HIDE DEF c, t
    <3>3. [c EXCEPT !.token = t] \in Config
      BY <3>1 DEF Config
    <3> QED  BY <3>2, <3>3
  <2>3. SettingsTyped'
    BY <1>1, <2>1, <2>2, NoSaveType DEF SettingsTyped
  <2>4. FileOK'
    BY <1>1, <2>1 DEF FileOK, Effective, EnvOverrides, Decode
  <2>5. \A r \in Request : SaveOK(r)'
    BY <2>1, ReturnedOK
  <2> QED  BY <2>3, <2>4, <2>5 DEF SettingsInv
<1> QED  BY <1>5, <1>6, <1>7, <1>8, <1>9

\* Every step of the page, of the commands and of the daemon keeps the invariant.
LEMMA SettingsStep == ASSUME SettingsInv, [SettingsNext]_settingsVars PROVE SettingsInv'
<1>1. CASE UNCHANGED settingsVars
  <2>1. SettingsTyped'
    BY <1>1 DEF settingsVars, SettingsInv, SettingsTyped
  <2>2. FileOK'
    BY <1>1 DEF settingsVars, SettingsInv, FileOK, Effective, EnvOverrides, Decode
  <2>3. \A r \in Request : SaveOK(r)'
    BY <1>1, SavesStay DEF settingsVars
  <2> QED  BY <2>1, <2>2, <2>3 DEF SettingsInv
<1> QED  BY <1>1, SaveStep, RenameStep, OtherStep DEF SettingsNext

\* However the saves of the settings page interleave, are refused, fail or are
\* cut off by a restart, the file they leave has a provider and a TLS selection
\* that the next start accepts: saveMu covers the check and the rename, and no
\* save sets what the environment overrides.
THEOREM SelectionTheorem == SettingsSpec => []SelectionBoots
<1>1. SettingsInv => SelectionBoots
  BY DEF SettingsInv, FileOK, Valid, SelectionBoots
<1> QED  BY <1>1, SettingsStarts, SettingsStep, PTL DEF SettingsSpec

\* Once a token save was acknowledged the token of the store is the one the
\* next start uses: the file keeps none, whatever other saves write beside it.
THEOREM TokenTheorem == SettingsSpec => []TokenServed
<1>1. SettingsInv => TokenServed
  <2> SUFFICES ASSUME SettingsInv, acked, ~outside, env.token = NoToken
               PROVE  ResolveToken(Effective(file)) = store
    BY DEF TokenServed
  <2>1. file \in Config /\ env \in Envs /\ file.token = NoToken
    BY DEF SettingsInv, SettingsTyped, FileOK
  <2> QED  BY <2>1, EffectiveFields DEF ResolveToken
<1> QED  BY <1>1, SettingsStarts, SettingsStep, PTL DEF SettingsSpec

=============================================================================
