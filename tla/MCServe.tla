------------------------------- MODULE MCServe -------------------------------
(***************************************************************************)
(* The parts of the program beside the pipeline: who may use it            *)
(* (WebAccess), its settings (Settings), what a start prepares (Startup),  *)
(* the pacing of its requests (Pacer), the roots it watches (WatchRoots),  *)
(* the instrumental detector (Detector), the one-shot command (FetchOnce), *)
(* the pace of retries (Cadence) and the webhook's requests (Webhook).     *)
(* They share no state, so a behaviour of this instance runs one of them,  *)
(* chosen at the start, and the others stay as they began: the product     *)
(* would only repeat each part with every state of the others.             *)
(*                                                                         *)
(* Three clients, two of them behind one address, in front of a limiter    *)
(* that tracks one address; two concurrent saves of the settings page; two *)
(* processes that start on one volume; three overlapping requests; every   *)
(* list of up to three libraries over paths of up to three names; two      *)
(* calls of a detector with two vocal classes; a command for three songs;  *)
(* every small number of one kind in the file and in the environment, zero *)
(* and negative ones too, with scaled-down defaults, least values and word,*)
(* so that the larger ones wrap around to a negative or to a short delay;  *)
(* and two deliveries, concurrent or one after the other, about two tracks *)
(* of which one has a title that is part of the other's.                   *)
(***************************************************************************)
EXTENDS WebAccess, Settings, Startup, Pacer, WatchRoots, Detector, FetchOnce, Cadence,
        Webhook

CONSTANTS
    c1, c2, c3, a1, a2, r1, r2, p1, p2, l1, l2, d1, d2,
    MaxBase, MaxMax  \* the range of the breaker's windows

VARIABLE part  \* the part that runs

MCAddressOf == c1 :> a1 @@ c2 :> a1 @@ c3 :> a2

Paths == UNION {[1 .. n -> {"a", "b"}] : n \in 0 .. 3}

\* One path names no directory when the watcher starts.
Directories == Paths \ {<<"b", "b", "b">>}

\* The file and the environment with all numbers of one family small, or the
\* breaker's windows anywhere in their range. 12 hours are a negative duration,
\* 22 hours a short one, 22 seconds a negative one and 33 seconds a short one.
NoNumbers == [x \in Number |-> Unset]
Small == {-1, 0, 1, 3, 7, 12, 22}
MCConfigurations ==
    UNION {[file : {f @@ NoNumbers : f \in [family -> Small \cup {Unset}]},
            env : {f @@ NoNumbers : f \in [family -> {-1, 3, 22, Unset, Garbage}]}] :
               family \in {{"open", "base"}, {"missBase", "missCap"}, {"maxMiss"}}}
    \cup [file : {"open" :> x @@ "base" :> y @@ NoNumbers : x \in -1 .. MaxMax, y \in -1 .. MaxBase},
          env : {NoNumbers}]

\* Two files of the libraries, and one outside them.
MCTitleOf == 1 :> "love" @@ 2 :> "love song" @@ 3 :> "love"
MCNames == 1 :> {"love"} @@ 2 :> {"love", "love song"} @@ 3 :> {"love"}
MCPayload ==
    [event : {"Download"}, titles : {<<"love">>, <<"love", "love song">>},
     paths : {<<2, 1>>, <<3>>}, album : {TRUE}]
    \cup [event : {"Download"}, titles : {<<"love">>}, paths : {<<1>>}, album : {FALSE}]
    \cup [event : {"Delete"}, titles : {<<>>, <<"love", "love song">>},
          paths : {<<>>}, album : {FALSE}]
    \cup [event : {"Grab", "Download"}, titles : {<<>>}, paths : {<<>>}, album : {FALSE}]

\* The processes are alike.
Alike == Permutations(Process)

\* The parts that do not run start from the simplest of their states.
ServeInit ==
    /\ part \in {"access", "settings", "startup", "pacer", "roots",
                "detector", "fetch", "cadence", "webhook"}
    /\ AccessInit /\ (part = "access" \/ users = {})
    /\ SettingsInit
    /\ part = "settings" \/ (file = Empty /\ store = NoToken
                             /\ env = [primary |-> "unset", token |-> NoToken])
    /\ StartupInit /\ Init
    /\ RootsInit /\ (part = "roots" \/ libs = << <<>> >>)
    /\ DetectorInit
    /\ FetchInit /\ (part = "fetch" \/ (fetch.mode = "dir" /\ fetch.provider = "musixmatch"))
    /\ CadenceInit
    /\ part = "cadence" \/ (written = NoNumbers /\ exported = NoNumbers)
    /\ HookInit

ServeNext ==
    /\ UNCHANGED part
    /\ IF part = "access" THEN AccessNext ELSE UNCHANGED accessVars
    /\ IF part = "settings" THEN SettingsNext ELSE UNCHANGED settingsVars
    /\ IF part = "startup" THEN StartupNext ELSE UNCHANGED startupVars
    /\ IF part = "pacer" THEN Next ELSE UNCHANGED vars
    /\ IF part = "roots" THEN RootsNext ELSE UNCHANGED rootsVars
    /\ IF part = "detector" THEN DetectorNext ELSE UNCHANGED detectorVars
    /\ IF part = "fetch" THEN FetchNext ELSE UNCHANGED fetchVars
    /\ IF part = "cadence" THEN Attempt ELSE UNCHANGED cadenceVars
    /\ IF part = "webhook" THEN HookNext ELSE UNCHANGED hookVars

ServeSpec ==
    /\ ServeInit
    /\ [][ServeNext]_<<part, accessVars, settingsVars, startupVars, vars, rootsVars,
                   detectorVars, fetchVars, cadenceVars, hookVars>>

\* Type invariant of the parts.
ServeTypeOK ==
    /\ AccessTypeOK /\ SettingsTypeOK /\ StartupTypeOK /\ TypeOK
    /\ DetectorTypeOK /\ FetchTypeOK /\ HookTypeOK

=============================================================================
