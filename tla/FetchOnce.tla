----------------------------- MODULE FetchOnce ------------------------------
(***************************************************************************)
(* The one-shot command: runFetch fills an in-memory queue from its        *)
(* arguments, a text file or a directory (internal/scanner), App.Run looks *)
(* every input up and saves it (internal/app), and what was not saved is   *)
(* reported and, unless a directory was given, listed in a file that the   *)
(* command takes as its next input. Ctrl+C may arrive at any moment.       *)
(*                                                                         *)
(* A lookup is one step; what a provider answers is computed from the      *)
(* responses it may get (internal/musixmatch, internal/petitlyrics).       *)
(***************************************************************************)
EXTENDS Sequences, FiniteSets, Backoff

CONSTANTS
    Song,                  \* the songs named, by position
    DefaultBase, DefaultMax \* of the delay after failures

ASSUME FetchAssumption ==
    /\ IsFiniteSet(Song) /\ Song = 1 .. Cardinality(Song)
    /\ DefaultBase \in Nat \ {0} /\ DefaultMax \in Nat \ {0}

VARIABLES
    inputs, failed,  \* the two InputsQueues
    fetch,           \* where the command is
    saved,           \* songs whose sidecar was written
    listed,          \* the file of failed items
    interrupted      \* the context is canceled

fetchVars == <<inputs, failed, fetch, saved, listed, interrupted>>

-----------------------------------------------------------------------------
(* The providers                                                           *)

\* The answer is the first stage that does not go well, or the song.
FirstFailure(stages) ==
    IF \A i \in DOMAIN stages : stages[i] = "ok" THEN "song"
    ELSE stages[CHOOSE i \in DOMAIN stages :
                    stages[i] # "ok" /\ \A j \in 1 .. i - 1 : stages[j] = "ok"]

Status == {"ok", "unauthorized", "forbidden", "throttled", "notfound", "other"}

\* Musixmatch: one response with the matcher's status inside.
MusixmatchResponse ==
    [http : Status, body : {"ok", "garbage", "renew"},
     match : {"ok", "empty", "unauthorized", "notfound", "other"},
     subtitles : {"none", "empty", "lines", "garbage"},
     lyrics : {"none", "restricted", "missing", "garbage", "text"}, instrumental : BOOLEAN]

HttpStatus(r) == CASE r.http = "ok"           -> "ok"
                   [] r.http = "unauthorized" -> "ErrUnauthorized"
                   [] r.http = "throttled"    -> "ErrRateLimited"
                   [] r.http = "notfound"     -> "ErrNotFound"
                   [] OTHER                   -> "error"

Body(r) == CASE r.body = "ok"      -> "ok"
             [] r.body = "renew"   -> "ErrTokenRenewalRequired"
             [] r.body = "garbage" -> "error"

Matcher(r) == CASE r.match = "ok"           -> "ok"
                [] r.match = "unauthorized" -> "ErrUnauthorized"
                [] r.match = "notfound"     -> "ErrNotFound"
                [] OTHER                    -> "error"

Lyrics(r) ==
    CASE r.subtitles = "lines"   -> "ok"
      [] r.subtitles = "empty"   -> "ErrTruncatedResponse"
      [] r.subtitles = "garbage" -> "error"
      [] r.subtitles = "none" /\ r.lyrics = "text" -> "ok"
      [] r.subtitles = "none" /\ r.lyrics = "garbage" -> "error"
      [] r.subtitles = "none" /\ r.lyrics \in {"restricted", "missing"} -> "ErrNoLyrics"
      [] r.subtitles = "none" /\ r.lyrics = "none" ->
             IF r.instrumental THEN "ok" ELSE "ErrNoLyrics"

\* Petit Lyrics: a search, a token and the lyrics.
PetitResponse ==
    [search : Status, found : BOOLEAN, csrf : Status, token : BOOLEAN,
     ajax : Status, lyrics : {"none", "garbage", "text"}]

statusError(status) ==
    CASE status = "ok"                         -> "ok"
      [] status = "unauthorized"               -> "petitlyrics.ErrUnauthorized"
      [] status \in {"forbidden", "throttled"} -> "petitlyrics.ErrRateLimited"
      [] OTHER                                 -> "error"

searchLyricsID(r) == IF statusError(r.search) # "ok" \/ r.found THEN statusError(r.search)
                     ELSE "petitlyrics.ErrNotFound"

fetchCSRFToken(r) == IF statusError(r.csrf) # "ok" \/ r.token THEN statusError(r.csrf)
                     ELSE "error"

fetchLyrics(r) == IF statusError(r.ajax) # "ok" \/ r.lyrics = "text" THEN statusError(r.ajax)
                  ELSE IF r.lyrics = "none" THEN "petitlyrics.ErrNotFound" ELSE "error"

MusixmatchAnswers ==
    {FirstFailure(<<HttpStatus(r), Body(r), Matcher(r), Lyrics(r)>>) : r \in MusixmatchResponse}
PetitAnswers ==
    {FirstFailure(<<searchLyricsID(r), fetchCSRFToken(r), fetchLyrics(r)>>) : r \in PetitResponse}

\* No connection, or a canceled context, is an error of either provider.
FindLyrics(provider) ==
    {"error"} \cup (IF provider = "musixmatch" THEN MusixmatchAnswers ELSE PetitAnswers)

\* It knows Musixmatch's sentinels only.
IsBenignMiss(answer) == answer \in {"ErrNotFound", "ErrNoLyrics"}

-----------------------------------------------------------------------------
(* The command                                                             *)

FetchInit ==
    /\ inputs = <<>> /\ failed = <<>> /\ saved = {} /\ listed = <<>>
    /\ interrupted = FALSE
    /\ fetch \in [pc : {"parse"}, mode : {"cli", "text", "dir"},
                  provider : {"musixmatch", "petitlyrics"}, answer : {"none"},
                  failures : {0}, delay : {0}, total : {0}, success : {0}]

\* ParseInput: songs that are not well formed, or that the walk of the
\* directory passes over, are left out; the others stay in their order.
ParseInput ==
    /\ fetch.pc = "parse"
    /\ \E n \in 0 .. Cardinality(Song) : \E some \in [1 .. n -> Song] :
         /\ \A i, j \in 1 .. n : i < j => some[i] < some[j]
         /\ inputs' = some
    /\ fetch' = [fetch EXCEPT !.pc = "loop", !.total = Len(inputs')]
    /\ UNCHANGED <<failed, saved, listed, interrupted>>

\* No configuration, no provider, no such input, no output directory: exit 1.
ParseFails ==
    /\ fetch.pc = "parse"
    /\ fetch' = [fetch EXCEPT !.pc = "exit 1"]
    /\ UNCHANGED <<inputs, failed, saved, listed, interrupted>>

Interrupt ==
    /\ ~interrupted /\ interrupted' = TRUE
    /\ UNCHANGED <<inputs, failed, fetch, saved, listed>>

\* The front input stays in the queue while it is looked up.
LookUp ==
    /\ fetch.pc = "loop" /\ inputs # <<>> /\ ~interrupted
    /\ \E answer \in FindLyrics(fetch.provider) :
         fetch' = [fetch EXCEPT !.pc = "settle", !.answer = answer]
    /\ UNCHANGED <<inputs, failed, saved, listed, interrupted>>

\* Back to the loop after the wait, which is skipped behind the last input;
\* delay is what backoffTimer waits after a failure (timer's fixed cooldown
\* after the others is left out, and a canceled context cuts either short).
NextInput(failures, wait) ==
    fetch' = [fetch EXCEPT !.pc = "loop", !.answer = "none", !.failures = failures,
                           !.delay = IF Len(inputs) = 1 THEN 0 ELSE wait]

SaveLyrics ==
    /\ fetch.pc = "settle" /\ fetch.answer = "song"
    /\ inputs' = Tail(inputs)
    /\ \/ saved' = saved \cup {Head(inputs)} /\ UNCHANGED failed
       \/ failed' = Append(failed, Head(inputs)) /\ UNCHANGED saved
    /\ NextInput(0, 0)
    /\ UNCHANGED <<listed, interrupted>>

MissLyrics ==
    /\ fetch.pc = "settle" /\ IsBenignMiss(fetch.answer)
    /\ inputs' = Tail(inputs) /\ failed' = Append(failed, Head(inputs))
    /\ NextInput(fetch.failures, 0)
    /\ UNCHANGED <<saved, listed, interrupted>>

FailLyrics ==
    /\ fetch.pc = "settle" /\ fetch.answer # "song" /\ ~IsBenignMiss(fetch.answer)
    /\ inputs' = Tail(inputs) /\ failed' = Append(failed, Head(inputs))
    /\ NextInput(fetch.failures + 1, Geometric(fetch.failures + 1, DefaultBase, DefaultMax))
    /\ UNCHANGED <<saved, listed, interrupted>>

\* Faulty: only what was looked up is reported.
HandleFailedOnly ==
    /\ fetch.pc = "loop" /\ (inputs = <<>> \/ interrupted)
    /\ inputs' = <<>> /\ UNCHANGED failed
    /\ fetch' = [fetch EXCEPT !.success = fetch.total - Len(failed),
                    !.pc = IF failed = <<>> \/ fetch.mode = "dir" THEN "exit 0" ELSE "list"]
    /\ UNCHANGED <<saved, listed, interrupted>>

\* handleFailed: what is left of the queue has failed as well; a directory can
\* be given again as it is.
HandleFailed ==
    /\ fetch.pc = "loop" /\ (inputs = <<>> \/ interrupted)
    /\ failed' = failed \o inputs /\ inputs' = <<>>
    /\ fetch' = [fetch EXCEPT !.success = fetch.total - Len(failed'),
                    !.pc = IF failed' = <<>> \/ fetch.mode = "dir" THEN "exit 0" ELSE "list"]
    /\ UNCHANGED <<saved, listed, interrupted>>

ListFailed ==
    /\ fetch.pc = "list"
    /\ listed' = failed /\ failed' = <<>>
    /\ fetch' = [fetch EXCEPT !.pc = "exit 0"]
    /\ UNCHANGED <<inputs, saved, interrupted>>

\* The file cannot be created, or not be written to its end: the writer is
\* buffered, so fewer items may be in it than were popped.
ListFails ==
    /\ fetch.pc = "list"
    /\ \E popped \in 0 .. Len(failed) : \E n \in 0 .. popped :
         /\ failed' = SubSeq(failed, popped + 1, Len(failed))
         /\ listed' = SubSeq(failed, 1, n)
    /\ fetch' = [fetch EXCEPT !.pc = "exit 1"]
    /\ UNCHANGED <<inputs, saved, interrupted>>

FetchNext ==
    \/ ParseInput \/ ParseFails \/ Interrupt \/ LookUp
    \/ SaveLyrics \/ MissLyrics \/ FailLyrics
    \/ HandleFailed \/ ListFailed \/ ListFails

FetchSpec == FetchInit /\ [][FetchNext]_fetchVars

-----------------------------------------------------------------------------
(* Properties                                                              *)

\* Type invariant of the queues and the command.
FetchTypeOK ==
    /\ \A queue \in {inputs, failed, listed} : queue \in Seq(Song)
    /\ saved \subseteq Song /\ interrupted \in BOOLEAN
    /\ fetch.pc \in {"parse", "loop", "settle", "list", "exit 0", "exit 1"}
    /\ fetch.delay \in 0 .. DefaultMax /\ fetch.total \in 0 .. Cardinality(Song)

Members(queue) == {queue[i] : i \in DOMAIN queue}

\* Nothing is lost, wherever the command is interrupted: while App.Run is at
\* work an input is waiting, failed or saved, and only one of them; and a
\* command that ends well has reported as many successes as there are new
\* sidecars and, unless a directory was given, handleFailed has listed every
\* other input for the next run.
Accounted ==
    /\ fetch.pc \in {"loop", "settle", "list"} =>
         /\ Len(inputs) + Len(failed) + Cardinality(saved) = fetch.total
         /\ saved \cap (Members(inputs) \cup Members(failed)) = {}
    /\ fetch.pc = "exit 0" =>
         /\ fetch.success = Cardinality(saved)
         /\ fetch.mode = "dir" \/ Len(listed) = fetch.total - Cardinality(saved)

=============================================================================
