------------------------------ MODULE Detector ------------------------------
(***************************************************************************)
(* HTTPDetector.Detect (internal/detector/http.go): is a track without     *)
(* lyrics an instrumental? A sample of the audio goes to a classifier,     *)
(* whose answer is judged by three gates. The detector remembers which     *)
(* vocal classes the classifier has ever reported, because an answer that  *)
(* leaves one out would pass for silence.                                  *)
(*                                                                         *)
(* Scores are kept as what the gates compare: whether the summed music and *)
(* speech means reach their thresholds, and which vocal classes peak at or *)
(* above theirs. The sample may miss a voice the track has (it covers a    *)
(* few windows); what the classifier reports of it is right.               *)
(***************************************************************************)
CONSTANTS
    Listener,         \* callers of Detect
    NoListener,       \* nobody holds the mutex
    ConfiguredVocal,  \* vocal_classes
    SpeechClass,      \* speech_classes
    OtherClass        \* a class of the answer that is in neither list

ASSUME DetectorAssumption ==
    NoListener \notin Listener /\ OtherClass \notin ConfiguredVocal \cup SpeechClass

VARIABLES
    vocalBaseline,  \* the vocal classes seen in an answer so far
    inference,      \* lastInference: "never", "recent" or "cooled"
    mutex,
    detection,      \* detection[c]: where the call is, and the voices in its sample
    verdict,        \* the last decision
    reported        \* history: the vocal classes of all answers since the start

detectorVars == <<vocalBaseline, inference, mutex, detection, verdict, reported>>

\* NewHTTPDetector: the speech gate alone governs a class that is in both lists.
VocalClass == ConfiguredVocal \ SpeechClass

Undetected == [pc |-> "none", heard |-> {}]
NoVerdict == [instrumental |-> FALSE, heard |-> {}]

DetectorInit ==
    /\ vocalBaseline = {} /\ inference = "never" /\ mutex = NoListener
    /\ detection = [c \in Listener |-> Undetected]
    /\ verdict = NoVerdict /\ reported = {}

\* Detect returns and unlocks.
ReturnVerdict(c) ==
    /\ mutex' = NoListener
    /\ detection' = [detection EXCEPT ![c] = Undetected]

Goes(c, pc) == detection' = [detection EXCEPT ![c].pc = pc]

-----------------------------------------------------------------------------
Detect(c) ==
    /\ detection[c].pc = "none" /\ Goes(c, "wait")
    /\ UNCHANGED <<vocalBaseline, inference, mutex, verdict, reported>>

LockDetector(c) ==
    /\ detection[c].pc = "wait" /\ mutex = NoListener
    /\ mutex' = c /\ Goes(c, "cooldown")
    /\ UNCHANGED <<vocalBaseline, inference, verdict, reported>>

\* The context ends before the cooldown does.
CooldownInterrupted(c) ==
    /\ detection[c].pc = "cooldown" /\ inference = "recent"
    /\ ReturnVerdict(c)
    /\ UNCHANGED <<vocalBaseline, inference, verdict, reported>>

CooldownEnds ==
    /\ inference = "recent" /\ inference' = "cooled"
    /\ UNCHANGED <<vocalBaseline, mutex, detection, verdict, reported>>

\* ffmpeg cuts the sample: one window, or several spread over the track.
Sample(c) ==
    /\ detection[c].pc = "cooldown" /\ inference # "recent"
    /\ \E heard \in SUBSET VocalClass :
         detection' = [detection EXCEPT ![c] = [pc |-> "classify", heard |-> heard]]
    /\ UNCHANGED <<vocalBaseline, inference, mutex, verdict, reported>>

SampleFails(c) ==
    /\ detection[c].pc = "cooldown" /\ inference # "recent"
    /\ ReturnVerdict(c)
    /\ UNCHANGED <<vocalBaseline, inference, verdict, reported>>

\* The classifier is unreachable or its answer cannot be read; the cooldown
\* starts all the same.
ClassifyFails(c) ==
    /\ detection[c].pc = "classify"
    /\ inference' = "recent"
    /\ ReturnVerdict(c)
    /\ UNCHANGED <<vocalBaseline, verdict, reported>>

\* The answer: the two means, and the classes of its max map, of which a
\* faulty classifier may leave out any; a legacy one sends no max map.
Answers == [music : BOOLEAN, speech : BOOLEAN, max : SUBSET (VocalClass \cup {OtherClass})]

\* Faulty: the first answer with a vocal class settles the list.
growVocalBaselineOnce(answer) ==
    IF vocalBaseline = {} THEN answer.max \cap VocalClass ELSE vocalBaseline

growVocalBaseline(answer) == vocalBaseline \cup (answer.max \cap VocalClass)

\* The gates, on the grown baseline.
Instrumental(answer, heard, baseline) ==
    /\ answer.music /\ ~answer.speech
    /\ answer.max # {}
    /\ baseline # {} /\ baseline \subseteq answer.max
    /\ heard \cap answer.max = {}

Decide(c) ==
    /\ detection[c].pc = "classify"
    /\ \E answer \in Answers :
         LET baseline == IF answer.max = {} THEN vocalBaseline ELSE growVocalBaseline(answer)
         IN  /\ vocalBaseline' = baseline
             /\ verdict' = [instrumental |-> Instrumental(answer, detection[c].heard, baseline),
                            heard |-> detection[c].heard]
             /\ reported' = reported \cup (answer.max \cap VocalClass)
    /\ inference' = "recent"
    /\ ReturnVerdict(c)

DetectorNext ==
    \/ CooldownEnds
    \/ \E c \in Listener :
         \/ Detect(c) \/ LockDetector(c) \/ CooldownInterrupted(c)
         \/ Sample(c) \/ SampleFails(c) \/ ClassifyFails(c) \/ Decide(c)

DetectorSpec == DetectorInit /\ [][DetectorNext]_detectorVars

-----------------------------------------------------------------------------
(* Properties                                                              *)

\* Type invariant of the detector and its calls.
DetectorTypeOK ==
    /\ vocalBaseline \subseteq VocalClass /\ reported \subseteq VocalClass
    /\ inference \in {"never", "recent", "cooled"}
    /\ mutex \in Listener \cup {NoListener}
    /\ detection \in [Listener -> [pc : {"none", "wait", "cooldown", "classify"},
                              heard : SUBSET VocalClass]]
    /\ verdict \in [instrumental : BOOLEAN, heard : SUBSET VocalClass]

\* A sample in which a voice is audible is never judged instrumental because
\* the answer left that voice's class out: not if any earlier answer had it,
\* and not while no answer had a vocal class at all.
VoiceHeard ==
    verdict.instrumental => reported # {} /\ verdict.heard \cap reported = {}

=============================================================================
