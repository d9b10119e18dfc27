------------------------------ MODULE TrackJob ------------------------------
(***************************************************************************)
(* What the durable queue promises its users, without tables, caches and   *)
(* files: every track is a job that is absent, open, claimed or closed;    *)
(* one worker at a time holds a claimed job, and only its holder moves it. *)
(* A job whose holder dies stays claimed: nothing takes it over.           *)
(***************************************************************************)
CONSTANTS Key, Worker

VARIABLES
    job,    \* key -> stage
    holds   \* pairs <<worker, key>>

jobVars == <<job, holds>>

Stage == {"absent", "open", "claimed", "closed"}

JobInit ==
    /\ job = [k \in Key |-> "absent"]
    /\ holds = {}

\* A set of jobs that nobody works on changes stage: submitted, withdrawn,
\* reopened or purged.
MoveAll(S, from, to) ==
    /\ S # {} /\ \A k \in S : job[k] = from
    /\ job' = [k \in Key |-> IF k \in S THEN to ELSE job[k]]
    /\ UNCHANGED holds

Claim(w, k) ==
    /\ job[k] = "open" /\ \A j \in Key : <<w, j>> \notin holds
    /\ job' = [job EXCEPT ![k] = "claimed"]
    /\ holds' = holds \cup {<<w, k>>}

\* The holder gives the job back or closes it.
HandBack(w, k, to) ==
    /\ <<w, k>> \in holds
    /\ job' = [job EXCEPT ![k] = to]
    /\ holds' = holds \ {<<w, k>>}

\* Workers die; what they held stays claimed.
Abandon(dead) ==
    /\ holds' = {h \in holds : h[1] \notin dead}
    /\ UNCHANGED job

JobNext ==
    \/ \E S \in SUBSET Key :
         \/ MoveAll(S, "absent", "open") \/ MoveAll(S, "open", "absent")
         \/ MoveAll(S, "closed", "open") \/ MoveAll(S, "closed", "absent")
    \/ \E w \in Worker, k \in Key :
         Claim(w, k) \/ HandBack(w, k, "open") \/ HandBack(w, k, "closed")
    \/ \E dead \in SUBSET Worker : Abandon(dead)

JobSpec == JobInit /\ [][JobNext]_jobVars

=============================================================================
