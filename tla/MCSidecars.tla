----------------------------- MODULE MCSidecars -----------------------------
(***************************************************************************)
(* Two files of one track, the first one in the library that is walked.    *)
(* Everybody at once is more than TLC can enumerate: a behaviour belongs to*)
(* one of the crews below, whose actors interleave freely.                 *)
(***************************************************************************)
EXTENDS Sidecars

CONSTANTS s1, s2, t1

VARIABLE crew    \* the actors of this behaviour

TrackOfAll == [s \in Stem |-> t1]
EmbeddedIn == [s \in Stem |-> IF s = s1 THEN "synced" ELSE "plain"]

Crews == {{"worker", "queue", "reconcile"}, {"worker", "queue", "backfill", "people"},
          {"worker", "walk"}, {"walk", "queue", "people"}}

CrewInit == crew \in Crews /\ SidecarInit

CrewNext ==
    /\ \/ "worker" \in crew /\ WorkerStep
       \/ "walk" \in crew /\ ScanStep
       \/ "reconcile" \in crew /\ ReconcileStep
       \/ "backfill" \in crew /\ BackfillStep
       \/ "queue" \in crew /\ QueueStep
       \/ "people" \in crew /\ People
    /\ UNCHANGED crew

CrewSpec == CrewInit /\ [][CrewNext]_<<crew, sidecarVars>>

=============================================================================
