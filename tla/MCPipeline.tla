----------------------------- MODULE MCPipeline -----------------------------
(***************************************************************************)
(* Instances of the pipeline.  The same track (k1) is found in two         *)
(* libraries, k2 is a track only the webhook knows.                        *)
(***************************************************************************)
EXTENDS Pipeline, TLC

CONSTANTS k1, k2, s1, s2, libA, libB, pA, pB, c1, c2

MCKeyOf == [s \in ScanResult |-> k1]

MCLibOf == [s \in ScanResult |-> IF s = s1 THEN libA ELSE libB]

MCPathOf == [s \in ScanResult |-> IF s = s1 THEN pA ELSE pB]

\* Every track's artist tag is also its album artist.
SameKey == [k \in Key |-> IF k = k1 THEN c1 ELSE c2]

\* Workers are interchangeable.
Workers == Permutations(Worker)
=============================================================================
