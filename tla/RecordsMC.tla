------------------------------ MODULE RecordsMC ------------------------------
(***************************************************************************)
(* The records for TLC.  One upload has two parts, another one; two jobs   *)
(* whose options compete for the profile ("pairs"), two previews that      *)
(* compete for one specification ("previews"), or two requests for one     *)
(* scene ("races"); two consultations about a brief of one entry ("talks") *)
(* or one about a brief of two ("briefs").                                 *)
(***************************************************************************)
EXTENDS Records, TLC

CONSTANTS api, spatial, u1, u2, c1, c2, scan, arkit, a, b, w1, j1, j2, o1, o2, chair, q1, q2,
    need, wish, talk1, talk2, turn1, turn2, x1, x2, k1, k2, h1, h2, h3, h4, f1, f2, n1

MCHosts == {api, spatial}

MCPartsOf == [s \in {u1, u2} |-> IF s = u1 THEN {1, 2} ELSE {1}]

MCArtifactsOf == [s \in {scan, arkit} |-> IF s = scan THEN {a} ELSE {b}]

MCJobsIn == [pairs |-> {j1, j2}, previews |-> {j1}, races |-> {j1}]

MCOptionsIn == [pairs |-> {o1, o2}, previews |-> {o1}, races |-> {o1}]

MCJobOf == [o \in {o1, o2} |-> IF o = o1 THEN j1 ELSE j2]

MCCallsIn == [pairs |-> {q1}, previews |-> {q1}, races |-> {q1, q2}]

MCRevisionsIn == [pairs |-> 2, previews |-> 3, races |-> 3]

MCPreviewsIn == [pairs |-> 1, previews |-> 2, races |-> 1]

MCEntriesIn == [talks |-> {need}, briefs |-> {need, wish}]

MCTalksIn == [talks |-> {talk1, talk2}, briefs |-> {talk1}]

MCMessagesIn == [talks |-> {turn1, turn2}, briefs |-> {turn1}]

MCClientsIn == [talks |-> {x1, x2}, briefs |-> {x1}]

MCTasks == 1 .. 3

MCCorners == 1 .. 6

Symmetry == Permutations({c1, c2}) \cup Permutations({talk1, talk2})
=============================================================================
