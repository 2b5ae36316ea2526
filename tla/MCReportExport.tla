--------------------------- MODULE MCReportExport ----------------------------
(***************************************************************************)
(* Small instances of ReportExport for TLC.                                *)
(***************************************************************************)
EXTENDS ReportExport, TLC

CONSTANTS r1, r2, r3, r4, http, internal, s3, g1, g2, w1, w2

\* A partner queue: batches of two.
PartnerTargets == [r \in Reports |-> {http}]
PartnerBatch == [l \in Lists |-> 2]
PartnerKind == [l \in Lists |-> "http"]

\* The internal queue, which skips the api key of report r4, and an s3 queue
\* without a batch setting, which skips the other keys.
OwnTargets == [r \in Reports |-> IF r = r4 THEN {s3} ELSE {internal}]
OwnBatch == (internal :> 2) @@ (s3 :> 0)
OwnKind == (internal :> "internal") @@ (s3 :> "s3")

\* Reports by two users.
TwoGroups == [r \in Reports |-> IF r \in {r1, r3} THEN g1 ELSE g2]

Symmetry == Permutations(Workers)
=============================================================================
