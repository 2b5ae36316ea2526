---------------------------- MODULE StationRecord ----------------------------
(***************************************************************************)
(* One row of a station table (a cell or wifi shard) and the rules that    *)
(* decide what becomes of it: StationUpdater.station_values, which merges  *)
(* a batch of observations into a row, and StationMixin.blocked, which     *)
(* decides if the updater may touch the row at all.                        *)
(*                                                                         *)
(* Positions are points of a line instead of points of a sphere: the rules *)
(* only ask how far the corners of a bounding box are apart.  The mean     *)
(* position, the radius and the region are functions of data the rules     *)
(* never read; a row has a position exactly if its box is not empty.       *)
(* SQL's NULL is {} for a box and 0 for a date and a number.               *)
(***************************************************************************)
EXTENDS Integers

CONSTANTS
    MaxDist,        \* max_dist_meters: how far a station may reach
    TempDuration,   \* TEMPORARY_BLOCKLIST_DURATION, in days
    PermThreshold   \* PERMANENT_BLOCKLIST_THRESHOLD

ASSUME RecordAssumption ==
    /\ MaxDist \in Nat
    /\ TempDuration \in Nat \ {0}
    /\ PermThreshold \in Nat \ {0}

\* The columns the rules read and write; dates are counted from day 1.
Row(Positions) ==
    [box : SUBSET Positions, samples : Nat,
     first : Nat, last : Nat, count : Nat]

\* No row for this station.  A real row has been seen or blocked once, so it
\* has samples or a block count.
NoRow == [box |-> {}, samples |-> 0, first |-> 0, last |-> 0, count |-> 0]

-----------------------------------------------------------------------------
(***************************************************************************)
(* Definitions headed "Mutant:" are faulty variants of the definition that *)
(* follows; only mutation runs use them.                                   *)
(***************************************************************************)

\* The two corners of the bounding box of a set of positions.
Hull(P) == {p \in P : (\A q \in P : p <= q) \/ (\A q \in P : q <= p)}

TooFar(P) == \E p, q \in P : q - p > MaxDist

\* Mutant: the box of the row is not compared, only the new observations.
DisagreeAlone(row, P) == TooFar(P)

\* Observations that disagree with each other or with the row's box mean that
\* the station moved; the second test subsumes the first.
Disagree(row, P) == TooFar(P \cup row.box)

\* Mutant: the position survives the move.
MovedKeepsPosition(row, today) ==
    [row EXCEPT !.first = IF row.first = 0 THEN today ELSE row.first,
                !.last = today, !.count = @ + 1]

\* Mutant: the count runs down.
MovedCountsDown(row, today) ==
    [box |-> {}, samples |-> 0,
     first |-> IF row.first = 0 THEN today ELSE row.first,
     last |-> today,
     count |-> row.count - 1]

\* Mutant: first and last block day confused.
MovedSwapsDays(row, today) ==
    [box |-> {}, samples |-> 0, first |-> today,
     last |-> IF row.last = 0 THEN today ELSE row.last,
     count |-> row.count + 1]

\* The row of a station that moved: no position, blocked from today.
Moved(row, today) ==
    [box |-> {}, samples |-> 0,
     first |-> IF row.first = 0 THEN today ELSE row.first,
     last |-> today,
     count |-> row.count + 1]

\* Mutant: all the positions that enter the new box count as samples, the old
\* position and the two old corners included.
MergedCountsCorners(row, P, n) ==
    [row EXCEPT !.box = Hull(P \cup row.box), !.samples = @ + n + 3]

\* The row of a station that was seen where it was expected.
Merged(row, P, n) ==
    [row EXCEPT !.box = Hull(P \cup row.box), !.samples = @ + n]

\* station_values: the row after n observations at the positions P.  Applied
\* to NoRow these are the `new` and `new_moving` cases, otherwise `changed`
\* and `moving`.
StationValues(row, P, n, today) ==
    IF Disagree(row, P) THEN Moved(row, today) ELSE Merged(row, P, n)

\* StationMixin.blocked: for good after PermThreshold moves, otherwise for
\* TempDuration days after the last one.
Blocked(row, today) ==
    \/ row.count >= PermThreshold
    \/ row.last # 0 /\ today - row.last < TempDuration
=============================================================================
