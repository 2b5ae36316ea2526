----------------------------- MODULE CellExport ------------------------------
(***************************************************************************)
(* cell_export_full and cell_export_diff of data/tasks.py, running         *)
(* CellExport of data/ocid.py: the cell tables are read page by page, in   *)
(* one transaction, into a file that is uploaded when it is complete.      *)
(*                                                                         *)
(* A cell is a row with a position, of a radio type that is exported, and  *)
(* stands for its place in the order of the primary key.                   *)
(***************************************************************************)
EXTENDS Integers, Sequences, SequencesExt, FiniteSets

CONSTANTS
    Tables,         \* the cell shards, 1..n in the order of their export
    Cells,
    PageSize,       \* 10000 in the code
    MaxHour         \* bound: the last hour

VARIABLES
    hour,
    modified,       \* the hour each cell was last modified in, per table
    pc,
    wanted,         \* the rows the export has to hold
    table, offset,  \* the next page
    file            \* the rows written so far

exportVars == <<pc, wanted, table, offset, file>>
vars == <<hour, modified, exportVars>>

NoCell == 0

Init ==
    /\ hour = 1
    /\ modified = [t \in Tables |-> [c \in Cells |-> NoCell]]
    /\ pc = "idle"
    /\ wanted = {}
    /\ table = 1
    /\ offset = 0
    /\ file = {}

\* The update tasks write and delete cells while an export runs.
StoreCell(t, c) ==
    /\ modified' = [modified EXCEPT ![t][c] = hour]
    /\ UNCHANGED <<hour, exportVars>>

DeleteCell(t, c) ==
    /\ modified[t][c] # NoCell
    /\ modified' = [modified EXCEPT ![t][c] = NoCell]
    /\ UNCHANGED <<hour, exportVars>>

NextHour ==
    /\ hour < MaxHour
    /\ hour' = hour + 1
    /\ UNCHANGED <<modified, exportVars>>

-----------------------------------------------------------------------------
\* The rows of a full export, or of the hour before for a diff.
Rows(hourly) ==
    {<<t, c>> \in Tables \X Cells :
        /\ modified[t][c] # NoCell
        /\ hourly => modified[t][c] = hour - 1}

\* The first select fixes what all of them see.
Begin(hourly) ==
    /\ pc = "idle"
    /\ wanted' = Rows(hourly)
    /\ pc' = "paging"
    /\ UNCHANGED <<hour, modified, table, offset, file>>

\* The select of a page, in the order of the primary key.
Page ==
    LET rows == SetToSortSeq({c \in Cells : <<table, c>> \in wanted}, <)
    IN  {<<table, rows[i]>> : i \in {j \in DOMAIN rows : offset < j /\ j <= offset + PageSize}}

WritePage ==
    /\ pc = "paging" /\ table \in Tables
    /\ Page # {}
    /\ file' = file \cup Page
    /\ offset' = offset + PageSize
    /\ UNCHANGED <<hour, modified, pc, wanted, table>>

\* An empty page ends a table.  The offset stays what it is.
NextTable ==
    /\ pc = "paging" /\ table \in Tables
    /\ Page = {}
    /\ table' = table + 1
    /\ UNCHANGED <<hour, modified, pc, wanted, offset, file>>

Upload ==
    /\ pc = "paging" /\ table \notin Tables
    /\ pc' = "uploaded"
    /\ UNCHANGED <<hour, modified, wanted, table, offset, file>>

\* The end of a task, after its upload or without one.
EndTask ==
    /\ pc # "idle"
    /\ pc' = "idle"
    /\ wanted' = {}
    /\ table' = 1
    /\ offset' = 0
    /\ file' = {}
    /\ UNCHANGED <<hour, modified>>

Next ==
    \/ \E t \in Tables, c \in Cells : StoreCell(t, c) \/ DeleteCell(t, c)
    \/ NextHour
    \/ \E hourly \in BOOLEAN : Begin(hourly)
    \/ WritePage \/ NextTable \/ Upload \/ EndTask

Spec == Init /\ [][Next]_vars

-----------------------------------------------------------------------------
\* The downloads page (content/templates/downloads.pt:59) offers "a daily
\* snapshot of the entire cell network collection", and a test
\* (data/tests/test_ocid.py:110) compares the rows of one table: an uploaded
\* file holds every row that was there when the export started.
EveryRowExported == pc = "uploaded" => file = wanted
=============================================================================
