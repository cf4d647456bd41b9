------------------------------- MODULE TopRows -------------------------------
(***************************************************************************)
(* Which rows of the process and app tables are sent to the page, which    *)
(* can sort what it was sent by any column (src/processes.go:140-279).     *)
(***************************************************************************)
EXTENDS Integers, FiniteSets, SequencesExt

CONSTANTS Rows,     \* the rows, in the order they were read
          TopN,     \* defaultProcessTopN
          HardCap   \* processTopHardCap, twice as many

\* What is assumed of the constants.
TopRowsAssumption ==
  /\ Rows \subseteq Nat /\ IsFiniteSet(Rows)
  /\ TopN \in Nat \ {0} /\ HardCap = 2 * TopN

VARIABLES
  value,  \* value of each row in each column
  sent    \* the rows sent; none before

vars == <<value, sent>>

\* In the order they are considered; disk is read and written together.
Columns == <<"cpu", "memory", "gpuMemory", "gpu", "disk">>

\* A row is busy on the processor or not, and may be heavy in one other column.
Init ==
  /\ \E busy \in SUBSET Rows, heavy \in [Rows -> 1..Len(Columns)] :
       value = [r \in Rows |-> [c \in ToSet(Columns) |->
                 IF c = "cpu" THEN IF r \in busy THEN 1 ELSE 0
                 ELSE IF Columns[heavy[r]] = c THEN 1 ELSE 0]]
  /\ sent = {}

\* The order of a column.  The sort is stable: rows of one value keep their order.
Before(a, b, c) == value[a][c] > value[b][c] \/ (value[a][c] = value[b][c] /\ a < b)

\* The n best rows of a column that no column before it has picked.
Consider(picked, c, n) ==
  LET left == Rows \ picked
  IN picked \cup {r \in left : Cardinality({q \in left : Before(q, r, c)}) < n}

\* The rows picked when each column in turn has been considered.
Picked ==
  LET after[i \in 0..Len(Columns)] ==
        IF i = 0 THEN {} ELSE Consider(after[i - 1], Columns[i], TopN)
  IN after[Len(Columns)]

Busier(a, b) == value[a]["cpu"] > value[b]["cpu"]

\* The rows with the least CPU are dropped first; the rows were collected in a
\* map, so which of several equals is dropped is anyone's guess.
TrimmedByCPU(rows) ==
  IF Cardinality(rows) <= HardCap THEN {rows}
  ELSE {kept \in SUBSET rows : /\ Cardinality(kept) = HardCap
                               /\ \A r \in kept, q \in rows \ kept : ~Busier(q, r)}

Select ==
  /\ sent = {}
  /\ sent' \in IF Cardinality(Rows) <= TopN THEN {Rows}
               ELSE TrimmedByCPU(Picked)
  /\ UNCHANGED value

Next == Select
Spec == Init /\ [][Next]_vars

-----------------------------------------------------------------------------
(* Properties.                                                              *)

\* Among what was sent are TopN rows no other row beats in this column, or all rows
\* there are.
LeadersSent(c) ==
  \E best \in SUBSET sent :
    /\ best = Rows \/ Cardinality(best) = TopN
    /\ \A r \in best, q \in Rows \ best : value[r][c] >= value[q][c]

\* Sorted by any column, what was sent shows the leaders of that column
\* (processes.go:8-11 and 149-151).
ColumnLeadersSent == sent # {} => \A c \in ToSet(Columns) : LeadersSent(c)

\* What does hold: the leaders by processor time are always sent, and never
\* more rows than the cap (processes.go:247-248).
CPULeadersSent == sent # {} => LeadersSent("cpu") /\ Cardinality(sent) <= HardCap
=============================================================================
