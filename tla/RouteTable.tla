----------------------------- MODULE RouteTable -----------------------------
(***************************************************************************)
(* The rows the web application keeps of a trace: an array in hop order    *)
(* which each line of mtr's split output updates, by updateTable of the    *)
(* page (scripts.js).  A line is a record with its hop and the router that *)
(* answered, and what else a user of this module wants to remember of it.  *)
(***************************************************************************)
EXTENDS Integers, Sequences, SequencesExt

(* Where the loop finds the hop, and where it would put it. *)
IndexOf(rows, line) == {i \in DOMAIN rows : rows[i].hop = line.hop}
FirstAbove(rows, line) ==
    CHOOSE i \in 1..Len(rows) + 1 :
        /\ \A j \in 1..i - 1 : rows[j].hop < line.hop
        /\ i <= Len(rows) => rows[i].hop > line.hop

Changed(rows, line) == \E i \in IndexOf(rows, line) : rows[i].router # line.router

(* Only hop 1 may be the first row. *)
FirstRow(line) == IF line.hop = 1 THEN <<line>> ELSE <<>>

(* A hop that is known, by the same router, or is not known. *)
Placed(rows, line) ==
    IF IndexOf(rows, line) # {}
    THEN [rows EXCEPT ![CHOOSE i \in IndexOf(rows, line) : TRUE] = line]
    ELSE InsertAt(rows, FirstAbove(rows, line), line)

(* updateTable: another router at a known hop empties the table.  (In an     *)
(* empty table a hop but the first fails on `undefined', which ends the      *)
(* handler and leaves the table as it is.)                                   *)
UpdateTable(rows, line) ==
    IF rows = <<>> \/ Changed(rows, line) THEN FirstRow(line) ELSE Placed(rows, line)

(* The rows of the HTML table below its heading, which updateTable changes   *)
(* by index along with its array; a row which is not there is an exception,  *)
(* and nothing is done.  Faulty: the heading's row is not counted.           *)
UpdateRows_NoHeading(shown, rows, line) ==
    IF rows = <<>> THEN IF line.hop = 1 THEN <<line>> \o shown ELSE shown
    ELSE IF Changed(rows, line) THEN FirstRow(line)
    ELSE IF IndexOf(rows, line) # {}
    THEN LET i == CHOOSE i \in IndexOf(rows, line) : TRUE
         IN  IF i <= Len(shown) THEN [shown EXCEPT ![i] = line] ELSE shown
    ELSE LET i == FirstAbove(rows, line) - 1
         IN  IF i \in 1..Len(shown) + 1 THEN InsertAt(shown, i, line) ELSE shown
UpdateRows(shown, rows, line) ==
    IF rows = <<>> THEN IF line.hop = 1 THEN <<line>> \o shown ELSE shown
    ELSE IF Changed(rows, line) THEN FirstRow(line)
    ELSE IF IndexOf(rows, line) # {}
    THEN LET i == CHOOSE i \in IndexOf(rows, line) : TRUE
         IN  IF i <= Len(shown) THEN [shown EXCEPT ![i] = line] ELSE shown
    ELSE LET i == FirstAbove(rows, line)
         IN  IF i <= Len(shown) + 1 THEN InsertAt(shown, i, line) ELSE shown

(* The rows are in hop order, each hop once, and the first hop is there.     *)
InOrder(rows) ==
    /\ \A i, j \in DOMAIN rows : i < j => rows[i].hop < rows[j].hop
    /\ rows # <<>> => rows[1].hop = 1
=============================================================================
