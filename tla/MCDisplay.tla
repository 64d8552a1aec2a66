----------------------------- MODULE MCDisplay -----------------------------
EXTENDS Display

(* The router answers at the first hop; at the second, it or the target. *)
RoutersOfHop(h) == IF h = 1 THEN {"r"} ELSE {"r", "t"}

(* Only in split mode does it matter how mtr was built. *)
BuildsOfMode(m) == IF m = "split" THEN BOOLEAN ELSE {TRUE}
============================================================================
