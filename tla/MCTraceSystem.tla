--------------------------- MODULE MCTraceSystem ---------------------------
EXTENDS TraceSystem

(* One hop was saved, where another router answered then: a line of the hop  *)
(* that comes after it is a change of router. *)
SavedRows == <<[hop |-> 1, router |-> "s", of |-> 0]>>
============================================================================
