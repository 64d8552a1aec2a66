--------------------------- MODULE CommandService ---------------------------
(***************************************************************************)
(* What mtr-packet promises its client, with no probes, packets, sockets   *)
(* or timers in it: each command is answered by one line, in any order,    *)
(* and after the client has closed stdin the service ends, with nothing    *)
(* left unanswered.  A fragile service may also fail, at any time.         *)
(***************************************************************************)
EXTENDS Naturals

CONSTANT MaxRequests   \* bound: commands the client writes

Requests == 1..MaxRequests

VARIABLES
    asked,     \* commands written so far; they are numbered from 1
    closed,    \* the client has closed stdin
    answers,   \* how many lines have answered each command
    stopped,   \* the service has ended
    fragile    \* it may fail

vars == <<asked, closed, answers, stopped, fragile>>

Init ==
    /\ asked = 0
    /\ closed = FALSE
    /\ answers = [r \in Requests |-> 0]
    /\ stopped = FALSE
    /\ fragile \in BOOLEAN

(* The client asks one more thing. *)
Ask ==
    /\ ~closed /\ asked < MaxRequests
    /\ asked' = asked + 1
    /\ UNCHANGED <<closed, answers, stopped, fragile>>

(* The client asks nothing more. *)
Close ==
    /\ ~closed
    /\ closed' = TRUE
    /\ UNCHANGED <<asked, answers, stopped, fragile>>

Unanswered == {r \in 1..asked : answers[r] = 0}

Receive(S) ==
    /\ ~stopped
    /\ S \subseteq Unanswered
    /\ answers' = [r \in Requests |-> IF r \in S THEN 1 ELSE answers[r]]
    /\ UNCHANGED <<asked, closed, fragile>>

(* Some commands which had no answer get one each.                          *)
Answer(S) == S # {} /\ Receive(S) /\ UNCHANGED stopped

(* Ending with the last answers is one step: stdio writes them as the       *)
(* process returns from main.                                               *)
End(S) == closed /\ S = Unanswered /\ Receive(S) /\ stopped' = TRUE

(* A failure is an end as well, but leaves some commands unanswered.        *)
Fail(S) == fragile /\ Receive(S) /\ stopped' = TRUE

Next ==
    \/ Ask
    \/ Close
    \/ \E S \in SUBSET Requests : Answer(S) \/ End(S) \/ Fail(S)

(* The service answers every command, and ends once it may: unless it fails. *)
Fairness ==
    /\ \A r \in Requests :
          WF_vars(\E S \in SUBSET Requests : r \in S /\ (Answer(S) \/ End(S)))
    /\ WF_vars(\E S \in SUBSET Requests : End(S))

Spec == Init /\ [][Next]_vars /\ Fairness

============================================================================
