------------------------------ MODULE ScanBatch ------------------------------
(***************************************************************************)
(* What a coordinator promises: the answers it gathers are answers of its  *)
(* own targets, at most one for each, each of them final, and it ends with *)
(* all of them unless its collect timeout has passed; it reports success   *)
(* exactly if some target was scanned successfully.  Implemented by        *)
(* DistributedScan.                                                        *)
(***************************************************************************)
EXTENDS Naturals

CONSTANTS Coordinators, Size

VARIABLES
  answers,  \* the pairs <<target, scan succeeded>> gathered by each coordinator
  verdict,  \* "open", or how the coordinator ended
  late      \* the collect timeout has passed

vars == <<verdict, late, answers>>

\* The targets of a coordinator: the lines of its list.
Targets(c) == [owner : {c}, index : 1 .. Size[c]]

Answered(c, t) == \E ok \in BOOLEAN : <<t, ok>> \in answers[c]

Init ==
  /\ answers = [c \in Coordinators |-> {}]
  /\ verdict = [c \in Coordinators |-> "open"]
  /\ late = [c \in Coordinators |-> FALSE]

\* One more target is answered.
Answer(c) ==
  /\ verdict[c] = "open"
  /\ UNCHANGED <<verdict, late>>
  /\ \E t \in Targets(c) :
       /\ ~Answered(c, t)
       /\ \E ok \in BOOLEAN : answers' = [answers EXCEPT ![c] = @ \cup {<<t, ok>>}]

Expire(c) ==
  /\ verdict[c] = "open"
  /\ late' = [late EXCEPT ![c] = TRUE]
  /\ UNCHANGED <<verdict, answers>>

Finish(c) ==
  /\ verdict[c] = "open"
  /\ late[c] \/ \A t \in Targets(c) : Answered(c, t)
  /\ verdict' = [verdict EXCEPT ![c] =
                   IF \E t \in Targets(c) : <<t, TRUE>> \in answers[c] THEN "ok" ELSE "err"]
  /\ UNCHANGED <<answers, late>>

Die(c) ==
  /\ verdict[c] = "open"
  /\ verdict' = [verdict EXCEPT ![c] = "dead"]
  /\ UNCHANGED <<answers, late>>

Next == \E c \in Coordinators : Answer(c) \/ Expire(c) \/ Finish(c) \/ Die(c)

Spec == Init /\ [][Next]_vars

=============================================================================
