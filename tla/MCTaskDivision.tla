--------------------------- MODULE MCTaskDivision ---------------------------
(***************************************************************************)
(* A small instance of TaskDivision for TLC, on the ring of                *)
(* MCConsistentHash.  It begins where the followed pods run and have heard *)
(* of each other: either before the crash and after their second listings, *)
(* or after the crash and with any of these listings still to come.  A pod *)
(* that crashes starts from nothing; the others have not started yet.      *)
(***************************************************************************)
EXTENDS TaskDivision, MCConsistentHash

\* What p has when it runs, and what it has before it starts.
IfStarted(run, down) == [p \in Pods |-> IF p \in Observed THEN run ELSE down]

StartedInit ==
  /\ lease = IfStarted("live", "none")
  /\ watch = IfStarted("open", "none")
  /\ events = [p \in Pods |-> <<>>]
  /\ main = IfStarted("running", "down")
  /\ ring = IfStarted(Observed, {})
  /\ \E armed \in SUBSET Observed :
       LET idle(g) == IF g = "timer" THEN armed ELSE Observed
       IN  /\ job = [p \in Pods |-> [g \in Goroutines |->
                       At(IF p \in idle(g) THEN "idle" ELSE "off")]]
           /\ faults = [k \in FaultKinds |-> IF armed = {} THEN 0 ELSE MaxCrashes]
  /\ handoff = IfStarted([at |-> "recv", keys |-> {}], NoHandoff)
  /\ responsibleTypes = [p \in Pods |-> IF p \in Observed THEN KeysOf(Observed, p) ELSE {}]
  /\ dropped = [p \in Pods |-> FALSE]
  /\ overlapped = [p \in Pods |-> FALSE]
  /\ listFailed = [p \in Pods |-> FALSE]
  /\ task = [p \in Pods |-> "unasked"]
  /\ produces = [p \in Pods |-> {}]
  /\ met = [p \in Pods |-> {}]
  /\ steady = FALSE

StartedSpec == StartedInit /\ [][TaskNext]_<<vars, taskVars>>

=============================================================================
