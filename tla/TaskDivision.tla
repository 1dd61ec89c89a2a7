---------------------------- MODULE TaskDivision ----------------------------
(***************************************************************************)
(* A manual task and the pods that share it.                               *)
(*                                                                         *)
(* ConsistentHash says which device types each pod has; a task names the   *)
(* types it is for, here all of them.  A request at one pod puts the task  *)
(* in etcd (web.go, service.go), each running pod's watch of the task key  *)
(* brings it at a time of its own, and the pod produces for the types that *)
(* are its share when it takes it (producer.go).  Nothing makes the pods   *)
(* take it on the same ring.                                               *)
(***************************************************************************)
EXTENDS ConsistentHash

VARIABLES
  task,       \* what has become of the task at each pod
  produces,   \* the types the pod took
  met,        \* history: the pods on a pod's rings from when the task was put
              \* until the pod took it
  steady      \* history: see AddTask and StaysSteady

taskVars == <<task, produces, met, steady>>

TaskTypeOK ==
  /\ task \in [Pods -> {"unasked", "none", "sent", "taken", "lost"}]
  /\ produces \in [Pods -> SUBSET Types]
  /\ met \in [Pods -> SUBSET Pods]
  /\ steady \in BOOLEAN

TaskInit ==
  /\ Init
  /\ task = [p \in Pods |-> "unasked"]
  /\ produces = [p \in Pods |-> {}]
  /\ met = [p \in Pods |-> {}]
  /\ steady = FALSE

Running == {p \in Pods : main[p] = "running"}

\* The pods that run are at rest, registered, and know each other.  They may
\* know others besides, and not the same ones.
Acquainted == \A p \in Running :
  /\ Settled(p) /\ Undisturbed(p) /\ ~listFailed[p]
  /\ p \in Registered /\ Running \subseteq ring[p]

\* The pods on p's ring, or on one that it is about to store.
OnRings(p) == UNION RingsRead(p, Goroutines)

\* A request: the handler knows the business, and AddTask puts the task, which
\* reaches the pods that watch for it.
AddTask ==
  /\ Running # {}
  /\ \A p \in Pods : task[p] = "unasked"
  /\ task' = [p \in Pods |-> IF p \in Running THEN "sent" ELSE "none"]
  /\ met' = [p \in Pods |-> OnRings(p)]
  /\ steady' = Acquainted
  /\ UNCHANGED <<vars, produces>>

\* The pods the task was put for.
Asked == {p \in Pods : task[p] \in {"sent", "taken", "lost"}}

\* Mutant: splitting the share leaves a type without a name.
TakeBlankTask(p) ==
  /\ task[p] = "sent"
  /\ task' = [task EXCEPT ![p] = "taken"]
  /\ produces' = [produces EXCEPT ![p] = responsibleTypes[p] \cup {""}]
  /\ UNCHANGED <<vars, met, steady>>

\* The event arrives, and doTask reads the share.
TakeTask(p) ==
  /\ task[p] = "sent"
  /\ task' = [task EXCEPT ![p] = "taken"]
  /\ produces' = [produces EXCEPT ![p] = responsibleTypes[p]]
  /\ UNCHANGED <<vars, met, steady>>

\* No pod that was asked loses its registration, and no listing fails of a pod
\* that still waits for the task.
StaysSteady == \A p \in Asked :
  lease'[p] # "none" /\ (task[p] = "sent" => ~listFailed'[p])

\* Meanwhile the pods and etcd go on: pods come, crash and come back, rings and
\* shares change. What a pod has taken it goes on producing.
RingStep ==
  /\ Next
  /\ task' = [p \in Pods |->
                IF task[p] = "sent" /\ main'[p] = "down" THEN "lost" ELSE task[p]]
  /\ met' = [p \in Pods |-> IF task[p] = "sent" THEN met[p] \cup OnRings(p)' ELSE met[p]]
  /\ steady' = (steady /\ StaysSteady)
  /\ UNCHANGED produces

TaskNext == AddTask \/ (\E p \in Pods : TakeTask(p)) \/ RingStep

TaskSpec == TaskInit /\ [][TaskNext]_<<vars, taskVars>>

-----------------------------------------------------------------------------
\* No device type of a task is produced twice, though the pods take it at
\* different times and meanwhile others join, their shares change, and offers
\* are dropped or overtaken; and a pod passes over a type that falls to it among
\* those that were asked only for a pod that was not, which its ring had kept or
\* got meanwhile.  It is supposed that the asked pods knew each other and were
\* at rest when the task was put, and that they stay registered.
DividedOnce == steady =>
  /\ \A p, q \in Pods : p # q => produces[p] \cap produces[q] = {}
  /\ \A p \in Pods : task[p] = "taken" =>
       \A t \in KeysOf(Asked, p) \ produces[p] : Owner[met[p]][t] \notin Asked

=============================================================================
