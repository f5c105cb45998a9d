------------------------------- MODULE TaskTable -------------------------------
(***************************************************************************)
(* What the tasks table promises to everything that uses it, with no       *)
(* workers, locks or transactions: a task enters once, runs at most once,  *)
(* ends once, and neither a host nor a resource is ever worked on by two   *)
(* tasks at a time.  TaskQueue and InstanceLifecycle implement it.         *)
(***************************************************************************)
EXTENDS Naturals

CONSTANTS TaskIds,    \* task ids, numbers in creation order
          Resources,  \* what tasks act on: instances, hosts, backups
          Hosts,      \* Docker hosts
          None        \* a column without a value

VARIABLES status,     \* [TaskIds -> "absent" or a status of tasks.status]
          resource,   \* [TaskIds -> the resource, None while absent]
          host        \* [TaskIds -> the host, None for a task without host]

tableVars == <<status, resource, host>>

Ended == {"succeeded", "failed", "canceled", "interrupted"}

ActiveOn(r) == \E t \in TaskIds : resource[t] = r /\ status[t] \in {"queued", "running"}

BusyHost(h) == \E t \in TaskIds : host[t] = h /\ status[t] = "running"

\* A table as an earlier process may have left it.
TableInit ==
  /\ status \in [TaskIds -> {"absent", "queued", "running"} \cup Ended]
  /\ resource \in [TaskIds -> Resources \cup {None}]
  /\ host \in [TaskIds -> Hosts \cup {None}]
  /\ \A s, t \in TaskIds :
       /\ s # t
       /\ status[s] = "running" /\ status[t] = "running"
       /\ host[s] # None
       => host[s] # host[t]

Enter(t, r, h) ==
  /\ status[t] = "absent"
  /\ ~ActiveOn(r)
  /\ status' = [status EXCEPT ![t] = "queued"]
  /\ resource' = [resource EXCEPT ![t] = r]
  /\ host' = [host EXCEPT ![t] = h]

Begin(t) ==
  /\ status[t] = "queued"
  /\ host[t] # None => ~BusyHost(host[t])
  /\ status' = [status EXCEPT ![t] = "running"]
  /\ UNCHANGED <<resource, host>>

Withdraw(t) ==
  /\ status[t] = "queued"
  /\ status' = [status EXCEPT ![t] = "canceled"]
  /\ UNCHANGED <<resource, host>>

End(t, outcome) ==
  /\ status[t] = "running"
  /\ status' = [status EXCEPT ![t] = outcome]
  /\ UNCHANGED <<resource, host>>

\* A restart of the service ends everything that was running.
InterruptAll ==
  /\ status' = [t \in TaskIds |-> IF status[t] = "running" THEN "interrupted" ELSE status[t]]
  /\ UNCHANGED <<resource, host>>

TableNext ==
  \/ \E t \in TaskIds, r \in Resources, h \in Hosts \cup {None} : Enter(t, r, h)
  \/ \E t \in TaskIds : Begin(t) \/ Withdraw(t)
  \/ \E t \in TaskIds, outcome \in Ended : End(t, outcome)
  \/ InterruptAll

TableSpec == TableInit /\ [][TableNext]_tableVars
================================================================================
