-------------------------------- MODULE TaskRules --------------------------------
(* What the pages of the browser conclude from a task and the resource it     *)
(* works on (src/frontend/src/lib: task-state.ts, task-recovery.ts,           *)
(* instance-operation-recovery.ts, instance-actions.ts, task-failure.ts).     *)
(*                                                                            *)
(* A task is a record of its kind, its status, whether it may be canceled and *)
(* whether that was asked for, and its error; NoTask where there is none.     *)

Active == {"queued", "running", "retrying"}
Failed == {"failed", "interrupted", "canceled"}
Kinds == {"host.probe", "instance.create", "instance.start", "instance.stop", "instance.restart",
          "instance.delete", "instance.backup.delete"}

(* Errors that point at the host, and the others. *)
HostErrors == {"ssh_unreachable", "port_conflict"}
Errors == HostErrors \cup {"none", "health_check_failed"}

Task == [kind : Kinds \cup {"instance.restore"}, status : Active \cup Failed \cup {"succeeded"},
         cancelable : BOOLEAN, asked : BOOLEAN, error : Errors]
NoTask == [status |-> "none"]

IsActive(task) == task.status \in Active
HasFailed(task) == task.status \in Failed

CanCancel(task) == task.status \in {"queued", "running"} /\ task.cancelable /\ ~task.asked
CanRetryTask(task) == HasFailed(task) /\ task.kind \in Kinds

(* canReviewIncompleteDeploymentCleanup *)
CanReviewCleanup(task) == HasFailed(task) /\ task.kind = "instance.create"

RecoverableStatuses ==
    {"provisioning", "starting", "stopping", "restarting", "upgrading", "reconfiguring", "backing_up",
     "restoring", "deleting", "failed", "degraded"}

(* selectRecoveryTasks: the newest task is the one that failed, or the one     *)
(* that is active, of which the server has no two (TaskQueue).                 *)
FailedTask(newest, recoverable) == IF recoverable /\ HasFailed(newest) THEN newest ELSE NoTask
OperationTask(newest, recoverable) ==
    IF IsActive(newest) THEN newest ELSE FailedTask(newest, recoverable)

(* taskFailureGuidance: a canceled or interrupted task says nothing of its host. *)
InspectHost(task) == task.status = "failed" /\ task.error \in HostErrors

(* canRetryInstanceLifecycleAction *)
CanRetryLifecycle(action, status, code) ==
    /\ code # "unavailable"
    /\ IF action = "start" THEN status \in {"stopped", "failed"} ELSE status \in {"running", "degraded"}

(* instanceListActions *)
ListActions(status) ==
    CASE status \in {"running", "degraded"} -> {"restart", "stop"}
      [] status = "stopped" -> {"start"}
      [] OTHER -> {}

(* hostTaskRecoveryPhase of a task, whose host is the one shown or not. *)
HostRecoveryPhase(task, same, online, hostActive) ==
    CASE ~same -> "mismatch"
      [] same /\ IsActive(task) -> "active"
      [] same /\ task.status = "succeeded" -> "succeeded"
      [] OTHER -> IF online /\ ~hostActive THEN "ready" ELSE "needs_host"
================================================================================
