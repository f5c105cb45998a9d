------------------------------ MODULE MCConnection ------------------------------
(* The tabs of the page of one database, on their own, for TLC. *)
EXTENDS InstanceConnection

MCStatuses == {"running", "failed"}

MCTask(kind, status) ==
    [kind |-> kind, status |-> status, cancelable |-> TRUE, asked |-> FALSE, error |-> "none"]
MCNewest == {NoTask, MCTask("instance.create", "failed"), MCTask("instance.start", "running")}
================================================================================
