------------------------------- MODULE MCBrowser --------------------------------
(* Small instances of the parts of the browser for TLC. *)
EXTENDS Browser, TLC

CONSTANTS pg, \* the resource whose tasks are retried
          a, b, c, h1, t1, t2

(* One task has ended. *)
MCInitial == 1 :> pg

(* The machine reached by a and b is the host's, that reached by c is another. *)
MCKeyOf == a :> 1 @@ b :> 1 @@ c :> 2

(* One version that a host runs, one that none does. *)
MCRuns == "v1" :> {h1} @@ "v2" :> {}
MCPreset == "v1" :> 1 @@ "v2" :> 2

R == INSTANCE TaskRules

T(kind, status, error) ==
    [kind |-> kind, status |-> status, cancelable |-> TRUE, asked |-> FALSE, error |-> error]

MCReported == {T("instance.create", "running", "none"), T("instance.create", "failed", "none")}
MCRowTasks == {T("instance.stop", "running", "none"), T("instance.stop", "failed", "none")}
MCAttention == {R!NoTask, T("instance.stop", "interrupted", "none"),
                T("instance.stop", "failed", "port_conflict")}

(* A host is probed as soon as it is added; until its tasks are read there is none. *)
MCProbes == {T("host.probe", "running", "none"), T("host.probe", "failed", "none")}
MCOrigin == {T("instance.start", "failed", "ssh_unreachable")}
MCNewest == {R!NoTask, T("instance.create", "failed", "none"), T("instance.start", "running", "none")}

================================================================================
