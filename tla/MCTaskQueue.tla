----------------------------- MODULE MCTaskQueue -------------------------------
(* Small instances of TaskQueue for TLC. *)
EXTENDS TaskQueue, TLC

CONSTANTS h1, h2,          \* two hosts
          pg, redis, mysql, \* databases (instances)
          w1, w2

\* pg and redis share host h1, mysql is alone on h2.
MCResources == {pg, redis, mysql}
MCHostOf == pg :> h1 @@ redis :> h1 @@ mysql :> h2

\* instance.create passes cancelable stages before its first sealed one,
\* instance.stop seals at once, instance.backup.delete seals or returns early,
\* instance.upgrade is retired.
MCKinds == {"create", "stop", "backup.delete", "upgrade"}
MCSupported == {"create", "stop", "backup.delete"}
MCStagePlan == "create" :> <<TRUE, FALSE>> @@ "stop" :> <<FALSE>>
               @@ "backup.delete" :> <<FALSE>> @@ "upgrade" :> <<>>
MCKindsOf == pg :> {"create", "upgrade"} @@ redis :> {"stop"}
             @@ mysql :> {"backup.delete", "upgrade"}

WorkerSymmetry == Permutations(Workers)
================================================================================
