------------------------------- MODULE Placement -------------------------------
(***************************************************************************)
(* Hosts and what is reserved on them: registration, change, deletion and  *)
(* probing of hosts (store/hosts.go, api/hosts.go, hostops/service.go,     *)
(* monitor/monitor.go) beside the placement of new databases               *)
(* (instances/service.go selectHost, store/instances.go CreateInstanceTask). *)
(*                                                                         *)
(* Every request reads first, possibly over SSH, and writes later in a     *)
(* transaction that holds the host row; the two are separate actions, and  *)
(* what was read is kept in the request.  CPU, memory and disk are one     *)
(* quantity here: they are reserved, compared and released alike.  An SSH   *)
(* address answers with the key of its machine; one machine may have many. *)
(***************************************************************************)
EXTENDS Naturals, FiniteSets, FiniteSetsExt

CONSTANTS
  Hosts,         \* ids of hosts, never used again after a deletion
  Instances,     \* ids of databases
  Clients,       \* API requests in flight at a time
  Addresses, Roots, Pools,  \* settings of a host; a pool is a set of ports
  KeyOf,         \* the host key an address answers with
  Sizes,         \* resources a database may reserve
  Capacities,    \* what a probe may find to be usable on a host
  MaxRevivals,   \* bound: writes that bring a deleted row back
  Monitored      \* whether the monitor probes hosts

NoHost == "none"

ASSUME PlacementConstants ==
  /\ NoHost \notin Hosts
  /\ Sizes \subseteq Nat
  /\ Capacities \subseteq Nat
  /\ MaxRevivals \in Nat
  /\ Monitored \in BOOLEAN

VARIABLES
  host,      \* the hosts table
  instance,  \* the instances table
  probe,     \* the active host.probe task of a host and what it has read
  request,   \* what a request has read
  poll,      \* the monitor's probe and the row it was started for
  revivals

vars == <<host, instance, probe, request, poll, revivals>>

--------------------------------------------------------------------------------
Settings == [addr : Addresses, root : Roots, pool : Pools]

Keys == {KeyOf[a] : a \in Addresses}

HostRow == [status : {"pending", "online", "unusable"}, set : Settings,
            key : Keys, usable : Nat]
Absent == [status |-> "absent"]
Gone == [status |-> "gone"]

Exists(h) == host[h].status \in {"pending", "online", "unusable"}

NoInstance == [status |-> "absent"]
InstanceRow == [status : {"live", "deleted"}, host : Hosts \cup {NoHost},
                port : UNION Pools, size : Sizes, root : Roots]

Live(i) == instance[i].status = "live"
On(h) == {i \in Instances : Live(i) /\ instance[i].host = h}
PortsOn(h) == {instance[i].port : i \in On(h)}
Used(h) == MapThenSumSet(LAMBDA i : instance[i].size, On(h))

NoRequest == [op |-> "none"]
NoProbe == [status |-> "none"]
NoPoll == [host |-> NoHost]

Init ==
  /\ host = [h \in Hosts |-> Absent]
  /\ instance = [i \in Instances |-> NoInstance]
  /\ probe = [h \in Hosts |-> NoProbe]
  /\ request = [c \in Clients |-> NoRequest]
  /\ poll = NoPoll
  /\ revivals = 0

Asked(c, op) == request[c].op = op
Done(c) == request' = [request EXCEPT ![c] = NoRequest]

--------------------------------------------------------------------------------
(* Hosts *)

\* Mutant: a status the table's readers do not know.
NewHostUnprobed(s) == [status |-> "new", set |-> s, key |-> KeyOf[s.addr], usable |-> 0]

NewHost(s) == [status |-> "pending", set |-> s, key |-> KeyOf[s.addr], usable |-> 0]

\* createHost: the key is that of the verified connection; the probe of the new
\* host is queued afterwards, by the same request.
RegisterHost(c, h, s) ==
  /\ Asked(c, "none")
  /\ host[h] = Absent
  /\ host' = [host EXCEPT ![h] = NewHost(s)]
  /\ request' = [request EXCEPT ![c] = [op |-> "probe", host |-> h]]
  /\ UNCHANGED <<instance, probe, poll, revivals>>

\* Enqueue reads the host and its active tasks.
ReadForProbe(c, h) ==
  /\ Asked(c, "none")
  /\ Exists(h)
  /\ probe[h] = NoProbe
  /\ request' = [request EXCEPT ![c] = [op |-> "probe", host |-> h]]
  /\ UNCHANGED <<host, instance, probe, poll, revivals>>

\* Mutant: tasks.host_id does not reference hosts.
MayInsertProbeUnreferenced(h) == probe[h] = NoProbe

\* The unique index over active tasks and the foreign key of tasks.host_id.
MayInsertProbe(h) == probe[h] = NoProbe /\ Exists(h)

InsertProbe(c) ==
  /\ Asked(c, "probe")
  /\ LET h == request[c].host
     IN probe' = IF MayInsertProbe(h) THEN [probe EXCEPT ![h] = [status |-> "queued"]]
                                      ELSE probe
  /\ Done(c)
  /\ UNCHANGED <<host, instance, poll, revivals>>

\* Mutant: a new address with the old credential needs no new verification.
VerificationRequiredByCredential(row, s, credential) ==
  credential \/ s.root # row.set.root \/ s.pool # row.set.pool

\* hostVerificationRequired
VerificationRequired(row, s, credential) == credential \/ s # row.set

\* testHost connects as the stored host would: a machine with another key than
\* the stored one is refused, and without a test there is no token.
Tested(row, s) == KeyOf[s.addr] = row.key

\* updateHost reads the host; the key to store is the verified one or, without
\* a verification, the one just read.
ReadForUpdate(c, h, s, credential) ==
  /\ Asked(c, "none")
  /\ Exists(h)
  /\ VerificationRequired(host[h], s, credential) => Tested(host[h], s)
  /\ request' = [request EXCEPT ![c] =
       [op |-> "update", host |-> h, set |-> s,
        key |-> IF VerificationRequired(host[h], s, credential) THEN KeyOf[s.addr] ELSE host[h].key]]
  /\ UNCHANGED <<host, instance, probe, poll, revivals>>

Change(c) ==
  LET r == request[c]
  IN host' = [host EXCEPT ![r.host].set = r.set, ![r.host].key = r.key]

\* Mutant: the transaction does not look for an active probe.
UpdateHostProbing(c) ==
  /\ Asked(c, "update")
  /\ LET r == request[c] IN
       /\ Exists(r.host)
       /\ r.set.root # host[r.host].set.root => On(r.host) = {}
       /\ PortsOn(r.host) \subseteq r.set.pool
  /\ Change(c)
  /\ Done(c)
  /\ UNCHANGED <<instance, probe, poll, revivals>>

\* Mutant: only the first port of the pool is compared.
UpdateHostAnyPool(c) ==
  /\ Asked(c, "update")
  /\ LET r == request[c] IN
       /\ Exists(r.host)
       /\ probe[r.host] = NoProbe
       /\ r.set.root # host[r.host].set.root => On(r.host) = {}
       /\ \A p \in PortsOn(r.host) : \E q \in r.set.pool : q <= p
  /\ Change(c)
  /\ Done(c)
  /\ UNCHANGED <<instance, probe, poll, revivals>>

\* Serializable: it may miss a probe queued while it waits for the host row,
\* which is then the order UpdateHost, InsertProbe.
UpdateHost(c) ==
  /\ Asked(c, "update")
  /\ LET r == request[c] IN
       /\ Exists(r.host)
       /\ probe[r.host] = NoProbe
       /\ r.set.root # host[r.host].set.root => On(r.host) = {}
       /\ PortsOn(r.host) \subseteq r.set.pool
  /\ Change(c)
  /\ Done(c)
  /\ UNCHANGED <<instance, probe, poll, revivals>>

\* Mutant: databases of the host are not counted.
DeletableIdle(h) == Exists(h) /\ probe[h] = NoProbe

Deletable(h) == Exists(h) /\ probe[h] = NoProbe /\ On(h) = {}

\* The rows of deleted databases lose their host (ON DELETE SET NULL).
DeleteHost(h) ==
  /\ Deletable(h)
  /\ host' = [host EXCEPT ![h] = Gone]
  /\ instance' = [i \in Instances |->
       IF instance[i] # NoInstance /\ instance[i].host = h
         THEN [instance[i] EXCEPT !.host = NoHost] ELSE instance[i]]
  /\ UNCHANGED <<probe, request, poll, revivals>>

--------------------------------------------------------------------------------
(* Probes, by tasks and by the monitor *)

\* A connection is refused when the machine's key is not the stored one.
Trusted(seen) == seen.key = KeyOf[seen.set.addr]

\* UpdateHostProbe or SetHostStatus, by id alone.
WriteProbe(h, seen) ==
  \/ /\ Trusted(seen)
     /\ \E status \in {"online", "unusable"}, n \in Capacities :
          host' = [host EXCEPT ![h].status = status, ![h].key = KeyOf[seen.set.addr], ![h].usable = n]
  \/ host' = [host EXCEPT ![h].status = "unusable"]

StartProbe(h) ==
  /\ probe[h].status = "queued"
  /\ probe' = [probe EXCEPT ![h] =
       [status |-> "running", seen |-> [set |-> host[h].set, key |-> host[h].key]]]
  /\ UNCHANGED <<host, instance, request, poll, revivals>>

FinishProbe(h) ==
  /\ probe[h].status = "running"
  /\ WriteProbe(h, probe[h].seen)
  /\ probe' = [probe EXCEPT ![h] = NoProbe]
  /\ UNCHANGED <<instance, request, poll, revivals>>

\* Canceled, or failed before anything was written.
DropProbe(h) ==
  /\ probe[h] # NoProbe
  /\ probe' = [probe EXCEPT ![h] = NoProbe]
  /\ UNCHANGED <<host, instance, request, poll, revivals>>

StartPoll(h) ==
  /\ Monitored
  /\ poll = NoPoll
  /\ Exists(h)
  /\ poll' = [host |-> h, seen |-> [set |-> host[h].set, key |-> host[h].key]]
  /\ UNCHANGED <<host, instance, probe, request, revivals>>

FinishPoll ==
  /\ poll # NoPoll
  /\ IF Exists(poll.host) THEN WriteProbe(poll.host, poll.seen) ELSE UNCHANGED host
  /\ poll' = NoPoll
  /\ UNCHANGED <<instance, probe, request, revivals>>

--------------------------------------------------------------------------------
(* Databases *)

\* selectHost: any port of the pool that is not reserved may be the first one
\* that nothing listens on.  Its reads are one step: nothing it finds is trusted
\* by the transaction but the root.
SelectHost(c, h, n) ==
  /\ Asked(c, "none")
  /\ host[h].status = "online"
  /\ Used(h) + n <= host[h].usable
  /\ \E p \in host[h].set.pool \ PortsOn(h) :
       request' = [request EXCEPT ![c] =
         [op |-> "create", host |-> h, port |-> p, size |-> n, root |-> host[h].set.root]]
  /\ UNCHANGED <<host, instance, probe, poll, revivals>>

NewInstance(r) ==
  [status |-> "live", host |-> r.host, port |-> r.port, size |-> r.size, root |-> r.root]

\* Mutant: the index over ports is missing.
MayPlaceUnindexed(r) ==
  /\ host[r.host].status = "online"
  /\ Used(r.host) + r.size <= host[r.host].usable
  /\ r.port \in host[r.host].set.pool

\* Mutant: the transaction trusts the capacity found by selectHost.
MayPlaceUnmeasured(r) ==
  /\ host[r.host].status = "online"
  /\ r.port \in host[r.host].set.pool
  /\ r.port \notin PortsOn(r.host)

\* CreateInstanceTask, with the index over the ports of live databases.
MayPlace(r) ==
  /\ host[r.host].status = "online"
  /\ Used(r.host) + r.size <= host[r.host].usable
  /\ r.port \in host[r.host].set.pool
  /\ r.port \notin PortsOn(r.host)

CreateInstance(c, i) ==
  /\ Asked(c, "create")
  /\ MayPlace(request[c])
  /\ instance[i] = NoInstance
  /\ instance' = [instance EXCEPT ![i] = NewInstance(request[c])]
  /\ Done(c)
  /\ UNCHANGED <<host, probe, poll, revivals>>

\* MarkInstanceDeleted, at the end of a delete task.
DeleteInstance(i) ==
  /\ Live(i)
  /\ instance' = [instance EXCEPT ![i].status = "deleted"]
  /\ UNCHANGED <<host, probe, request, poll, revivals>>

\* The task of a deleted database is retried and UpdateInstanceState writes its
\* row (InstanceLifecycle, DeletedFinal); the index over ports may refuse it.
Revive(i) ==
  /\ revivals < MaxRevivals
  /\ instance[i].status = "deleted"
  /\ instance[i].host # NoHost => instance[i].port \notin PortsOn(instance[i].host)
  /\ instance' = [instance EXCEPT ![i].status = "live"]
  /\ revivals' = revivals + 1
  /\ UNCHANGED <<host, probe, request, poll>>

\* A request ends without a write: its transaction found something else than
\* the request had read, the database failed, or the client left.
Reject(c) ==
  /\ ~Asked(c, "none")
  /\ Done(c)
  /\ UNCHANGED <<host, instance, probe, poll, revivals>>

\* A crash and the restart after it.
Crash ==
  /\ request' = [c \in Clients |-> NoRequest]
  /\ poll' = NoPoll
  /\ probe' = [h \in Hosts |-> IF probe[h].status = "running" THEN NoProbe ELSE probe[h]]
  /\ UNCHANGED <<host, instance, revivals>>

--------------------------------------------------------------------------------
Next ==
  \/ \E c \in Clients, h \in Hosts :
       \/ \E s \in Settings :
            RegisterHost(c, h, s) \/ \E new \in BOOLEAN : ReadForUpdate(c, h, s, new)
       \/ ReadForProbe(c, h)
       \/ \E n \in Sizes : SelectHost(c, h, n)
  \/ \E c \in Clients :
       \/ InsertProbe(c) \/ UpdateHost(c) \/ Reject(c)
       \/ \E i \in Instances : CreateInstance(c, i)
  \/ \E h \in Hosts : \/ DeleteHost(h) \/ StartProbe(h) \/ FinishProbe(h) \/ DropProbe(h)
                      \/ StartPoll(h)
  \/ FinishPoll
  \/ \E i \in Instances : DeleteInstance(i) \/ Revive(i)
  \/ Crash

Spec == Init /\ [][Next]_vars

--------------------------------------------------------------------------------
(* Correctness *)

Seen == [set : Settings, key : Keys]

Request ==
  {NoRequest}
  \cup [op : {"probe"}, host : Hosts]
  \cup [op : {"update"}, host : Hosts, set : Settings, key : Keys]
  \cup [op : {"create"}, host : Hosts, port : UNION Pools, size : Sizes, root : Roots]

TypeOK ==
  /\ host \in [Hosts -> HostRow \cup {Absent, Gone}]
  /\ instance \in [Instances -> InstanceRow \cup {NoInstance}]
  /\ probe \in [Hosts -> {NoProbe} \cup [status : {"queued"}] \cup [status : {"running"}, seen : Seen]]
  /\ request \in [Clients -> Request]
  /\ poll \in {NoPoll} \cup [host : Hosts, seen : Seen]
  /\ revivals \in 0..MaxRevivals

\* Two databases of a host never hold the same port, although the port was
\* chosen long before the row is written and deleted rows may come back.
PortExclusive ==
  \A i, j \in Instances :
    /\ i # j /\ Live(i) /\ Live(j)
    /\ instance[i].host = instance[j].host /\ instance[i].host # NoHost
    => instance[i].port # instance[j].port

\* The port of a database lies in the pool of its host, although pools change
\* while databases are being placed.  A row that came back may lie outside.
PortInPool ==
  revivals = 0 =>
    \A h \in Hosts : \A i \in On(h) : instance[i].port \in host[h].set.pool

\* A host with databases is not deleted under them, nor between the choice of
\* the host and the transaction that places the database.
HostKept ==
  revivals = 0 =>
    \A i \in Instances : Live(i) => instance[i].host \in Hosts /\ Exists(instance[i].host)

\* A queued or running probe has its host: deleting a host and queuing a probe
\* for it never both succeed.
ProbeHasHost == \A h \in Hosts : probe[h] # NoProbe => Exists(h)

\* A database is only admitted where everything reserved, it included, fits
\* what the last probe found, however many requests chose the host meanwhile.
AdmittedFits ==
  [][\A i \in Instances, h \in Hosts :
       instance[i] = NoInstance /\ instance'[i] # NoInstance /\ instance'[i].host = h
         => Used(h)' <= host[h].usable]_vars

\* The settings a probe task was queued for are still the host's when it ends.
SettingsHeld ==
  [][\A h \in Hosts : probe[h] # NoProbe => Exists(h)' /\ host'[h].set = host[h].set]_vars

\* The stored key belongs to the machine at the stored address, although changes
\* of the host are written long after what they were verified against was read,
\* and probes write by id what they found where the host was.
KeyMatchesAddress == \A h \in Hosts : Exists(h) => host[h].key = KeyOf[host[h].set.addr]

--------------------------------------------------------------------------------
(* What the code and the documents say, and the code does not do *)

\* The directory of a database lies under the data root of its host.
DirectoryUnderRoot ==
  revivals = 0 =>
    \A h \in Hosts : \A i \in On(h) : instance[i].root = host[h].set.root
================================================================================
