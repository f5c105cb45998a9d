---------------------------- MODULE PlacementProofs ----------------------------
(***************************************************************************)
(* Proofs about Placement, for any number of hosts, databases and requests *)
(* and any pools and capacities.                                           *)
(*                                                                         *)
(* The inductive invariant IInv is the conjunction of the properties: each *)
(* needs the types and what the others say of hosts.  KInv, for the stored *)
(* keys, adds that whoever will write a host has read the key it has.      *)
(* What is used on a host is a sum folded over a set: the lemmas on sums   *)
(* hold for every finite set, and the rows ever written are finitely many. *)
(***************************************************************************)
EXTENDS Placement, FiniteSetTheorems, WellFoundedInduction, TLAPS

IInv == TypeOK /\ PortExclusive /\ PortInPool /\ HostKept /\ ProbeHasHost

--------------------------------------------------------------------------------
(* Rows *)

\* An existing host has a full row.
LEMMA ExistingHost ==
  ASSUME TypeOK, NEW h \in Hosts, Exists(h)
  PROVE  host[h] \in HostRow
<1>1. host[h] \in HostRow \cup {Absent, Gone}
  BY DEF TypeOK
<1>2. host[h] # Absent /\ host[h] # Gone
  BY DEF Exists, Absent, Gone
<1> QED
  BY <1>1, <1>2

\* The two ways a host row is rewritten keep it a row.
LEMMA HostUpdates ==
  ASSUME NEW row \in HostRow, NEW s \in Settings, NEW k \in Keys,
         NEW st \in {"pending", "online", "unusable"}, NEW n \in Nat
  PROVE  /\ [row EXCEPT !.set = s, !.key = k] \in HostRow
         /\ [row EXCEPT !.status = st, !.key = k, !.usable = n] \in HostRow
         /\ [row EXCEPT !.status = st] \in HostRow
BY DEF HostRow

\* What a probe writes leaves every host where it was, settings included.
LEMMA WriteProbeEffect ==
  ASSUME TypeOK, NEW h \in Hosts, Exists(h), NEW seen \in Seen, WriteProbe(h, seen)
  PROVE  /\ host' \in [Hosts -> HostRow \cup {Absent, Gone}]
         /\ \A g \in Hosts : /\ Exists(g)' = Exists(g)
                             /\ Exists(g) => host'[g].set = host[g].set
<1> USE PlacementConstants
<1>1. host[h] \in HostRow
  BY ExistingHost
<1>2. host \in [Hosts -> HostRow \cup {Absent, Gone}]
  BY DEF TypeOK
<1>3. CASE Trusted(seen) /\ \E status \in {"online", "unusable"}, n \in Capacities :
             host' = [host EXCEPT ![h].status = status, ![h].key = KeyOf[seen.set.addr], ![h].usable = n]
  <2>1. PICK status \in {"online", "unusable"}, n \in Capacities :
          host' = [host EXCEPT ![h].status = status, ![h].key = KeyOf[seen.set.addr], ![h].usable = n]
    BY <1>3
  <2>2. KeyOf[seen.set.addr] \in Keys /\ n \in Nat
    BY DEF Seen, Settings, Keys
  <2> DEFINE row == [host[h] EXCEPT !.status = status, !.key = KeyOf[seen.set.addr], !.usable = n]
  <2>3. host' = [host EXCEPT ![h] = row]
    BY <2>1, <1>2
  <2>4. row \in HostRow /\ row.set = host[h].set /\ row.status = status
    BY <1>1, <2>2, HostUpdates DEF HostRow
  <2> HIDE DEF row
  <2> QED
    BY <2>3, <2>4, <1>2 DEF Exists
<1>4. CASE host' = [host EXCEPT ![h].status = "unusable"]
  <2> DEFINE row == [host[h] EXCEPT !.status = "unusable"]
  <2>1. host' = [host EXCEPT ![h] = row]
    BY <1>4, <1>2
  <2>2. row \in HostRow /\ row.set = host[h].set /\ row.status = "unusable"
    BY <1>1 DEF HostRow
  <2> HIDE DEF row
  <2> QED
    BY <2>1, <2>2, <1>2 DEF Exists
<1> QED
  BY <1>3, <1>4 DEF WriteProbe

\* A step that leaves the databases, the existence and the settings of hosts
\* and the count of revivals alone keeps what is said of them.
LEMMA SameHosts ==
  ASSUME IInv, TypeOK', UNCHANGED <<instance, revivals>>,
         \A g \in Hosts : Exists(g) => Exists(g)' /\ host'[g].set = host[g].set,
         \A g \in Hosts : probe'[g] # NoProbe => probe[g] # NoProbe \/ Exists(g)
  PROVE  IInv'
<1>1. PortExclusive'
  BY DEF IInv, PortExclusive, Live
<1>2. HostKept'
  BY DEF IInv, HostKept, Live
<1>3. PortInPool'
  BY DEF IInv, PortInPool, HostKept, On, Live
<1>4. ProbeHasHost'
  BY DEF IInv, ProbeHasHost
<1> QED
  BY <1>1, <1>2, <1>3, <1>4 DEF IInv

--------------------------------------------------------------------------------
(* Types *)

\* What a request has read, by the kind of the request.
LEMMA RequestTypes ==
  ASSUME TypeOK, NEW c \in Clients
  PROVE  /\ Asked(c, "probe") => request[c].host \in Hosts
         /\ Asked(c, "update") => request[c].host \in Hosts /\ request[c].set \in Settings
                                  /\ request[c].key \in Keys
         /\ Asked(c, "create") => request[c].host \in Hosts /\ request[c].port \in UNION Pools
                                  /\ request[c].size \in Sizes /\ request[c].root \in Roots
<1>1. request[c] \in Request
  BY DEF TypeOK
<1>2. CASE request[c] = NoRequest
  BY <1>2 DEF NoRequest, Asked
<1>3. CASE request[c] \in [op : {"probe"}, host : Hosts]
  BY <1>3 DEF Asked
<1>4. CASE request[c] \in [op : {"update"}, host : Hosts, set : Settings, key : Keys]
  BY <1>4 DEF Asked
<1>5. CASE request[c] \in [op : {"create"}, host : Hosts, port : UNION Pools,
                           size : Sizes, root : Roots]
  BY <1>5 DEF Asked
<1> QED
  BY <1>1, <1>2, <1>3, <1>4, <1>5 DEF Request

\* A request that ends or reads leaves a request of a known kind.
LEMMA RequestUpdates ==
  ASSUME TypeOK, NEW c \in Clients, NEW r \in Request
  PROVE  /\ [request EXCEPT ![c] = r] \in [Clients -> Request]
         /\ [request EXCEPT ![c] = NoRequest] \in [Clients -> Request]
<1>1. NoRequest \in Request
  BY DEF Request
<1>2. request \in [Clients -> Request]
  BY DEF TypeOK
<1> QED
  BY <1>1, <1>2

\* A running probe keeps the settings it has read.
LEMMA ProbeTypes ==
  ASSUME TypeOK, NEW h \in Hosts
  PROVE  /\ probe[h].status = "running" => probe[h].seen \in Seen
         /\ poll # NoPoll => poll.host \in Hosts /\ poll.seen \in Seen
<1>1. probe[h] \in {NoProbe} \cup [status : {"queued"}] \cup [status : {"running"}, seen : Seen]
  BY DEF TypeOK
<1>2. poll \in {NoPoll} \cup [host : Hosts, seen : Seen]
  BY DEF TypeOK
<1>3. probe[h].status = "running" => probe[h] \in [status : {"running"}, seen : Seen]
  BY <1>1 DEF NoProbe
<1> QED
  BY <1>2, <1>3

\* What a reader of an existing host sees.
LEMMA SeenHost ==
  ASSUME TypeOK, NEW h \in Hosts, Exists(h)
  PROVE  [set |-> host[h].set, key |-> host[h].key] \in Seen
BY ExistingHost DEF HostRow, Seen

--------------------------------------------------------------------------------
(* Steps that leave the databases and the settings of hosts alone *)

\* Requests that read.
LEMMA ReadStep ==
  ASSUME IInv, NEW c \in Clients, NEW h \in Hosts,
         \/ ReadForProbe(c, h)
         \/ \E s \in Settings, new \in BOOLEAN : ReadForUpdate(c, h, s, new)
         \/ \E n \in Sizes : SelectHost(c, h, n)
  PROVE  IInv'
<1>1. TypeOK /\ UNCHANGED <<host, instance, probe, poll, revivals>>
  BY DEF IInv, ReadForProbe, ReadForUpdate, SelectHost
<1>2. request' \in [Clients -> Request]
  <2>1. CASE ReadForProbe(c, h)
    <3>1. [op |-> "probe", host |-> h] \in Request
      BY DEF Request
    <3> QED
      BY <1>1, <2>1, <3>1, RequestUpdates DEF ReadForProbe
  <2>2. ASSUME NEW s \in Settings, NEW new \in BOOLEAN, ReadForUpdate(c, h, s, new)
        PROVE  request' \in [Clients -> Request]
    <3> DEFINE k == IF VerificationRequired(host[h], s, new) THEN KeyOf[s.addr] ELSE host[h].key
    <3>1. Exists(h) /\ request' = [request EXCEPT ![c] =
            [op |-> "update", host |-> h, set |-> s, key |-> k]]
      BY <2>2 DEF ReadForUpdate
    <3>2. k \in Keys
      BY <1>1, <3>1, ExistingHost DEF HostRow, Settings, Keys
    <3> HIDE DEF k
    <3>3. [op |-> "update", host |-> h, set |-> s, key |-> k] \in Request
      BY <3>2 DEF Request
    <3> QED
      BY <1>1, <3>1, <3>3, RequestUpdates
  <2>3. ASSUME NEW n \in Sizes, SelectHost(c, h, n)
        PROVE  request' \in [Clients -> Request]
    <3>1. PICK p \in host[h].set.pool \ PortsOn(h) :
            request' = [request EXCEPT ![c] =
              [op |-> "create", host |-> h, port |-> p, size |-> n, root |-> host[h].set.root]]
      BY <2>3 DEF SelectHost
    <3>2. host[h] \in HostRow
      BY <1>1, <2>3, ExistingHost DEF SelectHost, Exists
    <3>3. p \in UNION Pools /\ host[h].set.root \in Roots
      BY <3>2 DEF HostRow, Settings
    <3>4. [op |-> "create", host |-> h, port |-> p, size |-> n, root |-> host[h].set.root]
            \in [op : {"create"}, host : Hosts, port : UNION Pools, size : Sizes, root : Roots]
      BY <3>3
    <3>5. [op |-> "create", host |-> h, port |-> p, size |-> n, root |-> host[h].set.root]
            \in Request
      BY <3>4 DEF Request
    <3> QED
      BY <1>1, <3>1, <3>5, RequestUpdates
  <2> QED
    BY <2>1, <2>2, <2>3
<1>3. TypeOK'
  BY <1>1, <1>2 DEF TypeOK
<1>4. \A g \in Hosts : Exists(g) => Exists(g)' /\ host'[g].set = host[g].set
  BY <1>1 DEF Exists
<1> QED
  BY <1>1, <1>3, <1>4, SameHosts

\* A request ends without a write.
LEMMA RejectStep ==
  ASSUME IInv, NEW c \in Clients, Reject(c)
  PROVE  IInv'
<1>1. TypeOK /\ UNCHANGED <<host, instance, probe, poll, revivals>>
  BY DEF IInv, Reject
<1>2. NoRequest \in Request
  BY DEF Request
<1>3. TypeOK'
  BY <1>1, <1>2, RequestUpdates DEF TypeOK, Reject, Done
<1>4. \A g \in Hosts : Exists(g) => Exists(g)' /\ host'[g].set = host[g].set
  BY <1>1 DEF Exists
<1> QED
  BY <1>1, <1>3, <1>4, SameHosts

\* A host is registered; its request goes on to queue the first probe.
LEMMA RegisterStep ==
  ASSUME IInv, NEW c \in Clients, NEW h \in Hosts, NEW s \in Settings, RegisterHost(c, h, s)
  PROVE  IInv'
<1>1. TypeOK /\ UNCHANGED <<instance, probe, poll, revivals>> /\ host[h] = Absent
  BY DEF IInv, RegisterHost
<1>2. NewHost(s) \in HostRow
  BY DEF NewHost, HostRow, Settings, Keys
<1>3. [op |-> "probe", host |-> h] \in Request
  BY DEF Request
<1>4. host' = [host EXCEPT ![h] = NewHost(s)]
  BY DEF RegisterHost
<1>5. TypeOK'
  BY <1>1, <1>2, <1>3, <1>4, RequestUpdates DEF TypeOK, RegisterHost
<1>6. \A g \in Hosts : Exists(g) => Exists(g)' /\ host'[g].set = host[g].set
  BY <1>1, <1>4 DEF Exists, Absent, TypeOK
<1> QED
  BY <1>1, <1>5, <1>6, SameHosts

\* A probe is queued, only where its host exists.
LEMMA InsertProbeStep ==
  ASSUME IInv, NEW c \in Clients, InsertProbe(c)
  PROVE  IInv'
<1>1. TypeOK /\ UNCHANGED <<host, instance, poll, revivals>>
  BY DEF IInv, InsertProbe
<1> DEFINE h == request[c].host
<1>2. h \in Hosts
  BY <1>1, RequestTypes DEF InsertProbe
<1>3. CASE MayInsertProbe(h)
  <2>1. probe' = [probe EXCEPT ![h] = [status |-> "queued"]] /\ Exists(h)
    BY <1>3 DEF InsertProbe, MayInsertProbe
  <2>2. request' \in [Clients -> Request]
    <3>1. NoRequest \in Request
      BY DEF Request
    <3> QED
      BY <1>1, <3>1, RequestUpdates DEF InsertProbe, Done
  <2> HIDE DEF h
  <2>3. TypeOK'
    BY <1>1, <1>2, <2>1, <2>2 DEF TypeOK
  <2>4. \A g \in Hosts : probe'[g] # NoProbe => probe[g] # NoProbe \/ Exists(g)
    BY <1>1, <1>2, <2>1 DEF TypeOK
  <2>5. \A g \in Hosts : Exists(g) => Exists(g)' /\ host'[g].set = host[g].set
    BY <1>1 DEF Exists
  <2> QED
    BY <1>1, <2>3, <2>4, <2>5, SameHosts
<1>4. CASE ~MayInsertProbe(h)
  <2>1. UNCHANGED probe
    BY <1>4 DEF InsertProbe
  <2>2. NoRequest \in Request
    BY DEF Request
  <2>3. TypeOK'
    BY <1>1, <2>1, <2>2, RequestUpdates DEF TypeOK, InsertProbe, Done
  <2>5. \A g \in Hosts : Exists(g) => Exists(g)' /\ host'[g].set = host[g].set
    BY <1>1 DEF Exists
  <2> QED
    BY <1>1, <2>1, <2>3, <2>5, SameHosts
<1> QED
  BY <1>3, <1>4

\* Probe tasks that start, write or end, and the probes of the monitor.
LEMMA ProbeStep ==
  ASSUME IInv, NEW h \in Hosts,
         StartProbe(h) \/ FinishProbe(h) \/ DropProbe(h) \/ StartPoll(h) \/ FinishPoll
  PROVE  IInv'
<1>1. TypeOK /\ UNCHANGED <<instance, revivals>>
  BY DEF IInv, StartProbe, FinishProbe, DropProbe, StartPoll, FinishPoll
<1>2. \A g \in Hosts : probe[g] # NoProbe => Exists(g)
  BY DEF IInv, ProbeHasHost
<1>3. CASE StartProbe(h)
  <2>1. probe[h].status = "queued" /\ probe[h] # NoProbe
    BY <1>3 DEF StartProbe, NoProbe
  <2> DEFINE seen == [set |-> host[h].set, key |-> host[h].key]
  <2>2. seen \in Seen
    BY <1>1, <1>2, <2>1, SeenHost
  <2>3. probe' = [probe EXCEPT ![h] = [status |-> "running", seen |-> seen]]
        /\ UNCHANGED <<host, instance, request, poll, revivals>>
    BY <1>3 DEF StartProbe
  <2> HIDE DEF seen
  <2>4. TypeOK'
    BY <1>1, <2>2, <2>3 DEF TypeOK
  <2>5. \A g \in Hosts : probe'[g] # NoProbe => probe[g] # NoProbe \/ Exists(g)
    BY <1>1, <2>1, <2>3 DEF TypeOK
  <2>6. \A g \in Hosts : Exists(g) => Exists(g)' /\ host'[g].set = host[g].set
    BY <2>3 DEF Exists
  <2> QED
    BY <1>1, <2>4, <2>5, <2>6, SameHosts
<1>4. CASE FinishProbe(h)
  <2>1. probe[h].status = "running" /\ probe[h] # NoProbe
    BY <1>4 DEF FinishProbe, NoProbe
  <2>2. probe[h].seen \in Seen /\ WriteProbe(h, probe[h].seen)
    BY <1>1, <1>4, <2>1, ProbeTypes DEF FinishProbe
  <2>3. /\ host' \in [Hosts -> HostRow \cup {Absent, Gone}]
        /\ \A g \in Hosts : Exists(g)' = Exists(g)
                            /\ (Exists(g) => host'[g].set = host[g].set)
    BY <1>1, <1>2, <2>1, <2>2, WriteProbeEffect
  <2>4. probe' = [probe EXCEPT ![h] = NoProbe] /\ UNCHANGED <<instance, request, poll, revivals>>
    BY <1>4 DEF FinishProbe
  <2>5. TypeOK'
    BY <1>1, <2>3, <2>4 DEF TypeOK
  <2>6. \A g \in Hosts : probe'[g] # NoProbe => probe[g] # NoProbe \/ Exists(g)
    BY <1>1, <2>4 DEF TypeOK
  <2> QED
    BY <1>1, <2>3, <2>5, <2>6, SameHosts
<1>5. CASE DropProbe(h)
  <2>1. probe' = [probe EXCEPT ![h] = NoProbe] /\ UNCHANGED <<host, instance, request, poll, revivals>>
    BY <1>5 DEF DropProbe
  <2>2. TypeOK'
    BY <1>1, <2>1 DEF TypeOK
  <2>3. \A g \in Hosts : probe'[g] # NoProbe => probe[g] # NoProbe \/ Exists(g)
    BY <1>1, <2>1 DEF TypeOK
  <2>4. \A g \in Hosts : Exists(g) => Exists(g)' /\ host'[g].set = host[g].set
    BY <2>1 DEF Exists
  <2> QED
    BY <1>1, <2>2, <2>3, <2>4, SameHosts
<1>6. CASE StartPoll(h)
  <2> DEFINE seen == [set |-> host[h].set, key |-> host[h].key]
  <2>1. seen \in Seen
    BY <1>1, <1>6, SeenHost DEF StartPoll
  <2>2. poll' = [host |-> h, seen |-> seen] /\ UNCHANGED <<host, instance, probe, request, revivals>>
    BY <1>6 DEF StartPoll
  <2> HIDE DEF seen
  <2>3. TypeOK'
    BY <1>1, <2>1, <2>2 DEF TypeOK
  <2>4. \A g \in Hosts : Exists(g) => Exists(g)' /\ host'[g].set = host[g].set
    BY <2>2 DEF Exists
  <2> QED
    BY <1>1, <2>2, <2>3, <2>4, SameHosts
<1>7. CASE FinishPoll
  <2>1. poll.host \in Hosts /\ poll.seen \in Seen
    BY <1>1, <1>7, ProbeTypes DEF FinishPoll
  <2>2. /\ host' \in [Hosts -> HostRow \cup {Absent, Gone}]
        /\ \A g \in Hosts : Exists(g)' = Exists(g)
                            /\ (Exists(g) => host'[g].set = host[g].set)
    <3>1. CASE Exists(poll.host)
      BY <1>1, <1>7, <2>1, <3>1, WriteProbeEffect DEF FinishPoll
    <3>2. CASE ~Exists(poll.host)
      <4>1. UNCHANGED host
        BY <1>7, <3>2 DEF FinishPoll
      <4> QED
        BY <1>1, <4>1 DEF TypeOK, Exists
    <3> QED
      BY <3>1, <3>2
  <2>3. poll' = NoPoll /\ UNCHANGED <<instance, probe, request, revivals>>
    BY <1>7 DEF FinishPoll
  <2>4. TypeOK'
    BY <1>1, <2>2, <2>3 DEF TypeOK
  <2> QED
    BY <1>1, <2>2, <2>3, <2>4, SameHosts
<1> QED
  BY <1>3, <1>4, <1>5, <1>6, <1>7

\* A crash forgets the requests and the probes under way.
LEMMA CrashStep ==
  ASSUME IInv, Crash
  PROVE  IInv'
<1>1. TypeOK /\ UNCHANGED <<host, instance, revivals>>
  BY DEF IInv, Crash
<1>2. NoRequest \in Request
  BY DEF Request
<1>3. TypeOK'
  BY <1>1, <1>2 DEF TypeOK, Crash
<1>4. \A g \in Hosts : probe'[g] # NoProbe => probe[g] # NoProbe \/ Exists(g)
  BY DEF Crash
<1>5. \A g \in Hosts : Exists(g) => Exists(g)' /\ host'[g].set = host[g].set
  BY <1>1 DEF Exists
<1> QED
  BY <1>1, <1>3, <1>4, <1>5, SameHosts

--------------------------------------------------------------------------------
(* Steps that change hosts and databases *)

\* The settings of a host change, with no active probe and with a pool that has
\* every port in use.
LEMMA UpdateStep ==
  ASSUME IInv, NEW c \in Clients, UpdateHost(c)
  PROVE  /\ IInv'
         /\ \A g \in Hosts : probe[g] # NoProbe => Exists(g)' /\ host'[g].set = host[g].set
<1> DEFINE r == request[c]
<1>1. TypeOK /\ UNCHANGED <<instance, probe, poll, revivals>>
  BY DEF IInv, UpdateHost
<1>2. r.host \in Hosts /\ r.set \in Settings /\ r.key \in Keys
  BY <1>1, RequestTypes DEF UpdateHost
<1>3. Exists(r.host) /\ probe[r.host] = NoProbe /\ PortsOn(r.host) \subseteq r.set.pool
  BY DEF UpdateHost
<1> DEFINE row == [host[r.host] EXCEPT !.set = r.set, !.key = r.key]
<1>4. host' = [host EXCEPT ![r.host] = row]
  BY <1>1 DEF UpdateHost, Change, TypeOK
<1>5. host[r.host] \in HostRow
  BY <1>1, <1>2, <1>3, ExistingHost
<1>6. row \in HostRow
  BY <1>2, <1>5, HostUpdates
<1>7. row.set = r.set /\ row.status = host[r.host].status
  BY <1>5 DEF HostRow
<1>8. request' \in [Clients -> Request]
  <2>1. NoRequest \in Request
    BY DEF Request
  <2> QED
    BY <1>1, <2>1, RequestUpdates DEF UpdateHost, Done
<1> HIDE DEF row
<1>9. TypeOK'
  BY <1>1, <1>2, <1>4, <1>6, <1>8 DEF TypeOK
<1>10. \A g \in Hosts : /\ Exists(g)' = Exists(g)
                        /\ host'[g].set = IF g = r.host THEN r.set ELSE host[g].set
  BY <1>1, <1>2, <1>4, <1>7 DEF TypeOK, Exists
<1>11. PortExclusive'
  BY <1>1 DEF IInv, PortExclusive, Live
<1>12. HostKept'
  BY <1>1, <1>10 DEF IInv, HostKept, Live
<1>13. ProbeHasHost'
  BY <1>1, <1>10 DEF IInv, ProbeHasHost
<1>14. PortInPool'
  <2> SUFFICES ASSUME revivals = 0, NEW h \in Hosts, NEW i \in On(h)
               PROVE  instance[i].port \in host'[h].set.pool
    BY <1>1 DEF PortInPool, On, Live
  <2>1. CASE h = r.host
    BY <1>3, <1>10, <2>1 DEF PortsOn
  <2>2. CASE h # r.host
    BY <1>10, <2>2 DEF IInv, PortInPool
  <2> QED
    BY <2>1, <2>2
<1>15. \A g \in Hosts : probe[g] # NoProbe => Exists(g)' /\ host'[g].set = host[g].set
  BY <1>3, <1>10 DEF IInv, ProbeHasHost
<1> QED
  BY <1>9, <1>11, <1>12, <1>13, <1>14, <1>15 DEF IInv

\* A host without databases and without a probe goes.
LEMMA DeleteHostStep ==
  ASSUME IInv, NEW h \in Hosts, DeleteHost(h)
  PROVE  /\ IInv'
         /\ \A g \in Hosts : probe[g] # NoProbe => Exists(g)' /\ host'[g].set = host[g].set
<1>1. TypeOK /\ UNCHANGED <<probe, request, poll, revivals>>
  BY DEF IInv, DeleteHost
<1>2. Exists(h) /\ probe[h] = NoProbe /\ On(h) = {}
  BY DEF DeleteHost, Deletable
<1>3. host' = [host EXCEPT ![h] = Gone]
  BY DEF DeleteHost
<1>4. instance' = [i \in Instances |->
        IF instance[i] # NoInstance /\ instance[i].host = h
          THEN [instance[i] EXCEPT !.host = NoHost] ELSE instance[i]]
  BY DEF DeleteHost
<1>5. ASSUME NEW i \in Instances
      PROVE  /\ instance'[i] \in InstanceRow \cup {NoInstance}
             /\ Live(i)' = Live(i)
             /\ Live(i) => instance'[i] = instance[i] /\ instance[i].host # h
  <2>1. instance[i] \in InstanceRow \cup {NoInstance}
    BY <1>1 DEF TypeOK
  <2>2. Live(i) => instance[i].host # h
    BY <1>2 DEF On
  <2>3. CASE instance[i] # NoInstance /\ instance[i].host = h
    <3>1. instance[i] \in InstanceRow /\ instance'[i] = [instance[i] EXCEPT !.host = NoHost]
      BY <1>4, <2>1, <2>3
    <3>2. instance'[i] \in InstanceRow /\ instance'[i].status = instance[i].status
      BY <3>1 DEF InstanceRow
    <3> QED
      BY <2>2, <2>3, <3>2 DEF Live
  <2>4. CASE ~(instance[i] # NoInstance /\ instance[i].host = h)
    BY <1>4, <2>1, <2>2, <2>4 DEF Live
  <2> QED
    BY <2>3, <2>4
<1>6. TypeOK'
  BY <1>1, <1>3, <1>4, <1>5 DEF TypeOK
<1>7. \A g \in Hosts : g # h => Exists(g)' = Exists(g) /\ host'[g] = host[g]
  BY <1>1, <1>3 DEF TypeOK, Exists
<1>8. PortExclusive'
  BY <1>5 DEF IInv, PortExclusive
<1>9. HostKept' /\ PortInPool'
  BY <1>1, <1>5, <1>7 DEF IInv, HostKept, PortInPool, On
<1>10. ProbeHasHost' /\ \A g \in Hosts : probe[g] # NoProbe => Exists(g)' /\ host'[g].set = host[g].set
  BY <1>1, <1>2, <1>7 DEF IInv, ProbeHasHost
<1> QED
  BY <1>6, <1>8, <1>9, <1>10 DEF IInv

\* A database is placed where its port is free and in the pool.
LEMMA CreateStep ==
  ASSUME IInv, NEW c \in Clients, NEW i \in Instances, CreateInstance(c, i)
  PROVE  IInv'
<1> DEFINE r == request[c]
           row == NewInstance(r)
<1>1. TypeOK /\ UNCHANGED <<host, probe, poll, revivals>> /\ instance' = [instance EXCEPT ![i] = row]
  BY DEF IInv, CreateInstance
<1>2. r.host \in Hosts /\ r.port \in UNION Pools /\ r.size \in Sizes /\ r.root \in Roots
  BY <1>1, RequestTypes DEF CreateInstance
<1>3. Exists(r.host) /\ r.port \in host[r.host].set.pool /\ r.port \notin PortsOn(r.host)
  BY DEF CreateInstance, MayPlace, Exists
<1>4. row \in InstanceRow /\ row.status = "live" /\ row.host = r.host /\ row.port = r.port
  BY <1>2 DEF NewInstance, InstanceRow
<1>5. request' \in [Clients -> Request]
  <2>1. NoRequest \in Request
    BY DEF Request
  <2> QED
    BY <1>1, <2>1, RequestUpdates DEF CreateInstance, Done
<1> HIDE DEF row
<1>6. TypeOK'
  BY <1>1, <1>4, <1>5 DEF TypeOK
<1>7. instance'[i] = row /\ \A j \in Instances : j # i => instance'[j] = instance[j]
  BY <1>1 DEF TypeOK
<1>8. \A j \in Instances : j # i /\ Live(j) /\ instance[j].host = r.host => instance[j].port # r.port
  BY <1>3 DEF PortsOn, On
<1>9. PortExclusive'
  BY <1>4, <1>7, <1>8 DEF IInv, PortExclusive, Live
<1>10. HostKept'
  BY <1>1, <1>2, <1>3, <1>4, <1>7 DEF IInv, HostKept, Live, Exists
<1>11. PortInPool'
  BY <1>1, <1>3, <1>4, <1>7 DEF IInv, PortInPool, On, Live
<1>12. ProbeHasHost'
  BY <1>1 DEF IInv, ProbeHasHost, Exists
<1> QED
  BY <1>6, <1>9, <1>10, <1>11, <1>12 DEF IInv

\* A database is deleted, or its row comes back, where its port is still free.
LEMMA RowStep ==
  ASSUME IInv, NEW i \in Instances, DeleteInstance(i) \/ Revive(i)
  PROVE  IInv'
<1>1. TypeOK /\ UNCHANGED <<host, probe, request, poll>>
  BY DEF IInv, DeleteInstance, Revive
<1>2. ProbeHasHost'
  BY <1>1 DEF IInv, ProbeHasHost, Exists
<1>3. instance[i] \in InstanceRow
  BY <1>1 DEF DeleteInstance, Revive, Live, NoInstance, TypeOK
<1>4. CASE DeleteInstance(i)
  <2> DEFINE row == [instance[i] EXCEPT !.status = "deleted"]
  <2>1. instance' = [instance EXCEPT ![i] = row] /\ UNCHANGED revivals
    BY <1>1, <1>4 DEF DeleteInstance, TypeOK
  <2>2. row \in InstanceRow /\ row.status = "deleted"
    BY <1>3 DEF InstanceRow
  <2> HIDE DEF row
  <2>3. TypeOK'
    BY <1>1, <2>1, <2>2 DEF TypeOK
  <2>4. \A j \in Instances : Live(j)' => Live(j) /\ instance'[j] = instance[j]
    BY <1>1, <2>1, <2>2 DEF TypeOK, Live
  <2>5. PortExclusive'
    BY <2>4 DEF IInv, PortExclusive
  <2>6. HostKept' /\ PortInPool'
    BY <1>1, <2>1, <2>4 DEF IInv, HostKept, PortInPool, On, Exists
  <2> QED
    BY <1>2, <2>3, <2>5, <2>6 DEF IInv
<1>5. CASE Revive(i)
  <2> DEFINE row == [instance[i] EXCEPT !.status = "live"]
  <2>1. instance' = [instance EXCEPT ![i] = row] /\ revivals' = revivals + 1
        /\ revivals < MaxRevivals
    BY <1>1, <1>5 DEF Revive, TypeOK
  <2>2. row \in InstanceRow /\ row.host = instance[i].host /\ row.port = instance[i].port
    BY <1>3 DEF InstanceRow
  <2> HIDE DEF row
  <2>3. revivals' \in 0..MaxRevivals /\ revivals' # 0
    BY <1>1, <2>1, PlacementConstants DEF TypeOK
  <2>4. TypeOK'
    BY <1>1, <2>1, <2>2, <2>3 DEF TypeOK
  <2>5. instance'[i] = row /\ \A j \in Instances : j # i => instance'[j] = instance[j]
    BY <1>1, <2>1 DEF TypeOK
  <2>6. \A j \in Instances : Live(j) /\ instance[j].host = instance[i].host
          /\ instance[i].host # NoHost => instance[j].port # instance[i].port
    BY <1>5 DEF Revive, PortsOn, On
  <2>7. PortExclusive'
    BY <2>2, <2>5, <2>6 DEF IInv, PortExclusive, Live
  <2>8. HostKept' /\ PortInPool'
    BY <2>3 DEF HostKept, PortInPool
  <2> QED
    BY <1>2, <2>4, <2>7, <2>8 DEF IInv
<1> QED
  BY <1>4, <1>5

--------------------------------------------------------------------------------
(* The invariant *)

LEMMA InitIInv == Init => IInv
<1> SUFFICES ASSUME Init PROVE IInv
  OBVIOUS
<1>1. \A i \in Instances : ~Live(i)
  BY DEF Init, NoInstance, Live
<1>2. NoRequest \in Request
  BY DEF Request
<1>3. TypeOK
  BY <1>2, PlacementConstants DEF Init, TypeOK
<1>4. ProbeHasHost
  BY DEF Init, ProbeHasHost
<1>5. PortExclusive /\ PortInPool /\ HostKept
  BY <1>1 DEF PortExclusive, PortInPool, HostKept, On
<1> QED
  BY <1>3, <1>4, <1>5 DEF IInv

LEMMA StutterIInv ==
  ASSUME IInv, UNCHANGED vars
  PROVE  IInv'
<1>1. TypeOK'
  BY DEF IInv, TypeOK, vars
<1>2. \A g \in Hosts : Exists(g) => Exists(g)' /\ host'[g].set = host[g].set
  BY DEF vars, Exists
<1> QED
  BY <1>1, <1>2, SameHosts DEF vars

LEMMA NextIInv ==
  ASSUME IInv, Next
  PROVE  IInv'
<1>1. ASSUME NEW c \in Clients, NEW h \in Hosts,
             \/ \E s \in Settings :
                  RegisterHost(c, h, s) \/ \E new \in BOOLEAN : ReadForUpdate(c, h, s, new)
             \/ ReadForProbe(c, h)
             \/ \E n \in Sizes : SelectHost(c, h, n)
      PROVE  IInv'
  BY <1>1, RegisterStep, ReadStep
<1>2. ASSUME NEW c \in Clients, InsertProbe(c) \/ UpdateHost(c)
      PROVE  IInv'
  BY <1>2, InsertProbeStep, UpdateStep
<1>3. ASSUME NEW c \in Clients, Reject(c)
      PROVE  IInv'
  BY <1>3, RejectStep
<1>4. ASSUME NEW c \in Clients, NEW i \in Instances, CreateInstance(c, i)
      PROVE  IInv'
  BY <1>4, CreateStep
<1>5. ASSUME NEW h \in Hosts, DeleteHost(h)
      PROVE  IInv'
  BY <1>5, DeleteHostStep
<1>6. ASSUME NEW h \in Hosts, StartProbe(h) \/ FinishProbe(h) \/ DropProbe(h) \/ StartPoll(h)
      PROVE  IInv'
  BY <1>6, ProbeStep
<1>7. CASE FinishPoll
  <2>1. poll.host \in Hosts
    BY <1>7, ProbeTypes DEF IInv, TypeOK, FinishPoll
  <2> QED
    BY <1>7, <2>1, ProbeStep
<1>8. ASSUME NEW i \in Instances, DeleteInstance(i) \/ Revive(i)
      PROVE  IInv'
  BY <1>8, RowStep
<1>9. CASE Crash
  BY <1>9, CrashStep
<1> QED
  BY <1>1, <1>2, <1>3, <1>4, <1>5, <1>6, <1>7, <1>8, <1>9 DEF Next

\* The inductive invariant holds in every behaviour of the placement.
THEOREM Invariance == Spec => []IInv
<1>1. IInv /\ [Next]_vars => IInv'
  BY NextIInv, StutterIInv
<1> QED
  BY InitIInv, <1>1, PTL DEF Spec

\* Every table, request and probe keeps its type.
THEOREM TypeCorrect == Spec => []TypeOK
<1>1. IInv => TypeOK
  BY DEF IInv
<1> QED
  BY Invariance, <1>1, PTL

\* Two databases of a host never hold the same port (the index of
\* db/migrations/015_reuse_deleted_instance_ports.sql and CreateInstanceTask), for any number of requests
\* that chose a port before, and with rows that come back.
THEOREM PortsExclusive == Spec => []PortExclusive
<1>1. IInv => PortExclusive
  BY DEF IInv
<1> QED
  BY Invariance, <1>1, PTL

\* UpdateHost never leaves the port of a database outside the pool of its host.
THEOREM PortsInPool == Spec => []PortInPool
<1>1. IInv => PortInPool
  BY DEF IInv
<1> QED
  BY Invariance, <1>1, PTL

\* DeleteHost never takes a host from under a database.
THEOREM HostsKept == Spec => []HostKept
<1>1. IInv => HostKept
  BY DEF IInv
<1> QED
  BY Invariance, <1>1, PTL

\* An active probe task refers to an existing host.
THEOREM ProbesHaveHosts == Spec => []ProbeHasHost
<1>1. IInv => ProbeHasHost
  BY DEF IInv
<1> QED
  BY Invariance, <1>1, PTL

--------------------------------------------------------------------------------
(* Settings under a probe *)

\* A host with an active probe keeps its existence and its settings in every step.
LEMMA SettingsStep ==
  ASSUME IInv, Next, NEW g \in Hosts, probe[g] # NoProbe
  PROVE  Exists(g)' /\ host'[g].set = host[g].set
<1>1. TypeOK /\ Exists(g)
  BY DEF IInv, ProbeHasHost
<1>2. ASSUME UNCHANGED host
      PROVE  Exists(g)' /\ host'[g].set = host[g].set
  BY <1>1, <1>2 DEF Exists
<1>3. ASSUME NEW c \in Clients, NEW h \in Hosts,
             \/ \E s \in Settings :
                  RegisterHost(c, h, s) \/ \E new \in BOOLEAN : ReadForUpdate(c, h, s, new)
             \/ ReadForProbe(c, h)
             \/ \E n \in Sizes : SelectHost(c, h, n)
      PROVE  Exists(g)' /\ host'[g].set = host[g].set
  <2>1. CASE UNCHANGED host
    BY <1>2, <2>1
  <2>2. ASSUME NEW s \in Settings, RegisterHost(c, h, s)
        PROVE  Exists(g)' /\ host'[g].set = host[g].set
    <3>1. g # h
      BY <1>1, <2>2 DEF RegisterHost, Exists, Absent
    <3> QED
      BY <1>1, <2>2, <3>1 DEF RegisterHost, TypeOK, Exists
  <2> QED
    BY <1>3, <2>1, <2>2 DEF ReadForUpdate, ReadForProbe, SelectHost
<1>4. ASSUME NEW c \in Clients,
             \/ InsertProbe(c) \/ Reject(c)
             \/ \E i \in Instances : CreateInstance(c, i)
      PROVE  Exists(g)' /\ host'[g].set = host[g].set
  BY <1>2, <1>4 DEF InsertProbe, Reject, CreateInstance
<1>5. ASSUME NEW c \in Clients, UpdateHost(c)
      PROVE  Exists(g)' /\ host'[g].set = host[g].set
  BY <1>5, UpdateStep
<1>6. ASSUME NEW h \in Hosts, DeleteHost(h)
      PROVE  Exists(g)' /\ host'[g].set = host[g].set
  BY <1>6, DeleteHostStep
<1>7. ASSUME NEW h \in Hosts, StartProbe(h) \/ DropProbe(h) \/ StartPoll(h)
      PROVE  Exists(g)' /\ host'[g].set = host[g].set
  BY <1>2, <1>7 DEF StartProbe, DropProbe, StartPoll
<1>8. ASSUME NEW h \in Hosts, FinishProbe(h)
      PROVE  Exists(g)' /\ host'[g].set = host[g].set
  <2>1. probe[h].status = "running" /\ probe[h] # NoProbe /\ WriteProbe(h, probe[h].seen)
    BY <1>8 DEF FinishProbe, NoProbe
  <2>2. Exists(h) /\ probe[h].seen \in Seen
    BY <1>1, <2>1, ProbeTypes DEF IInv, ProbeHasHost
  <2> QED
    BY <1>1, <2>1, <2>2, WriteProbeEffect
<1>9. CASE FinishPoll
  <2>1. poll.host \in Hosts /\ poll.seen \in Seen
    BY <1>1, <1>9, ProbeTypes DEF FinishPoll
  <2>2. CASE Exists(poll.host)
    BY <1>1, <1>9, <2>1, <2>2, WriteProbeEffect DEF FinishPoll
  <2>3. CASE ~Exists(poll.host)
    BY <1>2, <1>9, <2>3 DEF FinishPoll
  <2> QED
    BY <2>2, <2>3
<1>10. ASSUME NEW i \in Instances, DeleteInstance(i) \/ Revive(i)
       PROVE  Exists(g)' /\ host'[g].set = host[g].set
  BY <1>2, <1>10 DEF DeleteInstance, Revive
<1>11. CASE Crash
  BY <1>2, <1>11 DEF Crash
<1> QED
  BY <1>3, <1>4, <1>5, <1>6, <1>7, <1>8, <1>9, <1>10, <1>11 DEF Next

\* What a probe task was queued for is still the host's when it ends: UpdateHost
\* and DeleteHost refuse a host with an active task.
THEOREM SettingsStay == Spec => SettingsHeld
<1>1. IInv /\ [Next]_vars =>
        [\A h \in Hosts : probe[h] # NoProbe => Exists(h)' /\ host'[h].set = host[h].set]_vars
  BY SettingsStep
<1> QED
  BY Invariance, <1>1, PTL DEF Spec, SettingsHeld

--------------------------------------------------------------------------------
(* Host keys *)

\* The key was stored for the host, and is as long as the host is there.
KeyOfHost(h, k) == host[h] # Absent /\ (Exists(h) => host[h].key = k)

\* A change under way carries the key of the machine at the address it asks for,
\* which is the one the host has as long as there is one.
KeyRead ==
  \A c \in Clients : Asked(c, "update") =>
    /\ request[c].key = KeyOf[request[c].set.addr]
    /\ KeyOfHost(request[c].host, request[c].key)

ProbeKey == \A h \in Hosts : probe[h].status = "running" => probe[h].seen.key = host[h].key

PollKey == poll # NoPoll => KeyOfHost(poll.host, poll.seen.key)

KInv == IInv /\ KeyMatchesAddress /\ KeyRead /\ ProbeKey /\ PollKey

\* A write to a host registers it, deletes it, or leaves its key and keeps it
\* that of the address.
KeptRow(h, row) ==
  \/ host[h] = Absent /\ row \in HostRow /\ row.key = KeyOf[row.set.addr]
  \/ row = Gone
  \/ Exists(h) /\ row \in HostRow /\ row.key = host[h].key /\ row.key = KeyOf[row.set.addr]

\* What a probe writes, for a host that has the key the probe was started with.
LEMMA ProbeWrite ==
  ASSUME TypeOK, KeyMatchesAddress, NEW h \in Hosts, NEW seen \in Seen, Exists(h),
         seen.key = host[h].key, WriteProbe(h, seen)
  PROVE  \E row : host' = [host EXCEPT ![h] = row] /\ KeptRow(h, row)
<1> USE PlacementConstants
<1>1. host \in [Hosts -> HostRow \cup {Absent, Gone}] /\ host[h] \in HostRow
  BY ExistingHost DEF TypeOK
<1>2. host[h].key = KeyOf[host[h].set.addr]
  BY DEF KeyMatchesAddress
<1>3. ASSUME Trusted(seen), NEW status \in {"online", "unusable"}, NEW n \in Capacities,
             host' = [host EXCEPT ![h].status = status, ![h].key = KeyOf[seen.set.addr], ![h].usable = n]
      PROVE  \E row : host' = [host EXCEPT ![h] = row] /\ KeptRow(h, row)
  <2> DEFINE row == [host[h] EXCEPT !.status = status, !.key = KeyOf[seen.set.addr], !.usable = n]
  <2>1. host' = [host EXCEPT ![h] = row]
    BY <1>1, <1>3
  <2>2. KeyOf[seen.set.addr] = host[h].key /\ KeyOf[seen.set.addr] \in Keys /\ n \in Nat
    BY <1>3 DEF Trusted, Seen, Settings, Keys
  <2>3. row \in HostRow /\ row.key = host[h].key /\ row.set = host[h].set
    BY <1>1, <2>2, HostUpdates DEF HostRow
  <2> HIDE DEF row
  <2> QED
    BY <1>2, <2>1, <2>3 DEF KeptRow
<1>4. ASSUME host' = [host EXCEPT ![h].status = "unusable"]
      PROVE  \E row : host' = [host EXCEPT ![h] = row] /\ KeptRow(h, row)
  <2> DEFINE row == [host[h] EXCEPT !.status = "unusable"]
  <2>1. host' = [host EXCEPT ![h] = row]
    BY <1>1, <1>4
  <2>2. row \in HostRow /\ row.key = host[h].key /\ row.set = host[h].set
    BY <1>1 DEF HostRow
  <2> HIDE DEF row
  <2> QED
    BY <1>2, <2>1, <2>2 DEF KeptRow
<1> QED
  BY <1>3, <1>4 DEF WriteProbe

\* Every step that writes a host writes a row of that kind.
LEMMA HostWrites ==
  ASSUME KInv, Next
  PROVE  \/ UNCHANGED host
         \/ \E h \in Hosts : \E row : host' = [host EXCEPT ![h] = row] /\ KeptRow(h, row)
<1> DEFINE Kept == \E h \in Hosts : \E row : host' = [host EXCEPT ![h] = row] /\ KeptRow(h, row)
<1>1. TypeOK /\ KeyMatchesAddress /\ host \in [Hosts -> HostRow \cup {Absent, Gone}]
  BY DEF KInv, IInv, TypeOK
<1>2. ASSUME NEW c \in Clients, NEW h \in Hosts, NEW s \in Settings, RegisterHost(c, h, s)
      PROVE  Kept
  <2>1. host[h] = Absent /\ host' = [host EXCEPT ![h] = NewHost(s)]
    BY <1>2 DEF RegisterHost
  <2>2. NewHost(s) \in HostRow /\ NewHost(s).key = KeyOf[NewHost(s).set.addr]
    BY DEF NewHost, HostRow, Keys, Settings
  <2> QED
    BY <2>1, <2>2 DEF KeptRow
<1>3. ASSUME NEW c \in Clients, UpdateHost(c)
      PROVE  Kept
  <2> DEFINE r == request[c]
             row == [host[r.host] EXCEPT !.set = r.set, !.key = r.key]
  <2>1. /\ r.host \in Hosts /\ Exists(r.host) /\ host[r.host] \in HostRow
        /\ r.set \in Settings /\ r.key \in Keys
        /\ r.key = KeyOf[r.set.addr] /\ r.key = host[r.host].key
    BY <1>1, <1>3, RequestTypes, ExistingHost DEF UpdateHost, KInv, KeyRead, KeyOfHost
  <2>2. host' = [host EXCEPT ![r.host] = row]
    BY <1>1, <1>3 DEF UpdateHost, Change
  <2>3. row \in HostRow /\ row.key = r.key /\ row.set = r.set
    BY <2>1, HostUpdates DEF HostRow
  <2>4. KeptRow(r.host, row)
    BY <2>1, <2>3 DEF KeptRow
  <2> HIDE DEF row
  <2> QED
    BY <2>1, <2>2, <2>4
<1>4. ASSUME NEW h \in Hosts, DeleteHost(h)
      PROVE  Kept
  BY <1>4 DEF DeleteHost, KeptRow
<1>5. ASSUME NEW h \in Hosts, FinishProbe(h)
      PROVE  Kept
  <2>1. probe[h].status = "running" /\ probe[h] # NoProbe /\ WriteProbe(h, probe[h].seen)
    BY <1>5 DEF FinishProbe, NoProbe
  <2>2. Exists(h) /\ probe[h].seen \in Seen /\ probe[h].seen.key = host[h].key
    BY <1>1, <2>1, ProbeTypes DEF KInv, IInv, ProbeHasHost, ProbeKey
  <2> QED
    BY <1>1, <2>1, <2>2, ProbeWrite
<1>6. CASE FinishPoll /\ Exists(poll.host)
  <2>1. poll.host \in Hosts /\ poll.seen \in Seen
    BY <1>1, <1>6 DEF FinishPoll, TypeOK
  <2>2. poll.seen.key = host[poll.host].key
    BY <1>6 DEF FinishPoll, KInv, PollKey, KeyOfHost
  <2> QED
    BY <1>1, <1>6, <2>1, <2>2, ProbeWrite DEF FinishPoll
<1>7. CASE FinishPoll /\ ~Exists(poll.host)
  BY <1>7 DEF FinishPoll
<1> QED
  BY <1>2, <1>3, <1>4, <1>5, <1>6, <1>7
  DEF Next, ReadForUpdate, ReadForProbe, SelectHost, InsertProbe, Reject, CreateInstance,
      StartProbe, DropProbe, StartPoll, DeleteInstance, Revive, Crash

\* So a host keeps its key from its registration to its deletion, ids are not
\* used again, and the key stays that of the address.
LEMMA KeyStep ==
  ASSUME KInv, Next
  PROVE  /\ KeyMatchesAddress'
         /\ \A h \in Hosts : \A k : KeyOfHost(h, k) => KeyOfHost(h, k)'
<1>1. host \in [Hosts -> HostRow \cup {Absent, Gone}]
  BY DEF KInv, IInv, TypeOK
<1>2. CASE UNCHANGED host
  BY <1>2 DEF KInv, KeyMatchesAddress, Exists, KeyOfHost
<1>3. ASSUME NEW h \in Hosts, NEW row, host' = [host EXCEPT ![h] = row], KeptRow(h, row)
      PROVE  /\ KeyMatchesAddress'
             /\ \A g \in Hosts : \A k : KeyOfHost(g, k) => KeyOfHost(g, k)'
  <2>1. /\ row # Absent
        /\ row.status \in {"pending", "online", "unusable"} => row.key = KeyOf[row.set.addr]
        /\ row.status \in {"pending", "online", "unusable"} /\ host[h] # Absent =>
             Exists(h) /\ row.key = host[h].key
    BY <1>3 DEF KeptRow, Gone, Absent, HostRow
  <2>2. host'[h] = row /\ \A g \in Hosts : g # h => host'[g] = host[g]
    BY <1>1, <1>3
  <2>3. KeyMatchesAddress'
    BY <2>1, <2>2 DEF KInv, KeyMatchesAddress, Exists
  <2> QED
    BY <2>1, <2>2, <2>3 DEF Exists, KeyOfHost
<1> QED
  BY <1>2, <1>3, HostWrites

\* A request to change a host is made after a test that found the stored key.
LEMMA KeyReadStep ==
  ASSUME KInv, Next
  PROVE  KeyRead'
<1>1. TypeOK /\ request \in [Clients -> Request]
  BY DEF KInv, IInv, TypeOK
<1> SUFFICES ASSUME NEW c \in Clients, request'[c].op = "update"
             PROVE  /\ request'[c].key = KeyOf[request'[c].set.addr]
                    /\ KeyOfHost(request[c].host, request[c].key)'
  BY DEF KeyRead, Asked
<1>2. CASE request'[c] = request[c]
  <2>1. Asked(c, "update") /\ request[c].host \in Hosts
    BY <1>1, <1>2, RequestTypes DEF Asked
  <2> QED
    BY <1>2, <2>1, KeyStep DEF KInv, KeyRead, KeyOfHost, Exists
<1>3. ASSUME NEW h \in Hosts, NEW s \in Settings, NEW new \in BOOLEAN, ReadForUpdate(c, h, s, new)
      PROVE  /\ request'[c].key = KeyOf[request'[c].set.addr]
             /\ KeyOfHost(request[c].host, request[c].key)'
  <2> DEFINE k == IF VerificationRequired(host[h], s, new) THEN KeyOf[s.addr] ELSE host[h].key
  <2>1. /\ Exists(h) /\ UNCHANGED host
        /\ request'[c] = [op |-> "update", host |-> h, set |-> s, key |-> k]
    BY <1>1, <1>3 DEF ReadForUpdate
  <2>2. k = KeyOf[s.addr] /\ k = host[h].key
    BY <1>3, <2>1 DEF ReadForUpdate, Tested, KInv, KeyMatchesAddress, VerificationRequired
  <2>3. host'[h] = host[h] /\ host[h] # Absent
    BY <2>1 DEF Exists, Absent
  <2>4. /\ request'[c].host = h /\ request'[c].set = s
        /\ request'[c].key = KeyOf[s.addr] /\ request'[c].key = host[h].key
    BY <2>1, <2>2
  <2> HIDE DEF k
  <2> QED
    BY <2>3, <2>4 DEF Exists, KeyOfHost
<1>4. ASSUME NEW d \in Clients, NEW r, request' = [request EXCEPT ![d] = r], r.op # "update"
      PROVE  request'[c] = request[c]
  BY <1>1, <1>4
<1>5. ASSUME NEW d \in Clients, Done(d)
      PROVE  request'[c] = request[c]
  BY <1>4, <1>5 DEF Done, NoRequest
<1>6. ASSUME NEW d \in Clients, NEW h \in Hosts,
             \/ \E s \in Settings : RegisterHost(d, h, s)
             \/ ReadForProbe(d, h)
             \/ \E n \in Sizes : SelectHost(d, h, n)
      PROVE  request'[c] = request[c]
  <2>1. CASE ReadForProbe(d, h) \/ \E s \in Settings : RegisterHost(d, h, s)
    <3> DEFINE r == [op |-> "probe", host |-> h]
    <3>1. request' = [request EXCEPT ![d] = r] /\ r.op # "update"
      BY <2>1 DEF ReadForProbe, RegisterHost
    <3> QED
      BY <1>4, <3>1
  <2>2. CASE \E n \in Sizes : SelectHost(d, h, n)
    <3>1. PICK n \in Sizes, p \in host[h].set.pool \ PortsOn(h) :
            request' = [request EXCEPT ![d] =
              [op |-> "create", host |-> h, port |-> p, size |-> n, root |-> host[h].set.root]]
      BY <2>2 DEF SelectHost
    <3> DEFINE r == [op |-> "create", host |-> h, port |-> p, size |-> n, root |-> host[h].set.root]
    <3>2. request' = [request EXCEPT ![d] = r] /\ r.op # "update"
      BY <3>1
    <3> QED
      BY <1>4, <3>2
  <2> QED
    BY <1>6, <2>1, <2>2
<1>7. ASSUME NEW d \in Clients, NEW h \in Hosts, NEW s \in Settings, NEW new \in BOOLEAN,
             ReadForUpdate(d, h, s, new), d # c
      PROVE  request'[c] = request[c]
  BY <1>1, <1>7 DEF ReadForUpdate
<1>8. CASE Crash
  BY <1>8 DEF Crash, NoRequest
<1> QED
  BY <1>2, <1>3, <1>5, <1>6, <1>7, <1>8
  DEF Next, InsertProbe, UpdateHost, Reject, CreateInstance, DeleteHost, StartProbe, FinishProbe,
      DropProbe, StartPoll, FinishPoll, DeleteInstance, Revive

\* A probe task that runs was started with the key the host still has.
LEMMA ProbeKeyStep ==
  ASSUME KInv, Next
  PROVE  ProbeKey'
<1> SUFFICES ASSUME NEW g \in Hosts, probe'[g].status = "running"
             PROVE  probe'[g].seen.key = host'[g].key
  BY DEF ProbeKey
<1>1. TypeOK /\ IInv /\ ProbeKey
  BY DEF KInv, IInv
<1>2. probe \in [Hosts -> {NoProbe} \cup [status : {"queued"}] \cup [status : {"running"}, seen : Seen]]
  BY <1>1 DEF TypeOK
<1>3. probe'[g] # NoProbe
  BY DEF NoProbe
<1>4. CASE probe'[g] = probe[g]
  <2>1. Exists(g) /\ Exists(g)'
    BY <1>1, <1>3, <1>4, SettingsStep DEF IInv, ProbeHasHost
  <2>2. KeyOfHost(g, host[g].key)
    BY <2>1 DEF Exists, Absent, KeyOfHost
  <2>3. host'[g].key = host[g].key
    BY <2>1, <2>2, KeyStep DEF KeyOfHost
  <2> QED
    BY <1>1, <1>4, <2>3 DEF ProbeKey
<1>5. ASSUME NEW c \in Clients, InsertProbe(c)
      PROVE  probe'[g] = probe[g]
  BY <1>2, <1>5, <1>1, RequestTypes DEF InsertProbe
<1>6. ASSUME NEW h \in Hosts, FinishProbe(h) \/ DropProbe(h)
      PROVE  probe'[g] = probe[g]
  BY <1>2, <1>6 DEF FinishProbe, DropProbe, NoProbe
<1>7. ASSUME NEW h \in Hosts, StartProbe(h)
      PROVE  probe'[g].seen.key = host'[g].key
  BY <1>2, <1>4, <1>7 DEF StartProbe
<1>8. CASE Crash
  BY <1>4, <1>8 DEF Crash, NoProbe
<1> QED
  BY <1>4, <1>5, <1>6, <1>7, <1>8
  DEF Next, RegisterHost, ReadForUpdate, ReadForProbe, SelectHost, UpdateHost, Reject,
      CreateInstance, DeleteHost, StartPoll, FinishPoll, DeleteInstance, Revive

\* So was a probe of the monitor, as long as the host is there.
LEMMA PollKeyStep ==
  ASSUME KInv, Next
  PROVE  PollKey'
<1> SUFFICES ASSUME poll' # NoPoll
             PROVE  KeyOfHost(poll.host, poll.seen.key)'
  BY DEF PollKey
<1>1. TypeOK /\ PollKey
  BY DEF KInv, IInv
<1>2. CASE poll' = poll
  <2>1. poll.host \in Hosts
    BY <1>1, <1>2 DEF TypeOK
  <2> QED
    BY <1>1, <1>2, <2>1, KeyStep DEF PollKey, KeyOfHost, Exists
<1>3. ASSUME NEW h \in Hosts, StartPoll(h)
      PROVE  KeyOfHost(poll.host, poll.seen.key)'
  BY <1>3 DEF StartPoll, Exists, Absent, KeyOfHost
<1> QED
  BY <1>2, <1>3
  DEF Next, RegisterHost, ReadForUpdate, ReadForProbe, SelectHost, InsertProbe, UpdateHost, Reject,
      CreateInstance, DeleteHost, StartProbe, FinishProbe, DropProbe, FinishPoll, DeleteInstance,
      Revive, Crash

LEMMA InitKInv == Init => KInv
<1> SUFFICES ASSUME Init PROVE KInv
  OBVIOUS
<1>1. KeyMatchesAddress
  BY DEF Init, KeyMatchesAddress, Exists, Absent
<1>2. KeyRead
  BY DEF Init, KeyRead, Asked, NoRequest
<1>3. ProbeKey /\ PollKey
  BY DEF Init, ProbeKey, PollKey, NoProbe
<1> QED
  BY <1>1, <1>2, <1>3, InitIInv DEF KInv

LEMMA StutterKInv ==
  ASSUME KInv, UNCHANGED vars
  PROVE  KInv'
<1>1. IInv'
  BY StutterIInv DEF KInv
<1>2. KeyMatchesAddress' /\ KeyRead' /\ ProbeKey' /\ PollKey'
  BY DEF vars, KInv, KeyMatchesAddress, KeyRead, ProbeKey, PollKey, KeyOfHost, Exists, Asked
<1> QED
  BY <1>1, <1>2 DEF KInv

\* The stored key is always that of the machine at the stored address: a change
\* of the address needs a test, the test is made against the stored key, and
\* whatever else writes a host writes the key it was started with.
THEOREM KeysMatch == Spec => []KeyMatchesAddress
<1>1. KInv /\ [Next]_vars => KInv'
  <2>1. ASSUME KInv, Next PROVE KInv'
    <3>1. IInv'
      BY <2>1, NextIInv DEF KInv
    <3> QED
      BY <2>1, <3>1, KeyReadStep, ProbeKeyStep, PollKeyStep, KeyStep DEF KInv
  <2> QED
    BY <2>1, StutterKInv
<1>2. KInv => KeyMatchesAddress
  BY DEF KInv
<1> QED
  BY InitKInv, <1>1, <1>2, PTL DEF Spec

--------------------------------------------------------------------------------
(* Sums over finite sets *)

\* The element a sum takes out of a set next.
First(s) == CHOOSE x \in s : TRUE

\* g maps each subset of S to the sum of f over it, the way Folds computes it.
Adds(g, S, f) ==
  g = [s \in SUBSET S |-> IF s = {} THEN 0 ELSE f[First(s)] + g[s \ {First(s)}]]

\* A non-empty set of subsets of a finite set has a minimal member.
LEMMA MinimalSubset ==
  ASSUME NEW S, IsFiniteSet(S), NEW B, B \subseteq SUBSET S, B # {}
  PROVE  \E s \in B : \A u \in B : u \subseteq s => u = s
<1>1. FiniteSubsetsOf(S) = SUBSET S
  BY FS_FiniteSubsetsOfFinite
<1>2. IsWellFoundedOn(StrictSubsetOrdering(S), SUBSET S)
  BY <1>1, FS_StrictSubsetOrderingWellFounded
<1>3. \E s \in B : \A u \in B : ~ (<<u, s>> \in StrictSubsetOrdering(S))
  BY <1>2, WFMin
<1>4. \A s, u \in B : u \subseteq s /\ u # s => <<u, s>> \in StrictSubsetOrdering(S)
  BY DEF StrictSubsetOrdering
<1> QED
  BY <1>3, <1>4

LEMMA FirstIn ==
  ASSUME NEW s, s # {}
  PROVE  /\ First(s) \in s
         /\ s \ {First(s)} \subseteq s
         /\ s \ {First(s)} # s
<1>1. First(s) \in s
  BY DEF First
<1> QED
  BY <1>1

\* One step of a sum.
LEMMA AddsStep ==
  ASSUME NEW g, NEW S, NEW f, Adds(g, S, f), NEW s \in SUBSET S
  PROVE  /\ s = {} => g[s] = 0
         /\ s # {} => g[s] = f[First(s)] + g[s \ {First(s)}]
BY DEF Adds

\* The sum over a set depends on nothing but the values at its elements.
LEMMA AddsAgree ==
  ASSUME NEW S, NEW f, NEW g, Adds(g, S, f), IsFiniteSet(S),
         NEW T, NEW e, NEW k, Adds(k, T, e),
         NEW s, s \subseteq S, s \subseteq T, \A x \in s : f[x] = e[x]
  PROVE  g[s] = k[s]
<1> DEFINE B == {u \in SUBSET s : g[u] # k[u]}
<1> SUFFICES ASSUME B # {} PROVE FALSE
  BY Zenon
<1>1. IsFiniteSet(s)
  BY FS_Subset
<1>2. B \subseteq SUBSET s /\ \A u : u \in B <=> u \subseteq s /\ g[u] # k[u]
  OBVIOUS
<1> HIDE DEF B
<1>3. PICK u \in B : \A v \in B : v \subseteq u => v = u
  BY <1>1, <1>2, MinimalSubset
<1>4. u \in SUBSET S /\ u \in SUBSET T /\ u \subseteq s /\ g[u] # k[u]
  BY <1>2, <1>3
<1>5. u # {}
  <2>1. u = {} => g[u] = 0
    BY <1>4, AddsStep
  <2>2. u = {} => k[u] = 0
    BY <1>4, AddsStep
  <2> QED
    BY <1>4, <2>1, <2>2
<1> DEFINE v == u \ {First(u)}
<1>6. First(u) \in u /\ v \subseteq u /\ v # u
  BY <1>5, FirstIn
<1>7. g[v] = k[v]
  BY <1>2, <1>3, <1>4, <1>6
<1>8. g[u] = f[First(u)] + g[v]
  BY <1>4, <1>5, AddsStep
<1>9. k[u] = e[First(u)] + k[v]
  BY <1>4, <1>5, AddsStep
<1>10. f[First(u)] = e[First(u)]
  BY <1>4, <1>6
<1> QED
  BY <1>4, <1>7, <1>8, <1>9, <1>10

\* Every finite set has a sum.
LEMMA AddsExists ==
  ASSUME NEW S, IsFiniteSet(S), NEW f
  PROVE  \E g : Adds(g, S, f)
<1> DEFINE B == {s \in SUBSET S : ~ \E g : Adds(g, s, f)}
<1> SUFFICES ASSUME B # {} PROVE FALSE
  BY Zenon
<1>0. B \subseteq SUBSET S /\ \A s : s \in B <=> s \subseteq S /\ ~ \E g : Adds(g, s, f)
  BY Zenon
<1> HIDE DEF B
<1>1. PICK s \in B : \A u \in B : u \subseteq s => u = s
  BY <1>0, MinimalSubset
<1>2. s \subseteq S /\ ~ \E g : Adds(g, s, f)
  BY <1>0, <1>1
<1> DEFINE G(u) == CHOOSE g : Adds(g, u, f)
<1>3. ASSUME NEW u, u \subseteq s, u # s
      PROVE  Adds(G(u), u, f) /\ IsFiniteSet(u)
  <2>0. u \subseteq S /\ u \notin B
    BY <1>1, <1>2, <1>3
  <2>1. \E g : Adds(g, u, f)
    BY <1>0, <2>0, Zenon
  <2>2. IsFiniteSet(u)
    BY <1>2, <1>3, FS_Subset
  <2> QED
    BY <2>1, <2>2, Zenon
<1> HIDE DEF G
<1> DEFINE Before(u) == f[First(u)] + G(u \ {First(u)})[u \ {First(u)}]
           h == [u \in SUBSET s |-> IF u = {} THEN 0 ELSE Before(u)]
<1>4. ASSUME NEW u, u \subseteq s, u # s
      PROVE  h[u] = G(u)[u]
  <2>1. Adds(G(u), u, f) /\ IsFiniteSet(u)
    BY <1>3, <1>4
  <2>2. CASE u = {}
    BY <2>1, <2>2, AddsStep
  <2>3. CASE u # {}
    <3> DEFINE v == u \ {First(u)}
    <3>1. v \subseteq u /\ v # s /\ v \subseteq s
      BY <1>4, <2>3, FirstIn
    <3>2. Adds(G(v), v, f) /\ IsFiniteSet(v)
      BY <1>3, <3>1
    <3>3. G(u)[v] = G(v)[v]
      BY <2>1, <3>1, <3>2, AddsAgree
    <3>4. G(u)[u] = f[First(u)] + G(u)[v]
      BY <2>1, <2>3, AddsStep
    <3>5. h[u] = f[First(u)] + G(v)[v]
      BY <1>4, <2>3
    <3> QED
      BY <3>3, <3>4, <3>5
  <2> QED
    BY <2>2, <2>3
<1>5. ASSUME NEW u \in SUBSET s, u # {}
      PROVE  Before(u) = f[First(u)] + h[u \ {First(u)}]
  <2> DEFINE v == u \ {First(u)}
  <2>1. v \subseteq s /\ v # s
    BY <1>5, FirstIn
  <2>2. h[v] = G(v)[v]
    BY <1>4, <2>1
  <2> QED
    BY <2>2
<1> HIDE DEF Before
<1>6. h = [u \in SUBSET s |-> IF u = {} THEN 0 ELSE f[First(u)] + h[u \ {First(u)}]]
  BY <1>5, Zenon
<1>7. Adds(h, s, f)
  BY <1>6 DEF Adds
<1> QED
  BY <1>2, <1>7

\* A sum of natural numbers is one.
LEMMA AddsNat ==
  ASSUME NEW S, IsFiniteSet(S), NEW f, \A x \in S : f[x] \in Nat, NEW g, Adds(g, S, f),
         NEW s \in SUBSET S
  PROVE  g[s] \in Nat
<1> DEFINE B == {u \in SUBSET S : g[u] \notin Nat}
<1> SUFFICES ASSUME B # {} PROVE FALSE
  BY Zenon
<1>0. B \subseteq SUBSET S /\ \A u : u \in B <=> u \subseteq S /\ g[u] \notin Nat
  OBVIOUS
<1> HIDE DEF B
<1>1. PICK u \in B : \A v \in B : v \subseteq u => v = u
  BY <1>0, MinimalSubset
<1>2. u \in SUBSET S /\ g[u] \notin Nat
  BY <1>0, <1>1
<1>3. u # {}
  <2>1. u = {} => g[u] = 0
    BY <1>2, AddsStep
  <2> QED
    BY <1>2, <2>1
<1> DEFINE v == u \ {First(u)}
<1>4. First(u) \in u /\ v \subseteq u /\ v # u
  BY <1>3, FirstIn
<1>5. g[v] \in Nat
  BY <1>0, <1>1, <1>2, <1>4
<1>6. g[u] = f[First(u)] + g[v]
  BY <1>2, <1>3, AddsStep
<1>7. f[First(u)] \in Nat
  BY <1>2, <1>4
<1> QED
  BY <1>2, <1>5, <1>6, <1>7

\* Any element of a set may be taken out first.
LEMMA AddsAny ==
  ASSUME NEW S, IsFiniteSet(S), NEW f, \A x \in S : f[x] \in Nat, NEW g, Adds(g, S, f),
         NEW s \in SUBSET S, NEW y \in s
  PROVE  g[s] = f[y] + g[s \ {y}]
<1> DEFINE B == {u \in SUBSET S : \E z \in u : g[u] # f[z] + g[u \ {z}]}
<1> SUFFICES ASSUME B # {} PROVE FALSE
  BY Zenon
<1>0. B \subseteq SUBSET S
      /\ \A u : u \in B <=> u \subseteq S /\ \E z \in u : g[u] # f[z] + g[u \ {z}]
  OBVIOUS
<1> HIDE DEF B
<1>1. PICK u \in B : \A v \in B : v \subseteq u => v = u
  BY <1>0, MinimalSubset
<1>2. u \in SUBSET S
  BY <1>0, <1>1
<1>3. PICK z \in u : g[u] # f[z] + g[u \ {z}]
  BY <1>0, <1>1
<1>4. u # {}
  BY <1>3
<1>5. PICK x \in u : g[u] = f[x] + g[u \ {x}]
  <2>1. First(u) \in u
    BY <1>4, FirstIn
  <2>2. g[u] = f[First(u)] + g[u \ {First(u)}]
    BY <1>2, <1>4, AddsStep
  <2> QED
    BY <2>1, <2>2
<1>6. x # z
  BY <1>3, <1>5
<1>7. \A v, y2 : v \subseteq u /\ v # u /\ y2 \in v => g[v] = f[y2] + g[v \ {y2}]
  BY <1>0, <1>1, <1>2
<1> DEFINE w == (u \ {x}) \ {z}
<1>8. g[u \ {x}] = f[z] + g[w]
  BY <1>3, <1>5, <1>6, <1>7
<1>9. g[u \ {z}] = f[x] + g[w]
  <2>1. w = (u \ {z}) \ {x}
    OBVIOUS
  <2> QED
    BY <1>3, <1>5, <1>6, <1>7, <2>1, ZenonT(60)
<1>10. f[x] \in Nat /\ f[z] \in Nat
  BY <1>2, <1>3, <1>5
<1>11. g[w] \in Nat
  <2>1. w \in SUBSET S
    BY <1>2
  <2> QED
    BY <2>1, AddsNat
<1> HIDE DEF w
<1> QED
  BY <1>3, <1>5, <1>8, <1>9, <1>10, <1>11

\* The same, for the set that grows.
LEMMA AddsOneMore ==
  ASSUME NEW S, NEW T, NEW f, NEW e, NEW g, NEW k, NEW y,
         Adds(g, S, f), Adds(k, T, e),
         IsFiniteSet(S), y \notin S, T = S \cup {y},
         \A x \in S : f[x] \in Nat, \A x \in S : e[x] = f[x], e[y] \in Nat
  PROVE  k[T] = g[S] + e[y]
<1>1. IsFiniteSet(T)
  BY FS_AddElement
<1>2. \A x \in T : e[x] \in Nat
  OBVIOUS
<1>3. T \in SUBSET T /\ y \in T /\ T \ {y} = S /\ S \subseteq T
  OBVIOUS
<1>5. k[T] = e[y] + k[S]
  <2>1. k[T] = e[y] + k[T \ {y}]
    BY <1>1, <1>2, <1>3, AddsAny
  <2> QED
    BY <2>1, <1>3
<1>6. g[S] = k[S]
  BY <1>3, AddsAgree
<1>7. g[S] \in Nat
  BY AddsNat
<1> QED
  BY <1>5, <1>6, <1>7

--------------------------------------------------------------------------------
(* Capacity *)

\* What the databases of T reserve.
Total(rows, T) == MapThenSumSet(LAMBDA i : rows[i].size, T)

LEMMA TotalAdds ==
  ASSUME NEW rows, NEW T, IsFiniteSet(T)
  PROVE  \E g : Adds(g, T, [i \in T |-> rows[i].size]) /\ Total(rows, T) = g[T]
<1> DEFINE size == [i \in T |-> rows[i].size]
           Fold(g) == [s \in SUBSET T |-> IF s = {} THEN 0
                                          ELSE rows[First(s)].size + g[s \ {First(s)}]]
           k == CHOOSE g : g = Fold(g)
<1>1. Total(rows, T) = k[T]
  BY DEF Total, MapThenSumSet, MapThenFoldSet, First
<1>2. ASSUME NEW g PROVE Adds(g, T, size) <=> g = Fold(g)
  <2>1. ASSUME NEW s \in SUBSET T, s # {}
        PROVE  size[First(s)] = rows[First(s)].size
    BY <2>1, FirstIn
  <2> HIDE DEF size
  <2>2. Fold(g) = [s \in SUBSET T |-> IF s = {} THEN 0
                                      ELSE size[First(s)] + g[s \ {First(s)}]]
    BY <2>1
  <2> QED
    BY <2>2, Zenon DEF Adds
<1> HIDE DEF Fold, size
<1>3. PICK g : Adds(g, T, size)
  BY AddsExists, Zenon
<1>4. k = Fold(k)
  BY <1>2, <1>3, Zenon
<1> QED
  BY <1>1, <1>2, <1>4, Zenon DEF size

\* One database more reserves its own size more.
LEMMA TotalOneMore ==
  ASSUME NEW T, NEW U, NEW rows, NEW later, NEW y, NEW n,
         IsFiniteSet(T), y \notin T, U = T \cup {y},
         \A i \in T : rows[i].size \in Nat /\ later[i].size = rows[i].size,
         n \in Nat, later[y].size = n
  PROVE  Total(later, U) = Total(rows, T) + n
<1> DEFINE f == [i \in T |-> rows[i].size]
           e == [i \in U |-> later[i].size]
<1>1. IsFiniteSet(U)
  BY FS_AddElement
<1>2. /\ \A i \in T : f[i] \in Nat
      /\ \A i \in T : e[i] = f[i]
      /\ e[y] \in Nat /\ e[y] = n
  OBVIOUS
<1>3. PICK g : Adds(g, T, f) /\ Total(rows, T) = g[T]
  BY TotalAdds, Zenon
<1>4. PICK k : Adds(k, U, e) /\ Total(later, U) = k[U]
  BY <1>1, TotalAdds, Zenon
<1> HIDE DEF f, e
<1>5. \A i \in T : f[i] \in Nat
  BY <1>2
<1>6. \A i \in T : e[i] = f[i]
  BY <1>2
<1>7. e[y] \in Nat
  BY <1>2
<1>8. Adds(g, T, f)
  BY <1>3
<1>9. Adds(k, U, e)
  BY <1>4
<1>10. k[U] = g[T] + e[y]
  BY <1>5, <1>6, <1>7, <1>8, <1>9, AddsOneMore
<1> QED
  BY <1>2, <1>3, <1>4, <1>10

\* Only CreateInstance writes a row where there was none.
LEMMA PlacedStep ==
  ASSUME IInv, Next
  PROVE  \/ \A i \in Instances : instance[i] = NoInstance => instance'[i] = NoInstance
         \/ \E c \in Clients, i \in Instances : CreateInstance(c, i)
<1> DEFINE Same == \A i \in Instances : instance[i] = NoInstance => instance'[i] = NoInstance
<1>0. instance \in [Instances -> InstanceRow \cup {NoInstance}]
  BY DEF IInv, TypeOK
<1>1. ASSUME UNCHANGED instance PROVE Same
  BY <1>1
<1>2. ASSUME NEW h \in Hosts, DeleteHost(h) PROVE Same
  BY <1>0, <1>2 DEF DeleteHost
<1>3. ASSUME NEW i \in Instances, DeleteInstance(i) \/ Revive(i) PROVE Same
  BY <1>0, <1>3 DEF DeleteInstance, Revive, Live, NoInstance
<1> HIDE DEF Same
<1>4. CASE UNCHANGED instance
  BY <1>1, <1>4 DEF Same
<1>5. CASE \E h \in Hosts : DeleteHost(h)
  BY <1>2, <1>5 DEF Same
<1>6. CASE \E i \in Instances : DeleteInstance(i) \/ Revive(i)
  BY <1>3, <1>6 DEF Same
<1>7. UNCHANGED instance \/ (\E h \in Hosts : DeleteHost(h))
      \/ (\E i \in Instances : DeleteInstance(i) \/ Revive(i))
      \/ (\E c \in Clients, i \in Instances : CreateInstance(c, i))
  BY DEF Next, RegisterHost, ReadForUpdate, ReadForProbe, SelectHost, InsertProbe, UpdateHost, Reject,
         StartProbe, FinishProbe, DropProbe, StartPoll, FinishPoll, Crash
<1> QED
  BY <1>4, <1>5, <1>6, <1>7

\* What CreateInstance does to the rows.
LEMMA CreateRows ==
  ASSUME IInv, NEW c \in Clients, NEW i \in Instances, CreateInstance(c, i)
  PROVE  /\ instance[i] = NoInstance
         /\ instance' = [instance EXCEPT ![i] = NewInstance(request[c])]
         /\ NewInstance(request[c]) \in InstanceRow
         /\ NewInstance(request[c]).status = "live"
         /\ request[c].host \in Hosts
         /\ Used(request[c].host) + NewInstance(request[c]).size <= host[request[c].host].usable
<1>1. /\ request[c].host \in Hosts /\ request[c].port \in UNION Pools
      /\ request[c].size \in Sizes /\ request[c].root \in Roots
  BY RequestTypes DEF IInv, CreateInstance
<1> QED
  BY <1>1 DEF CreateInstance, MayPlace, NewInstance, InstanceRow

\* Finitely many rows have been written.
Finite == IsFiniteSet({i \in Instances : instance[i] # NoInstance})

LEMMA FiniteStep ==
  ASSUME IInv, Finite, [Next]_vars
  PROVE  Finite'
<1> DEFINE Placed == {i \in Instances : instance[i] # NoInstance}
<1>0. IsFiniteSet(Placed)
  BY DEF Finite
<1>1. CASE \A i \in Instances : instance[i] = NoInstance => instance'[i] = NoInstance
  <2>1. Placed' \in SUBSET Placed
    BY <1>1
  <2> HIDE DEF Placed
  <2>2. IsFiniteSet(Placed')
    BY <1>0, <2>1, FS_Subset
  <2> QED
    BY <2>2 DEF Placed, Finite
<1>2. ASSUME NEW c \in Clients, NEW i \in Instances, CreateInstance(c, i)
      PROVE  Finite'
  <2>1. instance \in [Instances -> InstanceRow \cup {NoInstance}]
    BY DEF IInv, TypeOK
  <2>2. Placed' \in SUBSET (Placed \cup {i})
    BY <1>2, <2>1, CreateRows
  <2> HIDE DEF Placed
  <2>3. IsFiniteSet(Placed \cup {i})
    BY <1>0, FS_AddElement
  <2>4. IsFiniteSet(Placed')
    BY <2>2, <2>3, FS_Subset
  <2> QED
    BY <2>4 DEF Placed, Finite
<1>3. CASE UNCHANGED vars
  BY <1>1, <1>3 DEF vars
<1> QED
  BY <1>1, <1>2, <1>3, PlacedStep

LEMMA AdmissionStep ==
  ASSUME IInv, Finite, Next,
         NEW i \in Instances, NEW h \in Hosts,
         instance[i] = NoInstance, instance'[i] # NoInstance, instance'[i].host = h
  PROVE  Used(h)' <= host[h].usable
<1>1. PICK c \in Clients, j \in Instances : CreateInstance(c, j)
  BY PlacedStep
<1>2. instance \in [Instances -> InstanceRow \cup {NoInstance}]
  BY DEF IInv, TypeOK
<1>3. j = i
  BY <1>1, <1>2, CreateRows
<1> DEFINE new == NewInstance(request[c])
<1>4. /\ instance' = [instance EXCEPT ![i] = new]
      /\ new \in InstanceRow /\ new.status = "live"
      /\ new.host = request[c].host
      /\ Used(request[c].host) + new.size <= host[request[c].host].usable
  BY <1>1, <1>3, CreateRows DEF NewInstance
<1> HIDE DEF new
<1>5. instance'[i] = new /\ h = request[c].host
  BY <1>2, <1>4
<1>6. On(h)' = On(h) \cup {i} /\ i \notin On(h)
  BY <1>2, <1>4, <1>5 DEF On, Live, NoInstance
<1>7. IsFiniteSet(On(h))
  <2>1. On(h) \in SUBSET {x \in Instances : instance[x] # NoInstance}
    BY DEF On, Live, NoInstance
  <2> QED
    BY <2>1, FS_Subset DEF Finite
<1>8. \A x \in On(h) : instance[x].size \in Nat /\ instance'[x].size = instance[x].size
  <2> SUFFICES ASSUME NEW x \in On(h)
               PROVE  instance[x].size \in Nat /\ instance'[x].size = instance[x].size
    OBVIOUS
  <2>1. x \in Instances /\ x # i /\ instance[x] \in InstanceRow
    BY <1>2, <1>6 DEF On, Live, NoInstance
  <2> QED
    BY <1>2, <1>4, <2>1, PlacementConstants DEF InstanceRow
<1>9. new.size \in Nat /\ instance'[i].size = new.size
  BY <1>4, <1>5, PlacementConstants DEF InstanceRow
<1>10. Total(instance', On(h)') = Total(instance, On(h)) + new.size
  BY <1>6, <1>7, <1>8, <1>9, TotalOneMore
<1>11. Used(h) = Total(instance, On(h))
  BY DEF Used, Total
<1>12. Used(h)' = Total(instance', On(h)')
  BY DEF Used, Total, MapThenSumSet, MapThenFoldSet
<1> QED
  BY <1>4, <1>5, <1>6, <1>10, <1>11, <1>12

\* A database is only admitted where everything reserved, it included, fits what
\* the last probe found: CreateInstanceTask measures again what selectHost had
\* found, in the transaction that holds the host.
THEOREM AdmissionFits == Spec => AdmittedFits
<1>1. Init => Finite
  <2>1. Init => {i \in Instances : instance[i] # NoInstance} = {}
    BY DEF Init
  <2> QED
    BY <2>1, FS_EmptySet DEF Finite
<1>2. IInv /\ Finite /\ [Next]_vars => Finite'
  BY FiniteStep
<1>3. IInv /\ Finite /\ [Next]_vars =>
        [\A i \in Instances, h \in Hosts :
           instance[i] = NoInstance /\ instance'[i] # NoInstance /\ instance'[i].host = h
             => Used(h)' <= host[h].usable]_vars
  BY AdmissionStep
<1> QED
  BY Invariance, <1>1, <1>2, <1>3, PTL DEF Spec, AdmittedFits

================================================================================
