------------------------------ MODULE Registry ------------------------------
(***************************************************************************)
(* The registration of the instance in etcd,                               *)
(* sdk/metric/internal/registry/registry_impl.go. Register grants a lease  *)
(* and puts the key with it; a goroutine, the keeper, then keeps the lease *)
(* alive, sleeps and registers anew when that ends, and deletes the key    *)
(* once the context is cancelled, for which the cancelling caller waits.   *)
(*                                                                         *)
(* etcd can be lost for a while. A request under way when it is lost, or   *)
(* when the context is cancelled, fails for the client and may be applied  *)
(* all the same, later. A lease expires unless it is kept alive. Names of  *)
(* leases are used again, so that a round needs no bound of its own.       *)
(***************************************************************************)
EXTENDS Naturals, FiniteSets

CONSTANTS Leases,       \* positive numbers; a lease is granted when one is free
          MaxOutages    \* how often etcd is lost

VARIABLES keeper,       \* where Register and then its goroutine stand
          registering,  \* "no", "running", "failed", "ok": the call of Register
          leaseID,      \* the goroutine's variable, 0 after an error
          ctx,          \* "live" or "cancelled": cctx
          ch,           \* number of elements in the channel of capacity 1
          canceller,    \* "idle", "waiting" in <-ch, "returned": the cancelFunc
          etcd,         \* "up" or "down"
          outages,
          leases,       \* granted and not expired
          keyLease,     \* the lease of the key, 0 when there is no key
          late          \* the lease of a Put given up that may still be applied, or 0

registryVars == <<keeper, registering, leaseID, ctx, ch, canceller, etcd, outages,
                  leases, keyLease, late>>
etcdVars == <<etcd, outages>>

InitRegistry ==
    /\ keeper = "none" /\ registering = "no" /\ leaseID = 0
    /\ ctx = "live" /\ ch = 0 /\ canceller = "idle"
    /\ etcd = "up" /\ outages = 0 /\ leases = {} /\ keyLease = 0 /\ late = 0

\* The client could not be created: Register reports that error and starts nothing.
RegisterWithoutClient ==
    /\ registering = "no" /\ registering' = "failed"
    /\ UNCHANGED <<keeper, leaseID, ctx, ch, canceller, etcdVars, leases, keyLease, late>>

Register ==
    /\ registering = "no"
    /\ registering' = "running" /\ keeper' = "grant"
    /\ UNCHANGED <<leaseID, ctx, ch, canceller, etcdVars, leases, keyLease, late>>

\* register has ended with this lease, 0 for an error. The first time Register fails
\* with it or starts the goroutine; later the goroutine takes the lease for good.
Registered(lease) ==
    /\ leaseID' = lease
    /\ IF registering = "running"
       THEN IF lease = 0
            THEN registering' = "failed" /\ ctx' = "cancelled" /\ keeper' = "none"
            ELSE registering' = "ok" /\ keeper' = "keepAlive" /\ UNCHANGED ctx
       ELSE keeper' = "keepAlive" /\ UNCHANGED <<registering, ctx>>

Reachable == etcd = "up" /\ ctx = "live"

Grant ==
    /\ keeper = "grant" /\ Reachable
    /\ \E l \in Leases \ (leases \union {leaseID, keyLease, late}) :
          leases' = leases \union {l} /\ leaseID' = l
    /\ keeper' = "put"
    /\ UNCHANGED <<registering, ctx, ch, canceller, etcdVars, keyLease, late>>

GrantFails ==
    /\ keeper = "grant" /\ ~Reachable
    /\ Registered(0)
    /\ UNCHANGED <<ch, canceller, etcdVars, leases, keyLease, late>>

\* Mutant: the key is put without its lease, so that it does not expire.
PutForever ==
    /\ keeper = "put" /\ Reachable
    /\ keyLease' = Cardinality(Leases) + 1
    /\ Registered(leaseID)
    /\ UNCHANGED <<ch, canceller, etcdVars, leases, late>>

Put ==
    /\ keeper = "put" /\ Reachable
    /\ keyLease' = leaseID
    /\ Registered(leaseID)
    /\ UNCHANGED <<ch, canceller, etcdVars, leases, late>>

PutFails ==
    /\ keeper = "put" /\ ~Reachable
    /\ late' \in {0, leaseID}
    /\ Registered(0)
    /\ UNCHANGED <<ch, canceller, etcdVars, leases, keyLease>>

\* keepAlive returns, always with an error, when the context is cancelled or there is
\* no such lease any more.
KeepAliveEnds ==
    /\ keeper = "keepAlive"
    /\ ctx = "cancelled" \/ leaseID \notin leases
    /\ keeper' = IF ctx = "cancelled" THEN "unregister" ELSE "sleep"
    /\ UNCHANGED <<registering, leaseID, ctx, ch, canceller, etcdVars, leases, keyLease, late>>

\* The sleep, a third of the TTL or more, is not cut short by the context. It outlasts
\* a Put given up before it.
RegisterAnew ==
    /\ keeper = "sleep" /\ late = 0
    /\ keeper' = "grant"
    /\ UNCHANGED <<registering, leaseID, ctx, ch, canceller, etcdVars, leases, keyLease, late>>

\* The error of the Delete is dropped.
Unregister ==
    /\ keeper = "unregister"
    /\ keyLease' = IF etcd = "up" THEN 0 ELSE keyLease
    /\ ch' = ch + 1 /\ keeper' = "ended"
    /\ UNCHANGED <<registering, leaseID, ctx, canceller, etcdVars, leases, late>>

\* The function Register returned: cancel, then wait for the goroutine.
CancelRegistration ==
    /\ registering = "ok" /\ canceller = "idle"
    /\ ctx' = "cancelled" /\ canceller' = "waiting"
    /\ UNCHANGED <<keeper, registering, leaseID, ch, etcdVars, leases, keyLease, late>>

CancelReturns ==
    /\ canceller = "waiting" /\ ch > 0
    /\ ch' = ch - 1 /\ canceller' = "returned"
    /\ UNCHANGED <<keeper, registering, leaseID, ctx, etcdVars, leases, keyLease, late>>

LoseEtcd ==
    /\ etcd = "up" /\ outages < MaxOutages
    /\ etcd' = "down" /\ outages' = outages + 1
    /\ UNCHANGED <<keeper, registering, leaseID, ctx, ch, canceller, leases, keyLease, late>>

EtcdBack ==
    /\ etcd = "down" /\ etcd' = "up"
    /\ UNCHANGED <<keeper, registering, leaseID, ctx, ch, canceller, outages, leases, keyLease, late>>

KeptAlive(l) ==
    /\ l = leaseID
    /\ keeper = "put" \/ (keeper = "keepAlive" /\ Reachable)

\* A lease takes its key with it. TTLs are long against a request: a lease whose Put is
\* under way does not expire.
Expire ==
    /\ \E l \in leases : /\ ~KeptAlive(l)
                         /\ leases' = leases \ {l}
                         /\ keyLease' = IF keyLease = l THEN 0 ELSE keyLease
    /\ UNCHANGED <<keeper, registering, leaseID, ctx, ch, canceller, etcdVars, late>>

\* etcd refuses a Put with a lease it does not have.
LatePut ==
    /\ late # 0 /\ late' = 0
    /\ keyLease' \in IF late \in leases THEN {keyLease, late} ELSE {keyLease}
    /\ UNCHANGED <<keeper, registering, leaseID, ctx, ch, canceller, etcdVars, leases>>

KeeperNext ==
    Grant \/ GrantFails \/ Put \/ PutFails \/ KeepAliveEnds \/ RegisterAnew \/ Unregister

EtcdNext == LoseEtcd \/ EtcdBack \/ Expire \/ LatePut

RegistryNext == KeeperNext \/ CancelReturns \/ EtcdNext

\* The goroutines run; etcd comes back, lets leases expire and forgets old requests.
RegistryFairness ==
    /\ WF_registryVars(KeeperNext) /\ WF_registryVars(CancelReturns)
    /\ WF_registryVars(EtcdBack) /\ WF_registryVars(Expire) /\ WF_registryVars(LatePut)

-----------------------------------------------------------------------------
(* Properties.                                                             *)

Absent == keyLease = 0

\* A cancelled registration, and one that failed, is gone for good after a while, even
\* if the Delete fails or a Put given up is applied after it (the key then goes with
\* its lease), and the caller of the cancel is released whatever the goroutine was
\* doing, asleep or registering anew (registry_impl.go:97, :105).
CancelledIsGone ==
    /\ (ctx = "cancelled") ~> []Absent
    /\ (canceller = "waiting") ~> (canceller = "returned")

\* As long as nobody cancels, the instance comes back after every outage, although the
\* error of registering anew is dropped and lease 0 kept alive (registry_impl.go:106).
ComesBack == <>[](registering = "ok" /\ ctx = "live" /\ etcd = "up") => <>[](~Absent)
=============================================================================
