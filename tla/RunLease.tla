------------------------------ MODULE RunLease ------------------------------
(***************************************************************************)
(* The lease of one workflow run: app/workflow_runtime/run_lease.py.       *)
(*                                                                         *)
(* A controller that executes a run writes itself into run["run_lease"]    *)
(* with an expiry time and a fencing token, renews it from a heartbeat,    *)
(* and releases it when the execution ends. Every function of the file     *)
(* reads and writes the run record inside one store transaction, so each   *)
(* of them is one action here.                                             *)
(*                                                                         *)
(* The clock is abstracted to the time a lease has left (expires_at - now) *)
(* so that no variable grows with time.                                    *)
(***************************************************************************)
EXTENDS Integers

CONSTANTS
  Owner,     \* the owner ids ("host:pid") controllers present
  Nobody,    \* the owner of the empty lease
  TTL,       \* lease_ttl_seconds(), in clock ticks
  MaxToken   \* bound: the run is not acquired afresh past this token

Assumptions ==
  /\ Nobody \notin Owner
  /\ TTL \in Nat \ {0}
  /\ MaxToken \in Nat

VARIABLES
  lease,   \* run["run_lease"]
  last,    \* run["last_run_lease"]["fencing_token"], 0 if there is none
  epoch,   \* run["run_lease_epoch"], 0 if there is none
  grants   \* history: every [owner, token] acquire_run_lease ever returned

vars == <<lease, last, epoch, grants>>

LeaseRec == [owner : Owner \cup {Nobody}, token : 0..MaxToken, left : 0..TTL]
Grant    == [owner : Owner, token : 1..MaxToken]
NoLease  == [owner |-> Nobody, token |-> 0, left |-> 0]

-----------------------------------------------------------------------------
(* The functions of the file, on a lease record l.                         *)

Expired(l) == l.left = 0

LargerOf(a, b) == IF a >= b THEN a ELSE b

NextFencingToken(l, lastToken, lastEpoch) ==
  LargerOf(l.token, LargerOf(lastToken, lastEpoch)) + 1

HeldBy(l, o) == l # NoLease /\ ~Expired(l) /\ l.owner = o

HeldByOther(l, o) == l # NoLease /\ ~Expired(l) /\ l.owner # o

\* assert_run_lease does not raise for owner o and fencing token k.
Asserts(l, o, k) == HeldBy(l, o) /\ l.token = k

\* Mutant: an owner keeps its token although its lease had expired.
MutAcquiredReuse(l, lastToken, lastEpoch, o) ==
  [owner |-> o,
   token |-> IF l.owner = o THEN l.token
                            ELSE NextFencingToken(l, lastToken, lastEpoch),
   left  |-> TTL]

\* The lease acquire_run_lease writes for o when no other owner's is alive.
Acquired(l, lastToken, lastEpoch, o) ==
  [owner |-> o,
   token |-> IF HeldBy(l, o) THEN l.token
                             ELSE NextFencingToken(l, lastToken, lastEpoch),
   left  |-> TTL]

-----------------------------------------------------------------------------
Init ==
  /\ lease = NoLease
  /\ last = 0
  /\ epoch = 0
  /\ grants = {}

\* acquire_run_lease, when it does not raise RunLeaseConflict.
Acquire(o) ==
  /\ ~HeldByOther(lease, o)
  /\ HeldBy(lease, o) \/ NextFencingToken(lease, last, epoch) <= MaxToken
  /\ lease' = Acquired(lease, last, epoch, o)
  /\ epoch' = lease'.token
  /\ grants' = grants \cup {[owner |-> o, token |-> lease'.token]}
  /\ UNCHANGED last

\* renew_run_lease with a fencing token some controller was granted, which
\* may be one that was fenced out long ago. It asserts, then acquires.
Renew(g) ==
  /\ g \in grants
  /\ Asserts(lease, g.owner, g.token)
  /\ Acquire(g.owner)

Retire ==
  /\ lease # NoLease
  /\ last' = lease.token
  /\ lease' = NoLease
  /\ UNCHANGED <<epoch, grants>>

\* release_run_lease(owner_id=o): the executor passes no fencing token.
Release(o) == lease.owner = o /\ Retire

\* release_run_lease without an owner: the maintenance repair, which releases
\* what a finished run still holds and what an expired lease still names.
ReleaseAny == Retire

\* One unit of time passes.
Tick ==
  /\ lease.left > 0
  /\ lease' = [lease EXCEPT !.left = @ - 1]
  /\ UNCHANGED <<last, epoch, grants>>

Next ==
  \/ \E o \in Owner : Acquire(o) \/ Release(o)
  \/ \E g \in Grant : Renew(g)
  \/ ReleaseAny
  \/ Tick

Spec == Init /\ [][Next]_vars

-----------------------------------------------------------------------------
(* Properties.                                                             *)

\* Every variable has its type.
TypeOK ==
  /\ lease \in LeaseRec
  /\ last \in 0..MaxToken
  /\ epoch \in 0..MaxToken
  /\ grants \subseteq Grant

\* A grant that passes assert_run_lease is the newest one ever made, and it
\* is the only one with its token: of all the controllers that ever held the
\* run, whatever order they crashed, expired and came back in, at most one
\* gets past the fence, and it is the last to have acquired the run.
OnlyNewestPasses ==
  \A g \in grants : Asserts(lease, g.owner, g.token) =>
    \A h \in grants \ {g} : h.token < g.token

\* A token is never handed to two owners, even when the lease that carried
\* it was released or overwritten and only last_run_lease or the epoch still
\* remembers it.
TokensUnique ==
  \A g, h \in grants : g.token = h.token => g.owner = h.owner

\* Once a grant fails assert_run_lease it fails for ever: a controller whose
\* lease expired, was taken over or was released is never let back in under
\* its old token (no ABA on the token).
FencedForever ==
  [][\A g \in grants : ~Asserts(lease, g.owner, g.token) =>
                         ~Asserts(lease, g.owner, g.token)']_vars

\* The strengthening that makes the two invariants inductive: the epoch bounds
\* every token in existence, and the lease in the run is one that was granted
\* at the current epoch.
EpochBoundsTokens ==
  /\ last <= epoch
  /\ \A g \in grants : g.token <= epoch

LeaseIsGranted ==
  lease # NoLease =>
    /\ lease.owner \in Owner
    /\ lease.token = epoch
    /\ [owner |-> lease.owner, token |-> lease.token] \in grants

FencingInv == TypeOK /\ EpochBoundsTokens /\ LeaseIsGranted /\ TokensUnique

\* While a lease is alive the run passes to another owner only through a
\* release: acquire_run_lease and renew_run_lease never take it.
NoTheft ==
  [][lease # NoLease /\ ~Expired(lease) =>
       lease'.owner \in {lease.owner, Nobody}]_vars

=============================================================================
