------------------------ MODULE RunControllerProofs -------------------------
(***************************************************************************)
(* The lease of a run and its controllers: proofs.                         *)
(*                                                                         *)
(* First of RunLease by itself, for any owners, TTL and number of tokens:  *)
(* what passes the check of the lease is the newest grant, and what failed *)
(* it once fails it for ever. Then of RunController, for any number of     *)
(* processes and tasks of which one process runs at a time: its behaviours *)
(* are behaviours of RunLease, so that the fence is theirs too, and one    *)
(* task writes, which holds the lease.                                     *)
(***************************************************************************)
EXTENDS RunController, TLAPS, FiniteSetTheorems, WellFoundedInduction

-----------------------------------------------------------------------------
(* The invariants of RunController.                                        *)

\* A lease is held at a token above zero.
LeasedRun == {r \in RunRec : r.lease = L!NoLease \/ r.lease.token # 0}

\* What the store and the processes hold has its type.
TypeInv ==
  /\ run \in LeasedRun
  /\ grants \subseteq L!Grant
  /\ task \in [Task -> TaskRec]
  /\ reg \in [Process -> Task \cup {0}]
  /\ phase \in [Process -> Phase]
  /\ snap \in [Process -> {NoSnap} \cup [of : {"store"}, run : LeasedRun]]
  /\ term \in [Process -> Task \cup {NoTerm}]
  /\ toRecover \subseteq Process

AtWork(t) == task[t].pc \notin {"idle", "over"}

\* One process runs, and what executes is its.
OneAlive ==
  /\ \A p, q \in Process : phase[p] \in Alive /\ phase[q] \in Alive => p = q
  /\ \A t \in Task : AtWork(t) => Runs(task[t].proc)

\* Nothing changes the store between a read and the write that follows it.
SnapIsCurrent ==
  \A p \in Process : snap[p] # NoSnap =>
    /\ phase[p] \in {"boot", "up", "closing"}
    /\ snap[p].run = run
    /\ \A t \in Task : task[t].pc \notin Busy

ProcessInv == OneAlive /\ SnapIsCurrent

\* The one task at work is the one that is registered.
AtWorkIsRegistered == \A t \in Task : AtWork(t) => reg[task[t].proc] = t

\* A stop that waits for an agent has marked the run, and finds whatever
\* executes a step then.
TermIsMarked ==
  \A p \in Process : term[p] # NoTerm =>
    run.cancel /\ \A t \in Writing : t = term[p]

\* A run that is executed has a status in which heartbeats renew its lease.
ExecutedIsActive ==
  \A t \in Task :
    /\ t \in Writing => run.status \in HeartbeatStatus
    /\ task[t].pc \in {"acquire", "preflight", "ready"} =>
         run.status \in HeartbeatStatus \/ run.cancel

WritersHoldLease ==
  \A t \in Writing : L!Asserts(run.lease, Me(t), task[t].token)

IInv == /\ AtWorkIsRegistered
        /\ TermIsMarked /\ ExecutedIsActive /\ WritersHoldLease

-----------------------------------------------------------------------------
(* The fence, by RunLease alone. FencingInv is inductive; TokensUnique is not: *)
(* without EpochBoundsTokens a fresh token could repeat one that only grants  *)
(* remembers, and without LeaseIsGranted an owner that acquires its live lease *)
(* again could be handed a token that was never its own.                      *)

\* A token computed by _next_fencing_token exceeds the three numbers it is
\* computed from, so it is fresh whichever of them survived.
LEMMA NextTokenIsFresh ==
  ASSUME NEW l \in L!LeaseRec, NEW t \in Nat, NEW e \in Nat
  PROVE  /\ L!NextFencingToken(l, t, e) \in Nat \ {0}
         /\ L!NextFencingToken(l, t, e) > l.token
         /\ L!NextFencingToken(l, t, e) > t
         /\ L!NextFencingToken(l, t, e) > e
BY DEF L!NextFencingToken, L!LargerOf, L!LeaseRec

LEMMA LeaseInitInv == ASSUME L!Assumptions, L!Init PROVE L!FencingInv
BY DEF L!Assumptions, L!Init, L!FencingInv, L!TypeOK, L!EpochBoundsTokens, L!LeaseIsGranted,
       L!TokensUnique, L!LeaseRec, L!Grant, L!NoLease

\* The two outcomes of acquire_run_lease: the owner extends the lease it
\* holds, or takes the run at a token no grant has.
LEMMA AcquireOutcomes ==
  ASSUME L!Assumptions, L!FencingInv, NEW o \in Owner, L!Acquire(o)
  PROVE  /\ run'.lease = [owner |-> o, token |-> run'.lease.token, left |-> TTL]
         /\ run'.epoch = run'.lease.token
         /\ grants' = grants \cup {[owner |-> o, token |-> run'.lease.token]}
         /\ run'.last = run.last
         /\ run'.lease.token \in 1..MaxToken
         /\ \/ /\ L!HeldBy(run.lease, o)
               /\ run'.lease.token = run.lease.token
               /\ run'.lease.token = run.epoch
               /\ grants' = grants
            \/ /\ ~L!HeldBy(run.lease, o)
               /\ run'.lease.token > run.epoch
<1> USE DEF L!Assumptions
<1>1. run.lease \in L!LeaseRec /\ run.last \in Nat /\ run.epoch \in Nat
  BY DEF L!FencingInv, L!TypeOK
<1>2. CASE L!HeldBy(run.lease, o)
  <2>1. run'.lease = [owner |-> o, token |-> run.lease.token, left |-> TTL]
    BY <1>2 DEF L!Acquire, L!Acquired
  <2>2. run.lease.token = run.epoch /\ [owner |-> o, token |-> run.lease.token] \in grants
    BY <1>2 DEF L!HeldBy, L!FencingInv, L!LeaseIsGranted
  <2>3. run.lease.token \in 1..MaxToken
    BY <2>2 DEF L!FencingInv, L!TypeOK, L!Grant
  <2> QED BY <1>2, <2>1, <2>2, <2>3 DEF L!Acquire
<1>3. CASE ~L!HeldBy(run.lease, o)
  <2> DEFINE t == L!NextFencingToken(run.lease, run.last, run.epoch)
  <2>1. run'.lease = [owner |-> o, token |-> t, left |-> TTL]
    BY <1>3 DEF L!Acquire, L!Acquired
  <2>2. t \in Nat \ {0} /\ t > run.epoch
    BY <1>1, NextTokenIsFresh
  <2>3. t <= MaxToken
    BY <1>3 DEF L!Acquire
  <2> HIDE DEF t
  <2> QED BY <1>3, <2>1, <2>2, <2>3 DEF L!Acquire
<1> QED BY <1>2, <1>3

LEMMA AcquirePreserves ==
  ASSUME L!Assumptions, L!FencingInv, NEW o \in Owner, L!Acquire(o)
  PROVE  L!FencingInv'
<1> USE DEF L!Assumptions
<1> DEFINE k == run'.lease.token
<1>1. /\ run'.lease = [owner |-> o, token |-> k, left |-> TTL]
      /\ run'.epoch = k
      /\ grants' = grants \cup {[owner |-> o, token |-> k]}
      /\ run'.last = run.last
      /\ k \in 1..MaxToken
      /\ k >= run.epoch
  BY AcquireOutcomes DEF L!FencingInv, L!TypeOK
<1>2. k = run.epoch => grants' = grants
  <2>1. grants' = grants \/ k > run.epoch
    BY AcquireOutcomes
  <2> QED BY <2>1 DEF L!FencingInv, L!TypeOK
<1> HIDE DEF k
<1>3. L!TypeOK'
  BY <1>1 DEF L!FencingInv, L!TypeOK, L!LeaseRec, L!Grant
<1>4. L!EpochBoundsTokens'
  BY <1>1 DEF L!FencingInv, L!TypeOK, L!EpochBoundsTokens, L!Grant
<1>5. L!LeaseIsGranted'
  BY <1>1 DEF L!LeaseIsGranted
<1>6. L!TokensUnique'
  <2>1. CASE k = run.epoch
    BY <1>2, <2>1 DEF L!FencingInv, L!TokensUnique
  <2>2. CASE k # run.epoch
    <3>1. \A g \in grants : g.token < k
      BY <1>1, <2>2 DEF L!FencingInv, L!TypeOK, L!EpochBoundsTokens, L!Grant
    <3> QED BY <1>1, <3>1 DEF L!FencingInv, L!TypeOK, L!TokensUnique, L!Grant
  <2> QED BY <2>1, <2>2
<1> QED BY <1>3, <1>4, <1>5, <1>6 DEF L!FencingInv

LEMMA RetirePreserves ==
  ASSUME L!Assumptions, L!FencingInv, L!Retire
  PROVE  L!FencingInv'
<1> USE DEF L!Assumptions
<1>1. /\ run'.lease = L!NoLease /\ run'.last = run.epoch
      /\ run'.epoch = run.epoch /\ grants' = grants
  BY DEF L!Retire, L!FencingInv, L!LeaseIsGranted
<1> QED BY <1>1 DEF L!FencingInv, L!TypeOK, L!LeaseRec, L!NoLease, L!EpochBoundsTokens,
                    L!LeaseIsGranted, L!TokensUnique

LEMMA TickPreserves ==
  ASSUME L!Assumptions, L!FencingInv, L!Tick
  PROVE  L!FencingInv'
<1> USE DEF L!Assumptions
<1>1. /\ run'.lease = [owner |-> run.lease.owner, token |-> run.lease.token,
                   left |-> run.lease.left - 1]
      /\ run.lease.left \in 1..TTL
      /\ run'.last = run.last /\ run'.epoch = run.epoch /\ grants' = grants
  BY DEF L!Tick, L!FencingInv, L!TypeOK, L!LeaseRec
<1>2. run.lease # L!NoLease
  BY <1>1 DEF L!NoLease
<1> QED BY <1>1, <1>2
      DEF L!FencingInv, L!TypeOK, L!LeaseRec, L!EpochBoundsTokens, L!LeaseIsGranted,
          L!TokensUnique

LEMMA LeaseStepInv ==
  ASSUME L!Assumptions, L!FencingInv, [L!Next]_(L!vars)
  PROVE  L!FencingInv'
<1>1. CASE \E o \in Owner : L!Acquire(o)
  BY <1>1, AcquirePreserves
<1>2. CASE \E o \in Owner : L!Release(o)
  BY <1>2, RetirePreserves DEF L!Release
<1>3. CASE \E g \in L!Grant : L!Renew(g)
  <2>1. PICK g \in L!Grant : L!Renew(g)
    BY <1>3
  <2>2. g.owner \in Owner /\ L!Acquire(g.owner)
    BY <2>1 DEF L!Renew, L!Grant
  <2> QED BY <2>2, AcquirePreserves
<1>4. CASE L!ReleaseAny
  BY <1>4, RetirePreserves DEF L!ReleaseAny
<1>5. CASE L!Tick
  BY <1>5, TickPreserves
<1>6. CASE UNCHANGED L!vars
  BY <1>6 DEF L!vars, L!FencingInv, L!TypeOK, L!EpochBoundsTokens, L!LeaseIsGranted,
              L!TokensUnique
<1> QED BY <1>1, <1>2, <1>3, <1>4, <1>5, <1>6 DEF L!Next

\* The inductive invariant holds in every reachable state.
THEOREM Fencing == ASSUME L!Assumptions PROVE L!Spec => []L!FencingInv
<1>1. L!Init => L!FencingInv
  BY LeaseInitInv
<1>2. L!FencingInv /\ [L!Next]_(L!vars) => L!FencingInv'
  BY LeaseStepInv
<1> QED BY <1>1, <1>2, PTL DEF L!Spec

\* run_lease.py keeps its record well typed.
THEOREM TypeCorrect == ASSUME L!Assumptions PROVE L!Spec => []L!TypeOK
<1>1. L!FencingInv => L!TypeOK
  BY DEF L!FencingInv
<1> QED BY <1>1, Fencing, PTL

\* No fencing token ever belongs to two controllers.
THEOREM UniqueTokens == ASSUME L!Assumptions PROVE L!Spec => []L!TokensUnique
<1>1. L!FencingInv => L!TokensUnique
  BY DEF L!FencingInv
<1> QED BY <1>1, Fencing, PTL

\* What passes assert_run_lease is the newest grant.
LEMMA NewestFromInv ==
  ASSUME L!Assumptions PROVE L!FencingInv => L!OnlyNewestPasses
<1> SUFFICES ASSUME L!FencingInv,
                    NEW g \in grants, L!Asserts(run.lease, g.owner, g.token),
                    NEW h \in grants \ {g}
             PROVE  h.token < g.token
  BY DEF L!OnlyNewestPasses
<1>1. g.token = run.epoch
  BY DEF L!Asserts, L!HeldBy, L!FencingInv, L!LeaseIsGranted
<1>2. g \in L!Grant /\ h \in L!Grant /\ h.token <= run.epoch /\ run.epoch \in Nat
  BY DEF L!Assumptions, L!FencingInv, L!TypeOK, L!EpochBoundsTokens
<1>3. h.token # g.token
  BY <1>2 DEF L!FencingInv, L!TokensUnique, L!Grant
<1> QED BY <1>1, <1>2, <1>3 DEF L!Grant

THEOREM NewestPasses == ASSUME L!Assumptions PROVE L!Spec => []L!OnlyNewestPasses
<1> QED BY Fencing, NewestFromInv, PTL

-----------------------------------------------------------------------------
(* The action properties.                                                  *)

\* One step of the module, seen from a grant that failed the assert before.
LEMMA FencedStep ==
  ASSUME L!Assumptions, L!FencingInv, [L!Next]_(L!vars),
         NEW g \in grants, ~L!Asserts(run.lease, g.owner, g.token)
  PROVE  ~L!Asserts(run.lease, g.owner, g.token)'
<1> USE DEF L!Assumptions
<1>1. g.token <= run.epoch /\ g \in L!Grant /\ run.epoch \in Nat
  BY DEF L!FencingInv, L!TypeOK, L!EpochBoundsTokens
<1>2. ASSUME NEW o \in Owner, L!Acquire(o)
      PROVE  ~L!Asserts(run.lease, g.owner, g.token)'
  <2>1. CASE L!HeldBy(run.lease, o) /\ run'.lease.token = run.lease.token
    <3>1. run'.lease.owner = o /\ L!HeldBy(run.lease, run'.lease.owner)
      <4>1. run'.lease = [owner |-> o, token |-> run'.lease.token, left |-> TTL]
        BY <1>2, AcquireOutcomes
      <4> QED BY <2>1, <4>1
    <3> QED BY <2>1, <3>1 DEF L!Asserts, L!HeldBy
  <2>2. CASE run'.lease.token > run.epoch
    BY <1>1, <2>2 DEF L!Asserts, L!Grant
  <2> QED BY <1>2, <2>1, <2>2, AcquireOutcomes
<1>3. CASE L!Retire
  BY <1>3 DEF L!Retire, L!Asserts, L!HeldBy
<1>4. CASE L!Tick
  <2>1. run'.lease.owner = run.lease.owner /\ run'.lease.token = run.lease.token
        /\ run.lease.left > 0
    BY <1>4 DEF L!Tick, L!FencingInv, L!TypeOK, L!LeaseRec
  <2> QED BY <2>1 DEF L!Asserts, L!HeldBy, L!Expired, L!NoLease
<1>5. CASE UNCHANGED L!vars
  BY <1>5 DEF L!vars, L!Asserts, L!HeldBy, L!Expired
<1>6. CASE \E o \in Owner : L!Acquire(o) \/ L!Release(o)
  BY <1>6, <1>2, <1>3 DEF L!Release
<1>7. CASE \E h \in L!Grant : L!Renew(h)
  <2>1. PICK h \in L!Grant : L!Renew(h)
    BY <1>7
  <2> QED BY <2>1, <1>2 DEF L!Renew, L!Grant
<1>8. CASE L!ReleaseAny
  BY <1>8, <1>3 DEF L!ReleaseAny
<1> QED BY <1>4, <1>5, <1>6, <1>7, <1>8 DEF L!Next

\* A controller that was fenced out stays fenced out.
THEOREM FencedOutForEver == ASSUME L!Assumptions PROVE L!Spec => L!FencedForever
<1>1. L!FencingInv /\ [L!Next]_(L!vars) =>
        [\A g \in grants : ~L!Asserts(run.lease, g.owner, g.token) =>
                             ~L!Asserts(run.lease, g.owner, g.token)']_(L!vars)
  BY FencedStep
<1> QED BY <1>1, Fencing, PTL DEF L!Spec, L!FencedForever

\* A live lease changes hands only by being released.
LEMMA NoTheftStep ==
  ASSUME L!Assumptions, L!FencingInv, [L!Next]_(L!vars),
         run.lease # L!NoLease, ~L!Expired(run.lease)
  PROVE  run'.lease.owner \in {run.lease.owner, Nobody}
<1>1. ASSUME NEW o \in Owner, L!Acquire(o)
      PROVE  run'.lease.owner = run.lease.owner
  <2>1. run'.lease = [owner |-> o, token |-> run'.lease.token, left |-> TTL]
    BY <1>1, AcquireOutcomes
  <2> QED BY <1>1, <2>1 DEF L!Acquire, L!HeldByOther
<1>2. ASSUME NEW h \in L!Grant, L!Renew(h)
      PROVE  run'.lease.owner = run.lease.owner
  BY <1>2, <1>1 DEF L!Renew, L!Grant
<1>3. CASE L!Retire
  BY <1>3 DEF L!Retire, L!NoLease
<1>4. CASE L!Tick
  BY <1>4 DEF L!Tick, L!FencingInv, L!TypeOK, L!LeaseRec
<1> QED BY <1>1, <1>2, <1>3, <1>4 DEF L!Next, L!Release, L!ReleaseAny, L!vars

THEOREM LiveLeaseIsNotTaken == ASSUME L!Assumptions PROVE L!Spec => L!NoTheft
<1>1. L!FencingInv /\ [L!Next]_(L!vars) =>
        [run.lease # L!NoLease /\ ~L!Expired(run.lease) =>
           (run.lease)'.owner \in {run.lease.owner, Nobody}]_(L!vars)
  BY NoTheftStep
<1> QED BY <1>1, Fencing, PTL DEF L!Spec, L!NoTheft


-----------------------------------------------------------------------------
(* RunController: types.                                                   *)

\* What the requests, the repairs and the clock make of a run record is one.
LEMMA RunTyped ==
  ASSUME Assumptions, NEW r \in LeasedRun, NEW p \in Process
  PROVE  /\ r.lease \in L!LeaseRec /\ r.last \in 0..MaxToken
         /\ r.epoch \in 0..MaxToken /\ r.status \in RunStatus
         /\ Retired(r) \in LeasedRun /\ Aged(r) \in LeasedRun
         /\ Reset(r) \in LeasedRun /\ Resumed(r) \in LeasedRun
         /\ CancelMarked(r) \in LeasedRun /\ CancelledDirectly(r) \in LeasedRun
         /\ MonitorRepaired(p, r) \in LeasedRun /\ Interrupted(p, r) \in LeasedRun
<1>1. /\ r.lease \in L!LeaseRec /\ r.last \in 0..MaxToken
      /\ r.epoch \in 0..MaxToken /\ r.status \in RunStatus
  BY DEF LeasedRun, RunRec
<1>2. L!NoLease \in L!LeaseRec /\ r.lease.token \in 0..MaxToken
  BY <1>1 DEF Assumptions, L!Assumptions, L!LeaseRec, L!NoLease
<1>3. Retired(r) \in LeasedRun
  BY <1>2 DEF Retired, LeasedRun, RunRec
<1>4. Aged(r) \in LeasedRun
  <2>1. [r.lease EXCEPT !.left = IF @ > 0 THEN @ - 1 ELSE 0] \in L!LeaseRec
    BY <1>1 DEF Assumptions, L!Assumptions, L!LeaseRec
  <2>2. r.lease = L!NoLease =>
          [r.lease EXCEPT !.left = IF @ > 0 THEN @ - 1 ELSE 0] = L!NoLease
    BY DEF L!NoLease
  <2>3. /\ Aged(r) \in RunRec
        /\ Aged(r).lease = [r.lease EXCEPT !.left = IF @ > 0 THEN @ - 1 ELSE 0]
    BY <2>1 DEF Aged, LeasedRun, RunRec
  <2>4. Aged(r).lease.token = r.lease.token
    BY <1>1, <2>3 DEF L!LeaseRec
  <2> QED BY <2>2, <2>3, <2>4 DEF LeasedRun
<1>5. Reset(r) \in LeasedRun /\ Resumed(r) \in LeasedRun
  BY DEF Reset, Resumed, LeasedRun, RunRec, RunStatus, ErrorCode
<1>6. CancelMarked(r) \in LeasedRun /\ CancelledDirectly(r) \in LeasedRun
  BY DEF CancelMarked, CancelledDirectly, LeasedRun, RunRec, RunStatus
<1>7. [Retired(r) EXCEPT !.status = "failed", !.recoverable = TRUE,
                         !.code = "RUN_LEASE_EXPIRED"] \in LeasedRun
  BY <1>3 DEF LeasedRun, RunRec, RunStatus, ErrorCode
<1>8. MonitorRepaired(p, r) \in LeasedRun
  BY <1>3, <1>7 DEF MonitorRepaired
<1>9. Interrupted(p, r) \in LeasedRun
  BY DEF Interrupted, LeasedRun, RunRec, RunStatus, ErrorCode
<1> QED BY <1>1, <1>3, <1>4, <1>5, <1>6, <1>8, <1>9

\* The lease acquire_run_lease writes, below the bound on tokens.
LEMMA AcquiredTyped ==
  ASSUME Assumptions, NEW r \in LeasedRun, NEW o \in Owner
  PROVE  LET l == L!Acquired(r.lease, r.last, r.epoch, o)
         IN  /\ l.token # 0
             /\ l.token <= MaxToken => l \in L!LeaseRec
<1> DEFINE l == L!Acquired(r.lease, r.last, r.epoch, o)
<1>1. r.lease \in L!LeaseRec /\ r.last \in Nat /\ r.epoch \in Nat
  BY RunTyped DEF Assumptions, L!Assumptions, LeasedRun, RunRec
<1>2. l.token \in Nat \ {0}
  <2>1. L!NextFencingToken(r.lease, r.last, r.epoch) \in Nat \ {0}
    BY <1>1, NextTokenIsFresh
  <2>2. L!HeldBy(r.lease, o) => r.lease.token \in Nat \ {0}
    BY <1>1 DEF L!HeldBy, LeasedRun, L!LeaseRec, Assumptions, L!Assumptions
  <2> QED BY <2>1, <2>2 DEF L!Acquired
<1>3. l = [owner |-> o, token |-> l.token, left |-> TTL]
  BY DEF L!Acquired
<1>4. l.token <= MaxToken => l \in L!LeaseRec
  <2> HIDE DEF l
  <2> QED BY <1>2, <1>3 DEF L!LeaseRec, Assumptions, L!Assumptions
<1> QED BY <1>2, <1>4

\* The steps of a task's coroutine.
LEMMA TaskTyped ==
  ASSUME TypeInv, NEW t \in Task
  PROVE  /\ task[t] \in TaskRec /\ task[t].proc \in Process
         /\ task[t].pc \in TaskPc /\ task[t].out \in Outcome
         /\ \A pc \in TaskPc : Goto(t, pc) => task' \in [Task -> TaskRec]
         /\ \A out \in Outcome : GotoMark(t, out) => task' \in [Task -> TaskRec]
         /\ CancelTask(t) => task' \in [Task -> TaskRec]
<1>1. /\ task[t] \in TaskRec /\ task[t].proc \in Process
      /\ task[t].pc \in TaskPc /\ task[t].out \in Outcome
  BY DEF TypeInv, TaskRec
<1>2. ASSUME NEW pc \in TaskPc, NEW out \in Outcome
      PROVE  /\ [task[t] EXCEPT !.pc = pc] \in TaskRec
             /\ [task[t] EXCEPT !.pc = pc, !.out = out] \in TaskRec
  BY <1>1 DEF TaskRec
<1>3. ASSUME NEW pc \in TaskPc, Goto(t, pc) PROVE task' \in [Task -> TaskRec]
  <2>1. task' = [task EXCEPT ![t] = [task[t] EXCEPT !.pc = pc]]
    BY <1>3 DEF Goto, TypeInv
  <2>2. [task[t] EXCEPT !.pc = pc] \in TaskRec
    BY <1>1 DEF TaskRec
  <2> QED BY <2>1, <2>2 DEF TypeInv
<1>4. ASSUME NEW out \in Outcome, GotoMark(t, out) PROVE task' \in [Task -> TaskRec]
  <2>1. task' = [task EXCEPT ![t] = [task[t] EXCEPT !.pc = "mark", !.out = out]]
    BY <1>4 DEF GotoMark, TypeInv
  <2> QED BY <1>2, <2>1 DEF TypeInv, TaskPc
<1>5. CancelTask(t) => task' \in [Task -> TaskRec]
  BY <1>3, <1>4 DEF CancelTask, TaskPc, Outcome
<1> QED BY <1>1, <1>3, <1>4, <1>5

\* Starting a task, by a request or the recovery.
LEMMA StartTyped ==
  ASSUME Assumptions, TypeInv, NEW p \in Process, NEW r \in LeasedRun,
         NEW auto \in BOOLEAN, StartWorkflowTask(p, r, auto)
  PROVE  /\ run' \in LeasedRun /\ task' \in [Task -> TaskRec]
         /\ reg' \in [Process -> Task \cup {0}]
<1> DEFINE new == [pc |-> "created", proc |-> p, token |-> 0, out |-> "none",
                   auto |-> auto]
<1>1. PICK t \in Task : task' = [task EXCEPT ![t] = new] /\ reg' = [reg EXCEPT ![p] = t]
  BY DEF StartWorkflowTask
<1>2. new \in TaskRec
  BY DEF TaskRec, TaskPc, Outcome, Assumptions, L!Assumptions
<1>3. run' \in LeasedRun
  BY DEF StartWorkflowTask
<1> HIDE DEF new
<1> QED BY <1>1, <1>2, <1>3 DEF TypeInv

LEMMA KillTyped ==
  ASSUME TypeInv, NEW p \in Process, KillTasks(p) PROVE task' \in [Task -> TaskRec]
<1>1. \A t \in Task : [task[t] EXCEPT !.pc = "over"] \in TaskRec
  BY DEF TypeInv, TaskRec, TaskPc
<1> QED BY <1>1 DEF KillTasks, TypeInv

\* The first task exists.
LEMMA FirstTaskIsTask == ASSUME Assumptions PROVE FirstTask \in Task
<1>1. \E t \in Task : \A u \in Task : ~(<<u, t>> \in OpToRel(<, Nat))
  <2>1. Task \subseteq Nat /\ Task # {}
    BY DEF Assumptions
  <2> QED BY <2>1, WFMin, NatLessThanWellFounded, Zenon
<1>2. \A t, u \in Task : ~(<<u, t>> \in OpToRel(<, Nat)) => ~(u < t)
  <2>1. Task \subseteq Nat
    BY DEF Assumptions
  <2> QED BY <2>1, Zenon DEF OpToRel
<1>3. \E t \in Task : \A u \in Task : ~(u < t)
  BY <1>1, <1>2, Zenon
<1>4. \E t \in Task : \A u \in Task : t <= u
  BY <1>3 DEF Assumptions
<1> QED BY <1>4 DEF FirstTask

LEMMA TypeInit == ASSUME Assumptions, Init PROVE TypeInv
<1> USE DEF Assumptions, L!Assumptions
<1>1. run \in LeasedRun
  BY DEF Init, LeasedRun, RunRec, RunStatus, ErrorCode, L!LeaseRec, L!NoLease
<1>2. task \in [Task -> TaskRec]
  BY DEF Init, TaskRec, TaskPc, Outcome
<1> QED BY <1>1, <1>2, FirstTaskIsTask DEF Init, TypeInv, Phase

LEMMA TaskStepTyped ==
  ASSUME Assumptions, TypeInv, NEW t \in Task,
         TaskStep(t) \/ Heartbeat(t) \/ RunTimeout(t)
  PROVE  TypeInv'
<1> USE DEF TaskPc, Outcome
<1>1. Me(t) \in Owner /\ run \in LeasedRun /\ run.lease \in L!LeaseRec
  BY TaskTyped, RunTyped DEF Me, Assumptions, TypeInv, LeasedRun, RunRec
<1>2. \A o, k : L!Asserts(run.lease, o, k) =>
                  [run EXCEPT !.lease.left = TTL] \in LeasedRun
  <2>1. /\ [run.lease EXCEPT !.left = TTL] \in L!LeaseRec
        /\ [run.lease EXCEPT !.left = TTL].token = run.lease.token
    BY <1>1 DEF Assumptions, L!Assumptions, L!LeaseRec
  <2> QED BY <1>1, <2>1 DEF LeasedRun, RunRec, L!Asserts, L!HeldBy
<1>3. CASE Begin(t)
  <2>1. run' \in LeasedRun
    BY <1>1, <1>3 DEF Begin, LeasedRun, RunRec, RunStatus, ErrorCode
  <2>2. task' \in [Task -> TaskRec]
    BY <1>3, TaskTyped DEF Begin
  <2> QED BY <1>3, <2>1, <2>2 DEF Begin, TypeInv
<1>4. CASE AcquireLease(t)
  <2>1. CASE L!HeldByOther(run.lease, Me(t))
    <3>1. task' \in [Task -> TaskRec]
      BY <1>4, <2>1, TaskTyped DEF AcquireLease
    <3> QED BY <1>4, <2>1, <3>1 DEF AcquireLease, TypeInv
  <2>2. CASE ~L!HeldByOther(run.lease, Me(t))
    <3> DEFINE l == L!Acquired(run.lease, run.last, run.epoch, Me(t))
    <3>1. /\ l.token <= MaxToken
          /\ run' = [run EXCEPT !.lease = l, !.epoch = l.token]
          /\ grants' = grants \cup {[owner |-> Me(t), token |-> l.token]}
          /\ task' = [task EXCEPT ![t].pc = "preflight", ![t].token = l.token]
      BY <1>4, <2>2 DEF AcquireLease
    <3>2. l \in L!LeaseRec /\ l.token \in 1..MaxToken /\ l.token \in 0..MaxToken /\ l.token # 0
      <4>1. l \in L!LeaseRec
        BY <1>1, <3>1, AcquiredTyped
      <4>2. l.token # 0
        BY <1>1, AcquiredTyped
      <4> QED BY <4>1, <4>2 DEF L!LeaseRec, Assumptions, L!Assumptions
    <3> HIDE DEF l
    <3>3. run' \in LeasedRun
      BY <1>1, <3>1, <3>2 DEF LeasedRun, RunRec
    <3>4. grants' \subseteq L!Grant
      BY <1>1, <3>1, <3>2 DEF TypeInv, L!Grant
    <3>5. task' \in [Task -> TaskRec]
      <4>1. task' = [task EXCEPT ![t] = [task[t] EXCEPT !.pc = "preflight",
                                                       !.token = l.token]]
        BY <3>1 DEF TypeInv
      <4>2. [task[t] EXCEPT !.pc = "preflight", !.token = l.token] \in TaskRec
        BY <3>2, TaskTyped DEF TaskRec
      <4> QED BY <4>1, <4>2 DEF TypeInv
    <3> QED BY <1>4, <3>3, <3>4, <3>5 DEF AcquireLease, TypeInv
  <2> QED BY <2>1, <2>2
<1>5. CASE PreflightEnds(t)
  <2>1. task' \in [Task -> TaskRec]
    BY <1>5, TaskTyped DEF PreflightEnds
  <2> QED BY <1>5, <2>1 DEF PreflightEnds, TypeInv
<1>6. CASE StartAttempt(t)
  <2>1. task' \in [Task -> TaskRec]
    BY <1>6, TaskTyped DEF StartAttempt
  <2>2. run' \in LeasedRun
    BY <1>1, <1>2, <1>6 DEF StartAttempt
  <2> QED BY <1>6, <2>1, <2>2 DEF StartAttempt, TypeInv
<1>7. CASE StepPasses(t)
  <2>1. task' \in [Task -> TaskRec]
    BY <1>7, TaskTyped DEF StepPasses
  <2> QED BY <1>7, <2>1 DEF StepPasses, TypeInv
<1>8. CASE StepRetries(t)
  <2>1. task' \in [Task -> TaskRec]
    BY <1>8, TaskTyped DEF StepRetries
  <2>2. run' \in LeasedRun
    BY <1>1, <1>8 DEF StepRetries, LeasedRun, RunRec, RunStatus, ErrorCode
  <2> QED BY <1>8, <2>1, <2>2 DEF StepRetries, TypeInv
<1>9. CASE StepStops(t)
  <2>1. task' \in [Task -> TaskRec]
    BY <1>9, TaskTyped DEF StepStops
  <2> QED BY <1>9, <2>1 DEF StepStops, TypeInv
<1>10. CASE Delivered(t)
  <2>1. task' \in [Task -> TaskRec]
    BY <1>10, TaskTyped DEF Delivered
  <2> QED BY <1>10, <2>1 DEF Delivered, TypeInv
<1>11. CASE Mark(t)
  <2>1. task' \in [Task -> TaskRec]
    BY <1>11, TaskTyped DEF Mark
  <2>2. run' \in LeasedRun
    <3> DEFINE target == MarkTarget(task[t].out)
    <3>1. \/ run' = run
          \/ /\ target \in RunTransitions[run.status]
             /\ run' = [run EXCEPT !.status = target,
                           !.code = IF target = "done" THEN "none" ELSE "other"]
      BY <1>11 DEF Mark
    <3>2. run.status \in RunStatus
      BY <1>1 DEF LeasedRun, RunRec
    <3>3. target \in RunTransitions[run.status] => target \in RunStatus
      BY <3>2 DEF RunTransitions, RunStatus
    <3> HIDE DEF target
    <3> QED BY <1>1, <3>1, <3>3 DEF LeasedRun, RunRec, ErrorCode
  <2> QED BY <1>11, <2>1, <2>2 DEF Mark, TypeInv
<1>12. CASE ReleaseLease(t)
  <2>1. task' \in [Task -> TaskRec]
    BY <1>12, TaskTyped DEF ReleaseLease
  <2>2. run' \in LeasedRun
    BY <1>1, <1>12, RunTyped, TaskTyped DEF ReleaseLease
  <2> QED BY <1>12, <2>1, <2>2 DEF ReleaseLease, TypeInv
<1>13. CASE Overtime(t)
  <2>1. task' \in [Task -> TaskRec]
    BY <1>13, TaskTyped DEF Overtime
  <2>2. run' \in LeasedRun
    BY <1>1, <1>13 DEF Overtime, LeasedRun, RunRec, RunStatus, ErrorCode
  <2> QED BY <1>13, <2>1, <2>2 DEF Overtime, TypeInv
<1>14. CASE Finalize(t)
  <2>1. task' \in [Task -> TaskRec]
    BY <1>14, TaskTyped DEF Finalize
  <2> QED BY <1>14, <2>1 DEF Finalize, TypeInv
<1>15. CASE Heartbeat(t)
  <2>1. task' \in [Task -> TaskRec]
    BY <1>15, TaskTyped DEF Heartbeat, TypeInv
  <2>2. run' \in LeasedRun
    BY <1>1, <1>2, <1>15 DEF Heartbeat
  <2> QED BY <1>15, <2>1, <2>2 DEF Heartbeat, TypeInv
<1>16. CASE RunTimeout(t)
  <2>1. task' \in [Task -> TaskRec]
    BY <1>16, TaskTyped DEF RunTimeout
  <2> QED BY <1>16, <2>1 DEF RunTimeout, TypeInv
<1> QED BY <1>3, <1>4, <1>5, <1>6, <1>7, <1>8, <1>9, <1>10, <1>11, <1>12,
           <1>13, <1>14, <1>15, <1>16 DEF TaskStep

LEMMA ProcessStepTyped ==
  ASSUME Assumptions, TypeInv, NEW p \in Process,
         \/ RetryRun(p) \/ ResumeRun(p)
         \/ TerminateRun(p) \/ TerminateBegins(p) \/ TerminateEnds(p)
         \/ Recovery(p) \/ Shutdown(p) \/ Crash(p)
  PROVE  TypeInv'
<1>1. /\ run \in LeasedRun /\ Reset(run) \in LeasedRun /\ Resumed(run) \in LeasedRun
      /\ CancelMarked(run) \in LeasedRun
      /\ CancelledDirectly(run) \in LeasedRun
      /\ CancelledDirectly(CancelMarked(run)) \in LeasedRun
  BY RunTyped DEF TypeInv
<1>2. \A t : LiveTask(t) => t \in Task
  BY DEF LiveTask
<1>3. TakeSnapshot(p) => snap' \in [Process -> {NoSnap} \cup [of : {"store"}, run : LeasedRun]]
  BY <1>1 DEF TakeSnapshot, TypeInv
<1>4. DropSnapshot(p) => snap' \in [Process -> {NoSnap} \cup [of : {"store"}, run : LeasedRun]]
  BY DEF DropSnapshot, TypeInv
<1>5. snap[p] # NoSnap => snap[p].run \in LeasedRun
  BY DEF TypeInv
<1>6. SaveInterrupted(p) => /\ run' \in LeasedRun /\ DropSnapshot(p)
                            /\ UNCHANGED <<grants, reg, term, toRecover>>
  BY <1>1, <1>5, RunTyped DEF SaveInterrupted
<1>7. CASE RetryRun(p)
  <2>1. StartWorkflowTask(p, Reset(run), FALSE)
    BY <1>7 DEF RetryRun
  <2>2. /\ run' \in LeasedRun /\ task' \in [Task -> TaskRec]
        /\ reg' \in [Process -> Task \cup {0}]
    BY <1>1, <2>1, StartTyped
  <2> QED BY <1>7, <2>2 DEF RetryRun, TypeInv
<1>8. CASE ResumeRun(p)
  <2>1. StartWorkflowTask(p, Resumed(run), FALSE)
    BY <1>8 DEF ResumeRun
  <2>2. /\ run' \in LeasedRun /\ task' \in [Task -> TaskRec]
        /\ reg' \in [Process -> Task \cup {0}]
    BY <1>1, <2>1, StartTyped
  <2> QED BY <1>8, <2>2 DEF ResumeRun, TypeInv
<1>9. CASE TerminateRun(p)
  <2>1. task' \in [Task -> TaskRec]
    BY <1>2, <1>9, TaskTyped DEF TerminateRun, TypeInv
  <2>2. run' \in LeasedRun
    BY <1>1, <1>9 DEF TerminateRun
  <2> QED BY <1>9, <2>1, <2>2 DEF TerminateRun, TypeInv
<1>10. CASE TerminateBegins(p)
  <2>1. term' \in [Process -> Task \cup {NoTerm}]
    BY <1>2, <1>10 DEF TerminateBegins, TypeInv
  <2> QED BY <1>1, <1>10, <2>1 DEF TerminateBegins, TypeInv
<1>11. CASE TerminateEnds(p)
  <2>1. task' \in [Task -> TaskRec]
    BY <1>2, <1>11, TaskTyped DEF TerminateEnds, TypeInv
  <2>2. run' \in LeasedRun
    BY <1>1, <1>11 DEF TerminateEnds
  <2>3. term' \in [Process -> Task \cup {NoTerm}]
    BY <1>11 DEF TerminateEnds, TypeInv
  <2> QED BY <1>11, <2>1, <2>2, <2>3 DEF TerminateEnds, TypeInv
<1>12. CASE MonitorReads(p)
  BY <1>3, <1>12 DEF MonitorReads, TypeInv
<1>13. CASE MonitorWrites(p)
  <2>1. run' \in LeasedRun
    BY <1>5, <1>13, RunTyped DEF MonitorWrites
  <2> QED BY <1>4, <1>13, <2>1 DEF MonitorWrites, TypeInv
<1>14. CASE Boot(p)
  <2>1. phase' \in [Process -> Phase]
    BY <1>14 DEF Boot, TypeInv, Phase
  <2> QED BY <1>3, <1>14, <2>1 DEF Boot, TypeInv
<1>15. CASE BootSaves(p)
  <2>1. phase' \in [Process -> Phase]
    BY <1>15 DEF BootSaves, TypeInv, Phase
  <2> QED BY <1>4, <1>6, <1>15, <2>1 DEF BootSaves, TypeInv
<1>16. CASE AutoResume(p)
  <2>1. phase' \in [Process -> Phase]
    BY <1>16 DEF AutoResume, TypeInv, Phase
  <2>2. /\ run' \in LeasedRun /\ task' \in [Task -> TaskRec]
        /\ reg' \in [Process -> Task \cup {0}]
    BY <1>1, <1>16, StartTyped DEF AutoResume, TypeInv
  <2> QED BY <1>16, <2>1, <2>2 DEF AutoResume, TypeInv
<1>17. CASE CloseReads(p)
  <2>1. reg' \in [Process -> Task \cup {0}]
    BY <1>17 DEF CloseReads, TypeInv
  <2> QED BY <1>3, <1>17, <2>1 DEF CloseReads, TypeInv
<1>18. CASE CloseSaves(p)
  <2>1. phase' \in [Process -> Phase]
    BY <1>18 DEF CloseSaves, TypeInv, Phase
  <2>2. task' \in [Task -> TaskRec]
    BY <1>18, KillTyped DEF CloseSaves
  <2> QED BY <1>4, <1>6, <1>18, <2>1, <2>2 DEF CloseSaves, TypeInv
<1>19. CASE Shutdown(p)
  <2>1. phase' \in [Process -> Phase]
    BY <1>19 DEF Shutdown, TypeInv, Phase
  <2>2. task' \in [Task -> TaskRec]
    BY <1>2, <1>19, TaskTyped DEF Shutdown, TypeInv
  <2>3. term' \in [Process -> Task \cup {NoTerm}]
    BY <1>19 DEF Shutdown, TypeInv
  <2>4. toRecover' \subseteq Process
    BY <1>19 DEF Shutdown, TypeInv
  <2> QED BY <1>19, <2>1, <2>2, <2>3, <2>4 DEF Shutdown, TypeInv
<1>20. CASE Crash(p)
  <2>1. phase' \in [Process -> Phase]
    BY <1>20 DEF Crash, TypeInv, Phase
  <2>2. task' \in [Task -> TaskRec]
    BY <1>20, KillTyped DEF Crash
  <2>3. reg' \in [Process -> Task \cup {0}] /\ term' \in [Process -> Task \cup {NoTerm}]
    BY <1>20 DEF Crash, TypeInv
  <2> QED BY <1>4, <1>20, <2>1, <2>2, <2>3 DEF Crash, TypeInv
<1> QED BY <1>7, <1>8, <1>9, <1>10, <1>11, <1>12, <1>13, <1>14, <1>15, <1>16,
           <1>17, <1>18, <1>19, <1>20 DEF Recovery

LEMMA TickTyped == ASSUME Assumptions, TypeInv, Tick PROVE TypeInv'
<1>1. run' \in LeasedRun
  <2>1. \E p \in Process : TRUE
    BY DEF Assumptions
  <2> QED BY <2>1, RunTyped DEF Tick, TypeInv
<1>2. \A p \in Process :
        AgedSnap(snap[p]) \in {NoSnap} \cup [of : {"store"}, run : LeasedRun]
  <2> SUFFICES ASSUME NEW p \in Process, snap[p] # NoSnap
               PROVE  AgedSnap(snap[p]) \in [of : {"store"}, run : LeasedRun]
    BY DEF AgedSnap
  <2>1. /\ snap[p] = [of |-> "store", run |-> snap[p].run]
        /\ snap[p].run \in LeasedRun /\ Aged(snap[p].run) \in LeasedRun
    BY RunTyped DEF TypeInv
  <2>2. AgedSnap(snap[p]) = [of |-> "store", run |-> Aged(snap[p].run)]
    BY <2>1 DEF AgedSnap
  <2> QED BY <2>1, <2>2
<1>3. snap' \in [Process -> {NoSnap} \cup [of : {"store"}, run : LeasedRun]]
  BY <1>2 DEF Tick
<1> QED BY <1>1, <1>3 DEF Tick, TypeInv

LEMMA TypeStep == ASSUME Assumptions, TypeInv, [Next]_vars PROVE TypeInv'
<1>1. CASE UNCHANGED vars
  BY <1>1 DEF vars, TypeInv
<1>2. CASE Next
  BY <1>2, TaskStepTyped, ProcessStepTyped, TickTyped DEF Next
<1> QED BY <1>1, <1>2

\* Whatever the processes do, the run record, the tasks and what the processes
\* hold keep their types.
THEOREM ControllerTypeCorrect == ASSUME Assumptions PROVE Spec => []TypeOK
<1>1. TypeInv => TypeOK
  BY DEF TypeInv, TypeOK, LeasedRun
<1> QED BY <1>1, TypeInit, TypeStep, PTL DEF Spec


-----------------------------------------------------------------------------
(* RunController with one process at a time: a server that is restarted, and *)
(* no aiwf command beside it.                                               *)

OneAtATime == Assumptions /\ MaxUp = 1

\* What a step of a task's coroutine leaves alone, and where it may run.
LEMMA TaskMoves ==
  ASSUME TypeInv, NEW t \in Task, TaskStep(t) \/ Heartbeat(t) \/ RunTimeout(t)
  PROVE  /\ AtWork(t)
         /\ task[t].pc \in Busy \/ snap[task[t].proc] = NoSnap
         /\ UNCHANGED <<phase, snap, term, toRecover>>
         /\ \A u \in Task : /\ task'[u].proc = task[u].proc
                            /\ u # t => task'[u] = task[u]
<1>1. AtWork(t)
  BY DEF TaskStep, Heartbeat, RunTimeout, Begin, AcquireLease, PreflightEnds,
         StartAttempt, StepPasses, StepRetries, StepStops, Delivered, Mark,
         ReleaseLease, Overtime, Finalize, AtWork, Beating
<1>2. task[t].pc \in Busy \/ snap[task[t].proc] = NoSnap
  BY DEF TaskStep, Heartbeat, RunTimeout, Begin, AcquireLease, PreflightEnds,
         StartAttempt, StepPasses, StepRetries, StepStops, Delivered, Mark,
         ReleaseLease, Overtime, Finalize, Quiet, Busy
<1>3. UNCHANGED <<phase, snap, term, toRecover>>
  BY DEF TaskStep, Heartbeat, RunTimeout, Begin, AcquireLease, PreflightEnds,
         StartAttempt, StepPasses, StepRetries, StepStops, Delivered, Mark,
         ReleaseLease, Overtime, Finalize
<1>4. \/ task' = task
      \/ \E pc : Goto(t, pc)
      \/ \E out : GotoMark(t, out)
      \/ \E k : task' = [task EXCEPT ![t].pc = "preflight", ![t].token = k]
  <2>1. ASSUME AcquireLease(t)
        PROVE  \/ \E pc : Goto(t, pc)
               \/ \E k : task' = [task EXCEPT ![t].pc = "preflight", ![t].token = k]
    BY <2>1 DEF AcquireLease
  <2>2. ASSUME Begin(t) \/ PreflightEnds(t) \/ StartAttempt(t) \/ StepPasses(t)
               \/ StepRetries(t) \/ StepStops(t) \/ Delivered(t)
        PROVE  (\E pc : Goto(t, pc)) \/ (\E out : GotoMark(t, out))
    BY <2>2, Zenon DEF Begin, PreflightEnds, StartAttempt, StepPasses, StepRetries, StepStops,
           Delivered
  <2>3. ASSUME Mark(t) \/ ReleaseLease(t) \/ Overtime(t) \/ Finalize(t)
        PROVE  (\E pc : Goto(t, pc)) \/ (\E out : GotoMark(t, out))
    BY <2>3, Zenon DEF Mark, ReleaseLease, Overtime, Finalize
  <2>4. ASSUME Heartbeat(t) \/ RunTimeout(t)
        PROVE  task' = task \/ (\E out : GotoMark(t, out))
    BY <2>4, Zenon DEF Heartbeat, RunTimeout
  <2> QED BY <2>1, <2>2, <2>3, <2>4 DEF TaskStep
<1>5. \A u \in Task : task'[u].proc = task[u].proc /\ (u # t => task'[u] = task[u])
  BY <1>4 DEF Goto, GotoMark, TypeInv, TaskRec
<1> QED BY <1>1, <1>2, <1>3, <1>5

\* While a coroutine is between two waits, and while the loop of the process
\* that runs is free, no process holds a copy of the store.
LEMMA NobodyReads ==
  ASSUME TypeInv, ProcessInv
  PROVE  /\ \A t \in Task : task[t].pc \in Busy => \A p \in Process : snap[p] = NoSnap
         /\ \A q \in Process : phase[q] \in Alive /\ snap[q] = NoSnap =>
              \A p \in Process : snap[p] = NoSnap
BY DEF ProcessInv, OneAlive, SnapIsCurrent, Alive

\* A process boots when none runs: the only one that could would be counted.
LEMMA BootAlone ==
  ASSUME OneAtATime, OneAlive, NEW p \in Process, Boot(p)
  PROVE  \A q \in Process : phase[q] \notin Alive
<1> SUFFICES ASSUME NEW q \in Process, phase[q] \in Alive PROVE FALSE
  OBVIOUS
<1>1. {r \in Process : phase[r] \in Alive} = {q}
  BY DEF OneAlive
<1>2. Cardinality({q}) = 1
  BY FS_Singleton
<1>3. Cardinality({q}) < 1
  BY <1>1 DEF Boot, OneAtATime
<1> QED BY <1>2, <1>3

LEMMA ProcessInit == ASSUME Assumptions, Init PROVE ProcessInv
<1>1. \A p \in Process : phase[p] \in Alive => p = Creator
  BY DEF Init, Alive
<1>2. \A t \in Task : task[t].proc = Creator
  BY DEF Init
<1>3. phase[Creator] = "up"
  BY DEF Init, Assumptions
<1> QED BY <1>1, <1>2, <1>3 DEF Init, ProcessInv, OneAlive, SnapIsCurrent, Runs

LEMMA ProcessTaskStep ==
  ASSUME OneAtATime, TypeInv, ProcessInv, NEW t \in Task,
         TaskStep(t) \/ Heartbeat(t) \/ RunTimeout(t)
  PROVE  ProcessInv'
<1>1. /\ AtWork(t)
      /\ task[t].pc \in Busy \/ snap[task[t].proc] = NoSnap
      /\ phase' = phase /\ snap' = snap
      /\ \A u \in Task : task'[u].proc = task[u].proc /\ (u # t => task'[u] = task[u])
  BY TaskMoves
<1>2. task[t].proc \in Process /\ phase[task[t].proc] \in Alive
  BY <1>1 DEF ProcessInv, OneAlive, Runs, Alive, TypeInv, TaskRec
<1>3. \A p \in Process : snap[p] = NoSnap
  BY <1>1, <1>2, NobodyReads
<1>4. SnapIsCurrent'
  BY <1>1, <1>3 DEF SnapIsCurrent
<1>5. OneAlive'
  BY <1>1 DEF ProcessInv, OneAlive, AtWork, Runs
<1> QED BY <1>4, <1>5 DEF ProcessInv

\* The tasks a stop or a start touches stay with their processes; one that is
\* started belongs to the process that starts it.
LEMMA CancelMoves ==
  ASSUME TypeInv, NEW t \in Task, CancelTask(t)
  PROVE  \A u \in Task : /\ task'[u].proc = task[u].proc
                         /\ u # t => task'[u] = task[u]
BY DEF CancelTask, Goto, GotoMark, TypeInv, TaskRec

LEMMA StartMoves ==
  ASSUME TypeInv, NEW p \in Process, NEW r, NEW auto, StartWorkflowTask(p, r, auto)
  PROVE  \E t \in Task :
           /\ task[t].pc = "idle"
           /\ task'[t] = [pc |-> "created", proc |-> p, token |-> 0,
                          out |-> "none", auto |-> auto]
           /\ \A u \in Task \ {t} : task'[u] = task[u]
           /\ reg' = [reg EXCEPT ![p] = t]
BY DEF StartWorkflowTask, TypeInv

\* The tasks of a process that ended are over.
LEMMA KillMoves ==
  ASSUME TypeInv, NEW p \in Process, KillTasks(p)
  PROVE  \A t \in Task :
           /\ task'[t].proc = task[t].proc
           /\ AtWork(t)' => AtWork(t) /\ task'[t] = task[t] /\ task[t].proc # p
<1> SUFFICES ASSUME NEW t \in Task
             PROVE  /\ task'[t].proc = task[t].proc
                    /\ task'[t].pc \notin {"idle", "over"} =>
                         AtWork(t) /\ task'[t] = task[t] /\ task[t].proc # p
  BY DEF AtWork
<1>1. task'[t] = IF t \in TasksOf(p) THEN [task[t] EXCEPT !.pc = "over"] ELSE task[t]
  BY DEF KillTasks
<1> QED BY <1>1 DEF TasksOf, AtWork, TypeInv, TaskRec

LEMMA ProcessProcessStep ==
  ASSUME OneAtATime, TypeInv, ProcessInv, NEW p \in Process,
         \/ RetryRun(p) \/ ResumeRun(p)
         \/ TerminateRun(p) \/ TerminateBegins(p) \/ TerminateEnds(p)
         \/ Recovery(p) \/ Shutdown(p) \/ Crash(p)
  PROVE  ProcessInv'
<1> USE DEF ProcessInv
<1>1. /\ \A t \in Task : AtWork(t) => phase[task[t].proc] \in {"up", "closing"}
      /\ \A t \in Task : task[t].proc \in Process
  BY DEF OneAlive, Runs, TypeInv, TaskRec
<1>2. phase[p] \in Alive => /\ \A q \in Process : phase[q] \in Alive => q = p
                            /\ \A q \in Process \ {p} : snap[q] = NoSnap
                            /\ \A t \in Task : AtWork(t) => task[t].proc = p
  BY <1>1 DEF OneAlive, SnapIsCurrent, Alive
<1>3. Quiet(p) /\ phase[p] \in Alive =>
        /\ \A q \in Process : snap[q] = NoSnap
        /\ \A t \in Task : task[t].pc \notin Busy
  BY <1>2 DEF Quiet, TasksOf, AtWork, Busy
\* Requests and the shutdown: nothing is read, and the process that runs stays
\* the one that runs.
<1>4. ASSUME Quiet(p) \/ snap[p] = NoSnap, phase[p] \in Alive, snap' = snap,
             \A q \in Process \ {p} : phase'[q] = phase[q],
             phase'[p] \in {"up", "closing"},
             \A t \in Task : task'[t] = task[t] \/ (task'[t].proc = task[t].proc /\ AtWork(t))
                               \/ task'[t].proc = p
      PROVE  ProcessInv'
  <2>1. \A q \in Process : snap[q] = NoSnap
    BY <1>2, <1>4 DEF Quiet
  <2>2. SnapIsCurrent'
    BY <1>4, <2>1 DEF SnapIsCurrent
  <2>3. \A t \in Task : AtWork(t)' => task'[t].proc = p
    BY <1>2, <1>4 DEF AtWork
  <2>4. \A q \in Process : phase'[q] \in Alive => q = p
    BY <1>2, <1>4
  <2>5. OneAlive'
    BY <1>4, <2>3, <2>4 DEF OneAlive, Runs
  <2> QED BY <2>2, <2>5
<1>5. ASSUME NEW r, NEW auto, StartWorkflowTask(p, r, auto)
      PROVE  \A t \in Task : task'[t] = task[t] \/ task'[t].proc = p
  <2>1. \E t \in Task :
           /\ task'[t] = [pc |-> "created", proc |-> p, token |-> 0,
                          out |-> "none", auto |-> auto]
           /\ \A u \in Task \ {t} : task'[u] = task[u]
    BY <1>5, StartMoves
  <2> QED BY <2>1
<1>6. ASSUME NEW t \in Task, CancelTask(t), AtWork(t)
      PROVE  \A u \in Task : task'[u] = task[u] \/ (task'[u].proc = task[u].proc /\ AtWork(u))
  BY <1>6, CancelMoves DEF AtWork
<1>7. \A t : LiveTask(t) => t \in Task /\ AtWork(t)
  BY DEF LiveTask, AtWork
<1>8. CASE RetryRun(p)
  <2>1. /\ Quiet(p) /\ phase[p] = "up" /\ snap' = snap /\ phase' = phase
        /\ StartWorkflowTask(p, Reset(run), FALSE)
    BY <1>8 DEF RetryRun, IsUp
  <2>2. \A t \in Task : task'[t] = task[t] \/ task'[t].proc = p
    BY <1>5, <2>1
  <2> QED BY <1>4, <2>1, <2>2 DEF Alive
<1>9. CASE ResumeRun(p)
  <2>1. /\ Quiet(p) /\ phase[p] = "up" /\ snap' = snap /\ phase' = phase
        /\ StartWorkflowTask(p, Resumed(run), FALSE)
    BY <1>9 DEF ResumeRun, IsUp
  <2>2. \A t \in Task : task'[t] = task[t] \/ task'[t].proc = p
    BY <1>5, <2>1
  <2> QED BY <1>4, <2>1, <2>2 DEF Alive
<1>10. CASE TerminateRun(p)
  BY <1>4, <1>6, <1>7, <1>10 DEF TerminateRun, IsUp, Alive
<1>11. CASE TerminateBegins(p)
  BY <1>4, <1>11 DEF TerminateBegins, IsUp, Alive
<1>12. CASE TerminateEnds(p)
  BY <1>4, <1>6, <1>7, <1>12 DEF TerminateEnds, IsUp, Alive
<1>13. CASE Shutdown(p)
  <2>1. phase' = [phase EXCEPT ![p] = "closing"] /\ phase[p] \in Alive /\ Quiet(p) /\ snap' = snap
    BY <1>13 DEF Shutdown, IsUp, Alive
  <2>2. \A u \in Task : task'[u] = task[u] \/ (task'[u].proc = task[u].proc /\ AtWork(u))
    BY <1>6, <1>7, <1>13 DEF Shutdown
  <2> QED BY <1>4, <2>1, <2>2 DEF TypeInv
<1>14. CASE AutoResume(p)
  <2>1. phase' = [phase EXCEPT ![p] = "up"] /\ phase[p] \in Alive /\ snap[p] = NoSnap /\ snap' = snap
    BY <1>14 DEF AutoResume, Alive, SnapIsCurrent
  <2>2. \A t \in Task : task'[t] = task[t] \/ task'[t].proc = p
    BY <1>5, <1>14 DEF AutoResume
  <2> QED BY <1>4, <2>1, <2>2 DEF TypeInv
\* Reads: nothing executes between two waits then.
<1>15. ASSUME TakeSnapshot(p), run' = run, task' = task, phase'[p] \in {"boot", "up", "closing"},
              \A t \in Task : task[t].pc \notin Busy,
              \A q \in Process \ {p} : snap[q] = NoSnap
       PROVE  SnapIsCurrent'
  BY <1>15 DEF TakeSnapshot, SnapIsCurrent, TypeInv
<1>16. CASE MonitorReads(p)
  <2>1. phase[p] = "up" /\ phase' = phase /\ task' = task /\ run' = run /\ Quiet(p) /\ TakeSnapshot(p)
    BY <1>16 DEF MonitorReads, IsUp
  <2>2. SnapIsCurrent'
    BY <1>2, <1>3, <1>15, <2>1 DEF Alive
  <2> QED BY <2>1, <2>2 DEF OneAlive, AtWork, Runs
<1>17. CASE CloseReads(p)
  <2>1. phase[p] = "closing" /\ phase' = phase /\ task' = task /\ run' = run /\ Quiet(p) /\ TakeSnapshot(p)
    BY <1>17 DEF CloseReads
  <2>2. SnapIsCurrent'
    BY <1>2, <1>3, <1>15, <2>1 DEF Alive
  <2> QED BY <2>1, <2>2 DEF OneAlive, AtWork, Runs
<1>18. CASE Boot(p)
  <2>1. \A q \in Process : phase[q] \notin Alive
    BY <1>18, BootAlone
  <2>2. \A t \in Task : ~AtWork(t)
    BY <1>1, <2>1 DEF Alive
  <2>3. phase' = [phase EXCEPT ![p] = "boot"] /\ task' = task /\ run' = run /\ TakeSnapshot(p)
    BY <1>18 DEF Boot
  <2>4. \A q \in Process : snap[q] = NoSnap
    BY <2>1 DEF SnapIsCurrent, Alive
  <2>5. SnapIsCurrent'
    BY <1>15, <2>2, <2>3, <2>4 DEF AtWork, Busy, TypeInv
  <2>6. OneAlive'
    BY <2>1, <2>2, <2>3 DEF OneAlive, AtWork, TypeInv
  <2> QED BY <2>5, <2>6
\* Writes: the copy is dropped, and no other process holds one.
<1>19. ASSUME DropSnapshot(p), phase[p] \in Alive PROVE \A q \in Process : snap'[q] = NoSnap
  BY <1>2, <1>19 DEF DropSnapshot, TypeInv
<1>20. CASE MonitorWrites(p)
  <2>1. phase[p] = "up" /\ phase' = phase /\ task' = task /\ DropSnapshot(p)
    BY <1>20 DEF MonitorWrites, IsUp
  <2>2. SnapIsCurrent'
    BY <1>19, <2>1 DEF SnapIsCurrent, Alive
  <2> QED BY <2>1, <2>2 DEF OneAlive, AtWork, Runs
<1>21. CASE BootSaves(p)
  <2>1. /\ phase[p] = "boot" /\ task' = task /\ DropSnapshot(p)
        /\ phase' = [phase EXCEPT ![p] = IF p \in Cli THEN "up" ELSE "recover"]
    BY <1>21 DEF BootSaves, SaveInterrupted
  <2>2. SnapIsCurrent'
    BY <1>19, <2>1 DEF SnapIsCurrent, Alive
  <2>3. \A q \in Process : phase'[q] \in Alive => q = p
    BY <1>2, <2>1 DEF Alive, TypeInv
  <2>4. \A t \in Task : ~AtWork(t)
    BY <1>1, <1>2, <2>1 DEF Alive
  <2>5. OneAlive'
    BY <2>1, <2>3, <2>4 DEF OneAlive, AtWork
  <2> QED BY <2>2, <2>5
<1>22. ASSUME KillTasks(p), phase[p] \in Alive,
              phase' \in {[phase EXCEPT ![p] = s] : s \in {"stopped", "crashed"}}
       PROVE  OneAlive'
  <2>1. \A t \in Task : ~AtWork(t)'
    BY <1>2, <1>22, KillMoves
  <2>2. \A q \in Process : phase'[q] \notin Alive
    BY <1>2, <1>22 DEF Alive, TypeInv
  <2> QED BY <2>1, <2>2 DEF OneAlive
<1>23. CASE CloseSaves(p)
  <2>1. phase[p] \in Alive /\ DropSnapshot(p) /\ KillTasks(p)
        /\ phase' = [phase EXCEPT ![p] = "stopped"]
    BY <1>23 DEF CloseSaves, SaveInterrupted, Alive
  <2> QED BY <1>19, <1>22, <2>1 DEF SnapIsCurrent
<1>24. CASE Crash(p)
  <2>1. phase[p] \in Alive /\ DropSnapshot(p) /\ KillTasks(p)
        /\ phase' = [phase EXCEPT ![p] = "crashed"]
    BY <1>24 DEF Crash
  <2> QED BY <1>19, <1>22, <2>1 DEF SnapIsCurrent
<1> QED BY <1>8, <1>9, <1>10, <1>11, <1>12, <1>13, <1>14, <1>16, <1>17, <1>18,
           <1>20, <1>21, <1>23, <1>24 DEF Recovery

\* A copy of the store ages as the store does.
LEMMA ProcessTick == ASSUME TypeInv, ProcessInv, Tick PROVE ProcessInv'
<1>1. phase' = phase /\ task' = task /\ run' = Aged(run)
      /\ snap' = [p \in Process |-> AgedSnap(snap[p])]
  BY DEF Tick
<1>2. ASSUME NEW p \in Process, snap'[p] # NoSnap
      PROVE  snap[p] # NoSnap /\ snap'[p].run = Aged(snap[p].run)
  <2>1. snap[p] # NoSnap
    BY <1>1, <1>2 DEF AgedSnap
  <2>2. snap[p] = [of |-> "store", run |-> snap[p].run]
    BY <2>1 DEF TypeInv
  <2> QED BY <1>1, <2>1, <2>2 DEF AgedSnap
<1> QED BY <1>1, <1>2 DEF ProcessInv, OneAlive, SnapIsCurrent, AtWork, Runs

LEMMA ProcessStep ==
  ASSUME OneAtATime, TypeInv, ProcessInv, [Next]_vars PROVE ProcessInv'
<1>1. CASE UNCHANGED vars
  BY <1>1 DEF vars, ProcessInv, OneAlive, SnapIsCurrent, AtWork, Runs
<1>2. CASE Next
  BY <1>2, ProcessTaskStep, ProcessProcessStep, ProcessTick DEF Next
<1> QED BY <1>1, <1>2


-----------------------------------------------------------------------------
(* RunController implements RunLease.                                      *)

\* What the refinement rests on: what a process read is still in the store
\* when it writes it back, and a lease in the store was granted.
LeaseInv == TypeInv /\ ProcessInv /\ L!FencingInv

LEMMA OneAtATimeLease == ASSUME OneAtATime PROVE L!Assumptions
BY DEF OneAtATime, Assumptions

\* A renewal that passes the check extends the very lease it checked.
LEMMA RenewImplements ==
  ASSUME OneAtATime, LeaseInv, NEW t \in Task,
         L!Asserts(run.lease, Me(t), task[t].token),
         run' = [run EXCEPT !.lease.left = TTL], grants' = grants
  PROVE  \E g \in L!Grant : L!Renew(g)
<1> DEFINE g == [owner |-> Me(t), token |-> task[t].token]
<1>1. run \in RunRec /\ run.lease \in L!LeaseRec
  BY DEF LeaseInv, TypeInv, LeasedRun, RunRec
<1>2. /\ run.lease # L!NoLease /\ ~L!Expired(run.lease)
      /\ run.lease.owner = Me(t) /\ run.lease.token = task[t].token
  BY DEF L!Asserts, L!HeldBy
<1>3. g \in grants /\ run.lease.token = run.epoch
  BY <1>2 DEF LeaseInv, L!FencingInv, L!LeaseIsGranted
<1>4. g \in L!Grant /\ g.owner \in Owner
  BY <1>3 DEF LeaseInv, TypeInv, L!Grant
<1>5. run'.lease = [owner |-> g.owner, token |-> run.lease.token, left |-> TTL]
  <2>1. run'.lease = [run.lease EXCEPT !.left = TTL]
    BY <1>1 DEF RunRec
  <2> QED BY <1>1, <1>2, <2>1 DEF L!LeaseRec
<1>6. run'.last = run.last /\ run'.epoch = run.epoch
  BY <1>1 DEF RunRec
<1>7. L!Acquire(g.owner)
  <2>1. L!HeldBy(run.lease, g.owner) /\ ~L!HeldByOther(run.lease, g.owner)
    BY <1>2 DEF L!HeldBy, L!HeldByOther
  <2>2. run'.lease = L!Acquired(run.lease, run.last, run.epoch, g.owner)
    BY <1>5, <2>1 DEF L!Acquired
  <2>3. grants' = grants \cup {[owner |-> g.owner, token |-> run'.lease.token]}
    BY <1>2, <1>3, <1>5
  <2> QED BY <1>3, <1>5, <1>6, <2>1, <2>2, <2>3 DEF L!Acquire
<1>8. L!Asserts(run.lease, g.owner, g.token)
  OBVIOUS
<1> QED BY <1>3, <1>4, <1>7, <1>8 DEF L!Renew

\* A release, by the task that ends, by the monitor or for a finished run.
LEMMA RetiredImplements ==
  ASSUME OneAtATime, LeaseInv, run.lease # L!NoLease, grants' = grants,
         run'.lease = Retired(run).lease, run'.last = Retired(run).last,
         run'.epoch = Retired(run).epoch
  PROVE  L!ReleaseAny
BY DEF LeaseInv, TypeInv, LeasedRun, RunRec, Retired, L!ReleaseAny, L!Retire

LeaseUnchanged ==
  /\ run'.lease = run.lease /\ run'.last = run.last /\ run'.epoch = run.epoch
  /\ grants' = grants

LEMMA TaskStepImplements ==
  ASSUME OneAtATime, LeaseInv, NEW t \in Task,
         TaskStep(t) \/ Heartbeat(t) \/ RunTimeout(t)
  PROVE  L!Next \/ LeaseUnchanged
<1> USE DEF LeaseInv
<1>1. run \in RunRec /\ Me(t) \in Owner
  BY TaskTyped DEF TypeInv, LeasedRun, Me, OneAtATime, Assumptions
<1>2. ASSUME UNCHANGED <<run, grants>> PROVE LeaseUnchanged
  BY <1>2 DEF LeaseUnchanged
<1>3. CASE Begin(t)
  BY <1>1, <1>3 DEF Begin, LeaseUnchanged, RunRec
<1>4. CASE AcquireLease(t)
  <2>1. CASE L!HeldByOther(run.lease, Me(t))
    BY <1>2, <1>4, <2>1 DEF AcquireLease
  <2>2. CASE ~L!HeldByOther(run.lease, Me(t))
    <3> DEFINE l == L!Acquired(run.lease, run.last, run.epoch, Me(t))
    <3>1. /\ l.token <= MaxToken
          /\ run' = [run EXCEPT !.lease = l, !.epoch = l.token]
          /\ grants' = grants \cup {[owner |-> Me(t), token |-> l.token]}
      BY <1>4, <2>2 DEF AcquireLease
    <3>2. L!HeldBy(run.lease, Me(t)) \/ L!NextFencingToken(run.lease, run.last, run.epoch) <= MaxToken
      BY <3>1 DEF L!Acquired
    <3>3. run'.lease = l /\ run'.epoch = l.token /\ run'.last = run.last
      <4> HIDE DEF l
      <4> QED BY <1>1, <3>1 DEF RunRec
    <3>4. L!Acquire(Me(t))
      BY <2>2, <3>1, <3>2, <3>3 DEF L!Acquire
    <3> QED BY <1>1, <3>4 DEF L!Next
  <2> QED BY <2>1, <2>2
<1>5. ASSUME run' = [run EXCEPT !.lease.left = TTL], grants' = grants,
             L!Asserts(run.lease, Me(t), task[t].token)
      PROVE  L!Next
  BY <1>5, RenewImplements DEF L!Next
<1>6. CASE StartAttempt(t)
  BY <1>2, <1>5, <1>6 DEF StartAttempt
<1>7. CASE Heartbeat(t)
  BY <1>2, <1>5, <1>7 DEF Heartbeat
<1>8. CASE StepRetries(t)
  BY <1>1, <1>8 DEF StepRetries, LeaseUnchanged, RunRec
<1>9. CASE Mark(t)
  <2>1. \/ run' = run
        \/ \E s, c : run' = [run EXCEPT !.status = s, !.code = c]
    BY <1>9, Zenon DEF Mark
  <2> QED BY <1>1, <1>9, <2>1 DEF Mark, LeaseUnchanged, RunRec
<1>10. CASE ReleaseLease(t)
  <2>1. CASE run.lease # L!NoLease /\ run.lease.owner = Me(t)
    BY <1>10, <2>1, RetiredImplements DEF ReleaseLease, L!Next
  <2>2. CASE ~(run.lease # L!NoLease /\ run.lease.owner = Me(t))
    BY <1>2, <1>10, <2>2 DEF ReleaseLease
  <2> QED BY <2>1, <2>2
<1>11. CASE Overtime(t)
  BY <1>1, <1>11 DEF Overtime, LeaseUnchanged, RunRec
<1>12. CASE \/ PreflightEnds(t) \/ StepPasses(t) \/ StepStops(t) \/ Delivered(t)
            \/ Finalize(t) \/ RunTimeout(t)
  BY <1>2, <1>12 DEF PreflightEnds, StepPasses, StepStops, Delivered, Finalize, RunTimeout
<1> QED BY <1>3, <1>4, <1>6, <1>7, <1>8, <1>9, <1>10, <1>11, <1>12 DEF TaskStep

\* The requests change the status of the run only, and so does the recovery,
\* since what it writes back is what the store holds.
LEMMA ProcessStepImplements ==
  ASSUME OneAtATime, LeaseInv, NEW p \in Process,
         \/ RetryRun(p) \/ ResumeRun(p)
         \/ TerminateRun(p) \/ TerminateBegins(p) \/ TerminateEnds(p)
         \/ Recovery(p) \/ Shutdown(p) \/ Crash(p)
  PROVE  L!Next \/ LeaseUnchanged
<1> DEFINE Same(r) == r.lease = run.lease /\ r.last = run.last /\ r.epoch = run.epoch
<1>1. run \in RunRec
  BY DEF LeaseInv, TypeInv, LeasedRun
<1>2. ASSUME Same(run'), grants' = grants PROVE LeaseUnchanged
  BY <1>2 DEF LeaseUnchanged
<1>3. /\ Same(run) /\ Same(Reset(run)) /\ Same(Resumed(run))
      /\ Same(CancelMarked(run)) /\ Same(CancelledDirectly(run))
      /\ Same(CancelledDirectly(CancelMarked(run))) /\ Same(Interrupted(p, run))
  BY <1>1 DEF Reset, Resumed, CancelMarked, CancelledDirectly, Interrupted, RunRec
<1>4. snap[p] # NoSnap => snap[p].run = run
  BY DEF LeaseInv, ProcessInv, SnapIsCurrent
<1>5. SaveInterrupted(p) => grants' = grants /\ (run' = run \/ run' = Interrupted(p, run))
  BY <1>4 DEF SaveInterrupted
<1>6. CASE MonitorWrites(p)
  <2>1. run' = MonitorRepaired(p, run) /\ grants' = grants
    BY <1>4, <1>6 DEF MonitorWrites
  <2>2. CASE run.lease # L!NoLease
    <3>1. \/ run' = run
          \/ run' = Retired(run)
          \/ run' = [Retired(run) EXCEPT !.status = "failed", !.recoverable = TRUE,
                                         !.code = "RUN_LEASE_EXPIRED"]
      BY <2>1 DEF MonitorRepaired
    <3>2. run' # run => /\ run'.lease = Retired(run).lease
                        /\ run'.last = Retired(run).last
                        /\ run'.epoch = Retired(run).epoch
      BY <1>1, <3>1 DEF Retired, RunRec
    <3>3. run' # run => L!ReleaseAny
      BY <2>1, <2>2, <3>2, RetiredImplements
    <3> QED BY <1>2, <1>3, <2>1, <3>3 DEF L!Next
  <2>3. CASE run.lease = L!NoLease
    BY <1>2, <1>3, <2>1, <2>3 DEF MonitorRepaired
  <2> QED BY <2>2, <2>3
<1>7. CASE RetryRun(p) \/ ResumeRun(p) \/ AutoResume(p)
  <2>1. (run' = run \/ run' = Reset(run) \/ run' = Resumed(run)) /\ grants' = grants
    BY <1>7, Zenon DEF RetryRun, ResumeRun, AutoResume, StartWorkflowTask
  <2> QED BY <1>2, <1>3, <2>1
<1>8. CASE TerminateRun(p) \/ TerminateBegins(p) \/ TerminateEnds(p)
  <2>1. /\ \/ run' = run \/ run' = CancelMarked(run) \/ run' = CancelledDirectly(run)
           \/ run' = CancelledDirectly(CancelMarked(run))
        /\ grants' = grants
    BY <1>8 DEF TerminateRun, TerminateBegins, TerminateEnds
  <2> QED BY <1>2, <1>3, <2>1
<1>9. CASE BootSaves(p) \/ CloseSaves(p)
  BY <1>2, <1>3, <1>5, <1>9 DEF BootSaves, CloseSaves
<1>10. CASE MonitorReads(p) \/ Boot(p) \/ CloseReads(p) \/ Shutdown(p) \/ Crash(p)
  BY <1>2, <1>3, <1>10 DEF MonitorReads, Boot, CloseReads, Shutdown, Crash
<1> QED BY <1>6, <1>7, <1>8, <1>9, <1>10 DEF Recovery

LEMMA TickImplements ==
  ASSUME OneAtATime, LeaseInv, Tick PROVE L!Next \/ LeaseUnchanged
<1>1. run \in RunRec /\ run.lease \in L!LeaseRec
  BY DEF LeaseInv, TypeInv, LeasedRun, RunRec
<1>2. /\ run'.lease = [run.lease EXCEPT !.left = IF run.lease.left > 0
                                                 THEN run.lease.left - 1 ELSE 0]
      /\ run'.last = run.last /\ run'.epoch = run.epoch /\ grants' = grants
  BY <1>1 DEF Tick, Aged, RunRec
<1>3. CASE run.lease.left > 0
  BY <1>2, <1>3 DEF L!Next, L!Tick
<1>4. CASE ~(run.lease.left > 0)
  <2>1. run.lease.left = 0
    BY <1>1, <1>4 DEF L!LeaseRec, OneAtATime, Assumptions, L!Assumptions
  <2>2. run'.lease = [run.lease EXCEPT !.left = 0]
    BY <1>2, <1>4
  <2>3. run'.lease = run.lease
    BY <1>1, <2>1, <2>2 DEF L!LeaseRec
  <2> QED BY <1>2, <2>3 DEF LeaseUnchanged
<1> QED BY <1>3, <1>4

LEMMA StepImplements ==
  ASSUME OneAtATime, LeaseInv, [Next]_vars PROVE [L!Next]_(L!vars)
<1>1. CASE UNCHANGED vars
  BY <1>1 DEF vars, L!vars
<1>2. LeaseUnchanged => UNCHANGED L!vars
  BY DEF LeaseUnchanged, L!vars
<1>3. CASE Next
  BY <1>2, <1>3, TaskStepImplements, ProcessStepImplements, TickImplements DEF Next
<1> QED BY <1>1, <1>3

LEMMA InitImplements == ASSUME Assumptions, Init PROVE L!Init
BY DEF Init, L!Init

LEMMA LeaseInvHolds == ASSUME OneAtATime PROVE Spec => []LeaseInv
<1> USE DEF LeaseInv
<1>1. Init => LeaseInv
  BY TypeInit, ProcessInit, InitImplements, LeaseInitInv, OneAtATimeLease DEF OneAtATime
<1>2. LeaseInv /\ [Next]_vars => LeaseInv'
  BY TypeStep, ProcessStep, StepImplements, LeaseStepInv, OneAtATimeLease DEF OneAtATime
<1> QED BY <1>1, <1>2, PTL DEF Spec

\* With one process at a time, seen from its lease alone a run does what
\* RunLease says, for any number of restarts, resumes, stops and executions.
THEOREM Implements == ASSUME OneAtATime PROVE Spec => LeaseSpec
<1>1. Init => L!Init
  BY InitImplements DEF OneAtATime
<1>2. LeaseInv /\ [Next]_vars => [L!Next]_(L!vars)
  BY StepImplements
<1> QED BY <1>1, <1>2, LeaseInvHolds, PTL DEF Spec, LeaseSpec, L!Spec

\* And no controller is let back in with a token that was fenced out.
THEOREM ControllersStayFenced == ASSUME OneAtATime PROVE Spec => FencedForever
<1> USE OneAtATimeLease
<1> QED BY Implements, FencedOutForEver, PTL DEF LeaseSpec, FencedForever


-----------------------------------------------------------------------------
(* RunController: one task executes the run.                               *)

\* A server that ends a task before it answers the next request, and whose
\* heartbeats arrive before the lease runs out.
Server == OneAtATime /\ PromptFinalize /\ Punctual

RunInv == LeaseInv /\ IInv

\* What is at work belongs to the process that runs, and is registered there.
LEMMA AtWorkAlone ==
  ASSUME RunInv
  PROVE  /\ \A t, u \in Task : AtWork(t) /\ AtWork(u) => t = u
         /\ \A p \in Process : phase[p] \in Alive =>
              \A t \in Task : AtWork(t) => task[t].proc = p /\ reg[p] = t
<1>1. \A t \in Task : AtWork(t) => /\ task[t].proc \in Process
                                   /\ phase[task[t].proc] \in Alive
                                   /\ reg[task[t].proc] = t
  BY DEF RunInv, LeaseInv, ProcessInv, OneAlive, Runs, Alive, TypeInv, TaskRec,
         IInv, AtWorkIsRegistered
<1>2. \A p, q \in Process : phase[p] \in Alive /\ phase[q] \in Alive => p = q
  BY DEF RunInv, LeaseInv, ProcessInv, OneAlive
<1> QED BY <1>1, <1>2

\* When the loop of a server is free and no task of the run is registered that
\* is not done, none is at work: the one that ended has been finalized.
LEMMA NoneAtWork ==
  ASSUME Server, RunInv, NEW p \in Process, phase[p] \in Alive, Quiet(p),
         ~LiveTask(reg[p])
  PROVE  \A t \in Task : ~AtWork(t)
<1> SUFFICES ASSUME NEW t \in Task, AtWork(t) PROVE FALSE
  OBVIOUS
<1>1. task[t].proc = p /\ reg[p] = t
  BY AtWorkAlone
<1>2. task[t].pc = "ended"
  BY <1>1 DEF LiveTask, AtWork
<1>3. t \in TasksOf(p)
  BY <1>1, <1>2 DEF TasksOf
<1> QED BY <1>2, <1>3 DEF Quiet, Server

\* A task's step keeps the invariant if it does so for the task itself.
LEMMA OwnStepKeeps ==
  ASSUME Server, RunInv, NEW t \in Task, AtWork(t),
         \A u \in Task : /\ task'[u].proc = task[u].proc
                         /\ u # t => task'[u] = task[u],
         term' = term, run'.cancel = run.cancel,
         AtWork(t)' => reg' = reg,
         t \in Writing' => /\ t \in Writing \/ ~run.cancel
                           /\ run'.status \in HeartbeatStatus
                           /\ L!Asserts(run'.lease, Me(t), task'[t].token),
         task'[t].pc \in {"acquire", "preflight", "ready"} =>
           run'.status \in HeartbeatStatus \/ run'.cancel
  PROVE  IInv'
<1>1. \A u \in Task : u # t => ~AtWork(u) /\ ~AtWork(u)'
  BY AtWorkAlone DEF AtWork
<1>2. \A u \in Writing' : u = t
  BY <1>1 DEF Writing, AtWork
<1>3. \A u \in Task : Me(u)' = Me(u)
  BY DEF Me
<1>4. AtWorkIsRegistered'
  BY <1>1 DEF RunInv, IInv, AtWorkIsRegistered
<1>5. TermIsMarked'
  BY <1>2 DEF RunInv, IInv, TermIsMarked
<1>6. ExecutedIsActive'
  BY <1>1, <1>2 DEF ExecutedIsActive, AtWork
<1>7. WritersHoldLease'
  BY <1>2, <1>3 DEF WritersHoldLease
<1> QED BY <1>4, <1>5, <1>6, <1>7 DEF IInv

\* A renewal leaves a lease that passes the check.
LEMMA RenewedAsserts ==
  ASSUME Server, RunInv, NEW t \in Task,
         L!Asserts(run.lease, Me(t), task[t].token),
         run' = [run EXCEPT !.lease.left = TTL]
  PROVE  /\ L!Asserts(run'.lease, Me(t), task[t].token)
         /\ run'.status = run.status /\ run'.cancel = run.cancel
<1>1. run \in RunRec /\ run.lease \in L!LeaseRec
  BY DEF RunInv, LeaseInv, TypeInv, LeasedRun, RunRec
<1>2. /\ run'.lease = [run.lease EXCEPT !.left = TTL]
      /\ run'.status = run.status /\ run'.cancel = run.cancel
  BY <1>1 DEF RunRec
<1>3. TTL \in Nat \ {0}
  BY DEF Server, OneAtATime, Assumptions, L!Assumptions
<1>4. /\ run'.lease.left = TTL /\ run'.lease.token = run.lease.token
      /\ run'.lease.owner = run.lease.owner
  BY <1>1, <1>2 DEF L!LeaseRec
<1>5. run'.lease # L!NoLease /\ ~L!Expired(run'.lease)
  BY <1>3, <1>4 DEF L!NoLease, L!Expired
<1> QED BY <1>2, <1>4, <1>5 DEF L!Asserts, L!HeldBy

LEMMA WriterTaskStep ==
  ASSUME Server, RunInv, NEW t \in Task,
         TaskStep(t) \/ Heartbeat(t) \/ RunTimeout(t)
  PROVE  IInv'
<1>1. /\ AtWork(t) /\ term' = term
      /\ \A u \in Task : /\ task'[u].proc = task[u].proc
                         /\ u # t => task'[u] = task[u]
  BY TaskMoves DEF RunInv, LeaseInv
<1>2. /\ run \in RunRec /\ task \in [Task -> TaskRec]
      /\ t \in Writing => /\ run.status \in HeartbeatStatus
                          /\ L!Asserts(run.lease, Me(t), task[t].token)
      /\ task[t].pc \in {"acquire", "preflight", "ready"} =>
           run.status \in HeartbeatStatus \/ run.cancel
  BY DEF RunInv, LeaseInv, TypeInv, LeasedRun, IInv, ExecutedIsActive, WritersHoldLease
<1>3. \A pc : Goto(t, pc) => task'[t].pc = pc /\ task'[t].token = task[t].token
  BY <1>2 DEF Goto, TaskRec
<1>4. \A out : GotoMark(t, out) => task'[t].pc = "mark"
  BY <1>2 DEF GotoMark, TaskRec
<1>5. \A u \in Task : u \in Writing' <=> task'[u].pc \in {"working", "delivering"}
  BY DEF Writing
<1>6. \A u \in Task : u \in Writing <=> task[u].pc \in {"working", "delivering"}
  BY DEF Writing
\* A step that does not leave the task at work on a step of the run ...
<1>7. ASSUME task'[t].pc \notin {"acquire", "preflight", "ready", "working", "delivering"},
             run'.cancel = run.cancel, AtWork(t)' => reg' = reg
      PROVE  IInv'
  BY <1>1, <1>5, <1>7, OwnStepKeeps
\* ... and one that changes only where it is.
<1>8. ASSUME run' = run, reg' = reg, task'[t].token = task[t].token,
             \/ /\ task[t].pc \in {"acquire", "preflight", "ready", "working", "delivering"}
                /\ task'[t].pc \in {"acquire", "preflight", "ready"}
             \/ /\ task[t].pc \in {"working", "delivering"}
                /\ task'[t].pc \in {"working", "delivering"}
      PROVE  IInv'
  BY <1>1, <1>2, <1>5, <1>6, <1>8, OwnStepKeeps
<1>9. CASE Begin(t)
  <2>1. reg' = reg
    BY <1>9 DEF Begin
  <2>2. CASE "running" \in RunTransitions[run.status]
    <3>1. run'.status = "running" /\ run'.cancel = run.cancel
      BY <1>2, <1>9, <2>2 DEF Begin, RunRec
    <3>2. task'[t].pc = "acquire"
      BY <1>3, <1>9, <2>2 DEF Begin
    <3> QED BY <1>1, <1>5, <2>1, <3>1, <3>2, OwnStepKeeps DEF HeartbeatStatus
  <2>3. CASE "running" \notin RunTransitions[run.status]
    BY <1>4, <1>7, <1>9, <2>1, <2>3 DEF Begin
  <2> QED BY <2>2, <2>3
<1>10. CASE AcquireLease(t)
  <2>1. CASE L!HeldByOther(run.lease, Me(t))
    BY <1>3, <1>7, <1>10, <2>1 DEF AcquireLease
  <2>2. CASE ~L!HeldByOther(run.lease, Me(t))
    <3>1. /\ task[t].pc = "acquire" /\ reg' = reg
          /\ \E k : task' = [task EXCEPT ![t].pc = "preflight", ![t].token = k]
          /\ \E l, e : run' = [run EXCEPT !.lease = l, !.epoch = e]
      BY <1>10, <2>2 DEF AcquireLease
    <3>2. task'[t].pc = "preflight"
      BY <1>2, <3>1 DEF TaskRec
    <3>3. run'.status = run.status /\ run'.cancel = run.cancel
      BY <1>2, <3>1 DEF RunRec
    <3> QED BY <1>1, <1>2, <1>5, <3>1, <3>2, <3>3, OwnStepKeeps
  <2> QED BY <2>1, <2>2
<1>11. CASE PreflightEnds(t)
  BY <1>3, <1>8, <1>11 DEF PreflightEnds
<1>12. CASE StartAttempt(t)
  <2>1. reg' = reg /\ task[t].pc = "ready"
    BY <1>12 DEF StartAttempt
  <2>2. CASE CancelRequested
    BY <1>4, <1>7, <1>12, <2>1, <2>2 DEF StartAttempt
  <2>3. CASE Goto(t, "ended") /\ UNCHANGED run
    BY <1>3, <1>7, <2>1, <2>3
  <2>4. CASE /\ ~CancelRequested /\ L!Asserts(run.lease, Me(t), task[t].token)
             /\ run' = [run EXCEPT !.lease.left = TTL] /\ Goto(t, "working")
    <3>1. ~run.cancel /\ run.status \in HeartbeatStatus
      BY <1>2, <2>1, <2>4 DEF CancelRequested
    <3>2. task'[t].pc = "working" /\ task'[t].token = task[t].token
      BY <1>3, <2>4
    <3>3. /\ L!Asserts(run'.lease, Me(t), task[t].token)
          /\ run'.status = run.status /\ run'.cancel = run.cancel
      BY <2>4, RenewedAsserts
    <3> QED BY <1>1, <2>1, <3>1, <3>2, <3>3, OwnStepKeeps
  <2> QED BY <1>12, <2>2, <2>3, <2>4 DEF StartAttempt
<1>13. CASE StepPasses(t)
  <2>1. CASE CancelRequested
    BY <1>4, <1>7, <1>13, <2>1 DEF StepPasses
  <2>2. CASE ~CancelRequested
    BY <1>3, <1>8, <1>13, <2>2 DEF StepPasses
  <2> QED BY <2>1, <2>2
<1>14. CASE StepRetries(t)
  <2>1. run'.status = "queued" /\ run'.cancel = run.cancel
    BY <1>2, <1>14 DEF StepRetries, RunRec
  <2>2. task'[t].pc = "ready" /\ reg' = reg
    BY <1>3, <1>14 DEF StepRetries
  <2> QED BY <1>1, <1>5, <2>1, <2>2, OwnStepKeeps DEF HeartbeatStatus
<1>15. CASE StepStops(t)
  BY <1>4, <1>7, <1>15 DEF StepStops
<1>16. CASE Delivered(t)
  BY <1>4, <1>7, <1>16 DEF Delivered
<1>17. CASE Mark(t)
  <2>1. \/ run' = run
        \/ \E s, c : run' = [run EXCEPT !.status = s, !.code = c]
    BY <1>17, Zenon DEF Mark
  <2>2. run'.cancel = run.cancel
    BY <1>2, <2>1 DEF RunRec
  <2>3. task'[t].pc \in {"release", "mark", "ended"} /\ reg' = reg
    BY <1>3, <1>4, <1>17 DEF Mark
  <2> QED BY <1>7, <2>2, <2>3
<1>18. CASE ReleaseLease(t)
  <2>1. run'.cancel = run.cancel
    BY <1>2, <1>18 DEF ReleaseLease, Retired, RunRec
  <2>2. task'[t].pc \in {"overtime", "ended"} /\ reg' = reg
    BY <1>3, <1>18 DEF ReleaseLease
  <2> QED BY <1>7, <2>1, <2>2
<1>19. CASE Overtime(t)
  <2>1. run'.cancel = run.cancel
    BY <1>2, <1>19 DEF Overtime, RunRec
  <2> QED BY <1>3, <1>7, <1>19, <2>1 DEF Overtime
<1>20. CASE Finalize(t)
  <2>1. task'[t].pc = "over" /\ run' = run
    BY <1>3, <1>20 DEF Finalize
  <2> QED BY <1>7, <2>1 DEF AtWork
<1>21. CASE Heartbeat(t)
  <2>1. CASE GotoMark(t, "failed") /\ UNCHANGED run
    BY <1>4, <1>7, <1>21, <2>1 DEF Heartbeat
  <2>2. CASE /\ L!Asserts(run.lease, Me(t), task[t].token)
             /\ run' = [run EXCEPT !.lease.left = TTL] /\ UNCHANGED task
    <3>1. /\ L!Asserts(run'.lease, Me(t), task[t].token)
          /\ run'.status = run.status /\ run'.cancel = run.cancel
      BY <2>2, RenewedAsserts
    <3>2. reg' = reg
      BY <1>21 DEF Heartbeat
    <3> QED BY <1>1, <1>2, <1>5, <1>6, <2>2, <3>1, <3>2, OwnStepKeeps
  <2> QED BY <1>21, <2>1, <2>2 DEF Heartbeat
<1>22. CASE RunTimeout(t)
  BY <1>4, <1>7, <1>22 DEF RunTimeout
<1> QED BY <1>9, <1>10, <1>11, <1>12, <1>13, <1>14, <1>15, <1>16, <1>17, <1>18,
           <1>19, <1>20, <1>21, <1>22 DEF TaskStep

\* After a step that leaves nothing on a step of the run there is nothing to
\* fence.
LEMMA CalmKeeps ==
  ASSUME RunInv, AtWorkIsRegistered',
         \A t \in Task : AtWork(t)' => task'[t].pc \in {"created", "mark", "ended"},
         run.cancel => run'.cancel,
         \A q \in Process : term'[q] # NoTerm => term[q] # NoTerm
  PROVE  IInv'
<1>1. Writing' = {} /\ \A t \in Task : task'[t].pc \notin {"acquire", "preflight", "ready"}
  BY DEF Writing, AtWork
<1>2. TermIsMarked'
  BY <1>1 DEF RunInv, IInv, TermIsMarked
<1>3. ExecutedIsActive' /\ WritersHoldLease'
  BY <1>1 DEF ExecutedIsActive, WritersHoldLease
<1> QED BY <1>2, <1>3 DEF IInv

\* A step that leaves the tasks and the run alone.
LEMMA SameKeeps ==
  ASSUME RunInv, run' = run, task' = task, reg' = reg,
         \A q \in Process : term'[q] # NoTerm => term'[q] = term[q]
  PROVE  IInv'
<1>1. Writing' = Writing /\ \A t \in Task : Me(t)' = Me(t) /\ AtWork(t)' = AtWork(t)
  BY DEF Writing, Me, AtWork
<1>2. AtWorkIsRegistered' /\ ExecutedIsActive' /\ WritersHoldLease'
  <2>1. AtWorkIsRegistered'
    BY <1>1 DEF RunInv, IInv, AtWorkIsRegistered
  <2>2. ExecutedIsActive'
    BY <1>1 DEF RunInv, IInv, ExecutedIsActive
  <2>3. WritersHoldLease'
    BY <1>1 DEF RunInv, IInv, WritersHoldLease, Writing
  <2> QED BY <2>1, <2>2, <2>3
<1>3. TermIsMarked'
  BY <1>1 DEF RunInv, IInv, TermIsMarked
<1> QED BY <1>2, <1>3 DEF IInv

\* The task that is started is the only one, and is the registered one.
LEMMA StartKeeps ==
  ASSUME Server, RunInv, NEW p \in Process, NEW r, NEW auto,
         StartWorkflowTask(p, r, auto), r.cancel = run.cancel, term' = term,
         \A t \in Task : ~AtWork(t)
  PROVE  IInv'
<1>1. PICK t \in Task :
        /\ task'[t] = [pc |-> "created", proc |-> p, token |-> 0,
                       out |-> "none", auto |-> auto]
        /\ \A u \in Task \ {t} : task'[u] = task[u]
        /\ reg' = [reg EXCEPT ![p] = t]
  BY StartMoves DEF RunInv, LeaseInv
<1>2. \A u \in Task : AtWork(u)' => u = t
  BY <1>1 DEF AtWork
<1>3. AtWorkIsRegistered'
  BY <1>1, <1>2 DEF AtWorkIsRegistered, RunInv, LeaseInv, TypeInv
<1>4. run' = r
  BY DEF StartWorkflowTask
<1> QED BY <1>1, <1>2, <1>3, <1>4, CalmKeeps

\* A cancelled task, and it is the one at work, executes nothing any more.
LEMMA CancelKeeps ==
  ASSUME Server, RunInv, NEW t \in Task, LiveTask(t), CancelTask(t),
         reg' = reg, run.cancel => run'.cancel,
         \A q \in Process : term'[q] # NoTerm => term[q] # NoTerm
  PROVE  IInv'
<1>1. AtWork(t)
  BY DEF LiveTask, AtWork
<1>2. \A u \in Task : u # t => ~AtWork(u)
  BY <1>1, AtWorkAlone
<1>3. \A u \in Task : task'[u].proc = task[u].proc /\ (u # t => task'[u] = task[u])
  BY CancelMoves DEF RunInv, LeaseInv
<1>4. \A u \in Task : AtWork(u)' => u = t
  BY <1>2, <1>3 DEF AtWork
<1>5. task'[t].pc \in {"mark", "ended"}
  BY DEF CancelTask, Goto, GotoMark, RunInv, LeaseInv, TypeInv, TaskRec
<1>6. AtWorkIsRegistered'
  BY <1>1, <1>3, <1>4 DEF RunInv, IInv, AtWorkIsRegistered
<1> QED BY <1>4, <1>5, <1>6, CalmKeeps

\* No request, repair or recovery takes a stop mark off the run.
LEMMA CancelStays ==
  ASSUME RunInv, NEW p \in Process
  PROVE  /\ Reset(run).cancel = run.cancel /\ Resumed(run).cancel = run.cancel
         /\ CancelMarked(run).cancel /\ CancelledDirectly(run).cancel = run.cancel
         /\ CancelledDirectly(CancelMarked(run)).cancel
         /\ Interrupted(p, run).cancel = run.cancel
         /\ MonitorRepaired(p, run).cancel = run.cancel
         /\ Aged(run).cancel = run.cancel
<1>1. run \in RunRec
  BY DEF RunInv, LeaseInv, TypeInv, LeasedRun
<1> QED BY <1>1 DEF Reset, Resumed, CancelMarked, CancelledDirectly, Interrupted,
                   MonitorRepaired, Retired, Aged, RunRec

LEMMA WriterRequest ==
  ASSUME Server, RunInv, NEW p \in Process,
         \/ RetryRun(p) \/ ResumeRun(p) \/ AutoResume(p)
         \/ TerminateRun(p) \/ TerminateBegins(p) \/ TerminateEnds(p) \/ Shutdown(p)
  PROVE  IInv'
<1>1. \A t : LiveTask(t) => t \in Task /\ AtWork(t)
  BY DEF LiveTask, AtWork
<1>2. IsUp(p) => phase[p] \in Alive
  BY DEF IsUp, Alive
<1>3. CASE RetryRun(p)
  <2>1. IsUp(p) /\ Quiet(p) /\ StartWorkflowTask(p, Reset(run), FALSE) /\ term' = term
    BY <1>3 DEF RetryRun
  <2>2. ~LiveTask(reg[p])
    BY <2>1 DEF StartWorkflowTask
  <2>3. \A t \in Task : ~AtWork(t)
    BY <1>2, <2>1, <2>2, NoneAtWork
  <2>4. Reset(run).cancel = run.cancel
    BY CancelStays
  <2> QED BY <2>1, <2>3, <2>4, StartKeeps
<1>4. CASE ResumeRun(p)
  <2>1. IsUp(p) /\ Quiet(p) /\ StartWorkflowTask(p, Resumed(run), FALSE) /\ term' = term
    BY <1>4 DEF ResumeRun
  <2>2. ~LiveTask(reg[p])
    BY <2>1 DEF StartWorkflowTask
  <2>3. \A t \in Task : ~AtWork(t)
    BY <1>2, <2>1, <2>2, NoneAtWork
  <2>4. Resumed(run).cancel = run.cancel
    BY CancelStays
  <2> QED BY <2>1, <2>3, <2>4, StartKeeps
<1>5. CASE AutoResume(p)
  <2>1. CASE StartWorkflowTask(p, Resumed(run), TRUE)
    <3>1. phase[p] = "recover" /\ term' = term
      BY <1>5 DEF AutoResume
    <3>2. \A t \in Task : ~AtWork(t)
      <4>1. \A t \in Task : AtWork(t) => task[t].proc = p /\ Runs(task[t].proc)
        BY <3>1, AtWorkAlone DEF Alive, RunInv, LeaseInv, ProcessInv, OneAlive
      <4> QED BY <3>1, <4>1 DEF Runs
    <3>3. Resumed(run).cancel = run.cancel
      BY CancelStays
    <3> QED BY <2>1, <3>1, <3>2, <3>3, StartKeeps
  <2>2. CASE UNCHANGED <<run, task, reg>>
    BY <1>5, <2>2, SameKeeps DEF AutoResume
  <2> QED BY <1>5, <2>1, <2>2 DEF AutoResume
<1>6. CASE TerminateRun(p)
  <2>1. IsUp(p) /\ Quiet(p) /\ reg' = reg /\ term' = term
    BY <1>6 DEF TerminateRun
  <2>2. CASE LiveTask(reg[p])
    <3>1. CancelTask(reg[p]) /\ run' = CancelMarked(run)
      BY <1>6, <2>2 DEF TerminateRun
    <3> QED BY <1>1, <2>1, <2>2, <3>1, CancelStays, CancelKeeps
  <2>3. CASE ~LiveTask(reg[p])
    <3>1. run' = CancelledDirectly(CancelMarked(run)) /\ task' = task
      BY <1>6, <2>3 DEF TerminateRun
    <3>2. \A t \in Task : ~AtWork(t)
      BY <1>2, <2>1, <2>3, NoneAtWork
    <3>3. \A t \in Task : ~AtWork(t)'
      BY <3>1, <3>2 DEF AtWork
    <3>4. run'.cancel
      BY <3>1, CancelStays
    <3> QED BY <2>1, <3>3, <3>4, CalmKeeps DEF AtWorkIsRegistered
  <2> QED BY <2>2, <2>3
<1>7. CASE TerminateBegins(p)
  <2>1. /\ phase[p] \in Alive /\ reg' = reg /\ task' = task
        /\ run' = CancelMarked(run) /\ term' = [term EXCEPT ![p] = reg[p]]
    BY <1>2, <1>7 DEF TerminateBegins
  <2>2. run'.cancel /\ run'.status = "cancelling" /\ run'.lease = run.lease
    BY <2>1 DEF CancelMarked, RunInv, LeaseInv, TypeInv, LeasedRun, RunRec
  <2>3. /\ Writing' = Writing
        /\ \A t \in Task : Me(t)' = Me(t) /\ AtWork(t)' = AtWork(t)
    BY <2>1 DEF Writing, Me, AtWork
  <2>4. \A t \in Writing : t = reg[p] /\ t \in Task
    BY <2>1, AtWorkAlone DEF Writing, AtWork
  <2>5. AtWorkIsRegistered'
    BY <2>1, <2>3 DEF RunInv, IInv, AtWorkIsRegistered
  <2>6. TermIsMarked'
    BY <2>1, <2>2, <2>3, <2>4 DEF RunInv, IInv, TermIsMarked, LeaseInv, TypeInv
  <2>7. ExecutedIsActive'
    BY <2>2 DEF ExecutedIsActive, HeartbeatStatus
  <2>8. WritersHoldLease'
    BY <2>1, <2>2, <2>3, <2>4 DEF RunInv, IInv, WritersHoldLease
  <2> QED BY <2>5, <2>6, <2>7, <2>8 DEF IInv
<1>8. CASE TerminateEnds(p)
  <2>1. /\ phase[p] \in Alive /\ reg' = reg /\ term[p] # NoTerm
        /\ term' = [term EXCEPT ![p] = NoTerm]
    BY <1>2, <1>8 DEF TerminateEnds
  <2>2. \A q \in Process : term'[q] # NoTerm => term'[q] = term[q]
    BY <2>1 DEF RunInv, LeaseInv, TypeInv
  <2>3. CASE LiveTask(term[p])
    <3>1. CancelTask(term[p]) /\ run' = run
      BY <1>8, <2>3 DEF TerminateEnds
    <3> QED BY <1>1, <2>1, <2>2, <2>3, <3>1, CancelKeeps
  <2>4. CASE ~LiveTask(term[p])
    <3>1. run' = CancelledDirectly(run) /\ task' = task
      BY <1>8, <2>4 DEF TerminateEnds
    <3>2. run.cancel /\ \A t \in Writing : t = term[p] /\ LiveTask(t)
      BY <2>1 DEF RunInv, IInv, TermIsMarked, Writing, LiveTask
    <3>3. Writing' = {}
      BY <2>4, <3>1, <3>2 DEF Writing
    <3>4. run'.cancel
      BY <3>1, <3>2, CancelStays
    <3>5. AtWorkIsRegistered'
      BY <2>1, <3>1 DEF RunInv, IInv, AtWorkIsRegistered, AtWork
    <3> QED BY <3>3, <3>4, <3>5 DEF IInv, TermIsMarked, ExecutedIsActive, WritersHoldLease
  <2> QED BY <2>3, <2>4
<1>9. CASE Shutdown(p)
  <2>1. run' = run /\ reg' = reg /\ term' = [term EXCEPT ![p] = NoTerm]
    BY <1>9 DEF Shutdown
  <2>2. \A q \in Process : term'[q] # NoTerm => term'[q] = term[q]
    BY <2>1 DEF RunInv, LeaseInv, TypeInv
  <2>3. CASE LiveTask(reg[p])
    <3>1. CancelTask(reg[p])
      BY <1>9, <2>3 DEF Shutdown
    <3> QED BY <1>1, <2>1, <2>2, <2>3, <3>1, CancelKeeps
  <2>4. CASE ~LiveTask(reg[p])
    <3>1. task' = task
      BY <1>9, <2>4 DEF Shutdown
    <3> QED BY <2>1, <2>2, <3>1, SameKeeps
  <2> QED BY <2>3, <2>4
<1> QED BY <1>3, <1>4, <1>5, <1>6, <1>7, <1>8, <1>9

LEMMA WriterRecovery ==
  ASSUME Server, RunInv, NEW p \in Process,
         \/ MonitorReads(p) \/ MonitorWrites(p) \/ Boot(p) \/ BootSaves(p)
         \/ CloseReads(p) \/ CloseSaves(p) \/ Crash(p)
  PROVE  IInv'
<1>1. snap[p] # NoSnap => snap[p].run = run
  BY DEF RunInv, LeaseInv, ProcessInv, SnapIsCurrent
<1>2. SaveInterrupted(p) => /\ run'.cancel = run.cancel
                            /\ UNCHANGED <<reg, term>>
  BY <1>1, CancelStays DEF SaveInterrupted
\* What a process that ends was executing is over.
<1>3. ASSUME phase[p] \in Alive, KillTasks(p) PROVE \A t \in Task : ~AtWork(t)'
  <2>1. \A t \in Task : AtWork(t) => task[t].proc = p
    BY <1>3, AtWorkAlone
  <2> QED BY <1>3, <2>1, KillMoves DEF RunInv, LeaseInv
<1>4. CASE MonitorReads(p) \/ Boot(p)
  BY <1>4, SameKeeps DEF MonitorReads, Boot
<1>5. CASE MonitorWrites(p)
  <2>1. /\ phase[p] \in Alive /\ run' = MonitorRepaired(p, run)
        /\ UNCHANGED <<task, reg, term>>
    BY <1>1, <1>5 DEF MonitorWrites, IsUp, Alive
  <2>2. CASE \E t \in Task : task[t].pc \in {"acquire", "preflight", "ready"} \cup Beating
    <3>1. PICK t \in Task : task[t].pc \in {"acquire", "preflight", "ready"} \cup Beating
      BY <2>2
    <3>2. AtWork(t) /\ LiveTask(t)
      BY <3>1 DEF AtWork, LiveTask, Beating
    <3>3. LiveTask(reg[p])
      BY <2>1, <3>2, AtWorkAlone
    <3>4. \/ run' = run
          \/ run.status \notin ActiveStatus /\ run' = Retired(run)
      BY <2>1, <3>3 DEF MonitorRepaired
    <3>5. CASE run' = run
      BY <2>1, <3>5, SameKeeps
    <3>6. CASE run.status \notin ActiveStatus /\ run' = Retired(run)
      <4>1. run'.cancel = run.cancel /\ run'.status = run.status
        BY <3>6 DEF Retired, RunInv, LeaseInv, TypeInv, LeasedRun, RunRec
      <4>2. Writing = {} /\ Writing' = {}
        BY <2>1, <3>6 DEF RunInv, IInv, ExecutedIsActive, HeartbeatStatus, ActiveStatus, Writing
      <4>3. AtWorkIsRegistered'
        BY <2>1 DEF RunInv, IInv, AtWorkIsRegistered, AtWork
      <4>4. ExecutedIsActive'
        BY <2>1, <4>1, <4>2 DEF RunInv, IInv, ExecutedIsActive
      <4>5. TermIsMarked'
        BY <2>1, <4>1, <4>2 DEF RunInv, IInv, TermIsMarked
      <4> QED BY <4>2, <4>3, <4>4, <4>5 DEF IInv, WritersHoldLease
    <3> QED BY <3>4, <3>5, <3>6
  <2>3. CASE ~\E t \in Task : task[t].pc \in {"acquire", "preflight", "ready"} \cup Beating
    <3>1. Writing' = {} /\ \A t \in Task : task'[t].pc \notin {"acquire", "preflight", "ready"}
      BY <2>1, <2>3 DEF Writing, Beating
    <3>2. run'.cancel = run.cancel
      BY <2>1, CancelStays
    <3>3. AtWorkIsRegistered'
      BY <2>1 DEF RunInv, IInv, AtWorkIsRegistered, AtWork
    <3>4. TermIsMarked'
      BY <2>1, <3>1, <3>2 DEF RunInv, IInv, TermIsMarked
    <3>5. ExecutedIsActive' /\ WritersHoldLease'
      BY <3>1 DEF ExecutedIsActive, WritersHoldLease
    <3> QED BY <3>3, <3>4, <3>5 DEF IInv
  <2> QED BY <2>2, <2>3
<1>6. CASE BootSaves(p)
  <2>1. phase[p] = "boot" /\ task' = task
    BY <1>6 DEF BootSaves
  <2>2. \A t \in Task : ~AtWork(t)
    <3>1. \A t \in Task : AtWork(t) => task[t].proc = p /\ Runs(task[t].proc)
      BY <2>1, AtWorkAlone DEF Alive, RunInv, LeaseInv, ProcessInv, OneAlive
    <3> QED BY <2>1, <3>1 DEF Runs
  <2>3. \A t \in Task : ~AtWork(t)'
    BY <2>1, <2>2 DEF AtWork
  <2> QED BY <1>2, <1>6, <2>3, CalmKeeps DEF BootSaves, AtWorkIsRegistered
<1>7. CASE CloseReads(p)
  <2>1. /\ phase[p] \in Alive /\ Quiet(p) /\ ~LiveTask(reg[p])
        /\ run' = run /\ task' = task /\ term' = term
    BY <1>7 DEF CloseReads, Alive
  <2>2. \A t \in Task : ~AtWork(t)
    BY <2>1, NoneAtWork
  <2>3. \A t \in Task : ~AtWork(t)'
    BY <2>1, <2>2 DEF AtWork
  <2> QED BY <2>1, <2>3, CalmKeeps DEF AtWorkIsRegistered
<1>8. CASE CloseSaves(p)
  <2>1. \A t \in Task : ~AtWork(t)'
    BY <1>3, <1>8 DEF CloseSaves, Alive
  <2> QED BY <1>2, <1>8, <2>1, CalmKeeps DEF CloseSaves, AtWorkIsRegistered
<1>9. CASE Crash(p)
  <2>1. \A t \in Task : ~AtWork(t)'
    BY <1>3, <1>9 DEF Crash
  <2>2. run' = run /\ term' = [term EXCEPT ![p] = NoTerm]
    BY <1>9 DEF Crash
  <2>3. \A q \in Process : term'[q] # NoTerm => term[q] # NoTerm
    BY <2>2 DEF RunInv, LeaseInv, TypeInv
  <2> QED BY <2>1, <2>2, <2>3, CalmKeeps DEF AtWorkIsRegistered
<1> QED BY <1>4, <1>5, <1>6, <1>7, <1>8, <1>9

\* The lease of a task that executes a step does not run out: its heartbeat
\* comes before.
LEMMA WriterTick ==
  ASSUME Server, RunInv, Tick PROVE IInv'
<1>1. /\ run \in RunRec /\ run.lease \in L!LeaseRec
      /\ run' = Aged(run) /\ UNCHANGED <<task, reg, term>> /\ ~DueHeartbeat
  BY DEF RunInv, LeaseInv, TypeInv, LeasedRun, RunRec, Tick, Server
<1>2. /\ run'.cancel = run.cancel /\ run'.status = run.status
      /\ run'.lease = [run.lease EXCEPT !.left = IF @ > 0 THEN @ - 1 ELSE 0]
  BY <1>1 DEF Aged, RunRec
<1>3. Writing' = Writing /\ \A t \in Task : Me(t)' = Me(t) /\ AtWork(t)' = AtWork(t)
  BY <1>1 DEF Writing, Me, AtWork
<1>4. AtWorkIsRegistered'
  BY <1>1, <1>3 DEF RunInv, IInv, AtWorkIsRegistered
<1>5. TermIsMarked'
  BY <1>1, <1>2, <1>3 DEF RunInv, IInv, TermIsMarked
<1>6. ExecutedIsActive'
  BY <1>1, <1>2, <1>3 DEF RunInv, IInv, ExecutedIsActive
<1>7. ASSUME NEW t \in Writing
      PROVE  L!Asserts(run'.lease, Me(t), task[t].token)
  <2>1. /\ L!Asserts(run.lease, Me(t), task[t].token)
        /\ run.status \in HeartbeatStatus /\ t \in Task /\ task[t].pc \in Beating
    BY DEF RunInv, IInv, WritersHoldLease, ExecutedIsActive, Writing, Beating
  <2>2. run.lease.left # 1
    BY <1>1, <2>1 DEF DueHeartbeat
  <2>3. run.lease.left # 0
    BY <2>1 DEF L!Asserts, L!HeldBy, L!Expired
  <2>4. run.lease.left \in Nat /\ run.lease.left > 1
    BY <1>1, <2>2, <2>3 DEF L!LeaseRec, Server, OneAtATime, Assumptions, L!Assumptions
  <2>5. /\ run'.lease.left = run.lease.left - 1 /\ run'.lease.token = run.lease.token
        /\ run'.lease.owner = run.lease.owner
    BY <1>1, <1>2, <2>4 DEF L!LeaseRec
  <2>6. run'.lease # L!NoLease /\ ~L!Expired(run'.lease)
    BY <2>4, <2>5 DEF L!NoLease, L!Expired
  <2> QED BY <2>1, <2>5, <2>6 DEF L!Asserts, L!HeldBy
<1>8. WritersHoldLease'
  BY <1>1, <1>3, <1>7 DEF WritersHoldLease, Writing
<1> QED BY <1>4, <1>5, <1>6, <1>8 DEF IInv

LEMMA WriterStep == ASSUME Server, RunInv, [Next]_vars PROVE IInv'
<1>1. CASE UNCHANGED vars
  BY <1>1, SameKeeps DEF vars
<1>2. CASE Next
  BY <1>2, WriterTaskStep, WriterRequest, WriterRecovery, WriterTick DEF Next, Recovery
<1> QED BY <1>1, <1>2

LEMMA WriterInit == ASSUME Assumptions, Init PROVE IInv
<1>1. \A t \in Task : task[t].proc = Creator /\ (AtWork(t) => t = FirstTask)
  BY DEF Init, AtWork
<1>2. reg[Creator] = FirstTask
  BY DEF Init, Assumptions
<1>3. Writing = {} /\ \A t \in Task : task[t].pc \in {"idle", "created"}
  BY DEF Init, Writing
<1>4. AtWorkIsRegistered
  BY <1>1, <1>2 DEF AtWorkIsRegistered
<1>5. TermIsMarked
  BY DEF Init, TermIsMarked
<1> QED BY <1>3, <1>4, <1>5 DEF IInv, ExecutedIsActive, WritersHoldLease

\* One task, of one controller, which holds the newest lease.
LEMMA OneWriterFromInv == ASSUME RunInv PROVE OneWriter
<1>1. \A t, u \in Writing : t = u
  BY AtWorkAlone DEF Writing, AtWork
<1>2. Cardinality(Writing) <= 1
  <2>1. CASE Writing = {}
    BY <2>1, FS_EmptySet
  <2>2. CASE Writing # {}
    <3>1. PICK t \in Writing : Writing = {t}
      BY <1>1, <2>2
    <3> QED BY <3>1, FS_Singleton
  <2> QED BY <2>1, <2>2
<1>3. \A t \in Writing : L!Asserts(run.lease, Me(t), task[t].token)
  BY DEF RunInv, IInv, WritersHoldLease
<1> QED BY <1>1, <1>2, <1>3 DEF OneWriter

LEMMA RunInvHolds == ASSUME Server PROVE Spec => []RunInv
<1>1. Init => IInv
  BY WriterInit DEF Server, OneAtATime
<1>2. LeaseInv /\ IInv /\ [Next]_vars => IInv'
  BY WriterStep DEF RunInv
<1>3. Spec => []LeaseInv
  BY LeaseInvHolds DEF Server
<1> QED BY <1>1, <1>2, <1>3, PTL DEF Spec, RunInv

\* A run is executed by one task at a time, which holds the newest lease, for
\* any number of restarts, crashes, stops, retries and resumes of the server.
THEOREM ServerHasOneWriter == ASSUME Server PROVE Spec => []OneWriter
<1>1. RunInv => OneWriter
  BY OneWriterFromInv
<1> QED BY <1>1, RunInvHolds, PTL

=============================================================================
